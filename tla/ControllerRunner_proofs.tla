---------------------- MODULE ControllerRunner_proofs ----------------------
(***************************************************************************)
(* Safety of the controller runner of ControllerRunner, for every number   *)
(* of cores and of frames and every capacity: no thread calls a core that  *)
(* was closed, no MPC solves before it was seeded, every frame is in one   *)
(* place until it is answered, and none is left when Hold is.              *)
(***************************************************************************)
EXTENDS ControllerRunnerProperties, Selection_proofs

-----------------------------------------------------------------------------
(* Where the threads may be and what the variables hold; of the queues and *)
(* of what Hold waits for nothing is said.                                 *)

Before == {"tick", "retire", "bind", "update", "updated", "seed", "await", "awaitCold"}
Teardown == {"join", "rotate", "fit", "finish", "close", "closing", "done"}
Last3 == {"close", "closing", "done"}

Places4 ==
  [control : Before \union Teardown,
   worker : {"take", "seed", "serve", "learn", "install", "release", "solve", "leave"}
              \union Last3,
   learner : {"look", "schedule", "poll", "done"},
   fit : {"none", "next", "schedule", "poll", "ending", "close", "closing", "closed"}]

PcOK == pc \in Places4
CoresOK == cores \in [kind : Seq(Kinds), seeded : SUBSET Nat, closed : SUBSET Nat]
ConfOK == conf \in [core : Nat, pending : Nat, revision : Nat]
SeedingOK == seeding \in [request : 0..2, held : BOOLEAN, token : 0..2,
                          answer : {"none", "ok", "failed"}]
TempOK == temp \in BOOLEAN
HandOK == hand \in [stopping : BOOLEAN, work : {hand.work}, seed : 0..2,
                    batch : {hand.batch}, handoff : BOOLEAN, update : BOOLEAN,
                    retired : Nat]
PollOK == poll \in [learner : [core : Nat, plan : {poll.learner.plan}],
                    fit : [core : Nat, plan : {poll.fit.plan}]]
LifeOK == life \in [stop : BOOLEAN, retain : BOOLEAN, whenIdle : BOOLEAN,
                    finished : BOOLEAN, fit : BOOLEAN,
                    close : {"no", "closing", "yes"}, finalizer : {"none", "set", "ran"}]
HoldOK == hold \in [adopted : Nat, installing : Nat, kind : {hold.kind}, seeded : BOOLEAN,
                    then : {"update", "seed"}, waiting : {hold.waiting},
                    stopped : BOOLEAN, unanswered : {hold.unanswered}]
Shapes == /\ PcOK /\ CoresOK /\ ConfOK /\ SeedingOK /\ TempOK /\ HandOK /\ PollOK
          /\ LifeOK /\ HoldOK

\* The order in which the threads stop, and who may close the last core.
Stopping ==
  /\ life.stop <=> pc.control \in Teardown
  /\ life.stop => life.retain \/ life.whenIdle
  /\ life.whenIdle => pc.control \in Last3
  /\ hand.stopping \/ pc.worker = "leave" => life.stop
  /\ life.finished <=> pc.worker \in Last3
  /\ life.finished => pc.learner = "done"
  /\ hold.stopped => life.finished
  /\ life.fit <=> pc.fit # "none"
  /\ pc.fit # "none" => life.finished /\ pc.control \in {"finish"} \union Last3
  /\ (\/ life.close # "no"
      \/ pc.control \in {"close", "closing"}
      \/ pc.worker \in {"close", "closing"}
      \/ pc.fit \in {"close", "closing", "closed"})
     => /\ life.whenIdle /\ life.finished
        /\ pc.fit \in {"none", "close", "closing", "closed"}

\* Which cores are closed, and which ones the threads hold.
Open ==
  /\ conf.core \in Built
  /\ conf.pending # 0 => conf.pending \in Built /\ conf.pending > conf.core
  /\ cores.closed \subseteq Built
  /\ conf.core \in cores.closed => life.close = "yes"
  /\ conf.pending \notin cores.closed
  /\ pc.worker = "release" => 1 <= hand.retired /\ hand.retired < conf.core
  /\ pc.learner \in {"schedule", "poll"}
        => poll.learner.core \notin cores.closed /\ poll.learner.core <= conf.core
  /\ poll.fit.core # 0
        => /\ poll.fit.core = conf.core
           /\ pc.fit \in {"next", "schedule", "poll", "ending"}
  /\ pc.fit \in {"schedule", "poll"} => poll.fit.core # 0

\* Whether the core in charge would solve with an estimator nobody seeded: then
\* its solves are put off, or it is the first core and has no temperature yet.
Unseeded == Mpc(conf.core) /\ conf.core \notin cores.seeded
Seeds ==
  /\ conf.revision = 0 => conf.core = 1 /\ hold.kind = "mpc"
  /\ cores.kind[1] = "mpc"
  /\ Unseeded =>
       \/ conf.revision > 0 /\ seeding.held
       \/ conf.revision = 0 /\ ~temp /\ ~hold.seeded /\ seeding.answer # "ok"
  /\ hand.update /\ pc.worker \in {"install", "solve"} => ~Unseeded
  /\ pc.worker = "learn" => ~hand.update

ServedInv == Shapes /\ Stopping /\ Open

LEMMA RunnerInit == Init => Shapes /\ Stopping /\ Open /\ Seeds
<1> SUFFICES ASSUME Init PROVE Shapes /\ Stopping /\ Open /\ Seeds
  OBVIOUS
<1>1. PcOK /\ CoresOK /\ ConfOK
  BY RunnerAssumption DEF Init, PcOK, Places4, Before, CoresOK, ConfOK
<1>2. SeedingOK /\ TempOK
  <2>1. seeding \in [request : 0..2, held : BOOLEAN, token : 0..2,
                     answer : {"none", "ok", "failed"}]
    BY DEF Init
  <2> QED BY <2>1 DEF Init, SeedingOK, TempOK, NoTemp
<1>3. Shapes
  <2>1. HandOK
    BY DEF Init, HandOK, EmptyHand, NoTemp
  <2>2. PollOK
    BY DEF Init, PollOK, NoPoll
  <2>3. LifeOK
    BY DEF Init, LifeOK
  <2>4. HoldOK
    BY RunnerAssumption DEF Init, HoldOK
  <2> QED BY <1>1, <1>2, <2>1, <2>2, <2>3, <2>4 DEF Shapes
<1>4. Stopping
  BY SMT DEF Init, Stopping, EmptyHand, Before, Teardown, Last3
<1>5. Built = 1..1 /\ cores.kind[1] = "mpc"
  BY SMT DEF Init, Built
<1>6. Open
  BY <1>5, SMT DEF Init, Open, NoPoll
<1>7. Seeds
  BY <1>5, SMT DEF Init, Seeds, Unseeded, NoTemp, EmptyHand
<1> QED BY <1>3, <1>4, <1>6, <1>7

LEMMA WorkerShapes ==
  ASSUME Shapes, Worker PROVE Shapes'
<1>0. PcOK /\ CoresOK /\ ConfOK /\ SeedingOK /\ TempOK /\ HandOK /\ PollOK
        /\ LifeOK /\ HoldOK
  BY DEF Shapes
<1>1. CASE ApplySeed
  <2>0. PICK ok \in BOOLEAN :
          /\ cores' = [cores EXCEPT !.seeded = IF ok THEN @ \union {conf.core} ELSE @]
          /\ seeding' = [seeding EXCEPT
                !.held = @ /\ ~(ok /\ seeding.request = 0),
                !.answer = IF hand.seed # seeding.token THEN @
                           ELSE IF ok THEN "ok" ELSE "failed"]
    BY <1>1 DEF ApplySeed
  <2>1. CoresOK'
    BY <1>0, <2>0 DEF CoresOK, ConfOK
  <2>2. SeedingOK'
    <3>1. (seeding.held /\ ~(ok /\ seeding.request = 0)) \in BOOLEAN
      OBVIOUS
    <3>2. (IF hand.seed # seeding.token THEN seeding.answer
           ELSE IF ok THEN "ok" ELSE "failed") \in {"none", "ok", "failed"}
      BY <1>0, SMT DEF SeedingOK
    <3> QED BY <1>0, <2>0, <3>1, <3>2, Zenon DEF SeedingOK
  <2>3. PcOK'
    BY <1>0, <1>1 DEF PcOK, Places4, ApplySeed, At, Goto
  <2>4. HandOK'
    BY <1>0, <1>1 DEF HandOK, ApplySeed
  <2>5. ConfOK' /\ TempOK' /\ PollOK' /\ LifeOK' /\ HoldOK'
    BY <1>0, <1>1 DEF ConfOK, TempOK, PollOK, LifeOK, HoldOK, fitVars, ApplySeed
  <2> QED BY <2>1, <2>2, <2>3, <2>4, <2>5 DEF Shapes
<1>2. CASE Serve \/ Gather \/ Learn
  <2>1. PcOK'
    BY <1>0, <1>2 DEF PcOK, Places4, Serve, Gather, Learn, At, Goto
  <2>2. HandOK'
    BY <1>0, <1>2 DEF HandOK, SeedingOK, TempOK, Serve, Gather, Learn
  <2>3. CoresOK' /\ ConfOK' /\ SeedingOK' /\ TempOK' /\ PollOK' /\ LifeOK' /\ HoldOK'
    BY <1>0, <1>2 DEF CoresOK, ConfOK, SeedingOK, TempOK, PollOK, LifeOK, HoldOK, fitVars,
       Serve, Gather, Learn
  <2> QED BY <2>1, <2>2, <2>3 DEF Shapes
<1>3. CASE Take \/ Install \/ Release \/ Advance \/ PutOff \/ Solve \/ Leave
  <2>1. PcOK'
    BY <1>0, <1>3 DEF PcOK, Places4, Last3, At, Goto, Take, Install, Release, Advance,
       PutOff, Solve, Leave
  <2>2. CoresOK' /\ ConfOK'
    BY <1>0, <1>3 DEF CoresOK, ConfOK, HandOK, Take, Install, Release, Advance,
       PutOff, Solve, Leave
  <2>3. SeedingOK' /\ TempOK'
    <3>1. CASE Install
      <4>1. (seeding.held \/ Mpc(conf.pending)) \in BOOLEAN
        OBVIOUS
      <4> QED BY <1>0, <3>1, <4>1, Zenon DEF SeedingOK, TempOK, Install
    <3>2. CASE ~ Install
      BY <1>0, <1>3, <3>2 DEF SeedingOK, TempOK, Take, Release, Advance, PutOff, Solve, Leave
    <3> QED BY <3>1, <3>2
  <2>4. HandOK'
    <3>0. EmptyHand \in [stopping : BOOLEAN, work : {EmptyHand.work}, seed : 0..2,
                         batch : {EmptyHand.batch}, handoff : BOOLEAN, update : BOOLEAN,
                         retired : Nat]
      BY DEF EmptyHand, NoTemp
    <3>1. CASE Install
      BY <1>0, <3>1 DEF HandOK, ConfOK, Install
    <3>2. CASE Take
      BY <1>0, <3>2 DEF HandOK, SeedingOK, LifeOK, EmptyHand, NoTemp, Take
    <3>3. CASE Release \/ PutOff \/ Solve
      BY <3>0, <3>3 DEF HandOK, Release, PutOff, Solve
    <3>4. CASE Advance \/ Leave
      BY <1>0, <3>4 DEF HandOK, Advance, Leave
    <3> QED BY <1>3, <3>1, <3>2, <3>3, <3>4
  <2>5. PollOK' /\ LifeOK' /\ HoldOK'
    BY <1>0, <1>3 DEF PollOK, LifeOK, HoldOK, fitVars, Take, Install, Release, Advance,
       PutOff, Solve, Leave
  <2> QED BY <2>1, <2>2, <2>3, <2>4, <2>5 DEF Shapes
<1> QED BY <1>1, <1>2, <1>3 DEF Worker

Closing == \/ CloseBegin("worker", "done") \/ CloseEnd("worker", "done")
           \/ CloseBegin("fit", "closed") \/ CloseEnd("fit", "closed")
           \/ CloseBegin("control", "done") \/ CloseEnd("control", "done")
Fitting == FitNext \/ FitSchedule \/ FitEnds \/ FitEnding \/ FitLeaves \/ FitFails

LEMMA OtherShapes ==
  ASSUME Shapes, Closing \/ Learner \/ Fitting
  PROVE  Shapes'
<1>0. PcOK /\ CoresOK /\ ConfOK /\ SeedingOK /\ TempOK /\ HandOK /\ PollOK
        /\ LifeOK /\ HoldOK
  BY DEF Shapes
<1>1. CASE Closing
  <2>1. PcOK'
    <3>1. CASE CloseBegin("worker", "done") \/ CloseEnd("worker", "done")
      BY <1>0, <3>1 DEF PcOK, Places4, Last3, CloseBegin, CloseEnd, Goto
    <3>2. CASE CloseBegin("fit", "closed") \/ CloseEnd("fit", "closed")
      BY <1>0, <3>2 DEF PcOK, Places4, CloseBegin, CloseEnd, Goto
    <3>3. CASE CloseBegin("control", "done") \/ CloseEnd("control", "done")
      BY <1>0, <3>3 DEF PcOK, Places4, Teardown, Last3, CloseBegin, CloseEnd, Goto
    <3> QED BY <1>1, <3>1, <3>2, <3>3 DEF Closing
  <2>2. CoresOK' /\ ConfOK' /\ SeedingOK' /\ TempOK' /\ HandOK' /\ PollOK' /\ HoldOK'
    BY <1>0, <1>1 DEF CoresOK, ConfOK, SeedingOK, TempOK, HandOK, PollOK, HoldOK,
       fitVars, Closing, CloseBegin, CloseEnd
  <2>3. LifeOK'
    BY <1>0, <1>1 DEF LifeOK, Closing, CloseBegin, CloseEnd
  <2> QED BY <2>1, <2>2, <2>3 DEF Shapes
<1>2. CASE Learner
  <2>1. PcOK'
    BY <1>0, <1>2 DEF PcOK, Places4, Learner, Look, Schedule, Poll, LearnerExit, At, Goto
  <2>2. PollOK'
    BY <1>0, <1>2 DEF PollOK, ConfOK, Learner, Look, Schedule, Poll, LearnerExit, NoPoll,
       fitVars
  <2>3. CoresOK' /\ ConfOK' /\ SeedingOK' /\ TempOK' /\ HandOK' /\ LifeOK' /\ HoldOK'
    BY <1>0, <1>2 DEF CoresOK, ConfOK, SeedingOK, TempOK, HandOK, LifeOK, HoldOK,
       Learner, Look, Schedule, Poll, LearnerExit
  <2> QED BY <2>1, <2>2, <2>3 DEF Shapes
<1>3. CASE Fitting
  <2>1. PcOK'
    BY <1>0, <1>3 DEF PcOK, Places4, Fitting, FitNext, FitSchedule, FitEnds, FitEnding,
       FitLeaves, FitFails, At, Goto
  <2>2. PollOK'
    BY <1>0, <1>3 DEF PollOK, ConfOK, Fitting, FitNext, FitSchedule, FitEnds, FitEnding,
       FitLeaves, FitFails, NoPoll, fitVars
  <2>3. LifeOK'
    BY <1>0, <1>3 DEF LifeOK, Fitting, FitNext, FitSchedule, FitEnds, FitEnding,
       FitLeaves, FitFails
  <2>4. CoresOK' /\ ConfOK' /\ SeedingOK' /\ TempOK' /\ HandOK' /\ HoldOK'
    BY <1>0, <1>3 DEF CoresOK, ConfOK, SeedingOK, TempOK, HandOK, HoldOK,
       Fitting, FitNext, FitSchedule, FitEnds, FitEnding, FitLeaves, FitFails
  <2> QED BY <2>1, <2>2, <2>3, <2>4 DEF Shapes
<1> QED BY <1>1, <1>2, <1>3

\* What a tick of Hold, or one of its steps, does.
Ticking == Tick \/ Updated
Adoption == Retire \/ Bind
Seeding == Seed \/ SeedFailed \/ Run
Building == \E kind \in Kinds : Reconfigure(kind)
Handing == CompleteFrame \/ ObserveFrame \/ SetOutput \/ AskFit
Tearing == Stop \/ Joined \/ JoinTimesOut \/ Rotate \/ StopFit \/ NoStopFit \/ Finish

LEMMA ControlShapes ==
  ASSUME Shapes, Ticking \/ Adoption \/ Seeding \/ Building \/ Handing \/ Tearing
  PROVE  Shapes'
<1>0. PcOK /\ CoresOK /\ ConfOK /\ SeedingOK /\ TempOK /\ HandOK /\ PollOK
        /\ LifeOK /\ HoldOK
  BY DEF Shapes
<1>1. CASE Ticking
  <2>1. PcOK'
    BY <1>0, <1>1 DEF PcOK, Places4, Before, Ticking, Tick, Updated, Adopting,
       NothingToAdopt, At, Goto
  <2>2. HoldOK'
    BY <1>0, <1>1 DEF HoldOK, Ticking, Tick, Updated, Adopting, NothingToAdopt
  <2>3. CoresOK' /\ ConfOK' /\ SeedingOK' /\ TempOK' /\ HandOK' /\ PollOK' /\ LifeOK'
    BY <1>0, <1>1 DEF CoresOK, ConfOK, SeedingOK, TempOK, HandOK, PollOK, LifeOK,
       fitVars, Ticking, Tick, Updated, Adopting, NothingToAdopt
  <2> QED BY <2>1, <2>2, <2>3 DEF Shapes
<1>2. CASE Adoption
  <2>1. PcOK'
    BY <1>0, <1>2 DEF PcOK, Places4, Before, HoldOK, Adoption, Retire, Bind, At, Goto
  <2>2. HoldOK'
    <3>1. CASE Retire
      BY <1>0, <3>1 DEF HoldOK, ConfOK, Retire
    <3>2. CASE Bind
      <4>1. PICK w, k : hold' = [hold EXCEPT !.adopted = hold.installing, !.kind = k,
                              !.seeded = FALSE, !.waiting = w, !.installing = 0,
                              !.then = "update"]
        BY <3>2, Zenon DEF Bind
      <4>2. hold' = [adopted |-> hold.installing, installing |-> 0, kind |-> k,
                     seeded |-> FALSE, then |-> "update", waiting |-> w,
                     stopped |-> hold.stopped, unanswered |-> hold.unanswered]
        BY <1>0, <4>1 DEF HoldOK
      <4>3. hold.installing \in Nat /\ hold.stopped \in BOOLEAN
        BY <1>0 DEF HoldOK
      <4> QED BY <4>2, <4>3 DEF HoldOK
    <3> QED BY <1>2, <3>1, <3>2 DEF Adoption
  <2>3. CoresOK' /\ ConfOK' /\ SeedingOK' /\ TempOK' /\ HandOK' /\ PollOK' /\ LifeOK'
    BY <1>0, <1>2 DEF CoresOK, ConfOK, SeedingOK, TempOK, HandOK, PollOK, LifeOK,
       fitVars, Adoption, Retire, Bind
  <2> QED BY <2>1, <2>2, <2>3 DEF Shapes
<1>3. CASE Seeding
  <2>1. PcOK'
    BY <1>0, <1>3 DEF PcOK, Places4, Before, Seeding, Seed, SeedFailed, Run, At, Goto
  <2>2. SeedingOK' /\ TempOK'
    <3>1. TempOK' /\ ((\E token \in {1, 2} : seeding' =
             [request |-> token, held |-> TRUE, token |-> token, answer |-> "none"])
            \/ seeding' = [seeding EXCEPT !.token = 0, !.answer = "none"]
            \/ UNCHANGED seeding)
      BY <1>0, <1>3, Zenon DEF TempOK, Seeding, Seed, SeedFailed, Run, Request, NoAnswer
    <3>2. ASSUME seeding' = [seeding EXCEPT !.token = 0, !.answer = "none"]
          PROVE  SeedingOK'
      <4>1. 0 \in 0..2
        OBVIOUS
      <4> QED BY <1>0, <3>2, <4>1, Zenon DEF SeedingOK
    <3>3. ASSUME NEW token \in {1, 2}, seeding' =
             [request |-> token, held |-> TRUE, token |-> token, answer |-> "none"]
          PROVE  SeedingOK'
      BY <3>3 DEF SeedingOK
    <3>4. ASSUME UNCHANGED seeding PROVE SeedingOK'
      BY <1>0, <3>4 DEF SeedingOK
    <3> QED BY <3>1, <3>2, <3>3, <3>4
  <2>3. HoldOK'
    BY <1>0, <1>3 DEF HoldOK, Seeding, Seed, SeedFailed, Run
  <2>4. CoresOK' /\ ConfOK' /\ HandOK' /\ PollOK' /\ LifeOK'
    BY <1>0, <1>3 DEF CoresOK, ConfOK, HandOK, PollOK, LifeOK, fitVars,
       Seeding, Seed, SeedFailed, Run
  <2> QED BY <2>1, <2>2, <2>3, <2>4 DEF Shapes
<1>4. CASE Building
  <2>1. PcOK'
    BY <1>0, <1>4 DEF PcOK, Places4, Before, Building, Reconfigure, At, Goto
  <2>2. CoresOK' /\ ConfOK'
    <3>1. PICK kind \in Kinds : Reconfigure(kind)
      BY <1>4 DEF Building
    <3>2. (IF conf.pending = 0 THEN cores.closed ELSE cores.closed \union {conf.pending})
            \in SUBSET Nat
      BY <1>0 DEF CoresOK, ConfOK
    <3>3. Append(cores.kind, kind) \in Seq(Kinds) /\ Len(cores.kind) + 1 \in Nat
      BY <1>0 DEF CoresOK
    <3> QED BY <1>0, <3>1, <3>2, <3>3, Zenon DEF CoresOK, ConfOK, Reconfigure
  <2>3. SeedingOK' /\ TempOK' /\ HandOK' /\ PollOK' /\ LifeOK' /\ HoldOK'
    <3>1. UNCHANGED <<seeding, temp, hand, poll, life, hold>>
      BY <1>4, Zenon DEF fitVars, Building, Reconfigure
    <3> QED BY <1>0, <3>1 DEF SeedingOK, TempOK, HandOK, PollOK, LifeOK, HoldOK
  <2> QED BY <2>1, <2>2, <2>3 DEF Shapes
<1>5. CASE Handing
  <2>1. PcOK' /\ CoresOK' /\ ConfOK' /\ SeedingOK' /\ TempOK' /\ HandOK' /\ PollOK'
          /\ LifeOK'
    <3>1. UNCHANGED <<pc, cores, conf, seeding, temp, hand, poll, life>>
      BY <1>5, Zenon DEF Handing, CompleteFrame, ObserveFrame, SetOutput, AskFit, fitVars
    <3> QED BY <1>0, <3>1 DEF PcOK, CoresOK, ConfOK, SeedingOK, TempOK, HandOK, PollOK,
               LifeOK
  <2>2. HoldOK'
    <3>1. hold' = hold \/ \E w : hold' = [hold EXCEPT !.waiting = w]
      BY <1>5, Zenon DEF Handing, CompleteFrame, ObserveFrame, SetOutput, AskFit, Submitted
    <3> QED BY <1>0, <3>1 DEF HoldOK
  <2> QED BY <2>1, <2>2 DEF Shapes
<1>6. CASE Tearing
  <2>1. PcOK'
    BY <1>0, <1>6 DEF PcOK, Places4, Teardown, Last3, Tearing, Stop, Joined, JoinTimesOut,
       Rotate, StopFit, NoStopFit, Finish, At, Goto
  <2>2. LifeOK'
    BY <1>0, <1>6 DEF LifeOK, Tearing, Stop, Joined, JoinTimesOut, Rotate, StopFit,
       NoStopFit, Finish
  <2>3. HoldOK'
    <3>1. hold' = hold \/ \E u : hold' = [hold EXCEPT !.waiting = {},
                                        !.stopped = life.finished, !.unanswered = u]
      BY <1>6, Zenon DEF Tearing, Stop, Joined, JoinTimesOut, Rotate, StopFit, NoStopFit,
         Finish
    <3> QED BY <1>0, <3>1 DEF HoldOK, LifeOK
  <2>4. CoresOK' /\ ConfOK' /\ SeedingOK' /\ TempOK' /\ HandOK' /\ PollOK'
    BY <1>0, <1>6 DEF CoresOK, ConfOK, SeedingOK, TempOK, HandOK, PollOK, fitVars,
       Tearing, Stop, Joined, JoinTimesOut, Rotate, StopFit, NoStopFit, Finish
  <2> QED BY <2>1, <2>2, <2>3, <2>4 DEF Shapes
<1> QED BY <1>1, <1>2, <1>3, <1>4, <1>5, <1>6

\* The steps, one group for each.
LEMMA RunnerSteps ==
  ASSUME Next
  PROVE  \/ Worker \/ Closing \/ Learner \/ Fitting
         \/ Ticking \/ Adoption \/ Seeding \/ Building \/ Handing \/ Tearing
BY Zenon DEF Next, Control, Fit, Closing, Fitting, Ticking, Adoption, Seeding, Building,
   Handing, Tearing

-----------------------------------------------------------------------------
LEMMA StoppingStep ==
  ASSUME Shapes, Stopping, Next PROVE Stopping'
<1>0. PcOK /\ HandOK /\ LifeOK /\ HoldOK
  BY DEF Shapes
<1>1. CASE Worker
  <2>1. CASE Leave
    BY <1>0, <2>1, SMT DEF PcOK, Places4, LifeOK, Stopping, Leave, At, Goto, Before,
       Teardown, Last3
  <2>2. CASE Solve \/ PutOff
    BY <1>0, <2>2, SMT DEF PcOK, Places4, HandOK, Stopping, Solve, PutOff, At, Goto, EmptyHand,
       Before, Teardown, Last3
  <2>3. CASE Take
    BY <1>0, <2>3, SMT DEF PcOK, Places4, Stopping, Take, At, Goto, EmptyHand, Last3
  <2>5. CASE ApplySeed \/ Serve \/ Gather \/ Learn
    <3>1. UNCHANGED <<life, hold>> /\ pc.worker \in {"seed", "serve", "learn"}
            /\ (pc' = pc \/ \E p \in {"serve", "learn", "install"} : Goto("worker", p))
      BY <2>5, Zenon DEF ApplySeed, Serve, Gather, Learn, At
    <3>2. hand'.stopping = hand.stopping
      BY <1>0, <2>5 DEF HandOK, ApplySeed, Serve, Gather, Learn
    <3> QED BY <1>0, <3>1, <3>2, SMT DEF PcOK, Places4, Stopping, Goto, Last3
  <2>4. CASE Install \/ Release \/ Advance
    BY <1>0, <2>4, SMT DEF PcOK, Places4, HandOK, Stopping, Install, Release, Advance,
       At, Goto, EmptyHand, Before, Teardown, Last3
  <2> QED BY <1>1, <2>1, <2>2, <2>3, <2>4, <2>5 DEF Worker
<1>2. CASE Closing
  <2>c. \E c, f : life' = [life EXCEPT !.close = c, !.finalizer = f]
    <3>1. life = [life EXCEPT !.close = life.close, !.finalizer = life.finalizer]
      BY <1>0 DEF LifeOK
    <3> QED BY <1>2, <3>1, Zenon DEF Closing, CloseBegin, CloseEnd
  <2>d. UNCHANGED <<life.stop, life.retain, life.whenIdle, life.finished, life.fit>>
    BY <1>0, <2>c DEF LifeOK
  <2>1. CASE CloseBegin("worker", "done") \/ CloseEnd("worker", "done")
    <3>1. Goto("worker", "closing") \/ Goto("worker", "done")
      BY <2>1, Zenon DEF CloseBegin, CloseEnd
    <3>2. pc.worker \in {"close", "closing"} /\ UNCHANGED <<hand, hold>>
      BY <2>1, Zenon DEF CloseBegin, CloseEnd, At
    <3> QED BY <1>0, <2>d, <3>1, <3>2, SMT DEF PcOK, Places4, Stopping, Goto, Teardown, Last3
  <2>2. CASE CloseBegin("fit", "closed") \/ CloseEnd("fit", "closed")
    <3>1. Goto("fit", "closing") \/ Goto("fit", "closed")
      BY <2>2, Zenon DEF CloseBegin, CloseEnd
    <3>2. pc.fit \in {"close", "closing"} /\ UNCHANGED <<hand, hold>>
      BY <2>2, Zenon DEF CloseBegin, CloseEnd, At
    <3> QED BY <1>0, <2>d, <3>1, <3>2, SMT DEF PcOK, Places4, Stopping, Goto, Teardown, Last3
  <2>3. CASE CloseBegin("control", "done") \/ CloseEnd("control", "done")
    <3>1. Goto("control", "closing") \/ Goto("control", "done")
      BY <2>3, Zenon DEF CloseBegin, CloseEnd
    <3>2. pc.control \in {"close", "closing"} /\ UNCHANGED <<hand, hold>>
      BY <2>3, Zenon DEF CloseBegin, CloseEnd, At
    <3> QED BY <1>0, <2>d, <3>1, <3>2, SMT DEF PcOK, Places4, Stopping, Goto, Teardown, Last3
  <2> QED BY <1>2, <2>1, <2>2, <2>3 DEF Closing
<1>3. CASE Learner
  BY <1>0, <1>3, SMT DEF PcOK, Places4, Stopping, Learner, Look, Schedule, Poll, LearnerExit,
     At, Goto, Before, Teardown, Last3
<1>4. CASE Fitting
  BY <1>0, <1>4, SMT DEF PcOK, Places4, LifeOK, Stopping, Fitting, FitNext, FitSchedule,
     FitEnds, FitEnding, FitLeaves, FitFails, At, Goto, Before, Teardown, Last3
<1>5. CASE Ticking \/ Adoption \/ Seeding \/ Building
  <2>1. UNCHANGED <<life, hand>> /\ pc.control \in Before
          /\ \E p \in Before : Goto("control", p)
    <3>1. UNCHANGED <<life, hand>>
      BY <1>5, Zenon DEF Ticking, Tick, Updated, Adopting, NothingToAdopt, Adoption, Retire,
         Bind, Seeding, Seed, SeedFailed, Run, Building, Reconfigure
    <3>2. pc.control \in Before
      <4>1. CASE Ticking \/ Adoption \/ Building
        BY <4>1 DEF Ticking, Tick, Updated, Adoption, Retire, Bind, Building, Reconfigure, At,
           Before
      <4>2. CASE Seeding
        BY <4>2 DEF Seeding, Seed, SeedFailed, Run, Ready, At, Before
      <4> QED BY <1>5, <4>1, <4>2
    <3>3. CASE Ticking
      BY <3>1, <3>2, <3>3 DEF Ticking, Tick, Updated, Adopting, NothingToAdopt, Before
    <3>4. CASE Seeding \/ Building
      BY <3>1, <3>2, <3>4 DEF Seeding, Seed, SeedFailed, Run, Building, Reconfigure, Before
    <3>5. CASE Retire
      BY <3>1, <3>2, <3>5 DEF Retire, Before
    <3>6. CASE Bind
      <4>1. Goto("control", hold.then)
        BY <3>6, Zenon DEF Bind
      <4>2. hold.then \in Before
        BY <1>0 DEF HoldOK, Before
      <4> QED BY <3>1, <3>2, <4>1, <4>2
    <3> QED BY <1>5, <3>1, <3>2, <3>3, <3>4, <3>5, <3>6 DEF Adoption
  <2>2. hold'.stopped = hold.stopped
    BY <1>0, <1>5 DEF HoldOK, Ticking, Tick, Updated, Adopting, NothingToAdopt, Adoption,
       Retire, Bind, Seeding, Seed, SeedFailed, Run, Building, Reconfigure
  <2> QED BY <1>0, <2>1, <2>2, SMT DEF PcOK, Places4, Stopping, Goto, Before, Teardown, Last3
<1>7. CASE Handing
  <2>1. UNCHANGED <<pc, life, hand>> /\ hold'.stopped = hold.stopped
    <3>1. UNCHANGED <<pc, life, hand>> /\ (hold' = hold \/ \E w : hold' = [hold EXCEPT !.waiting = w])
      BY <1>7, Zenon DEF Handing, CompleteFrame, ObserveFrame, SetOutput, AskFit, Submitted
    <3> QED BY <1>0, <3>1 DEF HoldOK
  <2> QED BY <2>1 DEF Stopping
<1>8. CASE Tearing
  <2>1. CASE Stop
    BY <1>0, <2>1, SMT DEF PcOK, Places4, LifeOK, Stopping, Stop, At, Goto, Before, Teardown,
       Last3
  <2>5. CASE Joined \/ JoinTimesOut \/ NoStopFit
    BY <1>0, <2>5, SMT DEF PcOK, Places4, LifeOK, Stopping, Joined, JoinTimesOut,
       NoStopFit, At, Goto, Before, Teardown, Last3
  <2>2. CASE Rotate
    <3>1. UNCHANGED <<life, hand>> /\ At("control", "rotate") /\ Goto("control", "fit")
            /\ hold'.stopped = life.finished
      <4>1. \E u : hold' = [hold EXCEPT !.waiting = {}, !.stopped = life.finished,
                                       !.unanswered = u]
        BY <2>2, Zenon DEF Rotate
      <4>2. hold'.stopped = life.finished
        BY <1>0, <4>1 DEF HoldOK
      <4> QED BY <2>2, <4>2, Zenon DEF Rotate
    <3> QED BY <1>0, <3>1, SMT DEF PcOK, Places4, LifeOK, Stopping, At, Goto, Before, Teardown,
               Last3
  <2>3. CASE StopFit
    BY <1>0, <2>3, SMT DEF PcOK, Places4, LifeOK, Stopping, StopFit, At, Before, Teardown,
       Last3
  <2>4. CASE Finish
    BY <1>0, <2>4, SMT DEF PcOK, Places4, LifeOK, Stopping, Finish, At, Goto, Before,
       Teardown, Last3
  <2> QED BY <1>8, <2>1, <2>2, <2>3, <2>4, <2>5 DEF Tearing
<1> QED BY <1>1, <1>2, <1>3, <1>4, <1>5, <1>7, <1>8, RunnerSteps

-----------------------------------------------------------------------------
\* Steps that close no core and give none to a thread.
LEMMA OpenKept ==
  ASSUME Open, UNCHANGED <<conf, cores.kind, cores.closed, pc.learner, pc.fit,
                           poll.learner.core, poll.fit.core, life.close>>,
         pc'.worker = "release" => pc.worker = "release" /\ UNCHANGED hand.retired
  PROVE  Open'
BY SMT DEF Open, Built

LEMMA OpenStep ==
  ASSUME Shapes, Stopping, Open, Next PROVE Open'
<1>0. PcOK /\ CoresOK /\ ConfOK /\ HandOK /\ PollOK /\ LifeOK
  BY DEF Shapes
<1>l. Len(cores.kind) \in Nat
  BY <1>0 DEF CoresOK
<1>1. CASE Worker
  <2>1. CASE Install
    <3>1. /\ conf'.core = conf.pending /\ conf'.pending = 0 /\ hand'.retired = conf.core
          /\ UNCHANGED <<cores, poll, life, pc.learner, pc.fit>> /\ conf.pending # 0
          /\ pc.worker = "install"
      BY <1>0, <2>1 DEF Install, Goto, At, fitVars, PcOK, Places4, HandOK
    <3>2. pc.fit = "none" /\ life.close = "no"
      BY <1>0, <3>1, SMT DEF Stopping, Last3, LifeOK
    <3> QED BY <1>0, <1>l, <3>1, <3>2, SMT DEF Open, Built, ConfOK, PollOK, CoresOK
  <2>2. CASE Release
    <3>1. /\ cores'.closed = cores.closed \union {hand.retired}
          /\ cores'.kind = cores.kind
          /\ UNCHANGED <<conf, poll, life, pc.learner, pc.fit>>
          /\ pc.worker = "release" /\ pc'.worker = "take"
          /\ poll.learner.core # hand.retired
      BY <1>0, <2>2 DEF Release, Goto, At, fitVars, PcOK, Places4, CoresOK
    <3>2. pc.fit = "none" /\ life.close = "no"
      BY <1>0, <3>1, SMT DEF Stopping, Last3, LifeOK
    <3>3. hand.retired \in Built
      BY <1>0, <1>l, <3>1, SMT DEF Open, Built, ConfOK, HandOK
    <3> QED BY <1>0, <1>l, <3>1, <3>2, <3>3, SMT DEF Open, Built, ConfOK, PollOK, HandOK
  <2>3. CASE ~ Install /\ ~ Release
    <3>1. UNCHANGED <<conf, poll>>
      BY <1>1, <2>3, Zenon DEF Worker, Take, ApplySeed, Serve, Gather, Learn, Advance, PutOff,
         Solve, Leave, fitVars
    <3>2. UNCHANGED <<cores.kind, cores.closed>>
      <4>1. UNCHANGED cores \/ \E v : cores' = [cores EXCEPT !.seeded = v]
        BY <1>1, <2>3, Zenon DEF Worker, Take, ApplySeed, Serve, Gather, Learn, Advance,
           PutOff, Solve, Leave
      <4> QED BY <1>0, <4>1 DEF CoresOK
    <3>3. UNCHANGED life.close
      BY <1>0, <1>1, <2>3 DEF Worker, Take, ApplySeed, Serve, Gather, Learn, Advance, PutOff,
         Solve, Leave, LifeOK
    <3>4. UNCHANGED <<pc.learner, pc.fit>> /\ pc'.worker # "release"
      <4>1. (pc' = pc /\ pc.worker = "serve") \/ (pc' = pc /\ pc.worker = "learn")
              \/ \E p \in {"seed", "serve", "learn", "install", "take", "leave", "solve",
                           "close", "done"} : Goto("worker", p)
        BY <1>1, <2>3, Zenon DEF Worker, Take, ApplySeed, Serve, Gather, Learn, Advance,
           PutOff, Solve, Leave, At
      <4> QED BY <1>0, <4>1 DEF PcOK, Places4, Goto
    <3> QED BY <3>1, <3>2, <3>3, <3>4, OpenKept
  <2> QED BY <2>1, <2>2, <2>3
<1>2. CASE Closing
  <2>1. UNCHANGED <<conf, poll, hand>>
    BY <1>2, Zenon DEF Closing, CloseBegin, CloseEnd, fitVars
  <2>2. life.whenIdle /\ life.finished /\ pc.learner = "done"
          /\ pc.fit \in {"none", "close", "closing", "closed"}
    BY <1>2, SMT DEF Closing, CloseBegin, CloseEnd, At, Stopping
  <2>3. UNCHANGED pc.learner /\ (pc'.worker = "release" => pc.worker = "release")
          /\ pc'.fit \in {"none", "close", "closing", "closed"}
    <3>1. PICK t \in {"worker", "fit", "control"}, p \in {"closing", "closed", "done"} :
            Goto(t, p) /\ (t = "fit" => p # "done")
      BY <1>2, Zenon DEF Closing, CloseBegin, CloseEnd
    <3> QED BY <1>0, <2>2, <3>1 DEF PcOK, Places4, Goto
  <2>4. \/ UNCHANGED <<cores, life.close>>
        \/ UNCHANGED cores /\ life.close = "no" /\ life'.close = "closing"
        \/ /\ life'.close = "yes" /\ cores'.kind = cores.kind
           /\ cores'.closed = cores.closed \union {conf.core}
    BY <1>0, <1>2 DEF Closing, CloseBegin, CloseEnd, LifeOK, CoresOK
  <2> QED BY <1>0, <1>l, <2>1, <2>2, <2>3, <2>4, SMT DEF Open, Built, ConfOK, PollOK
<1>3. CASE Learner
  <2>1. UNCHANGED <<conf, cores, life, hand>>
    BY <1>3, Zenon DEF Learner, Look, Schedule, Poll, LearnerExit
  <2>2. UNCHANGED <<pc.worker, pc.fit, poll.fit.core>>
    BY <1>0, <1>3 DEF Learner, Look, Schedule, Poll, LearnerExit, Goto, PcOK, Places4, PollOK, fitVars
  <2>3. pc'.learner \in {"schedule", "poll"} =>
          \/ UNCHANGED poll.learner.core /\ pc.learner \in {"schedule", "poll"}
          \/ poll'.learner.core = conf.core /\ pc.learner = "look"
    BY <1>0, <1>3 DEF Learner, Look, Schedule, Poll, LearnerExit, Goto, At, PcOK, Places4,
       PollOK
  <2>4. pc.learner = "look" => conf.core \notin cores.closed
    BY <1>0, SMT DEF Open, Stopping, LifeOK
  <2> QED BY <1>0, <1>l, <2>1, <2>2, <2>3, <2>4, SMT DEF Open, Built, ConfOK, PollOK
<1>4. CASE Fitting
  <2>1. UNCHANGED <<conf, cores, hand>> /\ UNCHANGED life.close
    BY <1>0, <1>4 DEF Fitting, FitNext, FitSchedule, FitEnds, FitEnding, FitLeaves, FitFails,
       LifeOK
  <2>2. UNCHANGED <<pc.worker, pc.learner, poll.learner.core>>
    BY <1>0, <1>4 DEF Fitting, FitNext, FitSchedule, FitEnds, FitEnding, FitLeaves, FitFails,
       Goto, PcOK, Places4, PollOK, fitVars
  <2>3. \/ poll'.fit.core = 0 /\ pc'.fit \notin {"schedule", "poll"}
        \/ /\ poll'.fit.core = (IF poll.fit.core = 0 THEN conf.core ELSE poll.fit.core)
           /\ pc.fit = "next" /\ pc'.fit \in {"schedule", "poll"}
        \/ /\ UNCHANGED poll.fit.core /\ pc.fit \in {"next", "schedule", "poll", "closed"}
           /\ pc'.fit \in {"next", "schedule", "poll", "ending", "none"}
           /\ pc'.fit \in {"schedule", "poll"} => pc.fit \in {"schedule", "poll"}
           /\ pc'.fit = "none" => pc.fit = "closed"
    <3>1. CASE FitNext
      BY <1>0, <3>1 DEF FitNext, Goto, At, PcOK, Places4, PollOK
    <3>2. CASE FitEnding
      BY <1>0, <3>2 DEF FitEnding, Goto, At, PcOK, Places4, PollOK, NoPoll
    <3>3. CASE FitSchedule \/ FitEnds \/ FitLeaves \/ FitFails
      BY <1>0, <3>3 DEF FitSchedule, FitEnds, FitLeaves, FitFails, Goto, At, PcOK, Places4,
         fitVars
    <3> QED BY <1>4, <3>1, <3>2, <3>3 DEF Fitting
  <2> QED BY <1>0, <1>l, <2>1, <2>2, <2>3, SMT DEF Open, Built, ConfOK, PollOK
<1>5. CASE Ticking \/ Adoption \/ Seeding \/ Handing
  <2>1. UNCHANGED <<conf, cores, life, poll, hand>>
    BY <1>5, Zenon DEF Ticking, Tick, Updated, Adopting, NothingToAdopt, Adoption, Retire,
       Bind, Seeding, Seed, SeedFailed, Run, Handing, CompleteFrame, ObserveFrame,
       SetOutput, AskFit, fitVars
  <2>2. pc' = pc \/ \E p : Goto("control", p)
    BY <1>5, Zenon DEF Ticking, Tick, Updated, Adopting, NothingToAdopt, Adoption, Retire,
       Bind, Seeding, Seed, SeedFailed, Run, Handing, CompleteFrame, ObserveFrame,
       SetOutput, AskFit
  <2>3. UNCHANGED <<pc.worker, pc.learner, pc.fit>>
    BY <1>0, <2>2 DEF Goto, PcOK, Places4
  <2> QED BY <2>1, <2>3, OpenKept
<1>6. CASE Building
  <2>0. PICK kind \in Kinds : Reconfigure(kind)
    BY <1>6 DEF Building
  <2>1. /\ UNCHANGED <<life, poll, hand>> /\ conf'.core = conf.core
        /\ conf'.pending = Len(cores.kind) + 1
        /\ cores'.kind = Append(cores.kind, kind)
        /\ cores'.closed = IF conf.pending = 0 THEN cores.closed
                           ELSE cores.closed \union {conf.pending}
        /\ UNCHANGED <<pc.worker, pc.learner, pc.fit>> /\ pc.control = "update"
    BY <1>0, <2>0 DEF Reconfigure, Goto, At, fitVars, PcOK, Places4, CoresOK, ConfOK
  <2>2. Len(cores'.kind) = Len(cores.kind) + 1
    BY <1>0, <2>1 DEF CoresOK
  <2> QED BY <1>0, <1>l, <2>1, <2>2, SMT DEF Open, Built, ConfOK, PollOK, Stopping
<1>7. CASE Tearing
  <2>1. UNCHANGED <<conf, cores, poll, hand>> /\ UNCHANGED life.close
    BY <1>0, <1>7 DEF Tearing, Stop, Joined, JoinTimesOut, Rotate, StopFit, NoStopFit, Finish,
       fitVars, LifeOK
  <2>2. UNCHANGED <<pc.worker, pc.learner>>
          /\ (UNCHANGED pc.fit \/ pc'.fit = "next")
    BY <1>0, <1>7 DEF Tearing, Stop, Joined, JoinTimesOut, Rotate, StopFit, NoStopFit, Finish,
       Goto, PcOK, Places4
  <2> QED BY <1>0, <1>l, <2>1, <2>2, SMT DEF Open, Built, ConfOK, PollOK
<1> QED BY <1>1, <1>2, <1>3, <1>4, <1>5, <1>6, <1>7, RunnerSteps

-----------------------------------------------------------------------------
\* Steps that seed no core, install none and let none solve.
LEMMA SeedsKept ==
  ASSUME Seeds, UNCHANGED <<conf, cores.kind, cores.seeded, seeding.held, seeding.answer,
                            temp, hold.kind, hold.seeded>>,
         pc'.worker \in {"install", "solve", "learn"} =>
            pc.worker \in {"install", "solve", "learn"} /\ UNCHANGED hand.update,
         pc'.worker \in {"install", "solve"} /\ pc.worker = "learn" => ~ hand'.update,
         pc'.worker = "learn" => pc.worker = "learn"
  PROVE  Seeds'
BY SMT DEF Seeds, Unseeded, Mpc, KindOf

LEMMA SeedsStep ==
  ASSUME Shapes, Open, Seeds, Next PROVE Seeds'
<1>0. PcOK /\ CoresOK /\ ConfOK /\ SeedingOK /\ HandOK /\ HoldOK /\ TempOK
  BY DEF Shapes
<1>l. Len(cores.kind) \in Nat /\ conf.core \in 1..Len(cores.kind)
  BY <1>0 DEF CoresOK, Open, Built
<1>1. CASE Worker
  <2>1. CASE ApplySeed
    <3>1. PICK ok \in BOOLEAN :
            /\ ok => Mpc(conf.core)
            /\ cores' = [cores EXCEPT !.seeded = IF ok THEN @ \union {conf.core} ELSE @]
            /\ seeding' = [seeding EXCEPT
                  !.held = @ /\ ~(ok /\ seeding.request = 0),
                  !.answer = IF hand.seed # seeding.token THEN @
                             ELSE IF ok THEN "ok" ELSE "failed"]
      BY <2>1 DEF ApplySeed
    <3>2. cores'.kind = cores.kind
            /\ cores'.seeded = IF ok THEN cores.seeded \union {conf.core} ELSE cores.seeded
      BY <1>0, <3>1 DEF CoresOK
    <3>3. /\ seeding'.held = (seeding.held /\ ~(ok /\ seeding.request = 0))
          /\ ~ ok => seeding'.answer \in {seeding.answer, "failed"}
      BY <1>0, <3>1, Zenon DEF SeedingOK
    <3>4. UNCHANGED <<conf, temp, hold>> /\ pc'.worker = "serve"
      BY <1>0, <2>1 DEF ApplySeed, Goto, PcOK, Places4
    <3>5. Unseeded' => Unseeded /\ ~ ok
      BY <3>2, <3>4 DEF Unseeded, Mpc, KindOf
    <3>6. CASE ok
      BY <3>2, <3>4, <3>5, <3>6 DEF Seeds
    <3>7. CASE ~ ok
      BY <3>2, <3>3, <3>4, <3>5, <3>7 DEF Seeds
    <3> QED BY <3>6, <3>7
  <2>2. CASE Install
    <3>1. /\ conf'.core = conf.pending /\ conf'.revision = conf.revision + 1
          /\ UNCHANGED <<cores, temp, hold>> /\ pc'.worker = "release"
      BY <1>0, <2>2 DEF Install, Goto, PcOK, Places4
    <3>2. seeding'.held = (seeding.held \/ Mpc(conf.pending))
      BY <1>0, <2>2, Zenon DEF Install, SeedingOK
    <3>3. Unseeded' => seeding'.held
      BY <3>1, <3>2 DEF Unseeded, Mpc, KindOf
    <3>4. conf'.revision > 0 /\ conf'.revision # 0
      BY <1>0, <3>1 DEF ConfOK
    <3> QED BY <3>1, <3>3, <3>4 DEF Seeds
  <2>3. CASE Gather
    <3>1. UNCHANGED <<conf, cores, seeding, temp, hold>>
      BY <2>3 DEF Gather
    <3>2. /\ hand'.update => ~ seeding.held /\ temp
          /\ \/ pc'.worker = "learn" /\ ~ hand'.update
             \/ pc'.worker = "install"
      <4> DEFINE mine == {o \in ToSet(queue.observations) :
                            conf.pending = 0 \/ o.gen = conf.revision}
                 up == mine = {} /\ ~seeding.held /\ temp
      <4>1. \E b, h : hand' = [hand EXCEPT !.batch = b, !.handoff = h, !.update = up]
        BY <2>3, Zenon DEF Gather
      <4>2. Goto("worker", IF mine # {} THEN "learn" ELSE "install")
        BY <2>3, Zenon DEF Gather
      <4> HIDE DEF mine
      <4>3. hand'.update = up
        BY <1>0, <4>1, Zenon DEF HandOK
      <4>4. pc'.worker = IF mine # {} THEN "learn" ELSE "install"
        BY <1>0, <4>2 DEF Goto, PcOK, Places4
      <4> QED BY <4>3, <4>4
    <3>3. Unseeded' <=> Unseeded
      BY <3>1 DEF Unseeded, Mpc, KindOf
    <3> QED BY <1>0, <3>1, <3>2, <3>3, SMT DEF Seeds
  <2>4. CASE Take \/ Serve \/ Learn \/ Release \/ Advance \/ PutOff \/ Solve \/ Leave
    <3>1. UNCHANGED <<conf, temp, hold>>
      BY <2>4, Zenon DEF Take, Serve, Learn, Release, Advance, PutOff, Solve, Leave
    <3>2. UNCHANGED <<cores.kind, cores.seeded, seeding.held, seeding.answer>>
      BY <1>0, <2>4 DEF CoresOK, SeedingOK, Take, Serve, Learn, Release, Advance, PutOff,
         Solve, Leave
    <3>3. CASE Take \/ Serve \/ Release \/ PutOff \/ Solve \/ Leave
      <4>1. pc'.worker \notin {"install", "solve", "learn"}
        BY <1>0, <3>3 DEF Take, Serve, Release, PutOff, Solve, Leave, Goto, At, PcOK, Places4
      <4> QED BY <3>1, <3>2, <4>1, SeedsKept
    <3>4. CASE Learn \/ Advance
      <4>1. UNCHANGED hand.update
        BY <1>0, <3>4 DEF HandOK, Learn, Advance
      <4>2. \/ pc.worker = "learn" /\ pc'.worker \in {"learn", "install", "serve"}
            \/ pc.worker = "install" /\ pc'.worker = "solve"
        BY <1>0, <3>4 DEF Learn, Advance, Goto, At, PcOK, Places4
      <4>3. pc.worker = "learn" => ~ hand.update
        BY DEF Seeds
      <4> QED BY <3>1, <3>2, <4>1, <4>2, <4>3, SeedsKept
    <3> QED BY <2>4, <3>3, <3>4
  <2> QED BY <1>1, <2>1, <2>2, <2>3, <2>4 DEF Worker
<1>2. CASE Closing \/ Learner \/ Fitting \/ Handing \/ Tearing
  <2>1. UNCHANGED <<conf, seeding, temp, hand>>
    BY <1>2, Zenon DEF Closing, CloseBegin, CloseEnd, Learner, Look, Schedule, Poll,
       LearnerExit, Fitting, FitNext, FitSchedule, FitEnds, FitEnding, FitLeaves, FitFails,
       Handing, CompleteFrame, ObserveFrame, SetOutput, AskFit, Tearing, Stop, Joined,
       JoinTimesOut, Rotate, StopFit, NoStopFit, Finish
  <2>2. UNCHANGED <<cores.kind, cores.seeded>>
    <3>1. UNCHANGED cores \/ \E c : cores' = [cores EXCEPT !.closed = c]
      BY <1>2, Zenon DEF Closing, CloseBegin, CloseEnd, Learner, Look, Schedule, Poll,
         LearnerExit, Fitting, FitNext, FitSchedule, FitEnds, FitEnding, FitLeaves, FitFails,
         Handing, CompleteFrame, ObserveFrame, SetOutput, AskFit, Tearing, Stop, Joined,
         JoinTimesOut, Rotate, StopFit, NoStopFit, Finish
    <3> QED BY <1>0, <3>1 DEF CoresOK
  <2>3. UNCHANGED <<hold.kind, hold.seeded>>
    <3>1. \/ UNCHANGED hold \/ \E w : hold' = [hold EXCEPT !.waiting = w]
          \/ \E u, b : hold' = [hold EXCEPT !.waiting = {}, !.stopped = b, !.unanswered = u]
      BY <1>2, Zenon DEF Closing, CloseBegin, CloseEnd, Learner, Look, Schedule, Poll,
         LearnerExit, Fitting, FitNext, FitSchedule, FitEnds, FitEnding, FitLeaves, FitFails,
         Handing, CompleteFrame, ObserveFrame, SetOutput, AskFit, Submitted, Tearing, Stop,
         Joined, JoinTimesOut, Rotate, StopFit, NoStopFit, Finish
    <3> QED BY <1>0, <3>1 DEF HoldOK
  <2>4. UNCHANGED pc.worker \/ pc'.worker \in {"closing", "done"}
    <3>1. \/ UNCHANGED pc \/ \E t \in {"learner", "fit", "control"} : \E p : Goto(t, p)
          \/ \E p \in {"closing", "done"} : Goto("worker", p)
          \/ StopFit
      BY <1>2, Zenon DEF Closing, CloseBegin, CloseEnd, Learner, Look, Schedule, Poll,
         LearnerExit, Fitting, FitNext, FitSchedule, FitEnds, FitEnding, FitLeaves, FitFails,
         Handing, CompleteFrame, ObserveFrame, SetOutput, AskFit, Tearing, Stop, Joined,
         JoinTimesOut, Rotate, NoStopFit, Finish
    <3> QED BY <1>0, <3>1 DEF PcOK, Places4, Goto, StopFit
  <2>5. pc.worker = "learn" => ~ hand.update
    BY DEF Seeds
  <2> QED BY <2>1, <2>2, <2>3, <2>4, <2>5, SeedsKept
<1>3. CASE Ticking \/ Adoption \/ Seeding \/ Building
  <2>1. UNCHANGED <<pc.worker, hand>>
    <3>1. UNCHANGED hand /\ \E p : Goto("control", p)
      BY <1>3, Zenon DEF Ticking, Tick, Updated, Adopting, NothingToAdopt, Adoption, Retire,
         Bind, Seeding, Seed, SeedFailed, Run, Building, Reconfigure
    <3> QED BY <1>0, <3>1 DEF PcOK, Places4, Goto
  <2>2. CASE Ticking \/ Retire
    <3>1. UNCHANGED <<conf, cores, seeding, temp>>
      BY <2>2, Zenon DEF Ticking, Tick, Updated, Adopting, NothingToAdopt, Retire
    <3>2. UNCHANGED <<hold.kind, hold.seeded>>
      BY <1>0, <2>2 DEF Ticking, Tick, Updated, Adopting, NothingToAdopt, Retire, HoldOK
    <3>3. pc.worker = "learn" => ~ hand.update
      BY DEF Seeds
    <3> QED BY <2>1, <3>1, <3>2, <3>3, SeedsKept
  <2>3. CASE Bind
    <3>1. UNCHANGED <<conf, cores, seeding, temp>>
      BY <2>3, Zenon DEF Bind
    <3>2. hold'.kind = KindOf(conf.core) /\ hold'.seeded = FALSE
      <4>1. \E a, w : hold' = [hold EXCEPT !.adopted = a, !.kind = KindOf(conf.core),
                         !.seeded = FALSE, !.waiting = w, !.installing = 0, !.then = "update"]
        BY <2>3, Zenon DEF Bind
      <4> QED BY <1>0, <4>1 DEF HoldOK
    <3>3. Unseeded' <=> Unseeded
      BY <3>1 DEF Unseeded, Mpc, KindOf
    <3> QED BY <2>1, <3>1, <3>2, <3>3 DEF Seeds, KindOf
  <2>4. CASE Seed \/ SeedFailed
    <3>1. UNCHANGED <<conf, cores, temp, hold>>
      BY <2>4, Zenon DEF Seed, SeedFailed
    <3>2. seeding'.answer = "none" /\ (seeding.held => seeding'.held)
      <4>1. \/ seeding' = [seeding EXCEPT !.token = 0, !.answer = "none"]
            \/ \E token : seeding' = [request |-> token, held |-> TRUE, token |-> token,
                                      answer |-> "none"]
        BY <2>4, Zenon DEF Seed, SeedFailed, Request, NoAnswer
      <4>2. CASE seeding' = [seeding EXCEPT !.token = 0, !.answer = "none"]
        <5>1. seeding'.answer = "none" /\ seeding'.held = seeding.held
          BY <1>0, <4>2 DEF SeedingOK
        <5> QED BY <5>1
      <4>3. ASSUME NEW token, seeding' = [request |-> token, held |-> TRUE,
                                          token |-> token, answer |-> "none"]
            PROVE  seeding'.answer = "none" /\ seeding'.held
        BY <4>3
      <4> QED BY <4>1, <4>2, <4>3
    <3>3. Unseeded' <=> Unseeded
      BY <3>1 DEF Unseeded, Mpc, KindOf
    <3> QED BY <2>1, <3>1, <3>2, <3>3 DEF Seeds
  <2>5. CASE Run
    <3>1. UNCHANGED <<conf, cores>>
      BY <2>5, Zenon DEF Run
    <3>2. UNCHANGED seeding.held /\ hold'.kind = hold.kind
      BY <1>0, <2>5 DEF Run, NoAnswer, SeedingOK, HoldOK
    <3>3. Unseeded' <=> Unseeded
      BY <3>1 DEF Unseeded, Mpc, KindOf
    <3>4. ~ (Unseeded /\ conf.revision = 0)
      BY <1>0, <2>5, SMT DEF Run, Ready, Seeds, ConfOK
    <3> QED BY <2>1, <3>1, <3>2, <3>3, <3>4, <1>0 DEF Seeds
  <2>6. CASE Building
    <3>0. PICK kind \in Kinds : Reconfigure(kind)
      BY <2>6 DEF Building
    <3>1. /\ UNCHANGED <<temp, hold, seeding>> /\ conf'.core = conf.core
          /\ conf'.revision = conf.revision
          /\ cores'.kind = Append(cores.kind, kind) /\ cores'.seeded = cores.seeded
      BY <1>0, <3>0 DEF Reconfigure, CoresOK, ConfOK
    <3>2. \A i \in 1..Len(cores.kind) : cores'.kind[i] = cores.kind[i]
      BY <1>0, <3>1 DEF CoresOK
    <3>3. cores'.kind[1] = cores.kind[1] /\ cores'.kind[conf.core] = cores.kind[conf.core]
      BY <1>l, <3>2
    <3>4. Unseeded' <=> Unseeded
      BY <3>1, <3>3 DEF Unseeded, Mpc, KindOf
    <3> QED BY <2>1, <3>1, <3>3, <3>4 DEF Seeds
  <2> QED BY <1>3, <2>2, <2>3, <2>4, <2>5, <2>6 DEF Adoption, Seeding
<1> QED BY <1>1, <1>2, <1>3, RunnerSteps

-----------------------------------------------------------------------------
RunnerInv == Shapes /\ Stopping /\ Open /\ Seeds

\* The threads stop in an order in which the last core is closed by the last of
\* them, and an MPC that was never seeded is held back or has no temperature.
THEOREM RunnerInvariant == Spec => []RunnerInv
<1>1. Init => RunnerInv
  BY RunnerInit DEF RunnerInv
<1>2. RunnerInv /\ [Next]_vars => RunnerInv'
  <2>1. ASSUME RunnerInv, Next PROVE RunnerInv'
    <3>1. Shapes'
      BY <2>1, RunnerSteps, WorkerShapes, OtherShapes, ControlShapes DEF RunnerInv
    <3> QED BY <2>1, <3>1, StoppingStep, OpenStep, SeedsStep DEF RunnerInv
  <2>2. ASSUME RunnerInv, UNCHANGED vars PROVE RunnerInv'
    BY <2>2 DEF vars, queueVars, fitVars, RunnerInv, Shapes, PcOK, CoresOK, ConfOK, SeedingOK,
       TempOK, HandOK, PollOK, LifeOK, HoldOK, Stopping, Open, Built, Seeds, Unseeded, Mpc,
       KindOf
  <2> QED BY <2>1, <2>2
<1> QED BY <1>1, <1>2, PTL DEF Spec

\* No thread calls a core that has been closed, however a core is replaced while
\* the learner polls it and however stops, fits and closes interleave.
THEOREM RunnerUsesOpenCores == Spec => []UsedOpen
<1>1. RunnerInv => UsedOpen
  <2> SUFFICES ASSUME RunnerInv PROVE UsedOpen
    OBVIOUS
  <2>1. pc.worker \in {"seed", "serve", "learn", "solve"} => conf.core \notin cores.closed
    BY SMT DEF RunnerInv, Shapes, LifeOK, Stopping, Last3, Open
  <2>2. pc.learner \in {"schedule", "poll"} => poll.learner.core \notin cores.closed
    BY DEF RunnerInv, Open
  <2>3. pc.fit \in {"schedule", "poll"} => poll.fit.core \notin cores.closed
    BY SMT DEF RunnerInv, Shapes, LifeOK, Stopping, Open
  <2> QED BY <2>1, <2>2, <2>3 DEF UsedOpen, Calls
<1> QED BY <1>1, RunnerInvariant, PTL

\* An MPC solves only once its estimator was seeded, whichever seeds were refused,
\* came late or were superseded, and whichever cores were installed meanwhile.
THEOREM RunnerSolvesSeeded == Spec => []SolvesSeeded
<1>1. RunnerInv => SolvesSeeded
  BY DEF RunnerInv, Seeds, Unseeded, SolvesSeeded, Solves, At
<1> QED BY <1>1, RunnerInvariant, PTL

-----------------------------------------------------------------------------
(* Where each frame is.                                                    *)
Obs == [seq : Nat, gen : Nat]
Items == [op : {"output"}] \union [op : {"frame"}, of : Obs]
FrameItems == [op : {"frame"}, of : Obs]

\* Of the first n frames each is with the worker, among the outcomes, among the
\* drops, or told to Hold, and in one of these only.
Accounts(accepted, outcomes, drops, told, n) ==
  /\ n \in Nat
  /\ outcomes \in Seq(Obs) /\ Once(outcomes, Obs)
  /\ accepted \subseteq Obs /\ drops \subseteq Obs
  /\ accepted \intersect ToSet(outcomes) = {} /\ accepted \intersect drops = {}
  /\ ToSet(outcomes) \intersect drops = {}
  /\ \A o, p \in accepted \union ToSet(outcomes) \union drops : o.seq = p.seq => o = p
  /\ \A o \in accepted \union ToSet(outcomes) \union drops : o.seq \in 1..n /\ o.seq \notin told
  /\ told \subseteq 1..n
  /\ \A k \in 1..n : \/ k \in told
                     \/ \E o \in accepted \union ToSet(outcomes) \union drops : o.seq = k

LEMMA AccountsSubmit ==
  ASSUME NEW acc, NEW out, NEW drops, NEW told, NEW n, Accounts(acc, out, drops, told, n),
         NEW o \in Obs, o.seq = n + 1
  PROVE  Accounts(acc \union {o}, out, drops, told, n + 1)
<1> DEFINE U == acc \union ToSet(out) \union drops
<1>1. \A p \in U : p.seq \in 1..n /\ p # o
  BY DEF Accounts
<1>2. n \in Nat
  BY DEF Accounts
<1>3. \A k \in 1..(n + 1) : k \in 1..n \/ k = o.seq
  BY <1>2
<1>4. 1..n \subseteq 1..(n + 1) /\ n + 1 \in 1..(n + 1) /\ n + 1 \notin 1..n
  BY <1>2
<1> QED BY <1>1, <1>2, <1>3, <1>4 DEF Accounts

LEMMA AccountsDrop ==
  ASSUME NEW acc, NEW out, NEW drops, NEW told, NEW n, Accounts(acc, out, drops, told, n),
         NEW some \in SUBSET acc
  PROVE  Accounts(acc \ some, out, drops \union some, told, n)
<1>1. (acc \ some) \union ToSet(out) \union (drops \union some)
        = acc \union ToSet(out) \union drops
  OBVIOUS
<1> QED BY <1>1, Zenon DEF Accounts

LEMMA AccountsTell ==
  ASSUME NEW acc, NEW out, NEW drops, NEW told, NEW n, Accounts(acc, out, drops, told, n),
         NEW o \in acc
  PROVE  Accounts(acc \ {o}, out, drops, told \union {o.seq}, n)
<1> DEFINE U == acc \union ToSet(out) \union drops
           V == (acc \ {o}) \union ToSet(out) \union drops
<1>1. V = U \ {o}
  BY DEF Accounts
<1>2. \A p \in V : p \in U /\ p.seq # o.seq
  BY <1>1 DEF Accounts
<1>3. \A k \in 1..n : k \in told \union {o.seq} \/ \E p \in V : p.seq = k
  BY <1>1 DEF Accounts
<1>4. o.seq \in 1..n
  BY DEF Accounts
<1> QED BY <1>2, <1>3, <1>4 DEF Accounts

BufferOf(b) == b \in [outcomes : {b.outcomes}, drops : {b.drops}, contexts : {b.contexts}]

LEMMA AccountsLearn ==
  ASSUME NEW acc, NEW b, BufferOf(b), NEW told, NEW n,
         Accounts(acc, b.outcomes, b.drops, told, n), NEW o \in acc
  PROVE  LET c == AppendOutcome(b, o)
         IN  BufferOf(c) /\ Accounts(acc \ {o}, c.outcomes, c.drops, told, n)
<1> DEFINE c == AppendOutcome(b, o)
           out == b.outcomes
           U == acc \union ToSet(out) \union b.drops
<1>0. out \in Seq(Obs) /\ Once(out, Obs) /\ o \in Obs /\ o \notin ToSet(out)
        /\ o \notin b.drops
  BY DEF Accounts
<1>1. CASE Len(out) < OutcomeCapacity
  <2>1. c = [outcomes |-> Append(out, o), drops |-> b.drops, contexts |-> b.contexts]
    BY <1>1 DEF AppendOutcome, BufferOf
  <2>2. Append(out, o) \in Seq(Obs) /\ ToSet(Append(out, o)) = ToSet(out) \union {o}
          /\ Once(Append(out, o), Obs)
    BY <1>0, OnceAppend
  <2>3. (acc \ {o}) \union ToSet(Append(out, o)) \union b.drops = U
    BY <2>2
  <2>4. /\ (acc \ {o}) \intersect ToSet(Append(out, o)) = {}
        /\ (acc \ {o}) \intersect b.drops = {}
        /\ ToSet(Append(out, o)) \intersect b.drops = {}
    BY <1>0, <2>2 DEF Accounts
  <2>5. Accounts(acc \ {o}, Append(out, o), b.drops, told, n)
    BY <1>0, <2>2, <2>3, <2>4, Zenon DEF Accounts
  <2> QED BY <2>1, <2>5 DEF BufferOf
<1>2. CASE ~ (Len(out) < OutcomeCapacity)
  <2> DEFINE h == Head(out)
             t == Append(Tail(out), o)
  <2>0. out # <<>>
    BY <1>0, <1>2, OutcomeAssumption
  <2>1. c = [outcomes |-> t, drops |-> b.drops \union {h}, contexts |-> b.contexts]
    BY <1>2 DEF AppendOutcome, AppendDrop, BufferOf
  <2>2. /\ Tail(out) \in Seq(Obs) /\ h \in Obs
        /\ ToSet(out) = ToSet(Tail(out)) \union {h}
        /\ Once(Tail(out), Obs) /\ h \notin ToSet(Tail(out))
    BY <1>0, <2>0, OnceTail
  <2>3. t \in Seq(Obs) /\ ToSet(t) = ToSet(Tail(out)) \union {o} /\ Once(t, Obs)
    <3> DEFINE u == Tail(out)
    <3>1. o \in Obs /\ o \notin ToSet(u) /\ u \in Seq(Obs) /\ Once(u, Obs)
      BY <1>0, <2>2
    <3>2. t = Append(u, o) /\ u = Tail(out)
      OBVIOUS
    <3> HIDE DEF u, t, h
    <3>3. /\ Append(u, o) \in Seq(Obs) /\ ToSet(Append(u, o)) = ToSet(u) \union {o}
          /\ Once(Append(u, o), Obs)
      BY <3>1, OnceAppend
    <3> QED BY <3>2, <3>3
  <2> HIDE DEF h, t
  <2>4. (acc \ {o}) \union ToSet(t) \union (b.drops \union {h}) = U
    BY <2>2, <2>3
  <2>5. /\ (acc \ {o}) \intersect ToSet(t) = {}
        /\ (acc \ {o}) \intersect (b.drops \union {h}) = {}
        /\ ToSet(t) \intersect (b.drops \union {h}) = {}
    BY <1>0, <2>2, <2>3 DEF Accounts
  <2>6. Accounts(acc \ {o}, t, b.drops \union {h}, told, n)
    BY <2>2, <2>3, <2>4, <2>5, Zenon DEF Accounts
  <2> QED BY <2>1, <2>6 DEF BufferOf
<1> QED BY <1>1, <1>2

\* What is handed out has been told.
LEMMA AccountsDrain ==
  ASSUME NEW acc, NEW b, BufferOf(b), NEW told, NEW n,
         Accounts(acc, b.outcomes, b.drops, told, n)
  PROVE  LET c == Drained(b)
             new == Sequences(DrainedOutcomes(b) \union DrainedDrops(b))
         IN  BufferOf(c) /\ Accounts(acc, c.outcomes, c.drops, told \union new, n)
<1> DEFINE out == b.outcomes
           stay == {o \in ToSet(out) : ~ Released(b, o)}
           t == Those(out, stay)
           d == {o \in b.drops : ~ Released(b, o)}
           gone == DrainedOutcomes(b) \union DrainedDrops(b)
           new == Sequences(gone)
           U == acc \union ToSet(out) \union b.drops
           V == acc \union ToSet(t) \union d
<1>0. out \in Seq(Obs) /\ Once(out, Obs)
  BY DEF Accounts
<1>1. Drained(b) = [outcomes |-> t, drops |-> d, contexts |-> b.contexts]
  <2>1. b = [outcomes |-> b.outcomes, drops |-> b.drops, contexts |-> b.contexts]
    BY DEF BufferOf
  <2>2. Drained(b) = [b EXCEPT !.outcomes = t, !.drops = d]
    BY Zenon DEF Drained
  <2> HIDE DEF t, d
  <2> QED BY <2>2 DEF BufferOf
<1>2. t \in Seq(Obs) /\ ToSet(t) = stay /\ Once(t, Obs)
  BY <1>0, ThoseType, OnceThose
<1>3. V = U \ gone /\ gone \subseteq U
  BY <1>2 DEF DrainedOutcomes, DrainedDrops, Accounts
<1> HIDE DEF t, d, gone
<1>4. /\ acc \intersect ToSet(t) = {} /\ acc \intersect d = {}
      /\ ToSet(t) \intersect d = {} /\ d \subseteq Obs
  BY <1>2 DEF Accounts, d
<1>5. \A o \in V : o \in U /\ o.seq \notin new
  BY <1>3 DEF Accounts, Sequences
<1>6. new \subseteq 1..n
  BY <1>3 DEF Accounts, Sequences
<1>7. \A k \in 1..n : k \in told \union new \/ \E o \in V : o.seq = k
  BY <1>3, Zenon DEF Accounts, Sequences
<1> HIDE DEF new
<1>8. Accounts(acc, t, d, told \union new, n)
  BY <1>2, <1>4, <1>5, <1>6, <1>7 DEF Accounts
<1> QED BY <1>1, <1>8 DEF BufferOf, new, gone

LEMMA AccountsEach ==
  ASSUME NEW n, Accounts(queue.accepted, buffer.outcomes, buffer.drops, released, n),
         n = queue.submitted
  PROVE  Accounted
<1> SUFFICES ASSUME NEW seq \in 1..n
             PROVE  Cardinality({i \in 1..4 : seq \in Places[i]}) = 1
  BY DEF Accounted
<1> DEFINE In(s) == seq \in Sequences(s)
           I == {i \in 1..4 : seq \in Places[i]}
<1>1. /\ Places[1] = Sequences(queue.accepted)
      /\ Places[2] = Sequences(ToSet(buffer.outcomes))
      /\ Places[3] = Sequences(buffer.drops)
      /\ Places[4] = released
  BY DEF Places
<1>2. /\ ~ (In(queue.accepted) /\ In(ToSet(buffer.outcomes)))
      /\ ~ (In(queue.accepted) /\ In(buffer.drops))
      /\ ~ (In(ToSet(buffer.outcomes)) /\ In(buffer.drops))
      /\ seq \in released => /\ ~ In(queue.accepted) /\ ~ In(ToSet(buffer.outcomes))
                             /\ ~ In(buffer.drops)
      /\ \/ seq \in released \/ In(queue.accepted) \/ In(ToSet(buffer.outcomes))
         \/ In(buffer.drops)
  <2>1. /\ ~ (In(queue.accepted) /\ In(ToSet(buffer.outcomes)))
        /\ ~ (In(queue.accepted) /\ In(buffer.drops))
        /\ ~ (In(ToSet(buffer.outcomes)) /\ In(buffer.drops))
    BY SMT DEF Accounts, Sequences
  <2>2. seq \in released => /\ ~ In(queue.accepted) /\ ~ In(ToSet(buffer.outcomes))
                           /\ ~ In(buffer.drops)
    BY SMT DEF Accounts, Sequences
  <2>3. \/ seq \in released \/ In(queue.accepted) \/ In(ToSet(buffer.outcomes))
        \/ In(buffer.drops)
    BY SMT DEF Accounts, Sequences
  <2> QED BY <2>1, <2>2, <2>3
<1> HIDE DEF In
<1>3. \E i : I = {i}
  <2>1. \A i \in 1..4 : i = 1 \/ i = 2 \/ i = 3 \/ i = 4
    OBVIOUS
  <2>2. I = {1} \/ I = {2} \/ I = {3} \/ I = {4}
    BY <1>1, <1>2, <2>1 DEF In
  <2> QED BY <2>2
<1> QED BY <1>3, FS_Singleton

-----------------------------------------------------------------------------
(* The frames in the queues and in the worker's hand.                      *)
QueueOK == queue \in [dispatches : Seq(Items), observations : Seq(Obs),
                      accepted : SUBSET Obs, accepting : BOOLEAN, submitted : Nat]

FrameOf(o) == [op |-> "frame", of |-> o]
Frames(s) == {o \in Obs : FrameOf(o) \in ToSet(s)}
Queued == Frames(queue.dispatches) \union ToSet(queue.observations)
Held == Frames(hand.work) \union ToSet(hand.batch)

\* A frame is queued once and still to be answered; one the worker took is not
\* queued any more, and was perhaps dropped since.
Queues ==
  /\ Once(queue.dispatches, FrameItems) /\ Once(queue.observations, Obs)
  /\ Frames(queue.dispatches) \intersect ToSet(queue.observations) = {}
  /\ Queued \subseteq queue.accepted
Hands ==
  /\ hand.work \in Seq(Items) /\ hand.batch \in Seq(Obs)
  /\ Held \intersect Queued = {}
  /\ \A o \in Held : o.seq <= queue.submitted
  /\ pc.worker = "learn" => hand.batch # <<>>
Accounting ==
  /\ BufferOf(buffer)
  /\ Accounts(queue.accepted, buffer.outcomes, buffer.drops, released, queue.submitted)
Flow == QueueOK /\ Queues /\ Hands /\ Accounting

\* What is not queued any more is not to be answered by the queue any more.
Unqueued == queue.accepted \ Queued
InFlight == queue.accepted \union ToSet(buffer.outcomes) \union buffer.drops

LEMMA FramesFacts ==
  /\ Frames(<<>>) = {}
  /\ \A o \in Obs : FrameOf(o) \in FrameItems /\ FrameOf(o).op = "frame" /\ FrameOf(o).of = o
  /\ FrameItems \subseteq Items
  /\ \A x \in Items : x.op = "frame" => x \in FrameItems /\ x.of \in Obs /\ x = FrameOf(x.of)
  /\ \A x \in Items : x.op # "frame" => \A o \in Obs : x # FrameOf(o)
<1>1. ToSet(<<>>) = {}
  BY DEF ToSet
<1>2. \A x \in Items : x.op = "frame" => x \in FrameItems
  BY DEF Items, FrameItems
<1>3. \A x \in FrameItems : x.of \in Obs /\ x = FrameOf(x.of) /\ x.op = "frame"
  BY DEF FrameItems, FrameOf
<1>4. FrameItems \subseteq Items
  BY DEF FrameItems, Items
<1>5. \A o \in Obs : FrameOf(o) \in FrameItems /\ FrameOf(o).op = "frame" /\ FrameOf(o).of = o
  BY DEF FrameOf, FrameItems
<1> QED BY <1>1, <1>2, <1>3, <1>4, <1>5 DEF Frames

LEMMA FlowInit == Init => Flow
<1> SUFFICES ASSUME Init PROVE Flow
  OBVIOUS
<1>0. ToSet(<<>>) = {} /\ Frames(<<>>) = {}
  BY FramesFacts DEF ToSet
<1>1. QueueOK
  BY DEF Init, QueueOK
<1>2. /\ queue.dispatches = <<>> /\ queue.observations = <<>> /\ queue.accepted = {}
      /\ queue.submitted = 0 /\ released = {} /\ pc.worker = "take"
      /\ hand.work = <<>> /\ hand.batch = <<>>
      /\ buffer = [outcomes |-> <<>>, drops |-> {}, contexts |-> {0}]
  BY DEF Init, EmptyHand, EmptyBuffer, BindContext
<1>3. Queues /\ Hands
  BY <1>0, <1>2 DEF Queues, Hands, Queued, Held, Once
<1>4. Accounting
  BY <1>0, <1>2 DEF Accounting, BufferOf, Accounts, Once
<1> QED BY <1>1, <1>3, <1>4 DEF Flow

LEMMA FlightLearned ==
  ASSUME NEW b, BufferOf(b), b.outcomes \in Seq(Obs), NEW o \in Obs, o \notin ToSet(b.outcomes)
  PROVE  LET c == AppendOutcome(b, o)
         IN  /\ ToSet(c.outcomes) \union c.drops = ToSet(b.outcomes) \union b.drops \union {o}
             /\ c.contexts = b.contexts
<1> DEFINE c == AppendOutcome(b, o)
           out == b.outcomes
<1>0. Once(out, {}) /\ out \in Seq(Obs)
  BY DEF Once
<1>1. CASE Len(out) < OutcomeCapacity
  <2>1. c = [outcomes |-> Append(out, o), drops |-> b.drops, contexts |-> b.contexts]
    BY <1>1 DEF AppendOutcome, BufferOf
  <2>2. ToSet(Append(out, o)) = ToSet(out) \union {o}
    BY <1>0, OnceAppend
  <2> QED BY <2>1, <2>2
<1>2. CASE ~ (Len(out) < OutcomeCapacity)
  <2>0. out # <<>>
    BY <1>0, <1>2, OutcomeAssumption
  <2>1. c = [outcomes |-> Append(Tail(out), o), drops |-> b.drops \union {Head(out)},
             contexts |-> b.contexts]
    BY <1>2 DEF AppendOutcome, AppendDrop, BufferOf
  <2> DEFINE u == Tail(out)
             h == Head(out)
  <2>2. u \in Seq(Obs) /\ ToSet(out) = ToSet(u) \union {h} /\ Once(u, {})
    BY <1>0, <2>0, OnceTail
  <2> HIDE DEF u, h
  <2>3. ToSet(Append(u, o)) = ToSet(u) \union {o}
    BY <2>2, OnceAppend
  <2>4. ToSet(c.outcomes) = ToSet(u) \union {o} /\ c.drops = b.drops \union {h}
          /\ c.contexts = b.contexts
    BY <2>1, <2>3 DEF u, h
  <2> QED BY <2>2, <2>4
<1> QED BY <1>1, <1>2

\* A frame the worker holds is answered, if it still is to be.
LEMMA CompletedKeeps ==
  ASSUME Flow, NEW o \in Held, NEW learned \in BOOLEAN, Completed(o, learned),
         UNCHANGED released
  PROVE  /\ QueueOK' /\ Queues' /\ Accounting'
         /\ UNCHANGED <<queue.dispatches, queue.observations, queue.submitted>>
         /\ queue'.accepted = queue.accepted \ {o}
         /\ UNCHANGED <<InFlight, buffer.contexts>>
<1>0. QueueOK /\ BufferOf(buffer) /\ o \notin Queued
  BY DEF Flow, Hands, Accounting
<1>1. CASE o \notin queue.accepted
  <2>1. UNCHANGED <<queue, buffer, released>>
    BY <1>1 DEF Completed
  <2>2. queue.accepted \ {o} = queue.accepted
    BY <1>1
  <2> QED BY <2>1, <2>2 DEF Flow, QueueOK, Queues, Queued, Accounting, BufferOf, InFlight
<1>2. CASE o \in queue.accepted
  <2>1. /\ UNCHANGED <<queue.dispatches, queue.observations, queue.submitted>>
        /\ queue'.accepted = queue.accepted \ {o} /\ QueueOK'
    BY <1>0, <1>2 DEF Completed, QueueOK
  <2>2. Queues'
    BY <1>0, <2>1 DEF Flow, Queues, Queued
  <2>3. Accounts(queue.accepted, buffer.outcomes, buffer.drops, released, queue.submitted)
    BY DEF Flow, Accounting
  <2>4. Accounting' /\ UNCHANGED <<InFlight, buffer.contexts>>
    <3>1. CASE learned
      <4>1. buffer' = AppendOutcome(buffer, o)
        BY <1>2, <3>1 DEF Completed
      <4>2. /\ ToSet(buffer'.outcomes) \union buffer'.drops
                 = ToSet(buffer.outcomes) \union buffer.drops \union {o}
            /\ buffer'.contexts = buffer.contexts
        BY <1>0, <1>2, <2>3, <4>1, FlightLearned DEF Accounts
      <4>3. InFlight' = InFlight
        BY <1>2, <2>1, <4>2 DEF InFlight
      <4> QED BY <1>0, <1>2, <2>1, <2>3, <4>1, <4>2, <4>3, AccountsLearn DEF Accounting
    <3>2. CASE ~ learned
      <4>1. buffer' = [outcomes |-> buffer.outcomes, drops |-> buffer.drops \union {o},
                       contexts |-> buffer.contexts]
        BY <1>0, <1>2, <3>2 DEF Completed, AppendDrop, BufferOf
      <4>2. Accounts(queue.accepted \ {o}, buffer.outcomes, buffer.drops \union {o},
                     released, queue.submitted)
        BY <1>2, <2>3, AccountsDrop
      <4>3. InFlight' = InFlight
        BY <1>2, <2>1, <4>1 DEF InFlight
      <4> QED BY <2>1, <4>1, <4>2, <4>3 DEF Accounting, BufferOf
    <3> QED BY <3>1, <3>2
  <2> QED BY <2>1, <2>2, <2>4
<1> QED BY <1>1, <1>2

\* What Hold collects, at each of the points it does so.
LEMMA CollectedKeeps ==
  ASSUME NEW acc, NEW b, BufferOf(b), NEW told, NEW n,
         Accounts(acc, b.outcomes, b.drops, told, n)
  PROVE  BufferOf(Left(b))
         /\ Accounts(acc, Left(b).outcomes, Left(b).drops, told \union Collected(b), n)
<1>1. CASE hold.waiting = {}
  BY <1>1 DEF Left, Collected
<1>2. CASE hold.waiting # {}
  BY <1>2, AccountsDrain DEF Left, Collected
<1> QED BY <1>1, <1>2

LEMMA FlowKept ==
  ASSUME Flow, UNCHANGED <<queue, buffer, released>>,
         \/ UNCHANGED <<hand.work, hand.batch>>
               /\ (pc'.worker = "learn" => pc.worker = "learn")
         \/ hand'.work = <<>> /\ hand'.batch = <<>> /\ pc'.worker # "learn"
  PROVE  Flow'
<1>1. QueueOK' /\ Queues' /\ Accounting' /\ UNCHANGED Queued
  BY DEF Flow, QueueOK, Queues, Queued, Accounting, BufferOf
<1>2. CASE UNCHANGED <<hand.work, hand.batch>> /\ (pc'.worker = "learn" => pc.worker = "learn")
  BY <1>1, <1>2 DEF Flow, Hands, Held
<1>3. CASE hand'.work = <<>> /\ hand'.batch = <<>> /\ pc'.worker # "learn"
  <2>1. Held' = {}
    BY <1>3, FramesFacts DEF Held, ToSet
  <2> QED BY <1>1, <1>3, <2>1 DEF Flow, Hands
<1> QED BY <1>1, <1>2, <1>3

\* Hold's threads: the queues are left alone, the buffer may be collected.
LEMMA FlowCollects ==
  ASSUME Flow, UNCHANGED <<queue, hand>>, UNCHANGED pc.worker, BufferOf(buffer'),
         Accounts(queue.accepted, buffer'.outcomes, buffer'.drops, released',
                  queue.submitted)
  PROVE  Flow'
BY DEF Flow, QueueOK, Queues, Queued, Hands, Held, Accounting

LEMMA FlowWorker ==
  ASSUME Shapes, Flow, Worker PROVE Flow'
<1>0. PcOK /\ HandOK /\ QueueOK /\ Queues /\ Hands /\ Accounting
  BY DEF Shapes, Flow
<1>1. CASE Take
  <2>1. /\ queue'.dispatches = <<>> /\ QueueOK'
        /\ UNCHANGED <<queue.observations, queue.accepted, queue.submitted>>
    <3>1. <<>> \in Seq(Items)
      OBVIOUS
    <3>2. queue' = [queue EXCEPT !.dispatches = <<>>]
      BY <1>1 DEF Take
    <3> QED BY <1>0, <3>1, <3>2, Zenon DEF QueueOK
  <2>2. hand'.work = queue.dispatches /\ hand'.batch = <<>> /\ pc'.worker # "learn"
          /\ UNCHANGED <<buffer, released>>
    BY <1>0, <1>1 DEF Take, EmptyHand, Goto, PcOK, Places4
  <2>3. Held' = Frames(queue.dispatches) /\ Queued' = ToSet(queue.observations)
    BY <2>1, <2>2, FramesFacts DEF Held, Queued, ToSet
  <2>4. \A o \in queue.accepted : o.seq <= queue.submitted
    BY <1>0 DEF Accounting, Accounts
  <2>5. Queues'
    BY <1>0, <2>1, <2>3, FramesFacts DEF Queues, Queued, Once
  <2>6. Hands'
    BY <1>0, <2>1, <2>2, <2>3, <2>4 DEF Queues, Queued, Hands, QueueOK
  <2> QED BY <1>0, <2>1, <2>2, <2>5, <2>6 DEF Flow, Accounting
<1>2. CASE ApplySeed \/ Install \/ Advance \/ Leave
  <2>1. UNCHANGED <<queue, buffer, released>>
    BY <1>2, Zenon DEF ApplySeed, Install, Advance, Leave, queueVars
  <2>2. UNCHANGED <<hand.work, hand.batch>> /\ pc'.worker # "learn"
    BY <1>0, <1>2 DEF ApplySeed, Install, Advance, Leave, HandOK, Goto, PcOK, Places4
  <2> QED BY <2>1, <2>2, FlowKept
<1>3. CASE Release \/ PutOff \/ Solve
  <2>1. UNCHANGED <<queue, buffer, released>>
    BY <1>3, Zenon DEF Release, PutOff, Solve, queueVars
  <2>2. hand'.work = <<>> /\ hand'.batch = <<>> /\ pc'.worker # "learn"
    BY <1>0, <1>3 DEF Release, PutOff, Solve, EmptyHand, Goto, PcOK, Places4
  <2> QED BY <2>1, <2>2, FlowKept
<1>4. CASE Serve
  <2> DEFINE item == Head(hand.work)
  <2>1. /\ Tail(hand.work) \in Seq(Items) /\ item \in Items
        /\ ToSet(hand.work) = ToSet(Tail(hand.work)) \union {item}
    <3>1. hand.work \in Seq(Items) /\ hand.work # <<>> /\ Once(hand.work, {})
      BY <1>0, <1>4 DEF Serve, Hands, Once
    <3> QED BY <3>1, OnceTail
  <2>2. hand'.work = Tail(hand.work) /\ UNCHANGED <<hand.batch, pc, released>>
    BY <1>0, <1>4 DEF Serve, HandOK
  <2>3. Held' \subseteq Held
    BY <2>1, <2>2 DEF Held, Frames
  <2>4. CASE item.op = "output"
    <3>1. UNCHANGED <<queue, buffer>>
      BY <1>4, <2>4 DEF Serve
    <3>2. QueueOK' /\ Queues' /\ Accounting' /\ UNCHANGED Queued
      BY <1>0, <2>2, <3>1 DEF QueueOK, Queues, Queued, Accounting, BufferOf
    <3> QED BY <1>0, <2>1, <2>2, <2>3, <3>1, <3>2 DEF Flow, Hands
  <2>5. CASE item.op # "output"
    <3>1. item.op = "frame"
      BY <2>1, <2>5 DEF Items
    <3>2. item.of \in Held
      BY <2>1, <3>1, FramesFacts DEF Held, Frames
    <3>3. PICK learned \in BOOLEAN : Completed(item.of, learned)
      BY <1>4, <2>5 DEF Serve
    <3>4. /\ QueueOK' /\ Queues' /\ Accounting'
          /\ UNCHANGED <<queue.dispatches, queue.observations, queue.submitted>>
      BY <2>2, <3>2, <3>3, CompletedKeeps
    <3>5. UNCHANGED Queued
      BY <3>4 DEF Queued
    <3> QED BY <1>0, <2>1, <2>2, <2>3, <3>4, <3>5 DEF Flow, Hands
  <2> QED BY <2>4, <2>5
<1>5. CASE Gather
  <2> DEFINE all == queue.observations
             mine == {o \in ToSet(all) : conf.pending = 0 \/ o.gen = conf.revision}
  <2>0. all \in Seq(Obs) /\ Once(all, Obs)
    BY <1>0 DEF QueueOK, Queues
  <2>1. /\ queue' = [queue EXCEPT !.observations = Those(all, ToSet(all) \ mine)]
        /\ \E h, u : hand' = [hand EXCEPT !.batch = Those(all, mine), !.handoff = h,
                                          !.update = u]
        /\ Goto("worker", IF mine # {} THEN "learn" ELSE "install")
        /\ UNCHANGED <<buffer, released>> /\ hand.work = <<>>
    BY <1>5, Zenon DEF Gather
  <2> HIDE DEF mine
  <2>m. mine \subseteq ToSet(all)
    BY DEF mine
  <2>2. /\ Those(all, mine) \in Seq(Obs) /\ ToSet(Those(all, mine)) = mine
        /\ Those(all, ToSet(all) \ mine) \in Seq(Obs)
        /\ ToSet(Those(all, ToSet(all) \ mine)) = ToSet(all) \ mine
        /\ Once(Those(all, ToSet(all) \ mine), Obs)
    <3>1. ASSUME NEW set
          PROVE  /\ Those(all, set) \in Seq(Obs)
                 /\ ToSet(Those(all, set)) = ToSet(all) \intersect set
                 /\ Once(Those(all, set), Obs)
      BY <2>0, ThoseType, OnceThose
    <3> HIDE DEF all
    <3>2. ToSet(all) \intersect mine = mine
            /\ ToSet(all) \intersect (ToSet(all) \ mine) = ToSet(all) \ mine
      BY <2>m
    <3> QED BY <3>1, <3>2
  <2>3. /\ queue'.observations = Those(all, ToSet(all) \ mine) /\ QueueOK'
        /\ UNCHANGED <<queue.dispatches, queue.accepted, queue.submitted>>
    BY <1>0, <2>1, <2>2 DEF QueueOK
  <2>4. hand'.work = <<>> /\ hand'.batch = Those(all, mine)
          /\ (pc'.worker = "learn" => mine # {})
    BY <1>0, <2>1 DEF HandOK, Goto, PcOK, Places4
  <2>5. Held' = mine
    BY <2>2, <2>4, FramesFacts DEF Held
  <2>6. Queued' = Frames(queue.dispatches) \union (ToSet(all) \ mine)
    BY <2>2, <2>3 DEF Queued
  <2>7. Queues'
    BY <1>0, <2>2, <2>3, <2>6, <2>m DEF Queues, Queued
  <2>8. \A o \in queue.accepted : o.seq <= queue.submitted
    BY <1>0 DEF Accounting, Accounts
  <2>9. mine \subseteq queue.accepted /\ mine \intersect Frames(queue.dispatches) = {}
    BY <1>0, <2>m DEF Queues, Queued
  <2>10. hand'.batch = <<>> => mine = {}
    BY <2>2, <2>4 DEF ToSet
  <2>11. Hands'
    BY <2>2, <2>3, <2>4, <2>5, <2>6, <2>8, <2>9, <2>10 DEF Hands
  <2>12. Accounting'
    BY <1>0, <2>1, <2>3 DEF Accounting
  <2> QED BY <2>3, <2>7, <2>11, <2>12 DEF Flow
<1>6. CASE Learn
  <2> DEFINE o == Head(hand.batch)
  <2>0. hand.batch # <<>> /\ hand.batch \in Seq(Obs)
    BY <1>0, <1>6 DEF Learn, At, Hands
  <2>1. /\ Tail(hand.batch) \in Seq(Obs) /\ o \in Obs
        /\ Len(Tail(hand.batch)) = Len(hand.batch) - 1
        /\ ToSet(hand.batch) = ToSet(Tail(hand.batch)) \union {o}
    <3>1. Once(hand.batch, {})
      BY DEF Once
    <3> QED BY <2>0, <3>1, OnceTail
  <2>2. /\ hand'.batch = Tail(hand.batch) /\ UNCHANGED <<hand.work, released>>
        /\ pc'.worker = "learn" => Len(hand.batch) > 1
    BY <1>0, <1>6 DEF Learn, HandOK, Goto, PcOK, Places4
  <2>3. o \in Held /\ Held' \subseteq Held
    BY <2>1, <2>2 DEF Held
  <2>4. PICK learned \in BOOLEAN : Completed(o, learned)
    BY <1>6 DEF Learn
  <2>5. /\ QueueOK' /\ Queues' /\ Accounting'
        /\ UNCHANGED <<queue.dispatches, queue.observations, queue.submitted>>
    BY <2>2, <2>3, <2>4, CompletedKeeps
  <2>6. UNCHANGED Queued
    BY <2>5 DEF Queued
  <2>7. pc'.worker = "learn" => hand'.batch # <<>>
    <3>1. Len(hand.batch) > 1 => Len(Tail(hand.batch)) # 0
      <4>1. Len(hand.batch) \in Nat /\ Len(Tail(hand.batch)) = Len(hand.batch) - 1
        BY <2>0, <2>1
      <4> DEFINE n == Len(hand.batch)
                 m == Len(Tail(hand.batch))
      <4>2. n \in Nat /\ m = n - 1
        BY <4>1
      <4> HIDE DEF n, m
      <4>3. n > 1 => m # 0
        BY <4>2
      <4> QED BY <4>3 DEF n, m
    <3>2. Len(<<>>) = 0
      OBVIOUS
    <3> QED BY <2>2, <3>1, <3>2
  <2> QED BY <1>0, <2>1, <2>2, <2>3, <2>5, <2>6, <2>7 DEF Flow, Hands
<1> QED BY <1>1, <1>2, <1>3, <1>4, <1>5, <1>6 DEF Worker

LEMMA FlowOther ==
  ASSUME Shapes, Flow, Closing \/ Learner \/ Fitting PROVE Flow'
<1>0. PcOK /\ HandOK
  BY DEF Shapes
<1>1. UNCHANGED <<queue, buffer, released, hand>>
  BY Zenon DEF Closing, CloseBegin, CloseEnd, Learner, Fitting, FitNext, FitSchedule, FitEnds,
     FitEnding, FitLeaves, FitFails, Look, Schedule, Poll, LearnerExit, queueVars
<1>2. pc'.worker = "learn" => pc.worker = "learn"
  BY <1>0 DEF Closing, CloseBegin, CloseEnd, Learner, Fitting, FitNext, FitSchedule, FitEnds,
     FitEnding, FitLeaves, FitFails, Look, Schedule, Poll, LearnerExit, Goto, PcOK, Places4
<1> QED BY <1>1, <1>2, FlowKept

LEMMA FlowControl ==
  ASSUME Shapes, Flow, Ticking \/ Adoption \/ Seeding \/ Building PROVE Flow'
<1>0. /\ PcOK /\ BufferOf(buffer)
      /\ Accounts(queue.accepted, buffer.outcomes, buffer.drops, released, queue.submitted)
  BY DEF Shapes, Flow, Accounting
<1>1. UNCHANGED <<queue, hand>>
  BY Zenon DEF Ticking, Tick, Updated, Adopting, NothingToAdopt, Adoption, Retire, Bind, Seeding,
     Seed, SeedFailed, Run, Building, Reconfigure, queueVars
<1>2. UNCHANGED pc.worker
  <2>1. \E there : Goto("control", there)
    BY Zenon DEF Ticking, Tick, Updated, Adopting, NothingToAdopt, Adoption, Retire, Bind, Seeding,
       Seed, SeedFailed, Run, Building, Reconfigure
  <2> QED BY <1>0, <2>1 DEF Goto, PcOK, Places4
<1>3. \/ UNCHANGED <<buffer, released>>
      \/ buffer' = Left(buffer) /\ released' = released \union Collected(buffer)
      \/ Retire
      \/ Bind
  BY Zenon DEF Ticking, Tick, Updated, Adopting, NothingToAdopt, Adoption, Seeding,
     Seed, SeedFailed, Run, Building, Reconfigure, queueVars
<1>4. CASE UNCHANGED <<buffer, released>>
  BY <1>0, <1>1, <1>2, <1>4, FlowCollects DEF BufferOf
<1>5. CASE buffer' = Left(buffer) /\ released' = released \union Collected(buffer)
  BY <1>0, <1>1, <1>2, <1>5, CollectedKeeps, FlowCollects
<1>6. CASE Retire
  <2>1. /\ buffer' = RetireContext(buffer, hold.adopted) /\ UNCHANGED released
    BY <1>6 DEF Retire
  <2>2. /\ buffer'.outcomes = buffer.outcomes /\ buffer'.drops = buffer.drops
        /\ BufferOf(buffer')
    BY <1>0, <2>1 DEF RetireContext, BufferOf
  <2> QED BY <1>0, <1>1, <1>2, <2>1, <2>2, FlowCollects
<1>7. CASE Bind
  <2> DEFINE bound == BindContext(buffer, hold.installing)
  <2>1. buffer' = Left(bound) /\ released' = released \union Collected(bound)
    BY <1>7, Zenon DEF Bind
  <2>2. bound.outcomes = buffer.outcomes /\ bound.drops = buffer.drops /\ BufferOf(bound)
    BY <1>0 DEF BindContext, BufferOf
  <2> HIDE DEF bound
  <2>3. Accounts(queue.accepted, bound.outcomes, bound.drops, released, queue.submitted)
    BY <1>0, <2>2
  <2>4. /\ BufferOf(Left(bound))
        /\ Accounts(queue.accepted, Left(bound).outcomes, Left(bound).drops,
                    released \union Collected(bound), queue.submitted)
    BY <2>2, <2>3, CollectedKeeps
  <2> QED BY <1>1, <1>2, <2>1, <2>4, FlowCollects
<1> QED BY <1>3, <1>4, <1>5, <1>6, <1>7

\* A frame that is submitted is a new one.
LEMMA FreshFrame ==
  ASSUME Flow, NEW gen \in Nat
  PROVE  LET o == NextFrame(gen)
         IN  /\ o \in Obs /\ o.seq = queue.submitted + 1
             /\ o \notin queue.accepted /\ o \notin Queued /\ o \notin Held
<1> DEFINE o == NextFrame(gen)
<1>1. queue.submitted \in Nat
  BY DEF Flow, QueueOK
<1>2. o \in Obs /\ o.seq = queue.submitted + 1
  BY <1>1 DEF NextFrame, Obs
<1> HIDE DEF o
<1>3. \A p \in queue.accepted \union Held : p.seq <= queue.submitted
  BY DEF Flow, Accounting, Accounts, Hands
<1>4. o \notin queue.accepted \union Held
  BY <1>1, <1>2, <1>3
<1>5. o \notin Queued
  BY <1>4 DEF Flow, Queues
<1> QED BY <1>2, <1>4, <1>5 DEF o

\* A longer queue, or one whose oldest item made room.
LEMMA MadeRoom ==
  ASSUME NEW T, NEW s \in Seq(T), NEW few, Once(s, few), NEW x \in T, NEW full \in BOOLEAN,
         full => s # <<>>, x \in few => x \notin ToSet(s)
  PROVE  LET q == Append(IF full THEN Tail(s) ELSE s, x)
         IN  /\ q \in Seq(T) /\ Once(q, few)
             /\ ToSet(q) \subseteq ToSet(s) \union {x}
             /\ full /\ Head(s) \in few => Head(s) \notin ToSet(q) \/ Head(s) = x
             /\ full => Head(s) \in T /\ Head(s) \in ToSet(s)
             /\ x \in ToSet(q) /\ \A y \in ToSet(s) : y \in ToSet(q) \/ (full /\ y = Head(s))
<1> DEFINE q == Append(IF full THEN Tail(s) ELSE s, x)
           h == Head(s)
           t == Tail(s)
           Goal == /\ q \in Seq(T) /\ Once(q, few)
                   /\ ToSet(q) \subseteq ToSet(s) \union {x}
                   /\ full /\ h \in few => h \notin ToSet(q) \/ h = x
                   /\ full => h \in T /\ h \in ToSet(s)
                   /\ x \in ToSet(q) /\ \A y \in ToSet(s) : y \in ToSet(q) \/ (full /\ y = h)
<1> SUFFICES Goal
  BY Zenon
<1>1. CASE ~full
  <2>1. q = Append(s, x)
    BY <1>1
  <2>2. Append(s, x) \in Seq(T) /\ Once(Append(s, x), few)
          /\ ToSet(Append(s, x)) = ToSet(s) \union {x}
    BY OnceAppend
  <2> HIDE DEF q
  <2>3. q \in Seq(T) /\ Once(q, few) /\ ToSet(q) = ToSet(s) \union {x}
    BY <2>1, <2>2
  <2> QED BY <1>1, <2>3
<1>2. CASE full
  <2>1. /\ Tail(s) \in Seq(T) /\ Once(Tail(s), few) /\ Head(s) \in T
        /\ ToSet(s) = ToSet(Tail(s)) \union {Head(s)}
        /\ Head(s) \in few => Head(s) \notin ToSet(Tail(s))
    BY <1>2, OnceTail
  <2>2. x \in few => x \notin ToSet(Tail(s))
    BY <2>1
  <2>3. t \in Seq(T) /\ Once(t, few) /\ (x \in few => x \notin ToSet(t))
    BY <2>1, <2>2
  <2> HIDE DEF t
  <2>4. /\ Append(t, x) \in Seq(T) /\ Once(Append(t, x), few)
        /\ ToSet(Append(t, x)) = ToSet(t) \union {x}
    BY <2>3, OnceAppend
  <2>5. q = Append(t, x)
    BY <1>2 DEF t
  <2>6. /\ h \in T /\ ToSet(s) = ToSet(t) \union {h} /\ (h \in few => h \notin ToSet(t))
    BY <2>1 DEF t
  <2> HIDE DEF q, h
  <2>7. q \in Seq(T) /\ Once(q, few) /\ ToSet(q) = ToSet(t) \union {x}
    BY <2>4, <2>5
  <2>8. /\ ToSet(q) \subseteq ToSet(s) \union {x} /\ x \in ToSet(q)
        /\ h \in few => h \notin ToSet(q) \/ h = x
        /\ h \in ToSet(s) /\ h \in T
        /\ \A y \in ToSet(s) : y \in ToSet(q) \/ y = h
    BY <2>6, <2>7
  <2> QED BY <1>2, <2>7, <2>8
<1> QED BY <1>1, <1>2

\* An output or a frame is queued for the worker; what made room for it was dropped.
LEMMA FlowDispatched ==
  ASSUME Shapes, Flow, UNCHANGED <<pc, hand, released>>,
         NEW item \in Items, NEW new \in SUBSET Obs, Dispatched(item, new),
         \/ item.op # "frame" /\ new = {}
         \/ \E gen \in Nat : LET o == NextFrame(gen) IN item = FrameOf(o) /\ new = {o}
  PROVE  Flow' /\ Unqueued' \subseteq Unqueued
<1> DEFINE full == Len(queue.dispatches) = DispatchCapacity
           head == Head(queue.dispatches)
           dropped == IF full /\ head.op = "frame" THEN {head.of} ELSE {}
           q == Append(IF full THEN Tail(queue.dispatches) ELSE queue.dispatches, item)
<1>0. /\ QueueOK /\ Queues /\ Hands /\ BufferOf(buffer)
      /\ Accounts(queue.accepted, buffer.outcomes, buffer.drops, released, queue.submitted)
  BY DEF Flow, Accounting
<1>1. \/ new = {} /\ item \notin FrameItems
      \/ \E o \in Obs : /\ item = FrameOf(o) /\ new = {o} /\ o.seq = queue.submitted + 1
                        /\ o \notin queue.accepted /\ o \notin Queued /\ o \notin Held
  BY FreshFrame DEF FrameItems
<1>2. item \in FrameItems => item \notin ToSet(queue.dispatches)
  <2> SUFFICES ASSUME NEW o \in Obs, item = FrameOf(o), o \notin Queued
               PROVE  item \notin ToSet(queue.dispatches)
    BY <1>1
  <2> QED BY DEF Queued, Frames
<1>3. /\ queue.dispatches \in Seq(Items) /\ Once(queue.dispatches, FrameItems)
      /\ full => queue.dispatches # <<>>
  <2>1. Len(<<>>) = 0
    OBVIOUS
  <2>2. DispatchCapacity # 0
    BY RunnerAssumption
  <2> QED BY <1>0, <2>1, <2>2 DEF QueueOK, Queues
<1>4. /\ q \in Seq(Items) /\ Once(q, FrameItems)
      /\ ToSet(q) \subseteq ToSet(queue.dispatches) \union {item}
      /\ full /\ head \in FrameItems => head \notin ToSet(q) \/ head = item
      /\ full => head \in Items /\ head \in ToSet(queue.dispatches)
      /\ item \in ToSet(q)
      /\ \A y \in ToSet(queue.dispatches) : y \in ToSet(q) \/ (full /\ y = head)
  <2> DEFINE s == queue.dispatches
  <2>1. s \in Seq(Items) /\ Once(s, FrameItems) /\ full \in BOOLEAN /\ (full => s # <<>>)
    BY <1>3
  <2> HIDE DEF full
  <2> QED BY <1>2, <2>1, MadeRoom
<1>5. /\ dropped \subseteq Frames(queue.dispatches)
      /\ \A o \in dropped : FrameOf(o) \notin ToSet(q)
  <2>1. CASE full /\ head.op = "frame"
    <3>1. head \in FrameItems /\ head.of \in Obs /\ head = FrameOf(head.of)
      BY <1>4, <2>1, FramesFacts
    <3>2. head # item
      BY <1>2, <1>4, <2>1, <3>1
    <3> HIDE DEF full, q
    <3> QED BY <1>4, <2>1, <3>1, <3>2 DEF Frames
  <2>2. CASE ~(full /\ head.op = "frame")
    BY <2>2
  <2> QED BY <2>1, <2>2
<1>r. Frames(queue.dispatches) \subseteq Frames(q) \union dropped
  <2> SUFFICES ASSUME NEW o \in Obs, FrameOf(o) \in ToSet(queue.dispatches),
                      FrameOf(o) \notin ToSet(q)
               PROVE  o \in dropped
    BY DEF Frames
  <2>1. full /\ FrameOf(o) = head
    BY <1>4
  <2>2. FrameOf(o).op = "frame" /\ FrameOf(o).of = o
    BY FramesFacts
  <2> QED BY <2>1, <2>2
<1>6. /\ queue'.dispatches = q /\ queue'.observations = queue.observations
      /\ queue'.accepted = (queue.accepted \union new) \ dropped
      /\ queue'.accepting = queue.accepting
      /\ queue'.submitted = queue.submitted + Cardinality(new)
      /\ queue' = [dispatches |-> queue'.dispatches, observations |-> queue'.observations,
                   accepted |-> queue'.accepted, accepting |-> queue'.accepting,
                   submitted |-> queue'.submitted]
  BY <1>0, Zenon DEF Dispatched, QueueOK
<1>7. /\ buffer'.outcomes = buffer.outcomes /\ buffer'.drops = buffer.drops \union dropped
      /\ BufferOf(buffer')
  BY <1>0 DEF Dispatched, BufferOf
<1> HIDE DEF full, head, dropped, q
<1>8. Frames(queue'.dispatches) \subseteq (Frames(queue.dispatches) \union new) \ dropped
  <2> SUFFICES ASSUME NEW o \in Obs, FrameOf(o) \in ToSet(q)
               PROVE  o \in Frames(queue.dispatches) \union new /\ o \notin dropped
    BY <1>6 DEF Frames
  <2>1. CASE FrameOf(o) \in ToSet(queue.dispatches)
    BY <1>5, <2>1 DEF Frames
  <2>2. CASE FrameOf(o) = item
    BY <1>1, <1>5, <2>2, FramesFacts
  <2> QED BY <1>4, <2>1, <2>2
<1>9. /\ dropped \subseteq queue.accepted
      /\ dropped \intersect ToSet(queue.observations) = {}
      /\ new \intersect Queued = {} /\ new \intersect Held = {}
  BY <1>0, <1>1, <1>5 DEF Queues, Queued
<1>10. Queues'
  BY <1>0, <1>4, <1>6, <1>8, <1>9 DEF Queues, Queued
<1>11. /\ queue'.submitted \in Nat /\ queue.submitted <= queue'.submitted
       /\ Accounts(queue'.accepted, buffer'.outcomes, buffer'.drops, released,
                   queue'.submitted)
  <2>1. CASE new = {}
    <3>1. queue'.submitted = queue.submitted
      BY <1>0, <1>6, <2>1, FS_EmptySet DEF QueueOK
    <3>2. queue'.accepted = queue.accepted \ dropped
      BY <1>6, <2>1
    <3>3. dropped \in SUBSET queue.accepted
      BY <1>9
    <3>4. Accounts(queue.accepted \ dropped, buffer.outcomes, buffer.drops \union dropped,
                   released, queue.submitted)
      BY <1>0, <3>3, AccountsDrop
    <3>5. queue.submitted \in Nat
      BY <1>0 DEF QueueOK
    <3> QED BY <1>7, <3>1, <3>2, <3>4, <3>5
  <2>2. ASSUME NEW o \in Obs, new = {o}, o.seq = queue.submitted + 1
        PROVE  /\ queue'.submitted = queue.submitted + 1
               /\ Accounts(queue'.accepted, buffer'.outcomes, buffer'.drops, released,
                           queue'.submitted)
    <3>1. queue'.submitted = queue.submitted + 1
      BY <1>6, <2>2, FS_Singleton
    <3> DEFINE acc == queue.accepted \union {o}
    <3>2. Accounts(acc, buffer.outcomes, buffer.drops, released, queue.submitted + 1)
      BY <1>0, <2>2, AccountsSubmit
    <3>3. dropped \in SUBSET acc /\ queue'.accepted = acc \ dropped
      BY <1>6, <1>9, <2>2
    <3> HIDE DEF acc
    <3>4. Accounts(acc \ dropped, buffer.outcomes, buffer.drops \union dropped,
                   released, queue.submitted + 1)
      BY <3>2, <3>3, AccountsDrop
    <3> QED BY <1>7, <3>1, <3>3, <3>4
  <2>3. queue.submitted \in Nat
    BY <1>0 DEF QueueOK
  <2> QED BY <1>1, <2>1, <2>2, <2>3
<1>12. QueueOK'
  <2>1. queue'.accepted \in SUBSET Obs /\ queue'.observations \in Seq(Obs)
          /\ queue'.accepting \in BOOLEAN /\ queue'.dispatches \in Seq(Items)
    BY <1>0, <1>4, <1>6 DEF QueueOK
  <2> QED BY <1>6, <1>11, <2>1, Zenon DEF QueueOK
<1>13. Hands'
  <2>1. Queued' \subseteq Queued \union new
    BY <1>6, <1>8 DEF Queued
  <2>2. Held' = Held /\ Held \subseteq Obs
    BY <1>0 DEF Held, Hands, Frames, ToSet
  <2>3. \A o \in Held : o.seq <= queue'.submitted
    <3>1. \A o \in Obs : o.seq \in Nat
      BY DEF Obs
    <3> QED BY <1>0, <1>11, <2>2, <3>1 DEF Hands, QueueOK
  <2> QED BY <1>0, <1>9, <2>1, <2>2, <2>3 DEF Hands
<1>14. Unqueued' \subseteq Unqueued
  <2>1. \A o \in new : o \in Frames(q)
    BY <1>1, <1>4 DEF Frames
  <2>2. Queued' = Frames(q) \union ToSet(queue.observations)
    BY <1>6 DEF Queued
  <2> QED BY <1>6, <1>r, <2>1, <2>2 DEF Unqueued, Queued
<1> QED BY <1>7, <1>10, <1>11, <1>12, <1>13, <1>14 DEF Flow, Accounting

\* A frame is queued for the core to come; Hold is told of the one that made room.
LEMMA FlowObserved ==
  ASSUME Shapes, Flow, ObserveFrame
  PROVE  /\ Flow' /\ Unqueued' \subseteq Unqueued
         /\ NextFrame(conf.revision + IF conf.pending = 0 THEN 0 ELSE 1) \in queue'.accepted
<1> DEFINE gen == conf.revision + IF conf.pending = 0 THEN 0 ELSE 1
           o == NextFrame(gen)
           s == queue.observations
           all == Append(s, o)
           full == Len(all) > ObservationCapacity
           evicted == IF full THEN {Head(all)} ELSE {}
           q == IF evicted = {} THEN all ELSE Tail(all)
<1>0. /\ QueueOK /\ Queues /\ Hands /\ BufferOf(buffer) /\ s \in Seq(Obs) /\ Once(s, Obs)
      /\ Accounts(queue.accepted, buffer.outcomes, buffer.drops, released, queue.submitted)
  BY DEF Flow, Accounting, QueueOK, Queues
<1>1. /\ o \in Obs /\ o.seq = queue.submitted + 1
      /\ o \notin queue.accepted /\ o \notin Queued /\ o \notin Held
  <2>1. gen \in Nat
    BY DEF Shapes, ConfOK
  <2> HIDE DEF gen
  <2> QED BY <2>1, FreshFrame
<1>2. /\ queue'.dispatches = queue.dispatches /\ queue'.observations = q
      /\ queue'.accepted = (queue.accepted \union {o}) \ evicted
      /\ queue'.accepting = queue.accepting /\ queue'.submitted = queue.submitted + 1
      /\ queue' = [dispatches |-> queue'.dispatches, observations |-> queue'.observations,
                   accepted |-> queue'.accepted, accepting |-> queue'.accepting,
                   submitted |-> queue'.submitted]
      /\ released' = released \union Sequences(evicted)
      /\ UNCHANGED <<pc, buffer, hand>>
  <2>1. /\ queue' = [queue EXCEPT !.observations = q,
                          !.accepted = (queue.accepted \union {o}) \ evicted,
                          !.submitted = queue.submitted + 1]
        /\ released' = released \union Sequences(evicted)
        /\ UNCHANGED <<pc, buffer, hand>>
    BY Zenon DEF ObserveFrame
  <2> HIDE DEF q, evicted, o
  <2> QED BY <1>0, <2>1, Zenon DEF QueueOK
<1> HIDE DEF o
<1>3. /\ all \in Seq(Obs) /\ Once(all, Obs) /\ ToSet(all) = ToSet(s) \union {o}
  <2>1. o \notin ToSet(s)
    BY <1>1 DEF Queued
  <2> HIDE DEF s
  <2> QED BY <1>0, <1>1, <2>1, OnceAppend
<1>4. all # <<>> /\ (full => Head(all) \in ToSet(s))
  <2>1. /\ Len(s) \in Nat /\ Len(all) = Len(s) + 1 /\ (Len(s) > 0 => Head(all) = s[1])
        /\ ToSet(s) = {s[i] : i \in 1..Len(s)}
    BY <1>0, <1>1 DEF ToSet
  <2>2. Len(<<>>) = 0
    OBVIOUS
  <2>3. ObservationCapacity \in Nat \ {0}
    BY RunnerAssumption
  <2> HIDE DEF all, s
  <2>4. full => Len(s) > 0
    BY <2>1, <2>3
  <2>5. Len(all) # 0
    BY <2>1
  <2> QED BY <2>1, <2>2, <2>4, <2>5
<1>5. /\ q \in Seq(Obs) /\ Once(q, Obs) /\ ToSet(q) = (ToSet(s) \union {o}) \ evicted
      /\ evicted \subseteq ToSet(s)
  <2>1. CASE full
    <3>1. evicted = {Head(all)} /\ q = Tail(all)
      BY <2>1
    <3> HIDE DEF all, full, evicted, q
    <3>2. /\ Tail(all) \in Seq(Obs) /\ Head(all) \in Obs
          /\ ToSet(all) = ToSet(Tail(all)) \union {Head(all)} /\ Once(Tail(all), Obs)
          /\ Head(all) \notin ToSet(Tail(all))
      BY <1>3, <1>4, OnceTail
    <3> QED BY <1>3, <1>4, <2>1, <3>1, <3>2
  <2>2. CASE ~full
    <3>1. evicted = {} /\ q = all
      BY <2>2
    <3> QED BY <1>3, <3>1
  <2> QED BY <2>1, <2>2
<1>6. \/ evicted = {}
      \/ \E x \in queue.accepted : evicted = {x} /\ x # o
  <2>1. \A x \in ToSet(s) : x \in queue.accepted /\ x # o
    BY <1>0, <1>1 DEF Queues, Queued
  <2> HIDE DEF full, all, s
  <2> QED BY <1>5, <2>1
<1> HIDE DEF full, all, evicted, q
<1>7. Accounts(queue'.accepted, buffer'.outcomes, buffer'.drops, released', queue'.submitted)
  <2> DEFINE acc == queue.accepted \union {o}
  <2>1. Accounts(acc, buffer.outcomes, buffer.drops, released, queue.submitted + 1)
    BY <1>0, <1>1, AccountsSubmit
  <2>2. CASE evicted = {}
    <3>1. queue'.accepted = acc /\ released' = released
      BY <1>2, <2>2 DEF Sequences
    <3> QED BY <1>2, <2>1, <3>1
  <2>3. ASSUME NEW x \in queue.accepted, evicted = {x}
        PROVE  Accounts(queue'.accepted, buffer'.outcomes, buffer'.drops, released',
                        queue'.submitted)
    <3>1. queue'.accepted = acc \ {x} /\ released' = released \union {x.seq} /\ x \in acc
      BY <1>2, <2>3 DEF Sequences
    <3> HIDE DEF acc
    <3>2. Accounts(acc \ {x}, buffer.outcomes, buffer.drops, released \union {x.seq},
                   queue.submitted + 1)
      BY <2>1, <3>1, AccountsTell
    <3> QED BY <1>2, <3>1, <3>2
  <2> QED BY <1>6, <2>2, <2>3
<1>8. QueueOK'
  <2>1. /\ queue'.accepted \in SUBSET Obs /\ queue'.observations \in Seq(Obs)
        /\ queue'.accepting \in BOOLEAN /\ queue'.dispatches \in Seq(Items)
        /\ queue'.submitted \in Nat
    BY <1>0, <1>1, <1>2, <1>5 DEF QueueOK
  <2> QED BY <1>2, <2>1, Zenon DEF QueueOK
<1>9. Queues'
  <2>1. Frames(queue.dispatches) \intersect ToSet(s) = {} /\ o \notin Frames(queue.dispatches)
    BY <1>0, <1>1 DEF Queues, Queued
  <2>2. Queued \subseteq queue.accepted /\ Queued = Frames(queue.dispatches) \union ToSet(s)
    BY <1>0 DEF Queues, Queued
  <2>3. Once(queue.dispatches, FrameItems)
    BY <1>0 DEF Queues
  <2> HIDE DEF s
  <2>4. Queued' = Frames(queue.dispatches) \union ToSet(q)
    BY <1>2 DEF Queued
  <2> QED BY <1>2, <1>5, <2>1, <2>2, <2>3, <2>4 DEF Queues
<1>10. Hands'
  <2>1. Queued' \subseteq Queued \union {o}
    BY <1>2, <1>5 DEF Queued
  <2>2. Held' = Held /\ Held \subseteq Obs
    BY <1>0, <1>2 DEF Held, Hands, Frames, ToSet
  <2>3. \A p \in Held : p.seq <= queue'.submitted
    <3>1. \A p \in Obs : p.seq \in Nat
      BY DEF Obs
    <3> QED BY <1>0, <1>2, <2>2, <3>1 DEF Hands, QueueOK
  <2> QED BY <1>0, <1>1, <1>2, <2>1, <2>2, <2>3 DEF Hands
<1>11. Unqueued' \subseteq Unqueued
  <2>1. Queued' = Frames(queue.dispatches) \union ToSet(q)
    BY <1>2 DEF Queued
  <2>2. Queued = Frames(queue.dispatches) \union ToSet(s)
    BY DEF Queued
  <2> HIDE DEF s
  <2> QED BY <1>2, <1>5, <2>1, <2>2 DEF Unqueued
<1>12. o \in queue'.accepted
  BY <1>2, <1>6
<1> QED BY <1>0, <1>2, <1>7, <1>8, <1>9, <1>10, <1>11, <1>12 DEF Flow, Accounting, o

LEMMA FlowHanding ==
  ASSUME Shapes, Flow, Handing PROVE Flow' /\ Unqueued' \subseteq Unqueued
<1>1. CASE CompleteFrame
  <2> DEFINE o == NextFrame(conf.revision)
             item == [op |-> "frame", of |-> o]
  <2>1. Dispatched(item, {o}) /\ UNCHANGED <<pc, hand, released>>
    BY <1>1, Zenon DEF CompleteFrame
  <2>2. conf.revision \in Nat
    BY DEF Shapes, ConfOK
  <2>3. o \in Obs /\ item = FrameOf(o) /\ item \in Items
    BY <2>2, FreshFrame DEF FrameOf, Items
  <2>4. \E gen \in Nat : LET p == NextFrame(gen) IN item = FrameOf(p) /\ {o} = {p}
    BY <2>2, <2>3
  <2>5. {o} \in SUBSET Obs
    BY <2>3
  <2> HIDE DEF o, item
  <2> QED BY <2>1, <2>3, <2>4, <2>5, FlowDispatched
<1>2. CASE ObserveFrame
  BY <1>2, FlowObserved
<1>3. CASE SetOutput
  <2> DEFINE item == [op |-> "output"]
  <2>1. Dispatched(item, {}) /\ UNCHANGED <<pc, hand, released>>
    BY <1>3, Zenon DEF SetOutput
  <2>2. item \in Items /\ item.op # "frame"
    BY DEF Items
  <2> HIDE DEF item
  <2> QED BY <2>1, <2>2, FlowDispatched
<1>4. CASE AskFit
  <2>1. UNCHANGED <<queue, buffer, released, hand, pc>>
    BY <1>4, Zenon DEF AskFit, queueVars
  <2>2. Unqueued' = Unqueued
    BY <2>1 DEF Unqueued, Queued
  <2> QED BY <2>1, <2>2, FlowKept
<1> QED BY <1>1, <1>2, <1>3, <1>4 DEF Handing

\* The teardown answers every frame that waits, or drops it.
LEMMA FlowTearing ==
  ASSUME Shapes, Flow, Tearing PROVE Flow'
<1>0. /\ PcOK /\ QueueOK /\ Queues /\ Hands /\ BufferOf(buffer)
      /\ Accounts(queue.accepted, buffer.outcomes, buffer.drops, released, queue.submitted)
  BY DEF Shapes, Flow, Accounting
<1>1. UNCHANGED hand /\ (pc'.worker = "learn" => pc.worker = "learn")
  <2>1. UNCHANGED hand
    BY Zenon DEF Tearing, Stop, Joined, JoinTimesOut, Rotate, StopFit, NoStopFit, Finish
  <2>2. (\E there : Goto("control", there)) \/ pc' = [pc EXCEPT !.control = "finish", !.fit = "next"]
    BY Zenon DEF Tearing, Stop, Joined, JoinTimesOut, Rotate, StopFit, NoStopFit, Finish
  <2> QED BY <1>0, <2>1, <2>2 DEF Goto, PcOK, Places4
<1>2. CASE Stop
  <2>1. /\ queue' = [queue EXCEPT !.accepting = FALSE] /\ UNCHANGED <<buffer, released>>
    BY <1>2 DEF Stop
  <2>2. /\ QueueOK'
        /\ UNCHANGED <<queue.dispatches, queue.observations, queue.accepted, queue.submitted>>
    BY <1>0, <2>1 DEF QueueOK
  <2> QED BY <1>0, <1>1, <2>1, <2>2 DEF Flow, Queues, Queued, Hands, Held, Accounting
<1>3. CASE JoinTimesOut
  <2> DEFINE q == [queue EXCEPT !.observations = <<>>, !.dispatches = <<>>, !.accepted = {}]
  <2>1. /\ queue' = q /\ buffer' = [buffer EXCEPT !.drops = buffer.drops \union queue.accepted]
        /\ UNCHANGED released
    BY <1>3, Zenon DEF JoinTimesOut
  <2>2. /\ q.observations = <<>> /\ q.dispatches = <<>> /\ q.accepted = {}
        /\ q.submitted = queue.submitted
        /\ q \in [dispatches : Seq(Items), observations : Seq(Obs),
                  accepted : SUBSET Obs, accepting : BOOLEAN, submitted : Nat]
    <3>1. <<>> \in Seq(Items) /\ <<>> \in Seq(Obs) /\ {} \in SUBSET Obs
      OBVIOUS
    <3> QED BY <1>0, <3>1, Zenon DEF QueueOK
  <2>3. /\ buffer'.outcomes = buffer.outcomes
        /\ buffer'.drops = buffer.drops \union queue.accepted /\ BufferOf(buffer')
    BY <1>0, <2>1 DEF BufferOf
  <2> HIDE DEF q
  <2>4. Queued' = {} /\ Queues'
    BY <2>1, <2>2, FramesFacts DEF Queues, Queued, ToSet, Once
  <2>5. Accounts({}, buffer.outcomes, buffer.drops \union queue.accepted, released,
                 queue.submitted)
    <3> DEFINE acc == queue.accepted
    <3>1. Accounts(acc, buffer.outcomes, buffer.drops, released, queue.submitted)
            /\ acc \in SUBSET acc
      BY <1>0
    <3> HIDE DEF acc
    <3>2. Accounts(acc \ acc, buffer.outcomes, buffer.drops \union acc, released,
                   queue.submitted)
      BY <3>1, AccountsDrop
    <3>3. acc \ acc = {}
      OBVIOUS
    <3> QED BY <3>2, <3>3 DEF acc
  <2>6. Hands'
    BY <1>0, <1>1, <2>1, <2>2, <2>4 DEF Hands, Held
  <2> QED BY <2>1, <2>2, <2>3, <2>4, <2>5, <2>6 DEF Flow, QueueOK, Accounting
<1>4. CASE Rotate
  <2> DEFINE first == Reconciled(buffer)
             rest == Without(first, hold.adopted)
             gens == ({conf.revision} \union {w.gen : w \in rest}) \ {hold.adopted}
             retired == RetireContext(Left(buffer), hold.adopted)
             bound == [retired EXCEPT !.contexts = @ \union gens]
             late == Sequences(DrainedOutcomes(bound) \union DrainedDrops(bound))
  <2>1. /\ buffer' = IF rest = {} THEN bound ELSE Drained(bound)
        /\ released' = released \union Collected(buffer)
                           \union (IF rest = {} THEN {} ELSE late)
        /\ UNCHANGED queue
    BY <1>4, Zenon DEF Rotate
  <2> HIDE DEF rest
  <2> DEFINE then == released \union Collected(buffer)
  <2>2. /\ BufferOf(Left(buffer))
        /\ Accounts(queue.accepted, Left(buffer).outcomes, Left(buffer).drops, then,
                    queue.submitted)
    BY <1>0, CollectedKeeps
  <2>3. /\ bound.outcomes = Left(buffer).outcomes /\ bound.drops = Left(buffer).drops
        /\ BufferOf(bound)
    BY <2>2 DEF RetireContext, BufferOf
  <2>4. /\ late = Sequences(DrainedOutcomes(bound) \union DrainedDrops(bound))
    OBVIOUS
  <2> HIDE DEF bound, then, late
  <2>5. Accounts(queue.accepted, bound.outcomes, bound.drops, then, queue.submitted)
    BY <2>2, <2>3
  <2>6. /\ BufferOf(Drained(bound))
        /\ Accounts(queue.accepted, Drained(bound).outcomes, Drained(bound).drops,
                    then \union late, queue.submitted)
    BY <2>3, <2>4, <2>5, AccountsDrain
  <2>7. /\ BufferOf(buffer')
        /\ Accounts(queue.accepted, buffer'.outcomes, buffer'.drops, released',
                    queue.submitted)
    <3>1. CASE rest = {}
      BY <2>1, <2>3, <2>5, <3>1 DEF then
    <3>2. CASE rest # {}
      BY <2>1, <2>6, <3>2 DEF then
    <3> QED BY <3>1, <3>2
  <2> QED BY <1>0, <1>1, <2>1, <2>7 DEF Flow, QueueOK, Queues, Queued, Hands, Held, Accounting
<1>5. CASE Joined \/ StopFit \/ NoStopFit \/ Finish
  <2>1. UNCHANGED <<queue, buffer, released>>
    BY <1>5, Zenon DEF Joined, StopFit, NoStopFit, Finish, queueVars
  <2> QED BY <1>1, <2>1, FlowKept
<1> QED BY <1>2, <1>3, <1>4, <1>5 DEF Tearing

\* A frame is at every moment in one place: with the worker, learned, dropped, or
\* told to Hold; none is lost and none is answered twice, whatever fills up, is
\* evicted, stops or times out.
THEOREM RunnerAccounts == Spec => []Accounted
<1>1. Init => Flow
  BY FlowInit
<1>2. RunnerInv /\ Flow /\ [Next]_vars => Flow'
  <2>1. ASSUME RunnerInv, Flow, Next PROVE Flow'
    BY <2>1, RunnerSteps, FlowWorker, FlowOther, FlowControl, FlowHanding, FlowTearing
       DEF RunnerInv
  <2>2. ASSUME RunnerInv, Flow, UNCHANGED vars PROVE Flow'
    BY <2>2, FlowKept DEF vars, queueVars
  <2> QED BY <2>1, <2>2
<1>3. Flow => Accounted
  BY AccountsEach DEF Flow, Accounting
<1> QED BY <1>1, <1>2, <1>3, RunnerInvariant, PTL DEF Spec

-----------------------------------------------------------------------------
(* What is left when the threads have stopped.                             *)

\* A worker that has stopped has left nothing undone: once it saw the stop nothing
\* new is dispatched, and it goes on until no observation waits.
Emptied ==
  /\ Unqueued \subseteq Held
  /\ pc.worker \notin {"seed", "serve"} => hand.work = <<>>
  /\ pc.worker # "learn" => hand.batch = <<>>
  /\ hand.stopping => queue.dispatches = <<>>
  /\ hand.stopping /\ pc.worker = "learn" /\ hand.handoff => conf.pending # 0
  /\ hand.stopping /\ pc.worker = "install" /\ conf.pending = 0 => queue.observations = <<>>
  /\ pc.worker \in {"leave"} \union Last3
        => queue.dispatches = <<>> /\ queue.observations = <<>>
  /\ pc.worker \in {"leave"} \union Last3 => pc.control \in Teardown
  /\ pc.control = "rotate" => queue.accepted = {}

LEMMA EmptiedInit == Init => Emptied
BY DEF Init, Emptied, Unqueued, EmptyHand, Last3

\* What a frame of the worker's leaves when it is answered.
LEMMA EmptiedAnswer ==
  ASSUME Flow, Emptied, NEW o \in Held, NEW learned \in BOOLEAN, Completed(o, learned),
         UNCHANGED released, Held \ {o} \subseteq Held'
  PROVE  /\ Unqueued' \subseteq Held'
         /\ UNCHANGED <<queue.dispatches, queue.observations>>
         /\ queue.accepted = {} => queue'.accepted = {}
<1>1. /\ UNCHANGED <<queue.dispatches, queue.observations>>
      /\ queue'.accepted = queue.accepted \ {o}
  BY CompletedKeeps
<1>2. Queued' = Queued
  BY <1>1 DEF Queued
<1> QED BY <1>1, <1>2 DEF Emptied, Unqueued

LEMMA EmptiedWorker ==
  ASSUME Shapes, Stopping, Flow, Emptied, Worker PROVE Emptied'
<1>0. PcOK /\ HandOK /\ QueueOK /\ Queues /\ Hands /\ LifeOK /\ ConfOK /\ SeedingOK
  BY DEF Shapes, Flow
<1>r. pc'.control = pc.control
  <2>1. (\E there : Goto("worker", there)) \/ UNCHANGED pc
    BY Zenon DEF Worker, Take, ApplySeed, Serve, Gather, Learn, Install, Release, Advance,
       PutOff, Solve, Leave
  <2> QED BY <1>0, <2>1 DEF Goto, PcOK, Places4
<1>s. hand.stopping \/ pc.worker = "leave" => pc.control \in Teardown
  BY DEF Stopping
<1>e. hand.work = <<>> /\ hand.batch = <<>> => Unqueued = {}
  BY FramesFacts DEF Emptied, Held, ToSet
<1>1. CASE Take
  <2>1. /\ queue' = [queue EXCEPT !.dispatches = <<>>]
        /\ hand' = [EmptyHand EXCEPT !.stopping = life.stop, !.work = queue.dispatches,
                                     !.seed = seeding.request]
        /\ pc.worker = "take" /\ \E p \in {"seed", "serve"} : Goto("worker", p)
    BY <1>1, Zenon DEF Take, At
  <2>2. /\ UNCHANGED <<queue.observations, queue.accepted>> /\ queue'.dispatches = <<>>
        /\ hand'.work = queue.dispatches /\ hand'.batch = <<>>
        /\ pc'.worker \in {"seed", "serve"}
    BY <1>0, <2>1 DEF QueueOK, EmptyHand, Goto, PcOK, Places4
  <2>3. queue.accepted \subseteq Queued
    BY <1>e, <2>1 DEF Emptied, Unqueued
  <2>4. Unqueued' \subseteq Held'
    BY <2>2, <2>3, FramesFacts DEF Unqueued, Queued, Held, ToSet
  <2> QED BY <1>r, <2>2, <2>4 DEF Emptied, Last3
<1>2. CASE ApplySeed
  <2>1. /\ UNCHANGED <<queue, conf>> /\ hand' = [hand EXCEPT !.seed = 0]
        /\ pc.worker = "seed" /\ Goto("worker", "serve")
    BY <1>2, Zenon DEF ApplySeed, At, queueVars
  <2>2. /\ UNCHANGED <<hand.work, hand.batch, hand.stopping>>
        /\ pc'.worker = "serve"
    BY <1>0, <2>1 DEF HandOK, Goto, PcOK, Places4
  <2> QED BY <1>r, <2>1, <2>2 DEF Emptied, Unqueued, Queued, Held, Last3
<1>3. CASE Serve
  <2> DEFINE item == Head(hand.work)
  <2>1. /\ Tail(hand.work) \in Seq(Items) /\ item \in Items
        /\ ToSet(hand.work) = ToSet(Tail(hand.work)) \union {item}
    <3>1. hand.work \in Seq(Items) /\ hand.work # <<>> /\ Once(hand.work, {})
      BY <1>0, <1>3 DEF Serve, Hands, Once
    <3> QED BY <3>1, OnceTail
  <2>2. /\ hand'.work = Tail(hand.work) /\ pc.worker = "serve"
        /\ UNCHANGED <<hand.batch, hand.stopping, pc, conf, released>>
    BY <1>0, <1>3 DEF Serve, At, HandOK
  <2>3. CASE item.op = "output"
    <3>1. UNCHANGED queue
      BY <1>3, <2>3 DEF Serve
    <3>2. Held' = Held
      BY <2>1, <2>2, <2>3, FramesFacts DEF Held, Frames
    <3> QED BY <2>2, <3>1, <3>2 DEF Emptied, Unqueued, Queued, Last3
  <2>4. CASE item.op # "output"
    <3>1. item.op = "frame"
      BY <2>1, <2>4 DEF Items
    <3>2. item.of \in Obs /\ item = FrameOf(item.of)
      BY <2>1, <3>1, FramesFacts
    <3>3. item.of \in Held /\ Held \ {item.of} \subseteq Held'
      BY <2>1, <2>2, <3>2, FramesFacts DEF Held, Frames
    <3>4. PICK learned \in BOOLEAN : Completed(item.of, learned)
      BY <1>3, <2>4 DEF Serve
    <3>5. /\ Unqueued' \subseteq Held' /\ UNCHANGED <<queue.dispatches, queue.observations>>
          /\ queue.accepted = {} => queue'.accepted = {}
      BY <2>2, <3>3, <3>4, EmptiedAnswer
    <3> QED BY <2>2, <3>5 DEF Emptied, Last3
  <2> QED BY <2>3, <2>4
<1>4. CASE Gather
  <2> DEFINE all == queue.observations
             mine == {o \in ToSet(all) : conf.pending = 0 \/ o.gen = conf.revision}
  <2>1. /\ queue' = [queue EXCEPT !.observations = Those(all, ToSet(all) \ mine)]
        /\ \E u : hand' = [hand EXCEPT !.batch = Those(all, mine),
                                       !.handoff = conf.pending # 0, !.update = u]
        /\ Goto("worker", IF mine # {} THEN "learn" ELSE "install")
        /\ UNCHANGED conf /\ hand.work = <<>> /\ pc.worker = "serve"
    BY <1>4, Zenon DEF Gather, At
  <2>2. /\ Those(all, mine) \in Seq(Obs) /\ ToSet(Those(all, mine)) = mine
        /\ Those(all, ToSet(all) \ mine) \in Seq(Obs)
        /\ ToSet(Those(all, ToSet(all) \ mine)) = ToSet(all) \ mine
    <3>1. ASSUME NEW set
          PROVE  /\ Those(all, set) \in Seq(Obs)
                 /\ ToSet(Those(all, set)) = ToSet(all) \intersect set
      BY <1>0, ThoseType DEF QueueOK
    <3>2. mine \subseteq ToSet(all)
      OBVIOUS
    <3> HIDE DEF all, mine
    <3>3. ToSet(all) \intersect mine = mine
            /\ ToSet(all) \intersect (ToSet(all) \ mine) = ToSet(all) \ mine
      BY <3>2
    <3> QED BY <3>1, <3>3
  <2>3. conf.pending = 0 => mine = ToSet(all)
    OBVIOUS
  <2> HIDE DEF mine
  <2>4. /\ queue'.observations = Those(all, ToSet(all) \ mine)
        /\ UNCHANGED <<queue.dispatches, queue.accepted>>
        /\ hand'.work = <<>> /\ hand'.batch = Those(all, mine)
        /\ hand'.stopping = hand.stopping /\ hand'.handoff = (conf.pending # 0)
    BY <1>0, <2>1 DEF QueueOK, HandOK
  <2>5. pc'.worker = (IF mine # {} THEN "learn" ELSE "install")
    BY <1>0, <2>1 DEF Goto, PcOK, Places4
  <2>6. \A s \in Seq(Obs) : ToSet(s) = {} => s = <<>>
    <3> SUFFICES ASSUME NEW s \in Seq(Obs), ToSet(s) = {} PROVE s = <<>>
      OBVIOUS
    <3>1. Len(s) \in Nat /\ \A k \in 1..Len(s) : s[k] \in ToSet(s)
      BY DEF ToSet
    <3>2. Len(s) = 0
      BY <3>1
    <3> QED BY <3>2
  <2>7. Unqueued = {}
    BY <1>e, <2>1 DEF Emptied
  <2>8. Unqueued' \subseteq Held'
    BY <2>2, <2>4, <2>7 DEF Unqueued, Queued, Held
  <2>9. pc'.worker # "learn" => hand'.batch = <<>>
    BY <2>2, <2>4, <2>5, <2>6
  <2>10. conf.pending = 0 => queue'.observations = <<>>
    <3>1. conf.pending = 0 => ToSet(all) \ mine = {}
      BY <2>3
    <3> QED BY <2>2, <2>4, <2>6, <3>1
  <2>11. hand'.handoff => conf'.pending # 0
    BY <2>1, <2>4
  <2> QED BY <1>r, <2>1, <2>4, <2>5, <2>8, <2>9, <2>10, <2>11 DEF Emptied, Last3
<1>5. CASE Learn
  <2> DEFINE o == Head(hand.batch)
  <2>0. hand.batch # <<>> /\ hand.batch \in Seq(Obs) /\ pc.worker = "learn"
    BY <1>0, <1>5 DEF Learn, At, Hands
  <2>1. /\ Tail(hand.batch) \in Seq(Obs) /\ o \in Obs
        /\ Len(Tail(hand.batch)) = Len(hand.batch) - 1
        /\ ToSet(hand.batch) = ToSet(Tail(hand.batch)) \union {o}
    <3>1. Once(hand.batch, {})
      BY DEF Once
    <3> QED BY <2>0, <3>1, OnceTail
  <2>2. /\ hand'.batch = Tail(hand.batch)
        /\ UNCHANGED <<hand.work, hand.stopping, hand.handoff, conf, released>>
        /\ \/ pc' = pc /\ Len(hand.batch) > 1
           \/ /\ pc'.worker = (IF hand.handoff THEN "install" ELSE "serve")
              /\ ~(Len(hand.batch) > 1)
    BY <1>0, <1>5 DEF Learn, HandOK, Goto, PcOK, Places4
  <2>3. PICK learned \in BOOLEAN : Completed(o, learned)
    BY <1>5 DEF Learn
  <2>4. o \in Held /\ Held \ {o} \subseteq Held'
    BY <2>1, <2>2 DEF Held
  <2>5. /\ Unqueued' \subseteq Held' /\ UNCHANGED <<queue.dispatches, queue.observations>>
        /\ queue.accepted = {} => queue'.accepted = {}
    BY <2>2, <2>3, <2>4, EmptiedAnswer
  <2>6. pc'.worker # "learn" => hand'.batch = <<>>
    <3> DEFINE t == Tail(hand.batch)
    <3>1. t \in Seq(Obs) /\ Len(t) = Len(hand.batch) - 1 /\ Len(hand.batch) \in Nat
      BY <2>0, <2>1
    <3> HIDE DEF t, o
    <3>2. t \in Seq(Obs) /\ ~(Len(hand.batch) > 1) => t = <<>>
      <4>1. Len(t) \in Nat /\ (Len(t) = 0 => t = <<>>)
        <5> SUFFICES ASSUME t \in Seq(Obs) PROVE Len(t) \in Nat /\ (Len(t) = 0 => t = <<>>)
          BY <3>1
        <5> QED OBVIOUS
      <4> DEFINE n == Len(hand.batch)
                 m == Len(t)
      <4>2. n \in Nat /\ m \in Nat /\ m = n - 1
        BY <3>1, <4>1
      <4> HIDE DEF n, m
      <4>3. ~(n > 1) => m = 0
        BY <4>2
      <4> QED BY <4>1, <4>3 DEF n, m
    <3> QED BY <2>0, <2>2, <3>1, <3>2 DEF t
  <2>7. hand.stopping /\ hand.handoff => conf.pending # 0
    BY <2>0 DEF Emptied
  <2>8. hand.work = <<>> /\ (hand.stopping => queue.dispatches = <<>>)
    BY <2>0 DEF Emptied
  <2> HIDE DEF o
  <2>9. /\ pc'.worker \in {"learn", "install", "serve"}
        /\ pc'.worker = "install" => hand.handoff
        /\ HandOK
    BY <1>0, <2>0, <2>2
  <2> QED BY <1>r, <2>2, <2>5, <2>6, <2>7, <2>8, <2>9 DEF Emptied, Last3
<1>6. CASE Install \/ Advance
  <2>1. /\ UNCHANGED queue
        /\ (\E c : hand' = [hand EXCEPT !.retired = c]) \/ UNCHANGED hand
        /\ pc.worker = "install" /\ \E p \in {"release", "solve"} : Goto("worker", p)
    BY <1>6, Zenon DEF Install, Advance, At, queueVars
  <2>2. /\ UNCHANGED <<queue, hand.work, hand.batch, hand.stopping>>
        /\ pc'.worker \in {"release", "solve"}
    BY <1>0, <1>6, <2>1 DEF HandOK, Goto, PcOK, Places4, Install, Advance, queueVars
  <2> QED BY <1>r, <2>1, <2>2 DEF Emptied, Unqueued, Queued, Held, Last3
<1>7. CASE Release \/ PutOff \/ Solve
  <2>1. /\ UNCHANGED queue /\ hand' = EmptyHand
        /\ \/ pc.worker = "release" /\ Goto("worker", "take")
           \/ /\ pc.worker = "install" /\ conf.pending = 0
              /\ Goto("worker", IF hand.stopping THEN "leave" ELSE "take")
           \/ /\ pc.worker = "solve"
              /\ Goto("worker", IF hand.stopping /\ queue.observations = <<>>
                                THEN "leave" ELSE "take")
    BY <1>7, Zenon DEF Release, PutOff, Solve, At, queueVars
  <2>2. /\ hand'.work = <<>> /\ hand'.batch = <<>> /\ ~hand'.stopping
        /\ pc'.worker \in {"take", "leave"}
        /\ pc'.worker = "leave" => hand.stopping /\ queue.observations = <<>>
    BY <1>0, <2>1 DEF EmptyHand, Goto, PcOK, Places4, Emptied
  <2>3. Unqueued' = {}
    <3>1. Unqueued' = Unqueued
      BY <2>1 DEF Unqueued, Queued
    <3> QED BY <1>e, <2>1, <3>1 DEF Emptied
  <2> QED BY <1>r, <1>s, <2>1, <2>2, <2>3 DEF Emptied, Last3
<1>8. CASE Leave
  <2>1. /\ UNCHANGED <<queue, hand, conf>>
        /\ pc.worker = "leave" /\ \E p \in Last3 : Goto("worker", p)
    BY <1>8, Zenon DEF Leave, At, queueVars, Last3
  <2>2. pc'.worker \in Last3
    BY <1>0, <2>1 DEF Goto, PcOK, Places4
  <2> QED BY <1>r, <1>s, <2>1, <2>2 DEF Emptied, Unqueued, Queued, Held, Last3
<1> QED BY <1>1, <1>2, <1>3, <1>4, <1>5, <1>6, <1>7, <1>8 DEF Worker

LEMMA EmptiedOther ==
  ASSUME Shapes, Emptied, Closing \/ Learner \/ Fitting PROVE Emptied'
<1>0. PcOK
  BY DEF Shapes
<1>1. UNCHANGED <<queue, hand, conf>>
  BY Zenon DEF Closing, CloseBegin, CloseEnd, Learner, Fitting, FitNext, FitSchedule, FitEnds,
     FitEnding, FitLeaves, FitFails, Look, Schedule, Poll, LearnerExit, queueVars
<1>2. /\ pc'.worker = pc.worker \/ (pc.worker \in Last3 /\ pc'.worker \in Last3)
      /\ pc'.control = pc.control \/ (pc.control \in Last3 /\ pc'.control \in Last3)
  BY <1>0 DEF Closing, CloseBegin, CloseEnd, Learner, Fitting, FitNext, FitSchedule, FitEnds,
     FitEnding, FitLeaves, FitFails, Look, Schedule, Poll, LearnerExit, Goto, At, PcOK, Places4,
     Last3
<1>3. pc.control \in Last3 /\ pc'.control \in Last3
        => pc'.control \in Teardown /\ pc'.control # "rotate"
  BY DEF Last3, Teardown
<1>4. Unqueued' = Unqueued /\ Held' = Held
  BY <1>1 DEF Unqueued, Queued, Held
<1> QED BY <1>1, <1>2, <1>3, <1>4 DEF Emptied, Last3

LEMMA EmptiedControl ==
  ASSUME Shapes, Flow, Stopping, Emptied, Ticking \/ Adoption \/ Seeding \/ Building \/ Handing
  PROVE  Emptied'
<1>0. PcOK /\ ConfOK /\ CoresOK
  BY DEF Shapes
<1>1. /\ UNCHANGED hand
      /\ UNCHANGED conf \/ conf' = [conf EXCEPT !.pending = Len(cores.kind) + 1]
      /\ pc.control \in Before
      /\ (\E there \in Before : Goto("control", there)) \/ UNCHANGED pc
  <2>1. /\ UNCHANGED hand
        /\ UNCHANGED conf \/ conf' = [conf EXCEPT !.pending = Len(cores.kind) + 1]
    BY Zenon DEF Ticking, Tick, Updated, Adopting, NothingToAdopt, Adoption, Retire, Bind, Seeding,
       Seed, SeedFailed, Run, Building, Reconfigure, Handing, CompleteFrame, ObserveFrame,
       SetOutput, AskFit
  <2>2. /\ pc.control \in Before
        /\ (\E there \in Before : Goto("control", there)) \/ UNCHANGED pc
    <3>1. hold.then \in {"update", "seed"}
      BY DEF Shapes, HoldOK
    <3>2. CASE Handing
      BY <3>2 DEF Handing, CompleteFrame, ObserveFrame, SetOutput, AskFit, Running, At, Before
    <3>3. CASE Ticking \/ Adoption \/ Seeding \/ Building
      BY <3>1, <3>3 DEF Ticking, Tick, Updated, Adopting, NothingToAdopt, Adoption, Retire, Bind,
         Seeding, Seed, SeedFailed, Ready, Run, Building, Reconfigure, At, Before
    <3> QED BY <3>2, <3>3
  <2> QED BY <2>1, <2>2
<1>2. pc'.worker = pc.worker /\ pc'.control \in Before
  BY <1>0, <1>1 DEF Goto, PcOK, Places4
<1>3. conf' = conf \/ conf'.pending # 0
  BY <1>0, <1>1 DEF ConfOK, CoresOK
<1>4. /\ pc.worker \notin {"leave"} \union Last3 /\ ~hand.stopping
      /\ pc'.control # "rotate"
  BY <1>1, <1>2 DEF Emptied, Stopping, Before, Teardown
<1>5. Unqueued' \subseteq Unqueued
  <2>1. CASE Handing
    BY <2>1, FlowHanding
  <2>2. CASE Ticking \/ Adoption \/ Seeding \/ Building
    <3>1. UNCHANGED queue
      BY <2>2, Zenon DEF Ticking, Tick, Updated, Adopting, NothingToAdopt, Adoption, Retire, Bind,
         Seeding, Seed, SeedFailed, Run, Building, Reconfigure, queueVars
    <3> QED BY <3>1 DEF Unqueued, Queued
  <2> QED BY <2>1, <2>2
<1> QED BY <1>1, <1>2, <1>4, <1>5 DEF Emptied, Held

LEMMA EmptiedTearing ==
  ASSUME Shapes, Flow, Stopping, Emptied, Tearing PROVE Emptied'
<1>0. PcOK /\ QueueOK
  BY DEF Shapes, Flow
<1>1. UNCHANGED <<hand, conf>>
  BY Zenon DEF Tearing, Stop, Joined, JoinTimesOut, Rotate, StopFit, NoStopFit, Finish
<1>2. Held' = Held
  BY <1>1 DEF Held
<1>3. CASE Stop
  <2>1. queue' = [queue EXCEPT !.accepting = FALSE] /\ Goto("control", "join")
    BY <1>3 DEF Stop
  <2>2. UNCHANGED <<queue.dispatches, queue.observations, queue.accepted>>
    BY <1>0, <2>1 DEF QueueOK
  <2>3. pc'.worker = pc.worker /\ pc'.control = "join"
    BY <1>0, <2>1 DEF Goto, PcOK, Places4
  <2> QED BY <1>1, <1>2, <2>2, <2>3 DEF Emptied, Unqueued, Queued, Teardown
<1>4. CASE Joined
  <2>1. UNCHANGED queue /\ Goto("control", "rotate") /\ pc.worker = "done"
    BY <1>4, Zenon DEF Joined, At, queueVars
  <2>2. pc'.worker = pc.worker /\ pc'.control = "rotate"
    BY <1>0, <2>1 DEF Goto, PcOK, Places4
  <2>3. queue.accepted = {}
    <3>1. /\ queue.dispatches = <<>> /\ queue.observations = <<>>
          /\ hand.work = <<>> /\ hand.batch = <<>>
      BY <2>1 DEF Emptied, Last3
    <3>2. Queued = {} /\ Held = {}
      BY <3>1, FramesFacts DEF Queued, Held, ToSet
    <3> QED BY <3>2 DEF Emptied, Unqueued
  <2> QED BY <1>1, <1>2, <2>1, <2>2, <2>3 DEF Emptied, Unqueued, Queued, Teardown
<1>5. CASE JoinTimesOut
  <2>1. /\ queue' = [queue EXCEPT !.observations = <<>>, !.dispatches = <<>>, !.accepted = {}]
        /\ Goto("control", "rotate")
    BY <1>5, Zenon DEF JoinTimesOut
  <2>2. queue'.observations = <<>> /\ queue'.dispatches = <<>> /\ queue'.accepted = {}
    BY <1>0, <2>1 DEF QueueOK
  <2>3. pc'.worker = pc.worker /\ pc'.control = "rotate"
    BY <1>0, <2>1 DEF Goto, PcOK, Places4
  <2> QED BY <1>1, <1>2, <2>2, <2>3 DEF Emptied, Unqueued, Teardown
<1>6. CASE Rotate \/ StopFit \/ NoStopFit \/ Finish
  <2>1. UNCHANGED queue
    BY <1>6, Zenon DEF Rotate, StopFit, NoStopFit, Finish, queueVars
  <2>2. /\ pc'.worker = pc.worker /\ pc'.control \in {"fit", "finish", "close", "done"}
    BY <1>0, <1>6 DEF Rotate, StopFit, NoStopFit, Finish, Goto, PcOK, Places4
  <2>3. Unqueued' = Unqueued
    BY <2>1 DEF Unqueued, Queued
  <2> QED BY <1>1, <1>2, <2>1, <2>2, <2>3 DEF Emptied, Teardown
<1> QED BY <1>3, <1>4, <1>5, <1>6 DEF Tearing


-----------------------------------------------------------------------------
(* What Hold still waits for.                                              *)
Waiting == [seq : Nat, gen : Nat, answered : BOOLEAN]
Frame(w) == [seq |-> w.seq, gen |-> w.gen]
Collecting == (Before \ {"bind"}) \union {"join", "rotate"}

\* A frame without an answer is somewhere, and Hold can collect the answers to those
\* of the generation it adopted.
Waits ==
  /\ hold.waiting \subseteq Waiting
  /\ \A w \in hold.waiting : w.answered \/ Frame(w) \in InFlight
  /\ pc.control \in Collecting => hold.adopted \in buffer.contexts
  /\ hold.unanswered = {}

LEMMA WaitsInit == Init => Waits
BY DEF Init, Waits, BindContext, EmptyBuffer

LEMMA WaitsKept ==
  ASSUME Waits, UNCHANGED <<hold, InFlight, buffer.contexts>>,
         pc'.control \in Collecting => pc.control \in Collecting
  PROVE  Waits'
BY DEF Waits

\* A collected frame is answered or forgotten; the others stay, and are of
\* generations whose answers are not handed out.
LEMMA Collects ==
  ASSUME NEW acc, NEW b, BufferOf(b), b.outcomes \in Seq(Obs), hold.waiting \subseteq Waiting,
         \A w \in hold.waiting :
            w.answered \/ Frame(w) \in acc \union ToSet(b.outcomes) \union b.drops
  PROVE  /\ Reconciled(b) \subseteq Waiting /\ Left(b).contexts = b.contexts
         /\ \A w \in Reconciled(b) : \/ w.answered \/ Frame(w) \in acc
                                     \/ /\ w.gen \notin b.contexts
                                        /\ Frame(w) \in ToSet(Left(b).outcomes) \union Left(b).drops
<1> DEFINE learned == Sequences(DrainedOutcomes(b))
           dropped == Sequences(DrainedDrops(b))
           kept == {w \in hold.waiting : w.seq \notin dropped}
           Answer(w) == [w EXCEPT !.answered = w.answered \/ w.seq \in learned]
<1>1. \A v \in Reconciled(b) : \E w \in hold.waiting : w.seq \notin dropped /\ v = Answer(w)
  BY Zenon DEF Reconciled, Flushed
<1>2. \A w \in Waiting : /\ Answer(w) \in Waiting /\ Frame(Answer(w)) = Frame(w)
                         /\ Answer(w).gen = w.gen
                         /\ Answer(w).answered <=> w.answered \/ w.seq \in learned
  BY DEF Waiting, Frame
<1>3. CASE hold.waiting = {}
  BY <1>1, <1>3 DEF Left
<1>4. CASE hold.waiting # {}
  <2> DEFINE out == ToSet(b.outcomes)
             stay == {o \in out : ~Released(b, o)}
             d == {o \in b.drops : ~Released(b, o)}
  <2>1. Left(b) = [outcomes |-> Those(b.outcomes, stay), drops |-> d, contexts |-> b.contexts]
    <3>1. Left(b) = [b EXCEPT !.outcomes = Those(b.outcomes, stay), !.drops = d]
      BY <1>4, Zenon DEF Left, Drained
    <3> HIDE DEF stay, d
    <3> QED BY <3>1 DEF BufferOf
  <2>2. ToSet(Those(b.outcomes, stay)) = stay
    <3>1. ToSet(Those(b.outcomes, stay)) = ToSet(b.outcomes) \intersect stay
      BY ThoseType
    <3> QED BY <3>1
  <2>3. ASSUME NEW v \in Reconciled(b), ~v.answered, Frame(v) \notin acc
        PROVE  v.gen \notin b.contexts /\ Frame(v) \in stay \union d
    <3>1. PICK w \in hold.waiting : w.seq \notin dropped /\ v = Answer(w)
      BY <1>1
    <3>2. /\ w \in Waiting /\ ~w.answered /\ w.seq \notin learned /\ Frame(v) = Frame(w)
          /\ v.gen = w.gen
      BY <1>2, <2>3, <3>1
    <3> DEFINE o == Frame(w)
    <3>3. o \in out \union b.drops /\ o.seq = w.seq /\ o.gen = w.gen
      BY <2>3, <3>2 DEF Frame
    <3> HIDE DEF o
    <3>4. o \notin DrainedOutcomes(b) /\ o \notin DrainedDrops(b)
      BY <3>1, <3>2, <3>3 DEF Sequences
    <3>5. ~Released(b, o)
      BY <3>3, <3>4 DEF DrainedOutcomes, DrainedDrops
    <3> QED BY <3>2, <3>3, <3>5 DEF Released, o
  <2> HIDE DEF stay, d
  <2>4. Reconciled(b) \subseteq Waiting
    BY <1>1, <1>2
  <2> QED BY <2>1, <2>2, <2>3, <2>4
<1> QED BY <1>3, <1>4

LEMMA WaitsWorker ==
  ASSUME Shapes, Flow, Waits, Worker \/ Closing \/ Learner \/ Fitting PROVE Waits'
<1>0. PcOK
  BY DEF Shapes
<1>1. UNCHANGED hold
  BY Zenon DEF Worker, Take, ApplySeed, Serve, Gather, Learn, Install, Release, Advance,
     PutOff, Solve, Leave, Closing, CloseBegin, CloseEnd, Learner, Fitting, FitNext, FitSchedule,
     FitEnds, FitEnding, FitLeaves, FitFails, Look, Schedule, Poll, LearnerExit
<1>2. pc'.control \in Collecting => pc.control \in Collecting
  <2>1. CASE Worker
    <3>1. (\E there : Goto("worker", there)) \/ UNCHANGED pc
      BY <2>1, Zenon DEF Worker, Take, ApplySeed, Serve, Gather, Learn, Install, Release, Advance,
         PutOff, Solve, Leave
    <3> QED BY <1>0, <3>1 DEF Goto, PcOK, Places4
  <2>2. CASE Closing \/ Learner \/ Fitting
    <3>1. \/ UNCHANGED pc
          \/ \E t \in {"worker", "learner", "fit"} : \E there : Goto(t, there)
          \/ \E there \in {"done", "closing"} : Goto("control", there)
      BY <2>2, Zenon DEF Closing, CloseBegin, CloseEnd, Learner, Fitting, FitNext, FitSchedule,
         FitEnds, FitEnding, FitLeaves, FitFails, Look, Schedule, Poll, LearnerExit
    <3>2. pc'.control = pc.control \/ pc'.control \in {"done", "closing"}
      BY <1>0, <3>1 DEF Goto, PcOK, Places4
    <3> QED BY <3>2 DEF Collecting, Before
  <2> QED BY <2>1, <2>2
<1>3. UNCHANGED <<InFlight, buffer.contexts>>
  <2>1. CASE Serve
    <3> DEFINE item == Head(hand.work)
    <3>1. hand.work \in Seq(Items) /\ hand.work # <<>> /\ Once(hand.work, {})
      BY <2>1 DEF Serve, Flow, Hands, Once
    <3>2. item \in Items /\ item \in ToSet(hand.work)
      BY <3>1, OnceTail
    <3>3. CASE item.op = "output"
      BY <2>1, <3>3 DEF Serve, InFlight
    <3>4. CASE item.op # "output"
      <4>1. item.op = "frame"
        BY <3>2, <3>4 DEF Items
      <4>2. item.of \in Held
        BY <3>2, <4>1, FramesFacts DEF Held, Frames
      <4>3. PICK learned \in BOOLEAN : Completed(item.of, learned)
        BY <2>1, <3>4 DEF Serve
      <4> QED BY <2>1, <4>2, <4>3, CompletedKeeps DEF Serve
    <3> QED BY <3>3, <3>4
  <2>2. CASE Learn
    <3> DEFINE o == Head(hand.batch)
    <3>1. hand.batch \in Seq(Obs) /\ hand.batch # <<>> /\ Once(hand.batch, {})
      BY <2>2 DEF Learn, At, Flow, Hands, Once
    <3>2. o \in Held
      BY <3>1, OnceTail DEF Held
    <3>3. PICK learned \in BOOLEAN : Completed(o, learned)
      BY <2>2 DEF Learn
    <3> QED BY <2>2, <3>2, <3>3, CompletedKeeps DEF Learn
  <2>3. CASE Take \/ Gather
    <3>1. /\ UNCHANGED buffer
          /\ \/ queue' = [queue EXCEPT !.dispatches = <<>>]
             \/ \E left : queue' = [queue EXCEPT !.observations = left]
      BY <2>3, Zenon DEF Take, Gather
    <3> QED BY <3>1 DEF InFlight, Flow, QueueOK
  <2>4. CASE ~(Serve \/ Learn \/ Take \/ Gather)
    <3>1. UNCHANGED <<queue, buffer>>
      BY <2>4, Zenon DEF Worker, ApplySeed, Install, Release, Advance, PutOff, Solve, Leave, Closing,
         CloseBegin, CloseEnd, Learner, Fitting, FitNext, FitSchedule, FitEnds, FitEnding,
         FitLeaves, FitFails, Look, Schedule, Poll, LearnerExit, queueVars
    <3> QED BY <3>1 DEF InFlight
  <2> QED BY <2>1, <2>2, <2>3, <2>4
<1> QED BY <1>1, <1>2, <1>3, WaitsKept

\* At each point where Hold collects what b holds of its frames.
LEMMA WaitsCollects ==
  ASSUME Flow, Waits, UNCHANGED queue, NEW b, BufferOf(b), b.outcomes = buffer.outcomes,
         b.drops = buffer.drops, buffer' = Left(b), hold'.waiting = Reconciled(b),
         hold'.adopted \in b.contexts, hold'.unanswered = hold.unanswered
  PROVE  Waits'
<1>1. b.outcomes \in Seq(Obs)
  BY DEF Flow, Accounting, Accounts
<1>2. \A w \in hold.waiting :
         w.answered \/ Frame(w) \in queue.accepted \union ToSet(b.outcomes) \union b.drops
  BY DEF Waits, InFlight
<1>3. hold.waiting \subseteq Waiting
  BY DEF Waits
<1>4. /\ Reconciled(b) \subseteq Waiting /\ Left(b).contexts = b.contexts
      /\ \A w \in Reconciled(b) :
            \/ w.answered \/ Frame(w) \in queue.accepted
            \/ Frame(w) \in ToSet(Left(b).outcomes) \union Left(b).drops
  BY <1>1, <1>2, <1>3, Collects
<1>5. \A w \in hold'.waiting : w.answered \/ Frame(w) \in InFlight'
  BY <1>4 DEF InFlight
<1> QED BY <1>4, <1>5 DEF Waits

LEMMA WaitsControl ==
  ASSUME Shapes, Flow, Waits, Ticking \/ Adoption \/ Seeding \/ Building PROVE Waits'
<1>0. PcOK /\ HoldOK /\ ConfOK /\ BufferOf(buffer)
  BY DEF Shapes, Flow, Accounting
<1>1. CASE Retire
  <2>1. /\ buffer' = RetireContext(buffer, hold.adopted) /\ UNCHANGED queue
        /\ hold' = [hold EXCEPT !.installing = conf.revision,
                               !.waiting = Without(hold.waiting, hold.adopted)]
        /\ Goto("control", "bind")
    BY <1>1, Zenon DEF Retire
  <2>2. /\ hold'.waiting \subseteq hold.waiting /\ UNCHANGED hold.unanswered
    BY <1>0, <2>1 DEF HoldOK, Without
  <2>3. InFlight' = InFlight
    BY <1>0, <2>1 DEF InFlight, RetireContext, BufferOf
  <2>4. pc'.control = "bind"
    BY <1>0, <2>1 DEF Goto, PcOK, Places4
  <2> QED BY <2>2, <2>3, <2>4 DEF Waits, Collecting
<1>2. CASE Bind
  <2> DEFINE bound == BindContext(buffer, hold.installing)
  <2>1. /\ buffer' = Left(bound) /\ UNCHANGED queue
        /\ hold' = [hold EXCEPT !.adopted = hold.installing, !.kind = KindOf(conf.core),
                               !.seeded = FALSE, !.waiting = Reconciled(bound),
                               !.installing = 0, !.then = "update"]
    BY <1>2, Zenon DEF Bind
  <2>2. /\ bound.outcomes = buffer.outcomes /\ bound.drops = buffer.drops /\ BufferOf(bound)
        /\ hold.installing \in bound.contexts
    BY <1>0 DEF BindContext, BufferOf
  <2> HIDE DEF bound
  <2>3. /\ hold'.waiting = Reconciled(bound) /\ hold'.adopted = hold.installing
        /\ hold'.unanswered = hold.unanswered
    BY <1>0, <2>1 DEF HoldOK
  <2> QED BY <2>1, <2>2, <2>3, WaitsCollects
<1>3. CASE Ticking \/ Seeding \/ Building
  <2>1. pc.control \in Collecting
    BY <1>3 DEF Ticking, Tick, Updated, Seeding, Seed, SeedFailed, Ready, Run, Building,
       Reconfigure, At, Collecting, Before
  <2>2. UNCHANGED queue
    BY <1>3, Zenon DEF Ticking, Tick, Updated, Adopting, NothingToAdopt, Seeding,
       Seed, SeedFailed, Run, Building, Reconfigure, queueVars
  <2>3. \/ UNCHANGED <<hold, buffer>>
        \/ /\ buffer' = Left(buffer)
           /\ \/ \E then : hold' = [hold EXCEPT !.waiting = Reconciled(buffer), !.then = then]
              \/ hold' = [hold EXCEPT !.seeded = TRUE, !.waiting = Reconciled(buffer)]
    BY <1>3, Zenon DEF Ticking, Tick, Updated, Adopting, NothingToAdopt, Seeding,
       Seed, SeedFailed, Run, Building, Reconfigure, queueVars
  <2>4. CASE UNCHANGED <<hold, buffer>>
    BY <2>1, <2>2, <2>4, WaitsKept DEF InFlight
  <2>5. CASE ~UNCHANGED <<hold, buffer>>
    <3>1. /\ buffer' = Left(buffer) /\ hold'.waiting = Reconciled(buffer)
          /\ hold'.adopted = hold.adopted /\ hold'.unanswered = hold.unanswered
      BY <1>0, <2>3, <2>5 DEF HoldOK
    <3>2. hold.adopted \in buffer.contexts
      BY <2>1 DEF Waits
    <3> QED BY <1>0, <2>2, <3>1, <3>2, WaitsCollects
  <2> QED BY <2>4, <2>5
<1> QED BY <1>1, <1>2, <1>3 DEF Adoption

\* A submitted frame waits, wherever it and those it displaced end up.
LEMMA WaitsSubmitted ==
  ASSUME Shapes, Waits, UNCHANGED <<pc, buffer.contexts>>, NEW o \in Obs, NEW forgotten,
         Submitted(o, forgotten), o \in InFlight',
         \A p \in InFlight : p \in InFlight' \/ p.seq \in forgotten
  PROVE  Waits'
<1> DEFINE new == [seq |-> o.seq, gen |-> o.gen, answered |-> FALSE]
           all == {w \in hold.waiting : w.seq \notin forgotten} \union {new}
<1>1. \E some \in SUBSET all : hold' = [hold EXCEPT !.waiting = some]
  <2>1. hold' = [hold EXCEPT !.waiting =
                   IF Cardinality(all) > HoldCapacity
                   THEN {w \in all : \E v \in all : v.seq < w.seq} ELSE all]
    BY Zenon DEF Submitted
  <2> HIDE DEF all
  <2> QED BY <2>1
<1>2. /\ hold'.waiting \subseteq all /\ UNCHANGED <<hold.adopted, hold.unanswered>>
  <2>1. HoldOK
    BY DEF Shapes
  <2> HIDE DEF all
  <2> QED BY <1>1, <2>1 DEF HoldOK
<1>3. new \in Waiting /\ Frame(new) = o
  BY DEF Waiting, Frame, Obs
<1>4. ASSUME NEW w \in all PROVE w \in Waiting /\ (w.answered \/ Frame(w) \in InFlight')
  <2>1. CASE w \in hold.waiting /\ w.seq \notin forgotten
    <3>1. Frame(w).seq = w.seq
      BY DEF Frame
    <3> QED BY <2>1, <3>1 DEF Waits
  <2>2. CASE w = new
    BY <1>3, <2>2
  <2> QED BY <2>1, <2>2
<1> HIDE DEF all
<1> QED BY <1>2, <1>4 DEF Waits

LEMMA FlightDispatched ==
  ASSUME Flow, NEW item, NEW new, Dispatched(item, new)
  PROVE  /\ InFlight \union new \subseteq InFlight'
         /\ UNCHANGED buffer.contexts
<1>1. QueueOK /\ BufferOf(buffer)
  BY DEF Flow, Accounting
<1>2. \E dropped : /\ queue'.accepted = (queue.accepted \union new) \ dropped
                   /\ buffer' = [buffer EXCEPT !.drops = buffer.drops \union dropped]
  <2>1. PICK q, n, dropped :
           /\ queue' = [queue EXCEPT !.dispatches = q,
                           !.accepted = (queue.accepted \union new) \ dropped,
                           !.submitted = n]
           /\ buffer' = [buffer EXCEPT !.drops = buffer.drops \union dropped]
    BY Zenon DEF Dispatched
  <2> QED BY <1>1, <2>1 DEF QueueOK
<1> QED BY <1>1, <1>2 DEF BufferOf, InFlight

LEMMA WaitsHanding ==
  ASSUME Shapes, Flow, Waits, Handing PROVE Waits'
<1>0. conf.revision \in Nat
  BY DEF Shapes, ConfOK
<1>1. CASE CompleteFrame
  <2> DEFINE o == NextFrame(conf.revision)
             item == [op |-> "frame", of |-> o]
  <2>1. Dispatched(item, {o}) /\ Submitted(o, {}) /\ UNCHANGED pc
    BY <1>1, Zenon DEF CompleteFrame
  <2>2. o \in Obs
    BY <1>0, FreshFrame
  <2> HIDE DEF o, item
  <2>3. InFlight \union {o} \subseteq InFlight' /\ UNCHANGED buffer.contexts
    BY <2>1, FlightDispatched
  <2> QED BY <2>1, <2>2, <2>3, WaitsSubmitted
<1>2. CASE ObserveFrame
  <2> DEFINE gen == conf.revision + IF conf.pending = 0 THEN 0 ELSE 1
             o == NextFrame(gen)
             all == Append(queue.observations, o)
             evicted == IF Len(all) > ObservationCapacity THEN {Head(all)} ELSE {}
  <2>1. /\ UNCHANGED <<pc, buffer>> /\ Submitted(o, Sequences(evicted))
        /\ \E q, n : queue' = [queue EXCEPT !.observations = q,
                                 !.accepted = (queue.accepted \union {o}) \ evicted,
                                 !.submitted = n]
    BY <1>2, Zenon DEF ObserveFrame
  <2>2. o \in queue'.accepted
    BY <1>2, FlowObserved
  <2>3. o \in Obs
    <3>1. gen \in Nat
      BY <1>0
    <3> HIDE DEF gen
    <3> QED BY <3>1, FreshFrame
  <2> HIDE DEF o, evicted, gen, all
  <2>4. queue'.accepted = (queue.accepted \union {o}) \ evicted
    BY <2>1 DEF Flow, QueueOK
  <2>5. \A p \in InFlight : p \in InFlight' \/ p.seq \in Sequences(evicted)
    BY <2>1, <2>4 DEF InFlight, Sequences
  <2>6. o \in InFlight'
    BY <2>2 DEF InFlight
  <2> QED BY <2>1, <2>3, <2>5, <2>6, WaitsSubmitted
<1>3. CASE SetOutput
  <2>1. Dispatched([op |-> "output"], {}) /\ UNCHANGED <<pc, hold>>
    BY <1>3, Zenon DEF SetOutput
  <2>2. InFlight \subseteq InFlight' /\ UNCHANGED buffer.contexts
    BY <2>1, FlightDispatched
  <2> QED BY <2>1, <2>2 DEF Waits
<1>4. CASE AskFit
  <2>1. UNCHANGED <<queue, buffer, hold, pc>>
    BY <1>4, Zenon DEF AskFit, queueVars
  <2> QED BY <2>1, WaitsKept DEF InFlight
<1> QED BY <1>1, <1>2, <1>3, <1>4 DEF Handing

LEMMA WaitsTearing ==
  ASSUME Shapes, Flow, Emptied, Waits, Tearing PROVE Waits'
<1>0. PcOK /\ HoldOK /\ QueueOK /\ BufferOf(buffer)
  BY DEF Shapes, Flow, Accounting
<1>1. CASE Stop \/ Joined \/ StopFit \/ NoStopFit \/ Finish
  <2>1. /\ UNCHANGED <<hold, buffer>>
        /\ UNCHANGED queue \/ queue' = [queue EXCEPT !.accepting = FALSE]
    BY <1>1, Zenon DEF Stop, Joined, StopFit, NoStopFit, Finish, queueVars
  <2>2. UNCHANGED <<InFlight, buffer.contexts>>
    BY <1>0, <2>1 DEF InFlight, QueueOK
  <2>3. pc'.control \in Collecting => pc.control \in Collecting
    BY <1>0, <1>1 DEF Stop, Joined, StopFit, NoStopFit, Finish, Goto, At, PcOK, Places4,
       Collecting, Before
  <2> QED BY <2>1, <2>2, <2>3, WaitsKept
<1>2. CASE JoinTimesOut
  <2>1. /\ queue' = [queue EXCEPT !.observations = <<>>, !.dispatches = <<>>, !.accepted = {}]
        /\ buffer' = [buffer EXCEPT !.drops = buffer.drops \union queue.accepted]
        /\ UNCHANGED hold /\ pc.control = "join"
    BY <1>2, Zenon DEF JoinTimesOut, At
  <2>2. queue'.accepted = {}
    BY <1>0, <2>1 DEF QueueOK
  <2>3. UNCHANGED <<InFlight, buffer.contexts>>
    BY <1>0, <2>1, <2>2 DEF InFlight, BufferOf
  <2>4. pc.control \in Collecting
    BY <2>1 DEF Collecting
  <2> QED BY <2>1, <2>3, <2>4, WaitsKept
<1>3. CASE Rotate
  <2> DEFINE first == Reconciled(buffer)
             rest == Without(first, hold.adopted)
             gens == ({conf.revision} \union {w.gen : w \in rest}) \ {hold.adopted}
             retired == RetireContext(Left(buffer), hold.adopted)
             bound == [retired EXCEPT !.contexts = retired.contexts \union gens]
             late == Sequences(DrainedOutcomes(bound) \union DrainedDrops(bound))
             open == Unanswered(first) \ (IF rest = {} THEN {} ELSE late)
  <2>1. /\ hold' = [hold EXCEPT !.waiting = {}, !.stopped = life.finished, !.unanswered = open]
        /\ pc.control = "rotate" /\ Goto("control", "fit")
    BY <1>3, Zenon DEF Rotate, At
  <2>2. /\ queue.accepted = {} /\ hold.adopted \in buffer.contexts
    BY <2>1 DEF Emptied, Waits, Collecting
  <2>3. /\ Left(buffer).contexts = buffer.contexts /\ BufferOf(Left(buffer))
        /\ \A w \in first : \/ w.answered
                            \/ /\ w.gen \notin buffer.contexts
                               /\ Frame(w) \in ToSet(Left(buffer).outcomes)
                                                 \union Left(buffer).drops
    <3>1. /\ buffer.outcomes \in Seq(Obs)
          /\ Accounts(queue.accepted, buffer.outcomes, buffer.drops, released, queue.submitted)
      BY DEF Flow, Accounting, Accounts
    <3>2. \A w \in hold.waiting : w.answered
             \/ Frame(w) \in queue.accepted \union ToSet(buffer.outcomes) \union buffer.drops
      BY DEF Waits, InFlight
    <3>3. hold.waiting \subseteq Waiting
      BY DEF Waits
    <3> QED BY <1>0, <2>2, <3>1, <3>2, <3>3, Collects, CollectedKeeps
  <2>4. /\ bound.outcomes = Left(buffer).outcomes /\ bound.drops = Left(buffer).drops
        /\ gens \subseteq bound.contexts
    BY <2>3 DEF RetireContext, BufferOf
  <2> HIDE DEF bound, first
  <2>5. ASSUME NEW w \in first, ~w.answered PROVE rest # {} /\ w.seq \in late
    <3>1. w.gen # hold.adopted
      BY <2>2, <2>3, <2>5
    <3>2. w \in rest /\ w.gen \in gens
      BY <2>5, <3>1 DEF Without
    <3> HIDE DEF rest, gens
    <3> DEFINE o == Frame(w)
    <3>3. /\ o \in ToSet(bound.outcomes) \union bound.drops
          /\ o.gen \in bound.contexts /\ o.seq = w.seq
      BY <2>3, <2>4, <2>5, <3>2 DEF Frame
    <3> HIDE DEF o
    <3>4. o \in DrainedOutcomes(bound) \union DrainedDrops(bound)
      BY <3>3 DEF DrainedOutcomes, DrainedDrops, Released
    <3> QED BY <3>2, <3>3, <3>4 DEF Sequences
  <2> HIDE DEF rest, late
  <2>6. open = {}
    BY <2>5 DEF Unanswered
  <2> HIDE DEF open
  <2>7. hold'.waiting = {} /\ hold'.unanswered = {}
    BY <1>0, <2>1, <2>6 DEF HoldOK
  <2>8. pc'.control = "fit"
    BY <1>0, <2>1 DEF Goto, PcOK, Places4
  <2> QED BY <2>7, <2>8 DEF Waits, Collecting, Before
<1> QED BY <1>1, <1>2, <1>3 DEF Tearing

\* When Hold lets go of its frames every one of them has been answered or dropped:
\* the worker has answered all it was given, or the join that gave up has dropped
\* the rest, and no generation a frame waits for is missed.
THEOREM RunnerAnswers == Spec => []AllAnswered
<1>1. Init => Flow /\ Emptied /\ Waits
  BY FlowInit, EmptiedInit, WaitsInit
<1>2. RunnerInv /\ (Flow /\ Emptied /\ Waits) /\ [Next]_vars => (Flow /\ Emptied /\ Waits)'
  <2>1. ASSUME RunnerInv, Flow, Emptied, Waits, Next PROVE Flow' /\ Emptied' /\ Waits'
    <3>1. Shapes /\ Stopping
      BY <2>1 DEF RunnerInv
    <3>2. CASE Worker
      BY <2>1, <3>1, <3>2, FlowWorker, EmptiedWorker, WaitsWorker
    <3>3. CASE Closing \/ Learner \/ Fitting
      BY <2>1, <3>1, <3>3, FlowOther, EmptiedOther, WaitsWorker
    <3>4. CASE Ticking \/ Adoption \/ Seeding \/ Building
      BY <2>1, <3>1, <3>4, FlowControl, EmptiedControl, WaitsControl
    <3>5. CASE Handing
      BY <2>1, <3>1, <3>5, FlowHanding, EmptiedControl, WaitsHanding
    <3>6. CASE Tearing
      BY <2>1, <3>1, <3>6, FlowTearing, EmptiedTearing, WaitsTearing
    <3> QED BY <2>1, <3>2, <3>3, <3>4, <3>5, <3>6, RunnerSteps
  <2>2. ASSUME RunnerInv, Flow, Emptied, Waits, UNCHANGED vars
        PROVE  Flow' /\ Emptied' /\ Waits'
    <3>1. UNCHANGED <<pc, queue, buffer, released, hand, conf, hold>>
      BY <2>2 DEF vars, queueVars
    <3>2. Flow'
      BY <2>2, <3>1, FlowKept
    <3>3. Emptied'
      BY <2>2, <3>1 DEF Emptied, Unqueued, Queued, Held
    <3> QED BY <2>2, <3>1, <3>2, <3>3, WaitsKept DEF InFlight
  <2> QED BY <2>1, <2>2
<1>3. Waits => AllAnswered
  BY DEF Waits, AllAnswered
<1> QED BY <1>1, <1>2, <1>3, RunnerInvariant, PTL DEF Spec

=============================================================================
