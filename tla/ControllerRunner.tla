-------------------------- MODULE ControllerRunner --------------------------
(***************************************************************************)
(* The threads that run a controller in Hold (ThreadedControllerRunner,    *)
(* controller/runtime/runner.py), under the calls Hold makes of them       *)
(* (modes/hold.py, modes/hold_learning.py).                                *)
(*                                                                         *)
(*   control  the control loop: one tick after another, then the teardown  *)
(*   worker   _loop: takes what was queued, learns, installs, solves       *)
(*   learner  _learning_loop: schedules and polls fits of the model        *)
(*   fit      _drain_scheduled_corpus_fit: does so after the other two     *)
(*                                                                         *)
(* A step is what a thread does under _lock, with the calls into the core  *)
(* next to it.  A core is the number of the order it was built in, a frame *)
(* the number of its submission.  What a solve computes, how long it takes,*)
(* targets, ceilings, calibration commands, activations and the restoring  *)
(* of stored models are left out.                                          *)
(***************************************************************************)
EXTENDS ObservationBuffer, FiniteSets

CONSTANTS
    Kinds,                \* controllers the settings can select: "mpc" and others
    ObservationCapacity,  \* _MAX_PENDING_OBSERVATIONS
    DispatchCapacity,     \* _MAX_PENDING_OUTPUTS
    HoldCapacity,         \* _PENDING_CAPACITY
    MaxCores,             \* bound: controllers built in a cook
    MaxWork               \* bound: frames submitted and calibrations completed

ASSUME RunnerAssumption ==
    /\ "mpc" \in Kinds
    /\ {ObservationCapacity, DispatchCapacity, HoldCapacity, MaxCores} \subseteq Nat \ {0}
    /\ MaxWork \in Nat

VARIABLES
    pc,      \* where each thread is
    cores,   \* kind of each core built, which ones were seeded, which ones closed
    conf,    \* _core, _pending_core (0: none), _configuration_revision
    seeding, \* _pending_seed (0: none), _seed_pending_for_solve; who waits for what answer
    temp,    \* whether a temperature was submitted (_temp)
    queue,   \* _pending_dispatches, _pending_observations, _accepted_observations, ...
    buffer,  \* _observation_buffer
    hand,    \* what the worker's thread holds
    poll,    \* the core and the plan the learner and the fit thread hold
    plans,   \* _corpus_fit_plans: the plans' numbers, StopPlan the fit at the stop's
    fits,    \* how many calibrations were to be fitted, and the tickets of all fits
    life,    \* the flags of stopping, of the last close and of its finalizer
    hold,    \* Hold: adopted generation, controller, seeded, observations waited for
    released \* history: what the control loop was told about each observation

queueVars == <<queue, buffer, released>>
fitVars == <<poll, plans, fits>>
vars == <<pc, cores, conf, seeding, temp, queueVars, hand, fitVars, life, hold>>

-----------------------------------------------------------------------------
Threads == {"control", "worker", "learner", "fit"}
At(t, place) == pc[t] = place
Goto(t, place) == pc' = [pc EXCEPT ![t] = place]

KindOf(c) == cores.kind[c]
Mpc(c) == KindOf(c) = "mpc"
\* MPC and PID-SP learn from frames and fit their models, PID does not.
Learns(c) == KindOf(c) # "pid"
Built == 1..Len(cores.kind)

NoTemp == FALSE
EmptyHand == [stopping |-> FALSE, work |-> <<>>, seed |-> 0, batch |-> <<>>,
              handoff |-> FALSE, update |-> NoTemp, retired |-> 0]
NoPoll == [core |-> 0, plan |-> 0]

Init ==
    /\ pc = [control |-> "tick", worker |-> "take", learner |-> "look", fit |-> "none"]
    /\ cores = [kind |-> <<"mpc">>, seeded |-> {}, closed |-> {}]
    /\ conf = [core |-> 1, pending |-> 0, revision |-> 0]
    /\ seeding = [request |-> 0, held |-> FALSE, token |-> 0, answer |-> "none"]
    /\ temp = NoTemp
    /\ queue = [dispatches |-> <<>>, observations |-> <<>>, accepted |-> {},
                accepting |-> TRUE, submitted |-> 0]
    /\ buffer = BindContext(EmptyBuffer, 0)
    /\ released = {}
    /\ hand = EmptyHand
    /\ poll = [learner |-> NoPoll, fit |-> NoPoll]
    /\ plans = <<>>
    /\ fits = [asked |-> 0, tickets |-> {}]
    /\ life = [stop |-> FALSE, retain |-> FALSE, whenIdle |-> FALSE, finished |-> FALSE,
               fit |-> FALSE, close |-> "no", finalizer |-> "none"]
    /\ hold = [adopted |-> 0, installing |-> 0, kind |-> "mpc", seeded |-> FALSE,
               then |-> "update", waiting |-> {}, stopped |-> FALSE, unanswered |-> {}]

-----------------------------------------------------------------------------
(* The worker.                                                             *)

\* The top of _loop: what was queued is the worker's from here on.
Take ==
    /\ At("worker", "take")
    /\ hand' = [EmptyHand EXCEPT !.stopping = life.stop, !.work = queue.dispatches,
                                 !.seed = seeding.request]
    /\ queue' = [queue EXCEPT !.dispatches = <<>>]
    /\ seeding' = [seeding EXCEPT !.request = 0]
    /\ Goto("worker", IF seeding.request # 0 THEN "seed" ELSE "serve")
    /\ UNCHANGED <<cores, conf, temp, buffer, released, fitVars, life, hold>>

\* Only an MPC can be seeded, and may refuse. Nobody may be waiting any more.
ApplySeed ==
    /\ At("worker", "seed")
    /\ \E ok \in BOOLEAN :
          /\ ok => Mpc(conf.core)
          /\ cores' = [cores EXCEPT !.seeded = IF ok THEN @ \union {conf.core} ELSE @]
          /\ seeding' = [seeding EXCEPT
                !.held = @ /\ ~(ok /\ seeding.request = 0),
                !.answer = IF hand.seed # seeding.token THEN @  \* too late
                           ELSE IF ok THEN "ok" ELSE "failed"]
    /\ hand' = [hand EXCEPT !.seed = 0]
    /\ Goto("worker", "serve")
    /\ UNCHANGED <<conf, temp, queueVars, fitVars, life, hold>>

\* _complete_observation_locked and _terminalize_observation_locked
Completed(observation, learned) ==
    IF observation \notin queue.accepted THEN UNCHANGED <<queue, buffer>>
    ELSE /\ queue' = [queue EXCEPT !.accepted = @ \ {observation}]
         /\ buffer' = IF learned THEN AppendOutcome(buffer, observation)
                      ELSE AppendDrop(buffer, observation)

\* An output goes to the core; a completed frame is learned from as well, which
\* may yield nothing.
Serve ==
    /\ At("worker", "serve") /\ hand.work # <<>>
    /\ LET item == Head(hand.work)
       IN  IF item.op = "output" THEN UNCHANGED <<queue, buffer>>
           ELSE \E learned \in BOOLEAN : /\ learned => Learns(conf.core)
                                         /\ Completed(item.of, learned)
    /\ hand' = [hand EXCEPT !.work = Tail(@)]
    /\ UNCHANGED <<pc, cores, conf, seeding, temp, released, fitVars, life, hold>>

\* The observations the core in charge learns from: all of them, or while another
\* core waits those of its own generation. With none left, the temperature there
\* is now will be solved for.
Gather ==
    /\ At("worker", "serve") /\ hand.work = <<>>
    /\ LET waiting == ToSet(queue.observations)
           mine == {o \in waiting : conf.pending = 0 \/ o.gen = conf.revision}
       IN  /\ queue' = [queue EXCEPT !.observations = Those(@, waiting \ mine)]
           /\ hand' = [hand EXCEPT !.batch = Those(queue.observations, mine),
                                   !.handoff = conf.pending # 0,
                                   !.update = mine = {} /\ ~seeding.held /\ temp]
           /\ Goto("worker", IF mine # {} THEN "learn" ELSE "install")
    /\ UNCHANGED <<cores, conf, seeding, temp, buffer, released, fitVars, life, hold>>

\* A learner that raises still yields an outcome.
Learn ==
    /\ At("worker", "learn")
    /\ \E learned \in BOOLEAN : /\ learned => Learns(conf.core)
                                /\ Completed(Head(hand.batch), learned)
    /\ hand' = [hand EXCEPT !.batch = Tail(@)]
    /\ IF Len(hand.batch) > 1 THEN UNCHANGED pc
       ELSE Goto("worker", IF hand.handoff THEN "install" ELSE "serve")
    /\ UNCHANGED <<cores, conf, seeding, temp, released, fitVars, life, hold>>

\* Mutant: an MPC may solve as soon as it is installed.
InstallUnseeded ==
    /\ At("worker", "install") /\ conf.pending # 0
    /\ conf' = [core |-> conf.pending, pending |-> 0, revision |-> conf.revision + 1]
    /\ hand' = [hand EXCEPT !.retired = conf.core]
    /\ Goto("worker", "release")
    /\ UNCHANGED <<cores, seeding, temp, queueVars, fitVars, life, hold>>

\* The pending core takes over; an MPC has to be seeded before it solves.
Install ==
    /\ At("worker", "install") /\ conf.pending # 0
    /\ conf' = [core |-> conf.pending, pending |-> 0, revision |-> conf.revision + 1]
    /\ seeding' = [seeding EXCEPT !.held = @ \/ Mpc(conf.pending)]
    /\ hand' = [hand EXCEPT !.retired = conf.core]
    /\ Goto("worker", "release")
    /\ UNCHANGED <<cores, temp, queueVars, fitVars, life, hold>>

\* Mutant: the retired core is closed under the learner.
ReleaseAtOnce ==
    /\ At("worker", "release")
    /\ cores' = [cores EXCEPT !.closed = @ \union {hand.retired}]
    /\ hand' = EmptyHand
    /\ Goto("worker", "take")
    /\ UNCHANGED <<conf, seeding, temp, queueVars, fitVars, life, hold>>

\* _wait_for_learning_release, and the retired core is closed.
Release ==
    /\ At("worker", "release") /\ poll.learner.core # hand.retired
    /\ cores' = [cores EXCEPT !.closed = @ \union {hand.retired}]
    /\ hand' = EmptyHand
    /\ Goto("worker", "take")
    /\ UNCHANGED <<conf, seeding, temp, queueVars, fitVars, life, hold>>

\* Nothing to install: an MPC's activation may be under way and put the solve off.
Advance ==
    /\ At("worker", "install") /\ conf.pending = 0
    /\ Goto("worker", "solve")
    /\ UNCHANGED <<cores, conf, seeding, temp, queueVars, hand, fitVars, life, hold>>
PutOff ==
    /\ At("worker", "install") /\ conf.pending = 0 /\ Mpc(conf.core)
    /\ hand' = EmptyHand
    /\ Goto("worker", IF hand.stopping THEN "leave" ELSE "take")
    /\ UNCHANGED <<cores, conf, seeding, temp, queueVars, fitVars, life, hold>>

\* The temperature is solved for, if there is one, and the next round begins.
Solve ==
    /\ At("worker", "solve")
    /\ hand' = EmptyHand
    /\ Goto("worker", IF hand.stopping /\ queue.observations = <<>> THEN "leave" ELSE "take")
    /\ UNCHANGED <<cores, conf, seeding, temp, queueVars, fitVars, life, hold>>

\* _learning_thread.join() and _controller_worker_exiting
Leave ==
    /\ At("worker", "leave") /\ At("learner", "done")
    /\ life' = [life EXCEPT !.finished = TRUE, !.whenIdle = @ \/ ~life.retain]
    /\ Goto("worker", IF life'.whenIdle /\ ~life.fit THEN "close" ELSE "done")
    /\ UNCHANGED <<cores, conf, seeding, temp, queueVars, hand, fitVars, hold>>

Worker ==
    \/ Take \/ ApplySeed \/ Serve \/ Gather \/ Learn \/ Install \/ Release
    \/ Advance \/ PutOff \/ Solve \/ Leave

-----------------------------------------------------------------------------
(* The last core, closed by whichever thread finds all others done with it.*)

CloseBegin(t, next) ==
    /\ At(t, "close")
    /\ IF life.close # "no" THEN UNCHANGED life /\ Goto(t, next)
       ELSE /\ life' = [life EXCEPT !.close = "closing",
                                   !.finalizer = IF @ = "set" THEN "ran" ELSE @]
            /\ Goto(t, "closing")
    /\ UNCHANGED <<cores, conf, seeding, temp, queueVars, hand, fitVars, hold>>

CloseEnd(t, next) ==
    /\ At(t, "closing")
    /\ cores' = [cores EXCEPT !.closed = @ \union {conf.core}]
    /\ life' = [life EXCEPT !.close = "yes", !.finalizer = IF @ = "set" THEN "ran" ELSE @]
    /\ Goto(t, next)
    /\ UNCHANGED <<conf, seeding, temp, queueVars, hand, fitVars, hold>>

-----------------------------------------------------------------------------
(* Fits: a plan is scheduled on a core, which gives it a ticket, and stays *)
(* at the head of the plans until that ticket is terminal.                 *)

StopPlan == MaxWork + 1
\* Work is left to be made.
MoreWork == queue.submitted + fits.asked < MaxWork
Scheduled(plan) == \E ticket \in fits.tickets : ticket.plan = plan
Ticketed(t) ==
    fits' = [fits EXCEPT !.tickets =
        @ \union {[plan |-> poll[t].plan, core |-> poll[t].core, by |-> t]}]
\* The plan a thread holds leaves the plans, if it is their head still.
Popped(t) ==
    plans' = IF plans # <<>> /\ Head(plans) = poll[t].plan THEN Tail(plans) ELSE plans
\* The core that is polled can only end a fit it was itself given.
MayEnd(t) ==
    \E ticket \in fits.tickets : ticket.plan = poll[t].plan /\ ticket.core = poll[t].core

Look ==
    /\ At("learner", "look") /\ ~life.stop /\ Learns(conf.core)
    /\ LET plan == IF plans = <<>> THEN 0 ELSE Head(plans)
       IN  /\ poll' = [poll EXCEPT !.learner = [core |-> conf.core, plan |-> plan]]
           /\ Goto("learner", IF plan # 0 /\ ~Scheduled(plan) THEN "schedule" ELSE "poll")
    /\ UNCHANGED <<cores, conf, seeding, temp, queueVars, hand, plans, fits, life, hold>>

\* The barrier may fail, the core may raise or refuse: then no plan is left.
Schedule ==
    /\ At("learner", "schedule") /\ Goto("learner", "poll")
    /\ \/ Ticketed("learner") /\ UNCHANGED <<poll, plans>>
       \/ /\ plans' = <<>> /\ poll' = [poll EXCEPT !.learner.plan = 0]
          /\ UNCHANGED fits
    /\ UNCHANGED <<cores, conf, seeding, temp, queueVars, hand, life, hold>>

\* The fit goes on, has ended, or the poll raises.
Poll ==
    /\ At("learner", "poll") /\ Goto("learner", "look")
    /\ \/ UNCHANGED plans
       \/ MayEnd("learner") /\ Popped("learner")
       \/ plans' = <<>>
    /\ poll' = [poll EXCEPT !.learner = NoPoll]
    /\ UNCHANGED <<cores, conf, seeding, temp, queueVars, hand, fits, life, hold>>

LearnerExit ==
    /\ At("learner", "look") /\ life.stop /\ Goto("learner", "done")
    /\ UNCHANGED <<cores, conf, seeding, temp, queueVars, hand, fitVars, life, hold>>

Learner == Look \/ Schedule \/ Poll \/ LearnerExit

\* A round of the thread that fits after the controller stopped: it takes the core
\* once and then one plan after the other.
FitNext ==
    /\ At("fit", "next")
    /\ LET core == IF poll.fit.core = 0 THEN conf.core ELSE poll.fit.core
       IN  IF ~Learns(core) \/ plans = <<>>
           THEN plans' = <<>> /\ UNCHANGED poll /\ Goto("fit", "ending")
           ELSE /\ poll' = [poll EXCEPT !.fit = [core |-> core, plan |-> Head(plans)]]
                /\ Goto("fit", IF Scheduled(Head(plans)) THEN "poll" ELSE "schedule")
                /\ UNCHANGED plans
    /\ UNCHANGED <<cores, conf, seeding, temp, queueVars, hand, fits, life, hold>>

\* Refused, a passive fit is left out; anything else that fails leaves no plan.
FitSchedule ==
    /\ At("fit", "schedule")
    /\ \/ Ticketed("fit") /\ Goto("fit", "poll") /\ UNCHANGED plans
       \/ /\ poll.fit.plan = StopPlan /\ Popped("fit")
          /\ Goto("fit", "next") /\ UNCHANGED fits
       \/ plans' = <<>> /\ Goto("fit", "ending") /\ UNCHANGED fits
    /\ UNCHANGED <<cores, conf, seeding, temp, queueVars, hand, poll, life, hold>>

FitEnds ==
    /\ At("fit", "poll") /\ MayEnd("fit") /\ Popped("fit") /\ Goto("fit", "next")
    /\ UNCHANGED <<cores, conf, seeding, temp, queueVars, hand, poll, fits, life, hold>>

FitFails ==
    /\ At("fit", "poll") /\ plans' = <<>> /\ Goto("fit", "ending")
    /\ UNCHANGED <<cores, conf, seeding, temp, queueVars, hand, poll, fits, life, hold>>

\* Mutant: the thread ends without a look at who waits for it.
FitEndingAlone ==
    /\ At("fit", "ending")
    /\ poll' = [poll EXCEPT !.fit = NoPoll]
    /\ life' = [life EXCEPT !.fit = FALSE]
    /\ Goto("fit", "none")
    /\ UNCHANGED <<cores, conf, seeding, temp, queueVars, hand, plans, fits, hold>>

\* A plan that came meanwhile is for a successor; otherwise the core is closed if
\* it is only this thread that was waited for.
FitEnding ==
    /\ At("fit", "ending")
    /\ poll' = [poll EXCEPT !.fit = NoPoll]
    /\ IF plans # <<>> THEN UNCHANGED life /\ Goto("fit", "next")
       ELSE IF life.whenIdle /\ life.finished THEN UNCHANGED life /\ Goto("fit", "close")
       ELSE life' = [life EXCEPT !.fit = FALSE] /\ Goto("fit", "none")
    /\ UNCHANGED <<cores, conf, seeding, temp, queueVars, hand, plans, fits, hold>>

FitLeaves ==
    /\ At("fit", "closed")
    /\ life' = [life EXCEPT !.fit = FALSE] /\ Goto("fit", "none")
    /\ UNCHANGED <<cores, conf, seeding, temp, queueVars, hand, fitVars, hold>>

\* What the thread does by itself; a fit need not fail.
Fit ==
    \/ FitNext \/ FitSchedule \/ FitEnds \/ FitEnding \/ FitLeaves
    \/ CloseBegin("fit", "closed") \/ CloseEnd("fit", "closed")

-----------------------------------------------------------------------------
(* Hold, on the control loop: what it knows of its frames.  The deque of   *)
(* those that wait is a set here: it is in the order of their numbers.     *)

Sequences(observations) == {o.seq : o \in observations}

\* reconcile_outcomes does nothing when no frame waits. A frame that was dropped is
\* forgotten, the answered ones are traced in the order of their submission.
Collected(b) ==
    IF hold.waiting = {} THEN {} ELSE Sequences(DrainedOutcomes(b) \union DrainedDrops(b))
Left(b) == IF hold.waiting = {} THEN b ELSE Drained(b)
Flushed(waiting) ==
    {w \in waiting : \E open \in waiting : ~open.answered /\ open.seq <= w.seq}
Reconciled(b) ==
    LET kept == {w \in hold.waiting : w.seq \notin Sequences(DrainedDrops(b))}
        learned == Sequences(DrainedOutcomes(b))
    IN  Flushed({[w EXCEPT !.answered = @ \/ w.seq \in learned] : w \in kept})
Unanswered(waiting) == {w.seq : w \in {v \in waiting : ~v.answered}}
Without(waiting, gen) == {w \in waiting : w.gen # gen}

-----------------------------------------------------------------------------
(* Hold, on the control loop: a tick.                                      *)

\* Another core has been installed: what the last one still yields is collected,
\* and then its generation retired.
Adopting(then) ==
    /\ conf.revision # hold.adopted
    /\ buffer' = Left(buffer) /\ released' = released \union Collected(buffer)
    /\ hold' = [hold EXCEPT !.waiting = Reconciled(buffer), !.then = then]
    /\ Goto("control", "retire")
    /\ UNCHANGED <<cores, conf, seeding, temp, queue, hand, fitVars, life>>
NothingToAdopt(next) ==
    /\ conf.revision = hold.adopted /\ Goto("control", next)
    /\ UNCHANGED <<cores, conf, seeding, temp, queueVars, hand, fitVars, life, hold>>

\* The tick finds the settings changed, or goes on to its solve.
Tick ==
    /\ At("control", "tick")
    /\ \E next \in {"update", "seed"} :
          /\ next = "update" => Len(cores.kind) < MaxCores
          /\ Adopting(next) \/ NothingToAdopt(next)

Retire ==
    /\ At("control", "retire")
    /\ buffer' = RetireContext(buffer, hold.adopted)
    /\ hold' = [hold EXCEPT !.installing = conf.revision,
                           !.waiting = Without(@, hold.adopted)]
    /\ Goto("control", "bind")
    /\ UNCHANGED <<cores, conf, seeding, temp, queue, released, hand, fitVars, life>>

\* The controller is named after the core of this moment, the generation after that
\* of the step before.
Bind ==
    /\ At("control", "bind")
    /\ LET bound == BindContext(buffer, hold.installing)
       IN  /\ buffer' = Left(bound) /\ released' = released \union Collected(bound)
           /\ hold' = [hold EXCEPT !.adopted = hold.installing, !.kind = KindOf(conf.core),
                                  !.seeded = FALSE, !.waiting = Reconciled(bound),
                                  !.installing = 0, !.then = "update"]
    /\ Goto("control", hold.then)
    /\ UNCHANGED <<cores, conf, seeding, temp, queue, hand, fitVars, life>>

\* The settings changed: a core is built and waits for the worker, in place of one
\* that waits already.
Reconfigure(kind) ==
    /\ At("control", "update")
    /\ cores' = [cores EXCEPT !.kind = Append(@, kind),
                             !.closed = IF conf.pending = 0 THEN @ ELSE @ \union {conf.pending}]
    /\ conf' = [conf EXCEPT !.pending = Len(cores.kind) + 1]
    /\ Goto("control", "updated")
    /\ UNCHANGED <<seeding, temp, queueVars, hand, fitVars, life, hold>>
Updated == At("control", "updated") /\ (Adopting("seed") \/ NothingToAdopt("seed"))

\* seed_operating_state: the seed waits for the worker, in place of one that waits
\* already.
NoAnswer == [seeding EXCEPT !.token = 0, !.answer = "none"]
Request ==
    LET token == IF hand.seed = 1 THEN 2 ELSE 1
    IN  seeding' = [request |-> token, held |-> TRUE, token |-> token, answer |-> "none"]

\* Only an MPC is seeded before it gets a temperature.
Seed ==
    /\ At("control", "seed") /\ ~hold.seeded /\ hold.kind = "mpc"
    /\ Request /\ Goto("control", "await")
    /\ UNCHANGED <<cores, conf, temp, queueVars, hand, fitVars, life, hold>>
\* Refused or not answered in time: a cold seed is tried, then the tick is over.
SeedFailed ==
    /\ seeding.answer # "ok"
    /\ \/ At("control", "await") /\ Request /\ Goto("control", "awaitCold")
       \/ At("control", "awaitCold") /\ Goto("control", "tick") /\ seeding' = NoAnswer
    /\ UNCHANGED <<cores, conf, temp, queueVars, hand, fitVars, life, hold>>

Ready ==
    \/ At("control", "seed") /\ (hold.seeded \/ hold.kind # "mpc")
    \/ (At("control", "await") \/ At("control", "awaitCold")) /\ seeding.answer = "ok"
Run ==
    /\ Ready
    /\ seeding' = NoAnswer
    /\ temp' = TRUE
    /\ buffer' = Left(buffer) /\ released' = released \union Collected(buffer)
    /\ hold' = [hold EXCEPT !.seeded = TRUE, !.waiting = Reconciled(buffer)]
    /\ Goto("control", "tick")
    /\ UNCHANGED <<cores, conf, queue, hand, fitVars, life>>

-----------------------------------------------------------------------------
(* Hold, on the control loop: what it hands to the runner.                 *)

\* Frames end at any tick once Hold runs, and when it is left.
Running == At("control", "tick") /\ temp

\* A frame Hold submitted waits for its answer; the oldest makes room.
Submitted(o, forgotten) ==
    LET all == {w \in hold.waiting : w.seq \notin forgotten}
                 \union {[seq |-> o.seq, gen |-> o.gen, answered |-> FALSE]}
        Older(w) == \E v \in all : v.seq < w.seq
    IN  hold' = [hold EXCEPT !.waiting =
                    IF Cardinality(all) > HoldCapacity THEN {w \in all : Older(w)} ELSE all]
NextFrame(gen) == [seq |-> queue.submitted + 1, gen |-> gen]

\* _append_dispatch_locked: the oldest output or frame makes room for a new one, and
\* a frame is dropped with it.
Dispatched(item, submitted) ==
    LET full == Len(queue.dispatches) = DispatchCapacity
        dropped == IF full /\ Head(queue.dispatches).op = "frame"
                   THEN {Head(queue.dispatches).of} ELSE {}
    IN  /\ queue' = [queue EXCEPT
              !.dispatches = Append(IF full THEN Tail(@) ELSE @, item),
              !.accepted = (@ \union submitted) \ dropped,
              !.submitted = @ + Cardinality(submitted)]
        /\ buffer' = [buffer EXCEPT !.drops = @ \union dropped]

\* complete_frame: an output and what it led to, for the core in charge.
CompleteFrame ==
    /\ Running /\ queue.accepting /\ MoreWork
    /\ LET o == NextFrame(conf.revision)
       IN  Dispatched([op |-> "frame", of |-> o], {o}) /\ Submitted(o, {})
    /\ UNCHANGED <<pc, cores, conf, seeding, temp, released, hand, fitVars, life>>

\* observe_frame: a frame for the core that will be in charge; Hold is told of the
\* one that made room.
ObserveFrame ==
    /\ Running /\ queue.accepting /\ MoreWork
    /\ LET o == NextFrame(conf.revision + IF conf.pending = 0 THEN 0 ELSE 1)
           all == Append(queue.observations, o)
           evicted == IF Len(all) > ObservationCapacity THEN {Head(all)} ELSE {}
       IN  /\ queue' = [queue EXCEPT
                  !.observations = IF evicted = {} THEN all ELSE Tail(all),
                  !.accepted = (@ \union {o}) \ evicted,
                  !.submitted = @ + 1]
           /\ released' = released \union Sequences(evicted)
           /\ Submitted(o, Sequences(evicted))
    /\ UNCHANGED <<pc, cores, conf, seeding, temp, buffer, hand, fitVars, life>>

\* set_output: an output on its own.
SetOutput ==
    /\ Running /\ Dispatched([op |-> "output"], {})
    /\ UNCHANGED <<pc, cores, conf, seeding, temp, released, hand, fitVars, life, hold>>

\* A calibration is complete: the learner is to fit the model to it.
AskFit ==
    /\ Running /\ MoreWork /\ Learns(conf.core)
    /\ fits' = [fits EXCEPT !.asked = @ + 1]
    /\ plans' = Append(plans, fits.asked + 1)
    /\ UNCHANGED <<pc, cores, conf, seeding, temp, queueVars, hand, poll, life, hold>>

-----------------------------------------------------------------------------
(* Hold, on the control loop: the teardown.                                *)

\* _stop_and_join: nothing more is accepted, and the worker has two seconds.
Stop ==
    /\ At("control", "tick")
    /\ life' = [life EXCEPT !.retain = TRUE, !.whenIdle = FALSE, !.stop = TRUE]
    /\ queue' = [queue EXCEPT !.accepting = FALSE]
    /\ Goto("control", "join")
    /\ UNCHANGED <<cores, conf, seeding, temp, buffer, released, hand, fitVars, hold>>

Joined ==
    /\ At("control", "join") /\ At("worker", "done") /\ Goto("control", "rotate")
    /\ UNCHANGED <<cores, conf, seeding, temp, queueVars, hand, fitVars, life, hold>>

\* It did not end in time: every frame it has not answered is dropped.
JoinTimesOut ==
    /\ At("control", "join") /\ ~At("worker", "done")
    /\ queue' = [queue EXCEPT !.observations = <<>>, !.dispatches = <<>>, !.accepted = {}]
    /\ buffer' = [buffer EXCEPT !.drops = @ \union queue.accepted]
    /\ Goto("control", "rotate")
    /\ UNCHANGED <<cores, conf, seeding, temp, released, hand, fitVars, life, hold>>

\* Mutant: only the generation that Hold adopted is collected.
RotateAdopted ==
    /\ At("control", "rotate")
    /\ buffer' = RetireContext(Left(buffer), hold.adopted)
    /\ released' = released \union Collected(buffer)
    /\ hold' = [hold EXCEPT !.waiting = {}, !.stopped = life.finished,
                           !.unanswered = Unanswered(Reconciled(buffer))]
    /\ Goto("control", "fit")
    /\ UNCHANGED <<cores, conf, seeding, temp, queue, hand, fitVars, life>>

\* _rotate_evidence_sessions_for_reserved_runner_generations: the adopted generation
\* is collected and retired, then every other one a frame waits for, and the
\* installed one. What is still unanswered then will never be traced.
Rotate ==
    /\ At("control", "rotate")
    /\ LET first == Reconciled(buffer)
           rest == Without(first, hold.adopted)
           gens == ({conf.revision} \union {w.gen : w \in rest}) \ {hold.adopted}
           retired == RetireContext(Left(buffer), hold.adopted)
           bound == [retired EXCEPT !.contexts = @ \union gens]
           late == Sequences(DrainedOutcomes(bound) \union DrainedDrops(bound))
       IN  /\ buffer' = IF rest = {} THEN bound ELSE Drained(bound)
           /\ released' = released \union Collected(buffer)
                              \union (IF rest = {} THEN {} ELSE late)
           /\ hold' = [hold EXCEPT !.waiting = {}, !.stopped = life.finished,
                  !.unanswered = Unanswered(first) \ (IF rest = {} THEN {} ELSE late)]
    /\ Goto("control", "fit")
    /\ UNCHANGED <<cores, conf, seeding, temp, queue, hand, fitVars, life>>

\* The fit of the whole cook, if the worker has ended, on a thread of its own.
StopFit ==
    /\ At("control", "fit") /\ hold.stopped /\ Learns(conf.core)
    /\ plans' = Append(plans, StopPlan)
    /\ life' = [life EXCEPT !.fit = TRUE]
    /\ pc' = [pc EXCEPT !.control = "finish", !.fit = "next"]
    /\ UNCHANGED <<cores, conf, seeding, temp, queueVars, hand, poll, fits, hold>>
NoStopFit ==
    /\ At("control", "fit") /\ Goto("control", "finish")
    /\ UNCHANGED <<cores, conf, seeding, temp, queueVars, hand, fitVars, life, hold>>

\* finish_teardown
Finish ==
    /\ At("control", "finish")
    /\ life' = [life EXCEPT !.retain = FALSE, !.whenIdle = TRUE,
                           !.finalizer = IF life.close = "yes" THEN "ran" ELSE "set"]
    /\ Goto("control",
            IF life.close # "yes" /\ life.finished /\ ~life.fit THEN "close" ELSE "done")
    /\ UNCHANGED <<cores, conf, seeding, temp, queueVars, hand, fitVars, hold>>

Control ==
    \/ Tick \/ Retire \/ Bind \/ (\E kind \in Kinds : Reconfigure(kind)) \/ Updated
    \/ Seed \/ SeedFailed \/ Run
    \/ CompleteFrame \/ ObserveFrame \/ SetOutput \/ AskFit
    \/ Stop \/ Joined \/ JoinTimesOut \/ Rotate \/ StopFit \/ NoStopFit \/ Finish
    \/ CloseBegin("control", "done") \/ CloseEnd("control", "done")

Next == Control \/ Worker \/ CloseBegin("worker", "done") \/ CloseEnd("worker", "done")
        \/ Learner \/ Fit \/ FitFails

Spec == Init /\ [][Next]_vars
\* Every thread goes on; a fit ends sooner or later on the core it was given to.
FairSpec ==
    /\ Spec
    /\ WF_vars(Control) /\ WF_vars(Learner) /\ WF_vars(Fit)
    /\ WF_vars(Worker \/ CloseBegin("worker", "done") \/ CloseEnd("worker", "done"))
=============================================================================
