--------------------- MODULE ControllerRunnerProperties ---------------------
(***************************************************************************)
(* What the threads of a controller owe Hold, the core and each other.     *)
(***************************************************************************)
EXTENDS ControllerRunner

Generations == 0..MaxCores
Observations == [seq : 1..MaxWork, gen : Generations]

\* Every variable keeps to its values and every queue to its bound.
TypeOK ==
    /\ conf.core \in Built /\ conf.pending \in Built \union {0}
    /\ conf.revision \in 0..Len(cores.kind) - 1
    /\ cores.seeded \union cores.closed \subseteq Built
    /\ queue.accepted \union buffer.drops \subseteq Observations
    /\ ToSet(queue.observations) \union ToSet(buffer.outcomes) \subseteq Observations
    /\ Len(queue.observations) <= ObservationCapacity
    /\ Len(queue.dispatches) <= DispatchCapacity
    /\ Len(buffer.outcomes) <= OutcomeCapacity
    /\ Cardinality(hold.waiting) <= HoldCapacity
    /\ buffer.contexts \subseteq Generations
    /\ released \subseteq 1..MaxWork
    /\ hold.adopted \in 0..conf.revision

-----------------------------------------------------------------------------
\* Where a frame that was submitted is: with the worker, or answered, or dropped,
\* or its fate is known to Hold, and never in two of these, however queues
\* overflow, cores are replaced and stops give up (_accepted_observations,
\* _terminalize_observation_locked, ObservationOutcomeBuffer).
Places == <<Sequences(queue.accepted), Sequences(ToSet(buffer.outcomes)),
            Sequences(buffer.drops), released>>
Accounted ==
    \A seq \in 1..queue.submitted : Cardinality({i \in 1..4 : seq \in Places[i]}) = 1

\* No thread calls a core that has been closed (_wait_for_learning_release, the
\* joins, _close_final_core's conditions).
Calls(t) ==
    CASE t = "worker" -> IF pc.worker \in {"seed", "serve", "learn", "solve"}
                         THEN {conf.core} ELSE {}
      [] t = "learner" -> IF pc.learner \in {"schedule", "poll"} THEN {poll.learner.core} ELSE {}
      [] t = "fit" -> IF pc.fit \in {"schedule", "poll"} THEN {poll.fit.core} ELSE {}
UsedOpen == \A t \in {"worker", "learner", "fit"} : Calls(t) \intersect cores.closed = {}

\* An MPC never solves before its estimator was seeded, whichever seeds were
\* refused, late or superseded (_seed_pending_for_solve).
Solves == At("worker", "solve") /\ hand.update
SolvesSeeded == Solves /\ Mpc(conf.core) => conf.core \in cores.seeded

\* When Hold lets go of its frames each of them has been answered or dropped
\* (_rotate_evidence_sessions_for_reserved_runner_generations).
AllAnswered == hold.unanswered = {}

\* Once Hold has been left every core built is closed in the end, and the trace's
\* finalizer has run by then, unless a fit waits for a ticket of a core that has
\* been replaced.
Stranded ==
    /\ At("fit", "poll")
    /\ ~\E ticket \in fits.tickets :
          ticket.plan = poll.fit.plan /\ ticket.core = poll.fit.core
TornDown ==
    At("control", "join") ~>
        (cores.closed = Built /\ life.finalizer = "ran") \/ Stranded

-----------------------------------------------------------------------------
\* "Runs core.update() on a background thread at the core's control period"
\* (ThreadedControllerRunner): a core that needs no seed solves once there is a
\* temperature, or is replaced, or Hold is left.
KeepsUpdating ==
    \A core \in 1..MaxCores :
        (core \in Built /\ conf.core = core /\ ~Mpc(core) /\ temp)
            ~> (Solves \/ conf.core # core \/ life.stop)
=============================================================================
