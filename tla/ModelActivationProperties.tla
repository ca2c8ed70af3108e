---------------------- MODULE ModelActivationProperties ----------------------
(***************************************************************************)
(* What the activation of learned models promises.                         *)
(***************************************************************************)
EXTENDS ModelActivation

Driving == in /\ rt.authorized

\* What drives is the pair the session began with, the one the durable row puts in
\* authority, or one on which a transaction the runtime knows was built; a candidate
\* never drives before its activation is durable.  The last disjunct is a model put
\* back: a candidate that is given up leaves its incumbent, and so does an aborted
\* row that Hold read late, whatever was activated since (advance_activation,
\* restore_activation, _compensate_locked, _restore_rollback).
DrivenByAuthority ==
    Driving => \/ rt.active \in {entered, Authority(row)}
               \/ /\ rt.active # row.t.cand
                  /\ \E t \in rt.known : t.inc = rt.active

\* A model that failed, or was rolled back, in a session does not drive again in
\* it, however its row, its failure and Hold's reading of both interleave.  The
\* one way back the code leaves open: a transition prepared on top of it, which
\* restore_activation aborts, reinstates its incumbent without a look at
\* _failed_role_generations.
FailedStaysDown ==
    Driving /\ rt.active.role \in rt.failedRoles => \E t \in rt.known : t.inc = rt.active

\* The grill is driven by a model that the durable evidence gives up.
DrivesGivenUp ==
    /\ Driving
    /\ row.phase = "active" /\ row.t.cand = rt.active
    /\ LastOf(rt.active) # "none"

\* A rollback the operator asked for ends with the model no longer driving, or
\* with the estimator of the one it replaced found not to be seedable
\* (reconcile_activation, the dispatches of the runner, rollback_activation).
\* The proviso is what the code needs: Hold has noted no evidence yet, and it
\* notes the row before the rollback, or the runtime does not know the
\* transaction; one that is noted together with the row of a transaction the
\* runtime knows is handed to restore_activation, which ignores it.
RollbackHonoured ==
    (DrivesGivenUp /\ seenLife = "none" /\ (seen = row \/ row.t \notin rt.known))
        ~> (~DrivesGivenUp \/ rt.seed = "uncertain")

\* While a transition is under way the solver does not solve; whichever of its
\* writes fails, is refused or is withdrawn, it solves again, or the runtime is
\* terminated, with its output revoked.  The proviso is the one state the code
\* waits in for ever: an abort still to be written after the worker failed.
SolveResumes ==
    in ~> (pc = "solve" \/ ~in \/ rt.terminated \/ (rt.abort # NoTxn /\ failed))
=============================================================================
