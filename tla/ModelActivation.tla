--------------------------- MODULE ModelActivation ---------------------------
(***************************************************************************)
(* How a model that was learned comes to drive the grill, and how it stops *)
(* doing so (controller/model_learning/activation_runtime.py and what it   *)
(* is called from).  The learner's thread prepares a candidate durably and *)
(* hands it over; the solver's thread installs it without output, asks for *)
(* its activation to be written, and lets it drive once that is durable.   *)
(* Hold reconciles the runtime with the durable row and with rollbacks,    *)
(* which come from the web process.  The persistence worker writes, and    *)
(* may fail for good; a session of Hold, or the process, may end anywhere. *)
(*                                                                         *)
(* A pair is a model with its estimator and solver: the candidate's number,*)
(* 0 for the configured one, and its role generation.  A transaction is an *)
(* incumbent and a candidate; its id is a hash of these.                   *)
(* Not modelled: a stored checkpoint that is rejected or staged, for which *)
(* Hold stops reconciling; a controller replaced within a session; the     *)
(* generation the learner is bound to when a trace opens, because of which *)
(* the code may leave unproposed what the learner proposes here; and fits  *)
(* begun for a generation that has since changed, which are dropped.       *)
(***************************************************************************)
EXTENDS Integers, SequencesExt

CONSTANTS
    MaxEvents   \* bound: candidates fitted, failures and refusals, rollbacks, and
                \* sessions that ended, together

ASSUME ActivationAssumption == MaxEvents \in Nat

VARIABLES
    row,        \* durable: the activation row
    chal,       \* durable: the challenger
    evidence,   \* durable: rollbacks and fallbacks, by their time stamps
    confident,  \* durable: the candidate of the last confidence decision, if open
    saved,      \* durable: the active pair of the controller's checkpoint
    queue,      \* the worker: activation work, in order
    reports,    \* the worker: fallback evidence, written after activation work
    failed,     \* the worker: _failed
    rt,         \* the ActivationRuntime of the session
    receipt,    \* what the receipt each owner holds says
    pc,         \* where the solver's loop is
    batch,      \* the dispatches it took
    dispatch,   \* _pending_dispatches of the runner: its activation operations
    learner,    \* where the learner's thread is
    holds,      \* the transaction of the candidate the learner has prepared
    learnRole,  \* _learning_role_generation
    fits,       \* how many candidates were fitted
    look,       \* Hold: the row it has read this time, until it reads the evidence
    seen,       \* Hold: _activation_state_identity
    seenLife,   \* Hold: _activation_lifecycle_evidence_id
    in,         \* whether a session of Hold runs
    entered,    \* the pair the session started with
    faults, rollbacks, ends

durable == <<row, chal, evidence, confident, saved>>
worker == <<queue, reports, failed>>
solver == <<pc, batch, dispatch>>
learning == <<learner, holds, learnRole, fits>>
hold == <<look, seen, seenLife>>
session == <<in, entered>>
bounds == <<rollbacks, ends>>
vars == <<durable, worker, rt, receipt, solver, learning, hold, session, faults, bounds>>

-----------------------------------------------------------------------------
Configured == [id |-> 0, role |-> 0]
NoPair == [id |-> -1, role |-> -1]
NoTxn == [inc |-> NoPair, cand |-> NoPair]
NoFlight == [phase |-> "none", t |-> NoTxn]
NoRow == [phase |-> "none", t |-> NoTxn]

Owners == {"flight", "abort", "learner", "restore"}
NoReceipts == [o \in Owners |-> "none"]

\* The pair the row says drives.
Authority(r) == IF r.phase = "active" THEN r.t.cand ELSE r.t.inc

\* The last lifecycle evidence about a candidate.
LastOf(cand) ==
    LET about == {i \in DOMAIN evidence : evidence[i].cand = cand}
    IN  IF about = {} THEN "none" ELSE evidence[Max(about)].kind

Larger(m, n) == IF m > n THEN m ELSE n

\* A new runtime: its pair may drive at once.
NewRuntime(pair) ==
    [active |-> pair, authorized |-> TRUE, backup |-> NoPair, inert |-> NoTxn,
     record |-> NoTxn, pending |-> NoTxn, flight |-> NoFlight, abort |-> NoTxn,
     known |-> {}, failedRoles |-> {}, gen |-> pair.role, events |-> <<>>,
     seed |-> "exact", terminated |-> FALSE]

Init ==
    /\ row = NoRow /\ chal = [phase |-> "none", t |-> NoTxn]
    /\ evidence = <<>> /\ confident = NoPair /\ saved = NoPair
    /\ queue = <<>> /\ reports = <<>> /\ failed = FALSE
    /\ rt = NewRuntime(Configured) /\ receipt = NoReceipts
    /\ pc = "top" /\ batch = <<>> /\ dispatch = <<>>
    /\ learner = "idle" /\ holds = NoTxn /\ learnRole = 0 /\ fits = 0
    /\ look = NoRow /\ seen = NoRow /\ seenLife = "none"
    /\ in = TRUE /\ entered = Configured
    /\ faults = 0 /\ rollbacks = 0 /\ ends = 0

\* Some n of the failures this behaviour may have.
Charge(n) ==
    /\ n = 0 \/ fits + faults + rollbacks + ends + n <= MaxEvents
    /\ faults' = faults + n

More == fits + faults + rollbacks + ends < MaxEvents

\* Whether a submission to the worker is accepted, and what a refusal costs: it
\* refuses everything once failed, and anything when its queue is full.
Answers == IF failed THEN {FALSE} ELSE BOOLEAN
Cost(ok) == IF ok \/ failed THEN 0 ELSE 1

Work(kind, t, owner) == [kind |-> kind, t |-> t, owner |-> owner]

\* Submits items; the receipts of the owners done have been read for good.
Send(items, done) ==
    /\ queue' = queue \o items
    /\ receipt' = [o \in Owners |-> IF \E i \in DOMAIN items : items[i].owner = o
                                    THEN "waiting"
                                    ELSE IF o \in done THEN "none" ELSE receipt[o]]

\* The items whose owner no longer waits for them are written all the same.
Abandoned(items, gone) ==
    [i \in DOMAIN items |-> IF items[i].owner \in gone
                            THEN [items[i] EXCEPT !.owner = "none"] ELSE items[i]]

Forget(owner) ==
    /\ receipt' = [receipt EXCEPT ![owner] = "none"]
    /\ queue' = Abandoned(queue, {owner})

\* The runtime's lock, held while it waits for a receipt.
Locked == pc = "restoring" \/ learner = "aborting"

-----------------------------------------------------------------------------
(* The runtime.  What an operation may leave: the runtime, what it submits, *)
(* whether it returns true, and the failures it took.                      *)
Outcome(r, sends, result, cost) ==
    [rt |-> r, sends |-> sends, result |-> result, cost |-> cost]

\* _terminate_locked
Terminated(r) == [r EXCEPT !.authorized = FALSE, !.terminated = TRUE]

\* _submit_aborted
SubmitAborted(r, t, cost) ==
    {IF ok THEN Outcome([r EXCEPT !.flight = [phase |-> "aborted", t |-> t]],
                        <<Work("aborted", t, "flight")>>, FALSE, cost)
           ELSE Outcome(Terminated(r), <<>>, FALSE, cost + Cost(ok)) : ok \in Answers}

\* The incumbent is seeded anew and drives again; a seed that is not to be had
\* leaves everything as it is.
Unseeded(r) == [r EXCEPT !.seed = "uncertain"]
Reinstated(r) ==
    [r EXCEPT !.active = r.backup, !.authorized = TRUE, !.backup = NoPair,
              !.inert = NoTxn, !.record = NoTxn, !.seed = "exact",
              !.gen = Larger(r.gen, r.active.role + 1)]

\* _compensate_locked, compensate_candidate_pair
Compensated(r, t, cost) ==
    IF r.active # t.cand THEN SubmitAborted(r, t, cost)
    ELSE {Outcome(Terminated(Unseeded(r)), <<>>, FALSE, cost + 1)}
         \union UNION {IF ok THEN SubmitAborted(Reinstated(r), t, cost)
                       ELSE {Outcome(Terminated(Reinstated(r)), <<>>, FALSE,
                                     cost + Cost(ok))} : ok \in Answers}

\* install_candidate_pair_inert: neither pair may drive until the row is active.
Inert(r, t) ==
    [r EXCEPT !.active = t.cand, !.authorized = FALSE, !.backup = r.active, !.inert = t]

\* The step of advance_activation that takes up a pending transition.
Installed(r, t) ==
    IF r.active # t.inc \/ r.inert # NoTxn THEN Compensated(r, t, 0)
    ELSE Compensated(r, t, 1)    \* it could not be seeded
         \union UNION {IF ok THEN {Outcome([Inert(r, t) EXCEPT
                                                !.flight = [phase |-> "active", t |-> t]],
                                           <<Work("active", t, "flight")>>, FALSE, 0)}
                       ELSE Compensated(Inert(r, t), t, Cost(ok)) : ok \in Answers}

\* authorize_candidate_pair
Authorized(r, t) ==
    LET driving == [r EXCEPT !.authorized = TRUE, !.record = t, !.inert = NoTxn,
                             !.gen = Larger(r.gen, t.cand.role)]
    IN  IF r.inert # t \/ r.active # t.cand THEN {Outcome(Terminated(r), <<>>, FALSE, 0)}
        ELSE {IF ok THEN Outcome([driving EXCEPT !.flight = NoFlight], <<>>, TRUE, 0)
              ELSE Outcome(Terminated(driving), <<>>, FALSE, Cost(ok)) : ok \in Answers}

\* Mutant: the transition whose row could not be made active stays in flight.
InFlightForever(r) ==
    CASE r.flight.phase = "active" /\ receipt["flight"] = "durable" -> Authorized(r, r.flight.t)
      [] r.flight.phase = "aborted" /\ receipt["flight"] = "durable" ->
            {Outcome([r EXCEPT !.flight = NoFlight], <<>>, TRUE, 0)}
      [] OTHER -> {Outcome(r, <<>>, FALSE, 0)}

\* The step that looks at a transition in flight.
InFlight(r) ==
    LET t == r.flight.t
        landed == [r EXCEPT !.flight = NoFlight]
    IN  CASE receipt["flight"] = "waiting" -> {Outcome(r, <<>>, FALSE, 0)}
          [] r.flight.phase = "active" /\ receipt["flight"] = "durable" -> Authorized(r, t)
          [] r.flight.phase = "active" /\ receipt["flight"] = "lost" -> Compensated(landed, t, 0)
          [] r.flight.phase = "aborted" /\ receipt["flight"] = "durable" ->
                {Outcome(landed, <<>>, TRUE, 0)}
          [] r.flight.phase = "aborted" /\ receipt["flight"] = "lost" ->
                {Outcome(Terminated(r), <<>>, FALSE, 0)}

\* _retry_pending_aborts_locked, without waiting.
Retried(r) ==
    IF receipt["abort"] = "waiting" THEN {Outcome(r, <<>>, FALSE, 0)}
    ELSE {Outcome(r, IF ok THEN <<Work("aborted", r.abort, "abort")>> ELSE <<>>,
                  FALSE, Cost(ok)) : ok \in Answers}

\* advance_activation
Advanced(r) ==
    IF r.abort # NoTxn /\ receipt["abort"] # "durable" THEN Retried(r)
    ELSE LET settled == [r EXCEPT !.abort = NoTxn]
         IN  CASE r.terminated -> {Outcome(settled, <<>>, FALSE, 0)}
               [] ~r.terminated /\ r.flight # NoFlight -> InFlight(settled)
               [] ~r.terminated /\ r.flight = NoFlight /\ r.pending # NoTxn ->
                     Installed([settled EXCEPT !.pending = NoTxn], r.pending)
               [] OTHER -> {Outcome(settled, <<>>, TRUE, 0)}

-----------------------------------------------------------------------------
(* Giving an active candidate up.                                          *)
CanFallBack(r) == ~r.terminated /\ r.backup # NoPair /\ r.authorized

Fenced(r) == [Reinstated(r) EXCEPT !.failedRoles = @ \union {r.active.role}]

\* _restore_rollback, for a rollback
RolledBack(r) ==
    IF ~CanFallBack(r) THEN {Outcome(r, <<>>, FALSE, 0)}
    ELSE {Outcome(Fenced(r), <<>>, TRUE, 0), Outcome(Unseeded(r), <<>>, FALSE, 1)}

\* _restore_rollback, for a failure: the failure is to be recorded.  The event
\* has the time stamp of now, however late it is written.
FellBack(r) ==
    IF ~CanFallBack(r) THEN {Outcome(r, <<>>, FALSE, 0)}
    ELSE LET told == [Fenced(r) EXCEPT !.events =
                         Append(@, [cand |-> r.active, place |-> Len(evidence)])]
         IN  {Outcome(Unseeded(r), <<>>, FALSE, 1)}
             \union {Outcome(IF ok THEN told ELSE Terminated(told), <<>>, ok, Cost(ok))
                        : ok \in Answers}

\* restore_activation, once a prepared row was made aborted.  gone is whether
\* the evidence Hold read gives the candidate up.
Restored(r, phase, t, gone) ==
    LET keeps == phase = "active" /\ ~gone
        pair == IF keeps THEN t.cand ELSE t.inc
    IN  {Outcome([r EXCEPT !.active = pair, !.authorized = TRUE, !.inert = NoTxn,
                           !.backup = IF keeps THEN t.inc ELSE NoPair,
                           !.record = IF keeps THEN t ELSE NoTxn,
                           !.gen = IF gone THEN t.cand.role + 1 ELSE pair.role,
                           !.failedRoles = IF gone THEN @ \union {t.cand.role} ELSE @,
                           !.known = @ \union {t}], <<>>, TRUE, 0),
         Outcome(Terminated(r), <<>>, FALSE, 1)}    \* it could not be rebuilt

\* sync_activation_generation: the learner takes the runtime's generation,
\* exactly or if its revision is not ahead of it, and a challenger that became
\* active, or whose incumbent no longer is, is retired.  Every candidate and
\* every round add to the revision, so that it is ahead of any pair's role.
Ahead == -1

Reviewed(c, active) ==
    IF c.phase \notin {"none", "retired"} /\ (active = c.t.cand \/ active # c.t.inc)
    THEN [c EXCEPT !.phase = "retired"] ELSE c

Synchronize(r, exact) ==
    /\ learnRole' = IF exact THEN r.gen ELSE Ahead
    /\ chal' = Reviewed(chal, r.active)
NotSynchronized == UNCHANGED <<learnRole, chal>>

-----------------------------------------------------------------------------
(* The solver's loop, ThreadedControllerRunner._loop.                      *)
\* With none to take it goes on at once.
TakeDispatches ==
    /\ in /\ pc = "top" /\ dispatch # <<>>
    /\ pc' = "dispatching" /\ batch' = dispatch /\ dispatch' = <<>>
    /\ UNCHANGED <<durable, worker, rt, receipt, learning, hold, session, faults, bounds>>

OutsideRuntime ==
    UNCHANGED <<row, evidence, confident, saved, reports, failed, dispatch, learner, holds,
                fits, hold, session, bounds>>

\* Rollback or fallback.
GiveUp ==
    /\ in /\ pc = "dispatching" /\ ~Locked
    /\ batch # <<>> /\ Head(batch).op # "restore"
    /\ \E o \in IF Head(batch).op = "rollback" THEN RolledBack(rt) ELSE FellBack(rt) :
          /\ Charge(o.cost) /\ rt' = o.rt
          /\ IF o.rt.active # rt.active THEN Synchronize(o.rt, FALSE) ELSE NotSynchronized
    /\ batch' = Tail(batch)
    /\ UNCHANGED <<queue, receipt, pc>> /\ OutsideRuntime

\* A transaction this runtime knows is left as it is, whatever was read of it.
RestoreKnown ==
    /\ in /\ pc = "dispatching" /\ ~Locked
    /\ batch # <<>> /\ Head(batch).op = "restore"
    /\ ~rt.terminated => Head(batch).row.t \in rt.known
    /\ IF rt.terminated THEN NotSynchronized ELSE Synchronize(rt, TRUE)
    /\ batch' = Tail(batch)
    /\ UNCHANGED <<rt, faults, queue, receipt, pc>> /\ OutsideRuntime

Unknown ==
    /\ in /\ pc = "dispatching" /\ ~Locked
    /\ batch # <<>> /\ Head(batch).op = "restore"
    /\ ~rt.terminated /\ Head(batch).row.t \notin rt.known

Conclude(outcomes, more) ==
    /\ \E o \in outcomes :
          /\ Charge(o.cost + more) /\ rt' = o.rt
          /\ IF o.result THEN Synchronize(o.rt, TRUE) ELSE NotSynchronized
    /\ batch' = Tail(batch) /\ pc' = "dispatching"

Restore ==
    /\ Unknown /\ Head(batch).row.phase # "prepared"
    /\ Conclude(Restored(rt, Head(batch).row.phase, Head(batch).row.t, Head(batch).gone), 0)
    /\ UNCHANGED <<queue, receipt>> /\ OutsideRuntime

\* recover_startup_activation aborts what it finds prepared, and waits for that.
RestorePrepared ==
    /\ Unknown /\ Head(batch).row.phase = "prepared"
    /\ \/ /\ ~failed
          /\ Send(<<Work("aborted", Head(batch).row.t, "restore")>>, {})
          /\ pc' = "restoring"
          /\ UNCHANGED <<rt, batch, faults, learnRole, chal>>
       \/ /\ Conclude({Outcome(Terminated(rt), <<>>, FALSE, Cost(FALSE))}, 0)
          /\ UNCHANGED <<queue, receipt>>
    /\ OutsideRuntime

RestoreAborted ==
    /\ in /\ pc = "restoring"
    /\ LET d == Head(batch)
           lost == {Outcome(Terminated(rt), <<>>, FALSE, 0)}
       IN  \/ /\ receipt["restore"] = "durable"
              /\ Conclude(Restored(rt, "aborted", d.row.t, d.gone), 0)
           \/ receipt["restore"] = "lost" /\ Conclude(lost, 0)
           \/ receipt["restore"] = "waiting" /\ Conclude(lost, 1)    \* for too long
    /\ Forget("restore") /\ OutsideRuntime

Advance ==
    /\ in /\ ~Locked
    /\ \/ pc = "dispatching" /\ batch = <<>>
       \/ pc = "top" /\ dispatch = <<>>
    /\ \E o \in Advanced(rt) :
          /\ Charge(o.cost) /\ rt' = o.rt
          /\ Send(o.sends, (IF o.rt.flight = NoFlight THEN {"flight"} ELSE {})
                             \union (IF o.rt.abort = NoTxn THEN {"abort"} ELSE {}))
          /\ pc' = IF o.result THEN "solve" ELSE "top"
          /\ IF o.rt.gen # rt.gen THEN Synchronize(o.rt, FALSE) ELSE NotSynchronized
    /\ UNCHANGED batch /\ OutsideRuntime

\* A solve, after which the controller may be checkpointed.
Solve ==
    /\ in /\ pc = "solve" /\ ~Locked
    /\ pc' = "top"
    /\ saved' \in IF failed THEN {saved} ELSE {saved, rt.active}
    /\ UNCHANGED <<row, chal, evidence, confident, worker, rt, receipt, batch, dispatch,
                   learning, hold, session, faults, bounds>>

\* handle_policy_failure: the solver of an activated pair fails.
SolveFails ==
    /\ in /\ pc = "solve" /\ ~Locked
    /\ rt.record # NoTxn
    /\ pc' = "top"
    /\ \E o \in FellBack(rt) :
          /\ Charge(o.cost + 1)
          /\ rt' = IF o.result THEN o.rt ELSE Terminated(o.rt)
          /\ IF o.rt.active # rt.active THEN Synchronize(o.rt, FALSE) ELSE NotSynchronized
    /\ UNCHANGED <<batch, queue, receipt>> /\ OutsideRuntime

\* Two deadlines missed, or a result too old: a fallback is dispatched.
MissDeadlines ==
    /\ in /\ Charge(1)
    /\ dispatch' = Append(dispatch, [op |-> "fallback", row |-> NoRow, gone |-> FALSE])
    /\ UNCHANGED <<durable, worker, rt, receipt, pc, batch, learning, hold, session, bounds>>

Solver ==
    \/ TakeDispatches \/ GiveUp \/ RestoreKnown \/ Restore \/ RestorePrepared
    \/ RestoreAborted \/ Advance \/ Solve

-----------------------------------------------------------------------------
(* The learner's thread, poll_learning_off_path.                           *)
LearnerFrame ==
    UNCHANGED <<evidence, saved, reports, failed, solver, learnRole, hold, session, bounds>>

\* A fit is delivered: its candidate replaces the challenger there was.
\* _persist_durable_challenger
Deliver ==
    /\ in /\ learner = "idle" /\ More
    /\ learnRole = rt.active.role
    /\ fits' = fits + 1
    /\ LET t == [inc |-> rt.active, cand |-> [id |-> fits', role |-> learnRole + 1]]
       IN  /\ holds' = t
           /\ chal' = [phase |-> "evaluating", t |-> t]
    /\ UNCHANGED <<row, confident, queue, rt, receipt, learner, faults>> /\ LearnerFrame

\* A round of its evaluation: lost, won, or the last that had to be won.
\* _persist_durable_evaluation_round, _persist_candidate_evaluation
Judge ==
    /\ in /\ learner = "idle"
    /\ chal.phase = "evaluating" /\ chal.t = holds
    /\ learnRole = holds.inc.role
    /\ \E phase \in {"retired", "evaluating", "qualified"} :
          /\ chal' = [chal EXCEPT !.phase = phase]
          /\ LET work == Work(IF phase = "qualified" THEN "confident" ELSE "blocked",
                              holds, "learner")
             IN  \E ok \in Answers :
                   /\ Charge(Cost(ok))
                   /\ Send(IF ok THEN <<work>> ELSE <<>>, {})
                   /\ learner' = IF ok THEN "confidence" ELSE "idle"
    /\ UNCHANGED <<row, confident, rt, holds, fits>> /\ LearnerFrame

AwaitConfidence ==
    /\ in /\ learner = "confidence"
    /\ \/ /\ receipt["learner"] = "durable"
          /\ learner' = IF chal.phase = "qualified" /\ chal.t = holds THEN "prepare" ELSE "idle"
          /\ UNCHANGED faults
       \/ receipt["learner"] = "lost" /\ learner' = "idle" /\ UNCHANGED faults
       \/ receipt["learner"] = "waiting" /\ learner' = "idle" /\ Charge(1)
    /\ Forget("learner")
    /\ UNCHANGED <<row, chal, confident, rt, holds, fits>> /\ LearnerFrame

\* Mutant: prepared whatever the row says.
PreparableWithoutAuthority ==
    chal.phase = "qualified" /\ chal.t = holds /\ rt.active = holds.inc

\* ActivationManager.prepare, prepare_model_challenger_activation
Preparable ==
    /\ chal.phase = "qualified" /\ chal.t = holds
    /\ rt.active = holds.inc
    /\ row.phase # "prepared"
    /\ row.phase # "none" => Authority(row) = holds.inc

Prepare ==
    /\ in /\ learner = "prepare"
    /\ IF Preparable
       THEN /\ row' = [phase |-> "prepared", t |-> holds]
            /\ chal' = [chal EXCEPT !.phase = "activating"]
            /\ learner' = "queue"
       ELSE learner' = "idle" /\ UNCHANGED <<row, chal>>
    /\ UNCHANGED <<confident, queue, rt, receipt, holds, fits, faults>> /\ LearnerFrame

\* queue_prepared_activation
Queueable(t) ==
    /\ ~rt.terminated
    /\ t \notin rt.known
    /\ t.inc = rt.active
    /\ t.cand.role > rt.active.role
    /\ t.cand.role \notin rt.failedRoles
    /\ rt.pending = NoTxn /\ rt.flight = NoFlight /\ rt.inert = NoTxn

\* Mutant: the transaction is not remembered.
TakenUnknown(t) == [rt EXCEPT !.pending = t]

Taken(t) == [rt EXCEPT !.pending = t, !.known = @ \union {t}]

Queue ==
    /\ in /\ learner = "queue" /\ ~Locked
    /\ IF Queueable(holds) THEN rt' = Taken(holds) /\ learner' = "lifecycle"
                           ELSE UNCHANGED rt /\ learner' = "refused"
    /\ UNCHANGED <<row, chal, confident, queue, receipt, holds, fits, faults>>
    /\ LearnerFrame

\* _abort_durable_challenger_activation
AbortRow ==
    IF chal.phase = "activating" /\ chal.t = holds /\ row = [phase |-> "prepared", t |-> holds]
    THEN row' = [row EXCEPT !.phase = "aborted"] /\ chal' = [chal EXCEPT !.phase = "retired"]
    ELSE UNCHANGED <<row, chal>>

Refused ==
    /\ in /\ learner = "refused"
    /\ AbortRow
    /\ learner' = "idle"
    /\ UNCHANGED <<confident, queue, rt, receipt, holds, fits, faults>> /\ LearnerFrame

\* The lifecycle evidence of the prepared activation.
RecordPrepared ==
    /\ in /\ learner = "lifecycle"
    /\ \E ok \in Answers :
          /\ Charge(Cost(ok))
          /\ learner' = IF ok THEN "idle" ELSE "withdraw"
          /\ IF ok THEN UNCHANGED <<row, chal>> ELSE AbortRow
    /\ UNCHANGED <<confident, queue, rt, receipt, holds, fits>> /\ LearnerFrame

\* abort_prepared_activation: only what is not installed yet can be withdrawn.
Withdraw ==
    /\ in /\ learner = "withdraw" /\ ~Locked
    /\ IF rt.pending = holds
       THEN /\ rt' = [rt EXCEPT !.pending = NoTxn, !.abort = holds,
                                !.failedRoles = @ \union {holds.cand.role}]
            /\ \E ok \in Answers :
                  /\ Charge(Cost(ok))
                  /\ queue' = IF ok THEN Append(queue, Work("aborted", holds, "abort"))
                              ELSE queue
                  /\ receipt' = [receipt EXCEPT !["abort"] = IF ok THEN "waiting" ELSE "none"]
                  /\ learner' = IF ok THEN "aborting" ELSE "idle"
       ELSE learner' = "idle" /\ UNCHANGED <<rt, queue, receipt, faults>>
    /\ UNCHANGED <<row, chal, confident, holds, fits>> /\ LearnerFrame

AwaitAborted ==
    /\ in /\ learner = "aborting"
    /\ \/ /\ receipt["abort"] = "durable"
          /\ rt' = [rt EXCEPT !.abort = NoTxn] /\ UNCHANGED faults
       \/ receipt["abort"] = "lost" /\ UNCHANGED <<rt, faults>>
       \/ receipt["abort"] = "waiting" /\ Charge(1) /\ UNCHANGED rt
    /\ learner' = "idle"
    /\ UNCHANGED <<row, chal, confident, queue, receipt, holds, fits>> /\ LearnerFrame

Learner ==
    \/ Judge \/ AwaitConfidence \/ Prepare \/ Queue \/ Refused \/ RecordPrepared
    \/ Withdraw \/ AwaitAborted

-----------------------------------------------------------------------------
(* Hold, at every tick: reconcile_activation, drain_activation_events.      *)
HoldFrame == UNCHANGED <<durable, queue, failed, receipt, pc, batch, learning, session, bounds>>

\* The row and the evidence are read one after the other.
ReadRow ==
    /\ in /\ look = NoRow /\ row # NoRow
    /\ look' = row
    /\ UNCHANGED <<reports, rt, dispatch, seen, seenLife, faults>> /\ HoldFrame

\* Mutant: the evidence is noted with the row only.
NewsOfRowOnly == look # seen

\* What was read differs from what the runtime was last told.
News == look # seen \/ LastOf(look.t.cand) \notin {"none", seenLife}

Reconcile ==
    /\ in /\ look # NoRow
    /\ LET life == LastOf(look.t.cand)
       IN  IF News
           THEN /\ seen' = look /\ seenLife' = life
                /\ dispatch' = Append(dispatch,
                      [op |-> IF look # seen THEN "restore" ELSE life, row |-> look,
                       gone |-> life # "none"])
           ELSE UNCHANGED <<seen, seenLife, dispatch>>
    /\ look' = NoRow
    /\ UNCHANGED <<reports, rt, faults>> /\ HoldFrame

DrainEvents ==
    /\ in /\ rt.events # <<>> /\ ~Locked
    /\ rt' = [rt EXCEPT !.events = <<>>]
    /\ \E ok \in Answers :
          Charge(Cost(ok)) /\ reports' = IF ok THEN reports \o rt.events ELSE reports
    /\ UNCHANGED <<dispatch, hold>> /\ HoldFrame

Hold == ReadRow \/ Reconcile \/ DrainEvents

-----------------------------------------------------------------------------
(* The web process: ModelRollbackService.rollback, commit_model_rollback.  *)
Rollback ==
    /\ More
    /\ row.phase = "active" /\ LastOf(row.t.cand) = "none"
    /\ rollbacks' = rollbacks + 1
    /\ evidence' = Append(evidence, [kind |-> "rollback", cand |-> row.t.cand])
    /\ UNCHANGED <<row, chal, confident, saved, worker, rt, receipt, solver, learning, hold,
                   session, faults, ends>>

-----------------------------------------------------------------------------
(* The worker.                                                             *)
WorkerFrame ==
    UNCHANGED <<chal, saved, rt, solver, learning, hold, session, bounds>>

Prepared(t) == row = [phase |-> "prepared", t |-> t]

\* commit_model_activation_phase
Writable(item) ==
    CASE item.kind = "active" -> Prepared(item.t) /\ confident = item.t.cand
      [] item.kind = "aborted" -> Prepared(item.t)
      [] OTHER -> TRUE

Told(verdict, items) ==
    [o \in Owners |-> IF \E i \in DOMAIN items : items[i].owner = o THEN verdict ELSE receipt[o]]

Write ==
    /\ queue # <<>>
    /\ LET item == Head(queue)
       IN  /\ Writable(item)
           /\ row' = IF item.kind \in {"active", "aborted"}
                     THEN [row EXCEPT !.phase = item.kind] ELSE row
           /\ confident' = CASE item.kind = "confident" -> item.t.cand
                             [] item.kind = "blocked" -> NoPair
                             [] OTHER -> confident
           /\ receipt' = Told("durable", <<item>>)
    /\ queue' = Tail(queue)
    /\ UNCHANGED <<evidence, reports, failed, faults>> /\ WorkerFrame

\* In the order of the time stamps.
WriteReport ==
    /\ queue = <<>> /\ reports # <<>>
    /\ LET e == Head(reports)
       IN  evidence' = InsertAt(evidence, e.place + 1, [kind |-> "fallback", cand |-> e.cand])
    /\ reports' = Tail(reports)
    /\ UNCHANGED <<row, confident, queue, failed, receipt, faults>> /\ WorkerFrame

\* A write that raises, of whatever, ends the worker's work for good.
FailWrite ==
    /\ ~failed
    /\ IF queue # <<>> /\ ~Writable(Head(queue)) THEN UNCHANGED faults ELSE Charge(1)
    /\ failed' = TRUE
    /\ queue' = <<>> /\ reports' = <<>>
    /\ receipt' = Told("lost", queue)
    /\ UNCHANGED <<row, evidence, confident>> /\ WorkerFrame

Worker == Write \/ WriteReport \/ (queue # <<>> /\ ~Writable(Head(queue)) /\ FailWrite)

-----------------------------------------------------------------------------
(* Sessions.                                                               *)
Out ==
    /\ in' = FALSE
    /\ rt' = [NewRuntime(Configured) EXCEPT !.authorized = FALSE]
    /\ receipt' = NoReceipts
    /\ pc' = "top" /\ batch' = <<>> /\ dispatch' = <<>>
    /\ learner' = "idle" /\ holds' = NoTxn /\ learnRole' = 0
    /\ look' = NoRow /\ seen' = NoRow /\ seenLife' = "none"
    /\ More /\ ends' = ends + 1
    /\ UNCHANGED <<durable, fits, entered, faults, rollbacks>>

\* ActivationRuntime.close: an abort not yet submitted still is; a transition
\* prepared, or in flight, is left to the next session.
Leave ==
    /\ in /\ learner = "idle" /\ ~Locked
    /\ Out
    /\ queue' = Abandoned(queue, Owners) \o
          (IF rt.abort # NoTxn /\ receipt["abort"] \in {"none", "lost"} /\ ~failed
           THEN <<Work("aborted", rt.abort, "none")>> ELSE <<>>)
    /\ UNCHANGED <<reports, failed>>

\* The process dies; the next one has a worker of its own.
Crash ==
    /\ in
    /\ Out
    /\ queue' = <<>> /\ reports' = <<>> /\ failed' = FALSE

Retirable == chal.phase \notin {"none", "retired"}

\* recover_model_challenger
Recovered(base) ==
    /\ row' = IF row.phase = "prepared" THEN [row EXCEPT !.phase = "aborted"] ELSE row
    /\ IF \/ row.phase = "prepared" /\ row.t = chal.t
          \/ chal.phase = "activating"
          \/ chal.t.inc # base
       THEN chal' = [chal EXCEPT !.phase = "retired"] /\ UNCHANGED holds
       ELSE holds' = chal.t /\ UNCHANGED chal

\* restore_model: the configured pair, or the checkpoint's; then the challenger
\* is taken up again, or retired if it does not fit the checkpoint.
Enter ==
    /\ ~in
    /\ in' = TRUE
    /\ \E base \in {Configured, saved} \ {NoPair} :
          /\ rt' = NewRuntime(base) /\ entered' = base /\ learnRole' = base.role
          /\ IF base = saved /\ Retirable
             THEN \/ Recovered(base)
                  \/ chal' = [chal EXCEPT !.phase = "retired"] /\ UNCHANGED <<row, holds>>
             ELSE UNCHANGED <<row, chal, holds>>
    /\ UNCHANGED <<evidence, confident, saved, worker, receipt, solver, learner, fits, hold,
                   faults, bounds>>

-----------------------------------------------------------------------------
Next ==
    \/ Solver \/ SolveFails \/ MissDeadlines
    \/ Deliver \/ Learner
    \/ Hold
    \/ Rollback
    \/ Write \/ WriteReport \/ FailWrite
    \/ Leave \/ Crash \/ Enter

Spec == Init /\ [][Next]_vars

\* Each thread goes on as long as its session lasts; nothing makes a session
\* end, a fit succeed or anyone ask for a rollback.
Fairness ==
    /\ WF_vars(Solver) /\ WF_vars(Learner) /\ WF_vars(Worker)
    /\ WF_vars(ReadRow \/ Reconcile) /\ WF_vars(DrainEvents)

FairSpec == Spec /\ Fairness
=============================================================================
