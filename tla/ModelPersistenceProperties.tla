--------------------- MODULE ModelPersistenceProperties ---------------------
(***************************************************************************)
(* What the callers of the persistence worker rely on.                     *)
(***************************************************************************)
EXTENDS ModelPersistence

Steps == {"idle", "taken", "prepared", "confirmed", "refused", "declined", "written"}

\* Every variable keeps to its values; ordinary work never takes the place kept
\* for activations and boundaries, but for the barrier of a close
\* (_admits_priority_locked, close).
TypeOK ==
    /\ calls \in 0..MaxCalls
    /\ Len(pending) <= WorkCapacity + 1
    /\ Cardinality(QueuedIdxs(LAMBDA item : Priority(item) = 4))
          <= Limit(4) + (IF stopping THEN 1 ELSE 0)
    /\ \A i \in 1..Len(pending) : /\ pending[i].kind \in Kinds
                                  /\ pending[i].id \in 1..pending[i].asOf
                                  /\ pending[i].asOf \in 1..calls
    /\ active.step \in Steps /\ active.saved \in 0..MaxRevision
    /\ receipt \in [1..MaxCalls -> {"none", "waiting", "durable", "lost"}]
    /\ {lastSaved, staged, model.rev} \subseteq 0..MaxRevision
    /\ {evidenceBlocked, failed, stopping} \subseteq BOOLEAN
    /\ thread \in {"none", "running", "ended"}

Held(kind) ==
    {pending[i] : i \in QueuedIdxs(LAMBDA item : item.kind = kind)}
        \union {item \in {active.item} : item.kind = kind}

-----------------------------------------------------------------------------
\* A receipt that says durable is backed by what a restart will find, and the
\* success of a fit is on record if and only if its receipt does not say lost
\* (the receipts completed in _run; pid_sp._evaluate_fit_request acts on them).
Backed(n) ==
    CASE asked[n].kind = "checkpoint-durable" -> model.rev >= asked[n].rev
      [] asked[n].kind = "checkpoint-terminal" ->
            <<n, "success">> \in records /\ model.rev >= asked[n].rev
      [] asked[n].kind = "activation" -> <<n, "activation">> \in records
      [] OTHER -> TRUE
ReceiptsTruthful ==
    \A n \in 1..calls :
        /\ receipt[n] = "durable" => Backed(n)
        /\ receipt[n] = "lost" => <<n, "success">> \notin records

\* The model on disk is never the committed form of a fit whose success is not
\* on record, and no fit is recorded both a success and a failure, wherever the
\* process dies (the three writes of a terminal checkpoint in _run).
TwoPhase ==
    /\ model.form = "committed" => <<model.by, "success">> \in records
    /\ \A n \in 1..calls : ~({<<n, "success">>, <<n, "failure">>} \subseteq records)

\* Evidence that was submitted is on disk or on its way there, or confidence is
\* blocked (evidence_blocked, "evidence loss/failure has made confidence fail
\* closed").
EvidenceAccounted ==
    \A n \in 1..calls :
        asked[n].kind \in {"evidence", "recorder-gap"} =>
            \/ evidenceBlocked
            \/ <<n, "evidence">> \in records
            \/ \E item \in Held("evidence") : item.id = n

\* Nothing submitted after a barrier is written before it, and what came before
\* is written when it completes (_next_work_locked, and "coalesce a checkpoint
\* without crossing a barrier fence", submit_checkpoint).
FenceHolds ==
    \A n \in 1..calls :
        asked[n].kind = "barrier" =>
            /\ receipt[n] = "waiting" => active.item.asOf < n
            /\ receipt[n] = "durable" => /\ \A i \in 1..Len(pending) : pending[i].id > n
                                         /\ active.item.id \notin 1..n

\* Whoever waits for a receipt is answered (_run, _fail_pending_locked).
AnsweredAll ==
    \A n \in 1..MaxCalls : receipt[n] = "waiting" ~> receipt[n] \in {"durable", "lost"}
=============================================================================
