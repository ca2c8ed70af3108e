-------------------------- MODULE ModelPersistence --------------------------
(***************************************************************************)
(* The one worker through which the control process makes what it learned  *)
(* durable (controller/runtime/model_persistence.py).  Callers queue work  *)
(* under the worker's lock and go on; the worker's thread takes one item at*)
(* a time, writes it with the lock released, and settles it under the lock *)
(* again.  The store behind it (common/controller_model_state.py) keeps a  *)
(* checkpoint only if its revision is newer; any write may fail.           *)
(*                                                                         *)
(* Every call gets the next number; the items queued are numbered in order.*)
(* One controller's checkpoints are modelled, and evidence one record at a *)
(* time.  The three activation submissions differ only in what they write. *)
(***************************************************************************)
EXTENDS TrajectoryRepository, FiniteSets, SequencesExt

CONSTANTS
    WorkCapacity,        \* work_capacity
    ActivationReserve,   \* activation_reserve
    BoundaryReserve,     \* boundary_reserve
    EvidenceCapacity,    \* evidence_capacity
    TrajectoryCapacity,  \* trajectory_capacity
    MaxRevision,         \* bound: revisions of a checkpoint
    MaxCalls             \* bound: calls that queue work

ASSUME QueueAssumption ==
    /\ {ActivationReserve, BoundaryReserve, EvidenceCapacity, TrajectoryCapacity}
          \subseteq Nat \ {0}
    /\ WorkCapacity \in Nat
    /\ ActivationReserve + BoundaryReserve < WorkCapacity
    /\ MaxRevision \in Nat /\ MaxCalls \in Nat

VARIABLES
    calls,            \* how many calls were made; the last one's number
    pending,          \* _pending_work
    active,           \* the item the thread holds and how far it is, or Idle
    receipt,          \* what the receipt of each call says
    answer,           \* the cursor and the segments it carries, for a trajectory
    lastSaved,        \* _last_saved_revisions
    cursors,          \* _segment_cursors
    blocked,          \* _blocked_segments
    evidenceBlocked,  \* _evidence_blocked
    failed,           \* _failed
    stopping,         \* _stopping and _close_called
    thread,           \* _thread: "none", "running" or "ended"
    model,            \* durable: the checkpoint, its revision and its writer
    records,          \* durable: evidence, confidence decisions, activations
    corpus,           \* durable: the learning trajectories
    staged,           \* the newest revision a load in this process would see
    asked             \* history: what each call asked for, and at what revision

queueVars == <<calls, asked, pending, receipt, answer>>
noQueue == <<calls, asked, answer>>
trajectoryVars == <<cursors, blocked>>
healthVars == <<evidenceBlocked, failed>>
disk == <<model, records, corpus>>
lifeVars == <<stopping, thread>>
checkpointVars == <<lastSaved, staged>>
workerVars == <<queueVars, active, trajectoryVars, healthVars, disk, lifeVars,
                checkpointVars>>

-----------------------------------------------------------------------------
Plain == "checkpoint"
Checkpoints == {Plain, "checkpoint-durable", "checkpoint-terminal"}
Kinds == Checkpoints \union
    {"activation", "evidence", "recorder-gap", "trajectory",
     "trajectory-quarantine", "barrier"}

NoBatch == [op |-> "none", cursor |-> NoCursor, next |-> NoSegment, frame |-> 0]
\* An item of the queue; asOf is the last call whose data it carries.
Item(kind, rev, batch) ==
    [kind |-> kind, id |-> calls + 1, asOf |-> calls + 1, rev |-> rev, batch |-> batch]
Idle == [item |-> [kind |-> "none", id |-> 0, asOf |-> 0, rev |-> 0, batch |-> NoBatch],
         step |-> "idle", saved |-> 0]
NoAnswer == [cursor |-> NoCursor, segments |-> {}]
NoModel == [rev |-> 0, by |-> 0, form |-> "none"]

Larger(m, n) == IF m > n THEN m ELSE n
IsAppend(batch) == batch.op = "append"
\* _trajectory_segment_id
SegmentOf(batch) == IF batch.op = "begin" THEN batch.next ELSE batch.cursor.seg

Priority(item) ==
    CASE item.kind = "activation" -> 0
      [] item.kind = "trajectory-quarantine" -> 1
      [] item.kind = "trajectory" -> IF IsAppend(item.batch) THEN 2 ELSE 1
      [] OTHER -> 4

Total == Len(pending) + (IF active = Idle THEN 0 ELSE 1)
Limit(priority) ==
    CASE priority = 0 -> WorkCapacity
      [] priority = 1 -> WorkCapacity - ActivationReserve
      [] OTHER -> WorkCapacity - ActivationReserve - BoundaryReserve

Admits(priority) == Total < Limit(priority)

QueuedIdxs(Test(_)) == {i \in 1..Len(pending) : Test(pending[i])}
BarrierIdxs == QueuedIdxs(LAMBDA item : item.kind = "barrier")
PlainIdxs == QueuedIdxs(LAMBDA item : item.kind = Plain)

Init ==
    /\ calls = 0 /\ pending = <<>> /\ active = Idle
    /\ receipt = [n \in 1..MaxCalls |-> "none"]
    /\ answer = [n \in 1..MaxCalls |-> NoAnswer]
    /\ lastSaved = 0 /\ staged = 0
    /\ cursors = [s \in {} |-> NoCursor] /\ blocked = {}
    /\ evidenceBlocked = FALSE /\ failed = FALSE
    /\ stopping = FALSE /\ thread = "none"
    /\ model = NoModel /\ records = {} /\ corpus = EmptyCorpus
    /\ asked = [n \in 1..MaxCalls |-> [kind |-> "none", rev |-> 0]]

-----------------------------------------------------------------------------
(* Submissions.  Each is one critical section of the worker's lock.        *)
Open == ~failed /\ ~stopping

Number(kind, rev) ==
    /\ calls < MaxCalls
    /\ calls' = calls + 1
    /\ asked' = [asked EXCEPT ![calls + 1] = [kind |-> kind, rev |-> rev]]

\* The call is numbered and its item queued; the thread starts with the first.
Enqueue(item, state) ==
    /\ Number(item.kind, item.rev)
    /\ pending' = Append(pending, item)
    /\ receipt' = [receipt EXCEPT ![calls + 1] = state]
    /\ UNCHANGED answer
    /\ thread' = IF thread = "none" THEN "running" ELSE thread

\* Mutant: whatever follows.
ReplaceableAnywhere == {i \in PlainIdxs : \A j \in PlainIdxs : j <= i}

\* The plain checkpoint a newer one may replace: the last, if no barrier follows.
Replaceable ==
    {i \in PlainIdxs : /\ \A j \in PlainIdxs : j <= i
                       /\ \A j \in BarrierIdxs : j < i}

Known ==
    {pending[i].rev : i \in PlainIdxs} \union {lastSaved}
        \union (IF active.item.kind \in Checkpoints THEN {active.item.rev} ELSE {})

SubmitCheckpoint(rev) ==
    /\ Open
    /\ \/ /\ \E r \in Known : rev <= r
          /\ Number(Plain, rev)
          /\ UNCHANGED <<pending, receipt, answer, thread, staged>>
       \/ /\ \A r \in Known : rev > r
          /\ staged' = Larger(staged, rev)
          /\ \/ /\ Number(Plain, rev)
                /\ \E i \in Replaceable :
                     pending' = [pending EXCEPT ![i].rev = rev, ![i].asOf = calls + 1]
                /\ UNCHANGED <<receipt, answer, thread>>
             \/ /\ Replaceable = {} /\ Admits(4)
                /\ Enqueue(Item(Plain, rev, NoBatch), "none")
    /\ UNCHANGED <<active, lastSaved, trajectoryVars, healthVars, disk, stopping>>

\* submit_durable_checkpoint, submit_checkpoint_with_terminal_evidence: the
\* second is not staged, and writes rev prepared and rev + 1 committed.
SubmitDurable(kind, rev) ==
    /\ Open /\ Admits(4)
    /\ Enqueue(Item(kind, rev, NoBatch), "waiting")
    /\ staged' = IF kind = "checkpoint-durable" THEN Larger(staged, rev) ELSE staged
    /\ UNCHANGED <<active, lastSaved, trajectoryVars, healthVars, disk, stopping>>

SubmitActivation ==
    /\ Open /\ Admits(0)
    /\ Enqueue(Item("activation", 0, NoBatch), "waiting")
    /\ UNCHANGED <<active, checkpointVars, trajectoryVars, healthVars, disk, stopping>>

\* Mutant: only a gap that cannot be queued blocks confidence.
RejectEvidenceQuietly ==
    \/ /\ Open /\ Admits(4)
       /\ Enqueue(Item("recorder-gap", 0, NoBatch), "none")
       /\ UNCHANGED evidenceBlocked
    \/ /\ ~(Open /\ Admits(4))
       /\ Number("recorder-gap", 0)
       /\ evidenceBlocked' = TRUE
       /\ UNCHANGED <<pending, receipt, answer, thread>>

\* A record that is not queued leaves a gap record, if that can be queued.
RejectEvidence ==
    /\ evidenceBlocked' = TRUE
    /\ \/ /\ Open /\ Admits(4)
          /\ Enqueue(Item("recorder-gap", 0, NoBatch), "none")
       \/ /\ ~(Open /\ Admits(4))
          /\ Number("recorder-gap", 0)
          /\ UNCHANGED <<pending, receipt, answer, thread>>

SubmitEvidence ==
    /\ \/ /\ Open /\ Admits(4)
          /\ Cardinality(QueuedIdxs(LAMBDA item : item.kind = "evidence")) < EvidenceCapacity
          /\ Enqueue(Item("evidence", 0, NoBatch), "none")
          /\ UNCHANGED evidenceBlocked
       \/ /\ \/ ~Open \/ ~Admits(4)
             \/ Cardinality(QueuedIdxs(LAMBDA item : item.kind = "evidence"))
                  >= EvidenceCapacity
          /\ RejectEvidence
    /\ UNCHANGED <<active, checkpointVars, trajectoryVars, failed, disk, stopping>>

-----------------------------------------------------------------------------
(* Trajectory work.                                                        *)
AppendsQueued ==
    QueuedIdxs(LAMBDA item : item.kind = "trajectory" /\ IsAppend(item.batch))

\* What submit_trajectory_batch refuses, besides a closed or failed worker.
LineageBlocked(batch) == batch.op \in {"begin", "append"} /\ SegmentOf(batch) \in blocked
Overflows(batch) ==
    \/ IsAppend(batch) /\ Cardinality(AppendsQueued) >= TrajectoryCapacity
    \/ ~Admits(Priority(Item("trajectory", 0, batch)))

SubmitTrajectory(batch) ==
    /\ Open /\ ~LineageBlocked(batch) /\ ~Overflows(batch)
    /\ Enqueue(Item("trajectory", 0, batch), "waiting")
    /\ UNCHANGED <<evidenceBlocked, blocked>>

\* A refused append that overflowed blocks its lineage, a refused boundary not.
RefuseTrajectory(batch) ==
    /\ ~Open \/ LineageBlocked(batch) \/ Overflows(batch)
    /\ IF Open /\ ~LineageBlocked(batch) /\ IsAppend(batch)
       THEN evidenceBlocked' = TRUE /\ blocked' = blocked \union {SegmentOf(batch)}
       ELSE UNCHANGED <<evidenceBlocked, blocked>>
    /\ UNCHANGED <<queueVars, thread>>

\* submit_trajectory_quarantine blocks the lineage first, whatever follows.
SubmitQuarantine(s) ==
    /\ evidenceBlocked' = TRUE
    /\ blocked' = blocked \union {s}
    /\ Open /\ Admits(1)
    /\ Enqueue(Item("trajectory-quarantine", 0,
                    [NoBatch EXCEPT !.cursor = [NoCursor EXCEPT !.seg = s]]), "waiting")

RefuseQuarantine(s) ==
    /\ evidenceBlocked' = TRUE
    /\ blocked' = blocked \union {s}
    /\ ~(Open /\ Admits(1))
    /\ UNCHANGED <<queueVars, thread>>

-----------------------------------------------------------------------------
(* Fences.  A caller may stop waiting for either at any time; that changes *)
(* nothing here.                                                           *)
Barrier ==
    /\ ~stopping /\ Admits(4)
    /\ pending # <<>> \/ active # Idle
    /\ Enqueue(Item("barrier", 0, NoBatch), "waiting")
    /\ UNCHANGED <<active, checkpointVars, trajectoryVars, healthVars, disk, stopping>>

\* The barrier of a close is queued whatever the capacity.
Close ==
    /\ ~stopping
    /\ stopping' = TRUE
    /\ IF thread = "none" THEN UNCHANGED <<queueVars, thread>>
       ELSE Enqueue(Item("barrier", 0, NoBatch), "waiting")
    /\ UNCHANGED <<active, checkpointVars, trajectoryVars, healthVars, disk>>

-----------------------------------------------------------------------------
(* The worker's thread.                                                    *)
\* No earlier trajectory item of the same segment is queued.  A quarantine has
\* no lineage.
LineageReady(i) ==
    pending[i].kind = "trajectory" =>
        \A j \in 1..i - 1 :
            pending[j].kind = "trajectory"
                => SegmentOf(pending[j].batch) # SegmentOf(pending[i].batch)

BeforeFence(i) == \A j \in BarrierIdxs : i < j

Eligible ==
    {i \in 1..Len(pending) :
        pending[i].kind # "barrier" /\ BeforeFence(i) /\ LineageReady(i)}

\* The first of the most urgent.
NextWork ==
    CHOOSE i \in Eligible :
        \A j \in Eligible :
            \/ Priority(pending[i]) < Priority(pending[j])
            \/ Priority(pending[i]) = Priority(pending[j]) /\ i <= j

Take ==
    /\ thread = "running" /\ active = Idle /\ Eligible # {}
    /\ active' = [item |-> pending[NextWork], step |-> "taken", saved |-> 0]
    /\ pending' = RemoveAt(pending, NextWork)
    /\ UNCHANGED <<noQueue, receipt, trajectoryVars, healthVars, disk, lifeVars,
                   checkpointVars>>

PassBarrier ==
    /\ thread = "running" /\ active = Idle /\ Eligible = {} /\ BarrierIdxs # {}
    /\ LET i == CHOOSE j \in BarrierIdxs : \A k \in BarrierIdxs : j <= k
       IN  /\ pending' = RemoveAt(pending, i)
           /\ receipt' = [receipt EXCEPT ![pending[i].id] = "durable"]
    /\ UNCHANGED <<noQueue, active, trajectoryVars, healthVars, disk, lifeVars,
                   checkpointVars>>

End ==
    /\ thread = "running" /\ active = Idle /\ pending = <<>> /\ stopping
    /\ thread' = "ended"
    /\ UNCHANGED <<queueVars, active, trajectoryVars, healthVars, disk, stopping,
                   checkpointVars>>

-----------------------------------------------------------------------------
(* Writing, with the lock released.                                        *)
Writing(step) == active.step = step
Reaches(step) == active' = [active EXCEPT !.step = step]
ReachesSaved(step, rev) == active' = [active EXCEPT !.step = step, !.saved = rev]
WriteFrame == UNCHANGED <<queueVars, trajectoryVars, healthVars, lifeVars, checkpointVars>>

\* save_outcome: an older or equal revision is not written and is no failure.
Saved(rev, form) ==
    /\ model' = IF rev > model.rev THEN [rev |-> rev, by |-> active.item.id, form |-> form]
                ELSE model
    /\ UNCHANGED <<records, corpus>>

Recorded(what) ==
    /\ records' = records \union {<<active.item.id, what>>}
    /\ UNCHANGED <<model, corpus>>

WriteCheckpoint ==
    /\ Writing("taken") /\ active.item.kind \in {Plain, "checkpoint-durable"}
    /\ Saved(active.item.rev, "plain")
    /\ ReachesSaved("written", active.item.rev)
    /\ WriteFrame

WriteRecord ==
    /\ Writing("taken") /\ active.item.kind \in {"activation", "evidence", "recorder-gap"}
    /\ Recorded(active.item.kind)
    /\ Reaches("written")
    /\ WriteFrame

\* Mutant: it is saved committed at once.
WritePreparedAsCommitted ==
    /\ Writing("taken") /\ active.item.kind = "checkpoint-terminal"
    /\ \/ Saved(active.item.rev, "committed") /\ ReachesSaved("prepared", active.item.rev)
       \/ UNCHANGED disk /\ Reaches("refused")
    /\ WriteFrame

\* A fit is saved prepared, its success recorded, and then saved committed.
WritePrepared ==
    /\ Writing("taken") /\ active.item.kind = "checkpoint-terminal"
    /\ \/ Saved(active.item.rev, "prepared") /\ ReachesSaved("prepared", active.item.rev)
       \/ UNCHANGED disk /\ Reaches("refused")
    /\ WriteFrame

WriteSuccess ==
    /\ Writing("prepared")
    /\ \/ Recorded("success") /\ Reaches("confirmed")
       \/ UNCHANGED disk /\ Reaches("refused")
    /\ WriteFrame

\* Left prepared when this fails: a restart reconciles it with the record.
WriteCommitted ==
    /\ Writing("confirmed")
    /\ \/ /\ Saved(active.item.rev + 1, "committed")
          /\ ReachesSaved("written", active.item.rev + 1)
       \/ UNCHANGED disk /\ Reaches("written")
    /\ WriteFrame

WriteFailure ==
    /\ Writing("refused")
    /\ Recorded("failure") /\ Reaches("declined")
    /\ WriteFrame

\* _effective_trajectory_batch: the cursor this worker knows, if it knows one.
Effective(batch) ==
    IF batch.op # "begin" /\ batch.cursor.seg \in DOMAIN cursors
    THEN [batch EXCEPT !.cursor = cursors[batch.cursor.seg]]
    ELSE batch

\* Mutant: what the corpus refuses is passed over.
WriteTrajectoryIfItApplies ==
    /\ Writing("taken") /\ active.item.kind = "trajectory"
    /\ corpus' = IF Applicable(corpus, Effective(active.item.batch))
                 THEN Applied(corpus, Effective(active.item.batch)) ELSE corpus
    /\ UNCHANGED <<model, records>>
    /\ Reaches("written")
    /\ WriteFrame

WriteTrajectory ==
    /\ Writing("taken") /\ active.item.kind = "trajectory"
    /\ Applicable(corpus, Effective(active.item.batch))
    /\ corpus' = Applied(corpus, Effective(active.item.batch))
    /\ UNCHANGED <<model, records>>
    /\ Reaches("written")
    /\ WriteFrame

WriteQuarantine ==
    /\ Writing("taken") /\ active.item.kind = "trajectory-quarantine"
    /\ corpus.seg[SegmentOf(active.item.batch)].state # "absent"
    /\ corpus' = Quarantined(corpus, SegmentOf(active.item.batch))
    /\ UNCHANGED <<model, records>>
    /\ Reaches("written")
    /\ WriteFrame

-----------------------------------------------------------------------------
(* Settling, under the lock.                                               *)
Stamped(known, revision) == [s \in DOMAIN known |-> [known[s] EXCEPT !.revision = revision]]
Forget(known, S) == [s \in DOMAIN known \ S |-> known[s]]
Learn(known, S, cursor) == [s \in DOMAIN known \union S |-> IF s \in S THEN cursor ELSE known[s]]

\* _record_trajectory_success_locked
Remember(batch, cursor) ==
    LET known == Stamped(cursors, cursor.revision)
        lineage == {s \in DOMAIN known : s = batch.cursor.seg
                                          \/ known[s].seg = batch.cursor.seg}
    IN  CASE batch.op = "begin" ->
               /\ cursors' = Learn(known, {cursor.seg}, cursor)
               /\ blocked' = blocked \ {cursor.seg}
          [] batch.op = "break" ->
               /\ cursors' = Learn(Forget(known, lineage), {cursor.seg}, cursor)
               /\ blocked' = blocked \ (lineage \union {batch.cursor.seg, cursor.seg})
          [] batch.op = "finalize" ->
               /\ cursors' = Forget(known, lineage)
               /\ UNCHANGED blocked
          [] batch.op = "append" ->
               /\ cursors' = Learn(known, lineage \union {batch.cursor.seg}, cursor)
               /\ UNCHANGED blocked

Receipts == {"activation", "checkpoint-durable", "checkpoint-terminal", "trajectory",
             "trajectory-quarantine"}

\* Mutant: a fit that was declined is reported like one that was written.
VerdictOfAnEnd == "durable"

Verdict == IF active.step = "written" THEN "durable" ELSE "lost"

\* The item is done with, and its receipt, if any, says so.
Settle ==
    /\ active.step \in {"written", "declined"}
    /\ LET item == active.item
       IN  /\ receipt' = IF item.kind \in Receipts
                         THEN [receipt EXCEPT ![item.id] = Verdict] ELSE receipt
           /\ lastSaved' = Larger(lastSaved, active.saved)
           /\ IF item.kind = "trajectory"
              THEN LET batch == Effective(item.batch)
                   IN  /\ Remember(batch, Returned(corpus, batch))
                       /\ answer' = [answer EXCEPT ![item.id] =
                                       [cursor |-> Returned(corpus, batch),
                                        segments |-> ReadBack(batch)]]
              ELSE UNCHANGED <<trajectoryVars, answer>>
    /\ active' = Idle
    /\ UNCHANGED <<calls, asked, pending, healthVars, disk, lifeVars, staged>>

\* Mutant: only the receipt of the work that failed is answered.
FailActive(lost) ==
    [n \in DOMAIN receipt |->
        IF n = lost /\ receipt[n] = "waiting" THEN "lost" ELSE receipt[n]]

\* _fail_pending_locked: every receipt still waiting is answered.
FailPending(lost) ==
    [n \in DOMAIN receipt |->
        CASE \E i \in 1..Len(pending) : pending[i].id = n /\ receipt[n] = "waiting"
                -> IF \E i \in BarrierIdxs : pending[i].id = n THEN "durable" ELSE "lost"
          [] n = lost /\ receipt[n] = "waiting" -> "lost"
          [] OTHER -> receipt[n]]

\* Whatever raises stops this worker for good; any write may, and a trajectory's
\* that does not apply is bound to.
Fail ==
    /\ \/ Writing("taken") /\ active.item.kind # "checkpoint-terminal"
       \/ Writing("refused")
    /\ failed' = TRUE /\ evidenceBlocked' = TRUE
    /\ blocked' = IF active.item.kind = "trajectory"
                  THEN blocked \union {SegmentOf(active.item.batch)} ELSE blocked
    /\ receipt' = FailPending(active.item.id)
    /\ pending' = <<>>
    /\ active' = Idle
    /\ UNCHANGED <<noQueue, cursors, disk, lifeVars, checkpointVars>>

Write ==
    \/ WriteCheckpoint \/ WriteRecord \/ WritePrepared \/ WriteSuccess
    \/ WriteCommitted \/ WriteFailure
WriteLearning == WriteTrajectory \/ WriteQuarantine

Worker == Take \/ PassBarrier \/ Write \/ Settle \/ Fail \/ End

-----------------------------------------------------------------------------
(* The worker under every caller but the trajectory recorder.              *)
Calls ==
    \/ \E rev \in 1..MaxRevision :
          \/ SubmitCheckpoint(rev)
          \/ SubmitDurable("checkpoint-durable", rev)
          \/ rev < MaxRevision /\ SubmitDurable("checkpoint-terminal", rev)
    \/ SubmitActivation \/ SubmitEvidence
    \/ Barrier \/ Close

WorkerSpec == Init /\ [][Calls \/ Worker]_workerVars /\ WF_workerVars(Worker)
=============================================================================
