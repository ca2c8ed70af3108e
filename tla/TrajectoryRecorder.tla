------------------------- MODULE TrajectoryRecorder -------------------------
(***************************************************************************)
(* The recorder of learning trajectories during Hold                       *)
(* (controller/runtime/learning_trajectory.py) together with the worker it *)
(* hands its batches to.  It runs on the control loop and never waits,     *)
(* except when Hold is left; it learns what became of a batch by reaping   *)
(* the receipts at its next call.                                          *)
(*                                                                         *)
(* A call is a sequence of steps between which the worker acts, each with  *)
(* at most one submission.  The recorder's lineage token is modelled by    *)
(* whether a receipt still belongs to the segment being recorded.  Smoke's *)
(* pre-roll and the process's last close are left out.                     *)
(***************************************************************************)
EXTENDS ModelPersistence

CONSTANTS
    MaxFrames,   \* bound: frames of Hold
    MaxBreaks    \* bound: interruptions of a recording

ASSUME RecorderAssumption == MaxFrames \in Nat /\ MaxBreaks \in Nat

VARIABLES
    call,          \* the steps left of the call the loop made; none between calls
    frame,         \* the last frame of Hold that was completed
    lineage,       \* how many segments the recorder has named
    enabled,       \* _enabled
    segment,       \* _segment_id
    cursor,        \* _cursor
    pendingBreak,  \* _pending_break: the cursor of the segment to break
    boundary,      \* _pending_boundary: what to do when a cursor is there
    waiting,       \* _pending_receipts, in the order of their numbers; current: its
                   \* token is the recorder's still
    quarantining,  \* _pending_quarantine_receipts
    retry,         \* _quarantine_retry_segment_ids
    breaks,        \* interruptions so far
    untraced,      \* history: the segments whose trace was not published
    sent           \* history: the frames submitted, each with its segment

recording == <<enabled, segment, cursor, pendingBreak, boundary>>
receiptVars == <<waiting, quarantining, retry>>
history == <<untraced, sent>>
recorderVars == <<call, frame, lineage, recording, receiptVars, breaks, history>>
vars == <<workerVars, recorderVars>>

\* What the worker keeps to itself while the recorder queues a trajectory.
workerFrame == <<active, checkpointVars, cursors, failed, disk, stopping>>

\* _reap_receipts is two steps, which a call makes before others.
ReapSteps == <<"reap", "drain">>
\* barrier: it tries four times to have nothing left to wait for.
Attempt == <<"fence">> \o ReapSteps \o <<"fenced">>
BarrierSteps == Attempt \o Attempt \o Attempt \o Attempt \o <<"giveup">>

At(step) == call # <<>> /\ Head(call) = step
Then(steps) == call' = steps \o Tail(call)
Begins(steps) == call = <<>> /\ call' = steps

RecorderInit ==
    /\ Init
    /\ call = <<>> /\ frame = 0 /\ lineage = 0 /\ breaks = 0
    /\ enabled = TRUE
    /\ segment = NoSegment /\ cursor = NoCursor
    /\ pendingBreak = NoCursor /\ boundary = "none"
    /\ waiting = {} /\ quarantining = {} /\ retry = {}
    /\ untraced = {} /\ sent = {}

-----------------------------------------------------------------------------
(* The calls of the control loop.                                          *)
\* A completed frame of Hold whose outcome is accepted is observed; one that is
\* rejected on the way is not, and the recorder is told nothing.
CompleteFrame ==
    /\ frame < MaxFrames
    /\ frame' = frame + 1
    /\ \/ enabled /\ Begins(ReapSteps \o <<"submit">>)
       \/ call = <<>> /\ UNCHANGED call
    /\ UNCHANGED <<workerVars, lineage, recording, receiptVars, breaks, history>>

\* A lost probe, an uncertain delivery or a jump of the clock ends the segment;
\* a change of configuration splits it; leaving Hold does either, and waits.
Interrupt ==
    /\ breaks < MaxBreaks
    /\ breaks' = breaks + 1
    /\ \E how \in {"finalize", "split"}, left \in BOOLEAN :
          Begins(ReapSteps \o <<how>> \o (IF left THEN BarrierSteps ELSE <<>>))
    /\ UNCHANGED <<workerVars, frame, lineage, recording, receiptVars, history>>

\* Entering Hold again is what enables a recorder that gave up.
EnterHold ==
    /\ ~enabled /\ breaks < MaxBreaks
    /\ breaks' = breaks + 1
    /\ Begins(ReapSteps \o <<"enter">>)
    /\ UNCHANGED <<workerVars, frame, lineage, recording, receiptVars, history>>

Enter ==
    /\ At("enter") /\ enabled' = TRUE /\ Then(<<>>)
    /\ UNCHANGED <<workerVars, frame, lineage, segment, cursor, pendingBreak, boundary,
                   receiptVars, breaks, history>>

\* The status is published all the time.
Status ==
    /\ ~(waiting = {} /\ quarantining = {} /\ retry = {})
    /\ Begins(ReapSteps)
    /\ UNCHANGED <<workerVars, frame, lineage, recording, receiptVars, breaks, history>>

-----------------------------------------------------------------------------
(* _reap_receipts                                                          *)
Stale(items) == {[w EXCEPT !.current = FALSE] : w \in items}
\* _persistence_failed: the lineage is given up.
Abandon(items) ==
    /\ enabled' = FALSE
    /\ segment' = NoSegment /\ cursor' = NoCursor
    /\ pendingBreak' = NoCursor /\ boundary' = "none"
    /\ waiting' = Stale(items)

Done == {w \in waiting : receipt[w.id] # "waiting"}
Left == waiting \ Done
Moving == {w \in Done : w.current /\ receipt[w.id] = "durable"}
LostQuarantines == {q \in quarantining : receipt[q.id] = "lost"}

\* Mutant: only a quarantine that was lost counts.
OnlyQuarantinesLost == LostQuarantines # {}

\* What makes a reap give the lineage up, besides a trace not published.
AnythingLost ==
    LostQuarantines # {} \/ \E w \in Done : receipt[w.id] = "lost"

\* Mutant: a segment just found without its trace is not.
OnlyAgain(bad) == {q.seg : q \in LostQuarantines}

\* What has to be quarantined, or quarantined again.
ToQuarantine(bad) == bad \union {q.seg : q \in LostQuarantines}

\* The trace of any segment read back may not be published.
Reap ==
    /\ At("reap")
    /\ \E bad \in SUBSET UNION {answer[w.id].segments : w \in Done} :
          /\ untraced' = untraced \union bad
          /\ retry' = retry \union ToQuarantine(bad)
          /\ quarantining' = {q \in quarantining : receipt[q.id] = "waiting"}
          /\ IF bad # {} \/ AnythingLost
             THEN Abandon(Left)
             ELSE /\ waiting' = Left
                  /\ IF Moving # {} /\ segment # NoSegment
                     THEN \E last \in Moving :
                             /\ \A w \in Moving : w.id <= last.id
                             /\ cursor' = answer[last.id].cursor
                             /\ segment' = cursor'.seg
                     ELSE UNCHANGED <<cursor, segment>>
                  /\ UNCHANGED <<enabled, pendingBreak, boundary>>
    /\ Then(<<>>)
    /\ UNCHANGED <<workerVars, frame, lineage, breaks, sent>>

\* Every segment without a trace is submitted for quarantine, again if need be.
Quarantine ==
    /\ At("drain")
    /\ \E s \in retry :
          /\ SubmitQuarantine(s)
          /\ retry' = retry \ {s}
          /\ quarantining' = quarantining \union {[id |-> calls + 1, seg |-> s]}
    /\ UNCHANGED <<workerFrame, call, frame, lineage, recording, waiting, breaks, history>>

\* One refused is left for the next call.
QuarantineRefused ==
    /\ At("drain")
    /\ \E s \in retry : RefuseQuarantine(s)
    /\ Abandon(waiting)
    /\ Then(<<>>)
    /\ UNCHANGED <<workerFrame, frame, lineage, quarantining, retry, breaks, untraced, sent>>

\* _drain_staged_boundary, last: the cursor the boundary waited for may be there now.
Drain ==
    /\ At("drain") /\ retry = {}
    /\ IF enabled /\ cursor # NoCursor /\ boundary # "none"
       THEN boundary' = "none" /\ Then(<<boundary>>)
       ELSE Then(<<>>) /\ UNCHANGED boundary
    /\ UNCHANGED <<workerVars, frame, lineage, enabled, segment, cursor, pendingBreak,
                   receiptVars, breaks, history>>

-----------------------------------------------------------------------------
(* Batches.                                                                *)
Batch(op, at, next, number) == [op |-> op, cursor |-> at, next |-> next, frame |-> number]

\* _submit.  Its receipt is reaped at once, should it be there already.
Submit(items, batch, moves) ==
    /\ SubmitTrajectory(batch)
    /\ waiting' = items \union {[id |-> calls + 1, current |-> moves]}

SubmitRefused(batch) ==
    /\ RefuseTrajectory(batch)
    /\ Abandon(waiting)

\* A new segment breaks the one that was split.
Opening(next) ==
    Batch(IF pendingBreak = NoCursor THEN "begin" ELSE "break", pendingBreak, next, frame)

\* _submit_frame without a segment.
NewLineage ==
    LET next == <<lineage + 1, 0>>
        batch == Opening(next)
    IN  /\ At("submit") /\ enabled /\ segment = NoSegment
        /\ lineage < Lineages /\ lineage' = lineage + 1
        /\ \/ /\ Submit(Stale(waiting), batch, TRUE)
              /\ segment' = next /\ pendingBreak' = NoCursor
              /\ sent' = sent \union {<<frame, next>>}
              /\ Then(ReapSteps)
              /\ UNCHANGED <<enabled, cursor, boundary>>
           \/ SubmitRefused(batch) /\ Then(<<>>) /\ UNCHANGED sent
        /\ UNCHANGED <<workerFrame, frame, quarantining, retry, breaks, untraced>>

\* _submit_frame with one.  Until its cursor is known, a frame is dropped.
AppendFrame ==
    LET batch == Batch("append", cursor, NoSegment, frame)
    IN  /\ At("submit") /\ enabled /\ cursor # NoCursor
        /\ \/ /\ Submit(waiting, batch, TRUE)
              /\ sent' = sent \union {<<frame, segment>>}
              /\ Then(ReapSteps)
              /\ UNCHANGED <<enabled, segment, cursor, pendingBreak, boundary>>
           \/ SubmitRefused(batch) /\ Then(<<>>) /\ UNCHANGED sent
        /\ UNCHANGED <<workerFrame, frame, lineage, quarantining, retry, breaks, untraced>>

DropFrame ==
    /\ At("submit")
    /\ \/ ~enabled
       \/ lineage = Lineages /\ segment = NoSegment
       \/ segment # NoSegment /\ cursor = NoCursor
    /\ Then(<<>>)
    /\ UNCHANGED <<workerVars, frame, lineage, recording, receiptVars, breaks, history>>

\* _finalize, of the current segment or of the one that was to be broken.
Finalize ==
    LET at == IF segment = NoSegment THEN pendingBreak ELSE cursor
        batch == Batch("finalize", at, NoSegment, 0)
    IN  /\ At("finalize") /\ at # NoCursor
        /\ \/ /\ Submit(waiting, batch, FALSE)
              /\ pendingBreak' = IF segment = NoSegment THEN NoCursor ELSE pendingBreak
              /\ Then(ReapSteps \o (IF segment = NoSegment THEN <<>> ELSE <<"closed">>))
              /\ UNCHANGED <<enabled, segment, cursor, boundary>>
           \/ SubmitRefused(batch) /\ Then(<<>>)
        /\ UNCHANGED <<workerFrame, frame, lineage, quarantining, retry, breaks,
                       untraced, sent>>

Closed ==
    /\ At("closed")
    /\ segment' = NoSegment /\ cursor' = NoCursor /\ waiting' = Stale(waiting)
    /\ Then(<<>>)
    /\ UNCHANGED <<workerVars, frame, lineage, enabled, pendingBreak, boundary,
                   quarantining, retry, breaks, history>>

\* _split_at and _complete_split: the next segment will break this one.
Split ==
    /\ At("split") /\ (segment # NoSegment => cursor # NoCursor)
    /\ pendingBreak' = IF segment = NoSegment THEN pendingBreak ELSE cursor
    /\ segment' = NoSegment /\ cursor' = NoCursor /\ waiting' = Stale(waiting)
    /\ Then(<<>>)
    /\ UNCHANGED <<workerVars, frame, lineage, enabled, boundary, quarantining, retry,
                   breaks, history>>

\* Either is put off while the begin of the segment is not durable yet.
PutOff ==
    /\ At("finalize") \/ At("split")
    /\ segment # NoSegment /\ cursor = NoCursor
    /\ boundary' = Head(call)
    /\ Then(<<>>)
    /\ UNCHANGED <<workerVars, frame, lineage, enabled, segment, cursor, pendingBreak,
                   receiptVars, breaks, history>>

NothingToFinalize ==
    /\ At("finalize") /\ segment = NoSegment /\ pendingBreak = NoCursor
    /\ Then(<<>>)
    /\ UNCHANGED <<workerVars, frame, lineage, recording, receiptVars, breaks, history>>

-----------------------------------------------------------------------------
(* barrier                                                                 *)
GiveUp ==
    /\ Abandon(waiting)
    /\ call' = <<>>
    /\ UNCHANGED <<frame, lineage, quarantining, retry, breaks, untraced, sent>>

Fence ==
    /\ At("fence")
    /\ \/ pending = <<>> /\ active = Idle /\ Then(<<>>) /\ UNCHANGED workerVars
       \/ Barrier /\ Then(<<"await">>)
    /\ UNCHANGED <<frame, lineage, recording, receiptVars, breaks, history>>

FenceRefused ==
    /\ At("fence") /\ ~Admits(4)
    /\ GiveUp /\ UNCHANGED workerVars

Awaited ==
    /\ At("await") /\ receipt[calls] # "waiting"
    /\ Then(<<>>)
    /\ UNCHANGED <<workerVars, frame, lineage, recording, receiptVars, breaks, history>>

FenceTimeout ==
    /\ At("await") /\ receipt[calls] = "waiting"
    /\ GiveUp /\ UNCHANGED workerVars

Fenced ==
    /\ At("fenced")
    /\ IF waiting = {} /\ quarantining = {} /\ retry = {} THEN call' = <<>>
       ELSE Then(<<>>)
    /\ UNCHANGED <<workerVars, frame, lineage, recording, receiptVars, breaks, history>>

FencedOut == At("giveup") /\ GiveUp /\ UNCHANGED workerVars

-----------------------------------------------------------------------------
Continue ==
    \/ Enter \/ Reap \/ Quarantine \/ QuarantineRefused \/ Drain
    \/ NewLineage \/ AppendFrame \/ DropFrame \/ Finalize \/ Closed \/ Split \/ PutOff
    \/ NothingToFinalize
    \/ Fence \/ FenceRefused \/ Awaited \/ FenceTimeout \/ Fenced \/ FencedOut
Loop == CompleteFrame \/ Interrupt \/ EnterHold \/ Status
Durable == (Worker \/ WriteLearning) /\ UNCHANGED recorderVars
Next == Loop \/ Continue \/ Durable

Spec == RecorderInit /\ [][Next]_vars

\* The worker's thread runs, the loop makes its calls to their end, and the
\* status keeps being published.
FairSpec ==
    /\ Spec
    /\ WF_vars(Durable)
    /\ WF_vars(Continue \/ Status)
=============================================================================
