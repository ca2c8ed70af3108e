-------------------- MODULE TrajectoryRecorderProperties --------------------
(***************************************************************************)
(* What the recorder and the worker promise of the trajectories together.  *)
(***************************************************************************)
EXTENDS TrajectoryRecorder

\* Every variable keeps to its values, and a segment is recorded only while the
\* recorder is enabled, with a cursor of that very segment if any.
RecorderTypeOK ==
    /\ lineage \in 0..Lineages /\ frame \in 0..MaxFrames
    /\ calls < MaxCalls
    /\ segment \in Segments \union {NoSegment}
    /\ segment # NoSegment => enabled
    /\ cursor # NoCursor => cursor.seg = segment
    /\ boundary \in {"none", "finalize", "split"}
    /\ boundary # "none" => segment # NoSegment
    /\ \A w \in waiting : w.id \in 1..calls
    /\ retry \union untraced \subseteq Segments

-----------------------------------------------------------------------------
Stored(s) == FramesOf(corpus.seg[s])

\* What a fit will replay has no hole in it: the frames of every stored segment
\* follow one another, whatever frames were lost on the way (validate_segment,
\* _with_frames and the roll to a successor).
StoredContiguous == \A s \in Segments : Contiguous(Stored(s))

\* A frame whose batch was accepted is stored, or on its way there, or its
\* segment was taken out for lack of a trace, unless the worker failed
\* (the receipts, the cursors the worker substitutes, rollover).
OnItsWay(number) ==
    \E item \in {active.item} \union ToSet(pending) : item.batch.frame = number
FramesStored ==
    failed \/
        \A x \in sent :
            \/ \E s \in Segments : s[1] = x[2][1] /\ corpus.seg[s].state = "quarantined"
            \/ \E s \in Segments : s[1] = x[2][1] /\ x[1] \in ToSet(Stored(s))
            \/ OnItsWay(x[1])

\* A segment whose trace could not be published does not stay in the corpus,
\* unless the worker failed: its quarantine is tried until it is durable
\* (_quarantine_retry_segment_ids, _reap_receipts).
UntracedRemoved ==
    \A s \in Segments :
        s \in untraced ~> failed \/ corpus.seg[s].state = "quarantined"

\* A failure of the worker reaches the recorder, and from then on it records
\* nothing, however often Hold is entered (_reap_receipts, _persistence_failed).
FailureNoticed == <>failed => <>[](segment = NoSegment)

=============================================================================
