------------------------ MODULE TrajectoryRepository ------------------------
(***************************************************************************)
(* The durable corpus of learning trajectories                             *)
(* (common/persistence/learning_trajectory.py) as functions from one corpus*)
(* to the next.  A segment holds frames, numbered by their place in time;  *)
(* every mutation but a quarantine is a compare-and-set on a cursor, which *)
(* names a segment, how many frames it holds and the revision of the whole *)
(* corpus.  A mutation that is refused raises, and its transaction leaves  *)
(* nothing behind.  The chain digest of a cursor is determined by its      *)
(* count, as one worker writes; retention and the receipts that answer a   *)
(* repeated request are left out.                                          *)
(***************************************************************************)
EXTENDS Integers, Sequences

CONSTANTS
    Lineages,         \* segments the recorder may begin, by number
    Rolls,            \* bound: successors of one of them, more than are filled
    SegmentCapacity   \* _MAX_SCORED_PER_SEGMENT

ASSUME CapacityAssumption ==
    Lineages \in Nat /\ Rolls \in Nat /\ SegmentCapacity \in Nat \ {0}

\* A segment the recorder named, and after it those the repository rolls it to.
Segments == (1..Lineages) \X (0..Rolls)
NoSegment == <<0, 0>>
Successor(s) == <<s[1], s[2] + 1>>

Absent == [state |-> "absent", carried |-> <<>>, scored |-> <<>>]
NoCursor == [seg |-> NoSegment, next |-> 0, revision |-> 0]
EmptyCorpus == [revision |-> 0, seg |-> [s \in Segments |-> Absent]]

FramesOf(segment) == segment.carried \o segment.scored

\* Frames follow one another without a hole: what validate_segment demands.
Contiguous(frames) ==
    \A i \in 1..Len(frames) - 1 : frames[i + 1] = frames[i] + 1

CursorAt(corpus, s) ==
    [seg |-> s, next |-> Len(FramesOf(corpus.seg[s])), revision |-> corpus.revision]

Current(corpus, cursor) ==
    /\ cursor.seg \in Segments
    /\ corpus.seg[cursor.seg].state = "open"
    /\ cursor = CursorAt(corpus, cursor.seg)

Opened(frame) == [state |-> "open", carried |-> <<>>, scored |-> <<frame>>]

\* A full segment is finalized and its frames start the successor.
Rolled(corpus, s, full) ==
    [corpus EXCEPT ![s] = [full EXCEPT !.state = "finalized"],
                   ![Successor(s)] = [state |-> "open", carried |-> full.scored,
                                      scored |-> <<>>]]

Extended(corpus, s, frame) ==
    LET longer == [corpus.seg[s] EXCEPT !.scored = Append(@, frame)]
    IN  IF Len(longer.scored) = SegmentCapacity
        THEN Rolled(corpus.seg, s, longer)
        ELSE [corpus.seg EXCEPT ![s] = longer]

\* Mutant: the frames of an append are not looked at.
ApplicableUnseen(corpus, batch) ==
    CASE batch.op = "begin" -> corpus.seg[batch.next].state = "absent"
      [] batch.op = "break" ->
            Current(corpus, batch.cursor) /\ corpus.seg[batch.next].state = "absent"
      [] OTHER -> Current(corpus, batch.cursor)

\* What a batch needs of the corpus.  Otherwise its transaction raises.
Applicable(corpus, batch) ==
    CASE batch.op = "begin" -> corpus.seg[batch.next].state = "absent"
      [] batch.op = "append" ->
            /\ Current(corpus, batch.cursor)
            /\ Contiguous(Append(FramesOf(corpus.seg[batch.cursor.seg]), batch.frame))
      [] batch.op = "break" ->
            /\ Current(corpus, batch.cursor)
            /\ corpus.seg[batch.next].state = "absent"
      [] batch.op = "finalize" -> Current(corpus, batch.cursor)

Applied(corpus, batch) ==
    [revision |-> corpus.revision + 1,
     seg |-> CASE batch.op = "begin" ->
                    [corpus.seg EXCEPT ![batch.next] = Opened(batch.frame)]
               [] batch.op = "append" ->
                    Extended(corpus, batch.cursor.seg, batch.frame)
               [] batch.op = "break" ->
                    [corpus.seg EXCEPT ![batch.cursor.seg].state = "finalized",
                                       ![batch.next] = Opened(batch.frame)]
               [] batch.op = "finalize" ->
                    [corpus.seg EXCEPT ![batch.cursor.seg].state = "finalized"]]

\* The cursor a batch returns, on the corpus it leaves.
Returned(corpus, batch) ==
    CASE batch.op \in {"begin", "break"} -> CursorAt(corpus, batch.next)
      [] batch.op = "append" ->
            LET s == batch.cursor.seg
            IN  CursorAt(corpus, IF corpus.seg[s].state = "open" THEN s ELSE Successor(s))
      [] batch.op = "finalize" -> [batch.cursor EXCEPT !.revision = corpus.revision]

\* quarantine_segment: no cursor is asked for, and no row is an error.
Quarantined(corpus, s) ==
    IF corpus.seg[s].state = "quarantined" THEN corpus
    ELSE [revision |-> corpus.revision + 1,
          seg |-> [corpus.seg EXCEPT ![s] =
                      [state |-> "quarantined", carried |-> <<>>, scored |-> <<>>]]]

\* The segments a durable batch is read back as, for publication.
ReadBack(batch) ==
    CASE batch.op = "begin" -> {batch.next}
      [] batch.op = "break" -> {batch.cursor.seg, batch.next}
      [] OTHER -> {batch.cursor.seg}
=============================================================================
