------------------------- MODULE ObservationBuffer -------------------------
(***************************************************************************)
(* What the controller's worker has learned from each frame, kept until    *)
(* Hold collects it (controller/runtime/observation_buffer.py): outcomes,  *)
(* of which only so many are kept, and drops.  Either is handed out only   *)
(* while the generation it was bound to has a context.                     *)
(*                                                                         *)
(* An observation is its number and its generation.                        *)
(***************************************************************************)
EXTENDS Selection, SequencesExt

CONSTANT OutcomeCapacity   \* capacity
ASSUME OutcomeAssumption == OutcomeCapacity \in Nat \ {0}

EmptyBuffer == [outcomes |-> <<>>, drops |-> {}, contexts |-> {}]

BindContext(buffer, generation) ==
    [buffer EXCEPT !.contexts = @ \union {generation}]
RetireContext(buffer, generation) ==
    [buffer EXCEPT !.contexts = @ \ {generation}]

AppendDrop(buffer, observation) ==
    [buffer EXCEPT !.drops = @ \union {observation}]

\* Mutant: the outcome that makes room for a new one is forgotten.
AppendOutcomeSilently(buffer, observation) ==
    [buffer EXCEPT !.outcomes =
        Append(IF Len(@) = OutcomeCapacity THEN Tail(@) ELSE @, observation)]

\* The oldest outcome makes room and is dropped.
AppendOutcome(buffer, observation) ==
    IF Len(buffer.outcomes) < OutcomeCapacity
    THEN [buffer EXCEPT !.outcomes = Append(@, observation)]
    ELSE [AppendDrop(buffer, Head(buffer.outcomes)) EXCEPT
            !.outcomes = Append(Tail(@), observation)]

Released(buffer, observation) == observation.gen \in buffer.contexts
\* What drain hands out, and what it leaves.
DrainedOutcomes(buffer) == {o \in ToSet(buffer.outcomes) : Released(buffer, o)}
DrainedDrops(buffer) == {o \in buffer.drops : Released(buffer, o)}
Drained(buffer) ==
    [buffer EXCEPT
        !.outcomes = Those(@, {o \in ToSet(@) : ~Released(buffer, o)}),
        !.drops = {o \in @ : ~Released(buffer, o)}]
=============================================================================
