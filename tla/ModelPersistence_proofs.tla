---------------------- MODULE ModelPersistence_proofs ----------------------
(***************************************************************************)
(* The invariant of the persistence worker under all its callers but the   *)
(* trajectory recorder, for every capacity and any number of calls, and    *)
(* what follows from it: receipts that tell the truth, the two phases of a *)
(* fit, evidence that is accounted for, and fences that hold. Then the     *)
(* invariant of the recorder and the worker together.                      *)
(***************************************************************************)
EXTENDS ModelPersistenceProperties, TrajectoryRecorderProperties, Selection_proofs

CallKinds == Checkpoints \union {"activation", "evidence", "recorder-gap", "barrier"}
Words == {"activation", "evidence", "recorder-gap", "success", "failure"}
Items ==
  [kind : CallKinds, id : Nat, asOf : Nat, rev : Nat, batch : {NoBatch}]
Actives == [item : Items, step : Steps \ {"idle"}, saved : Nat]

Types ==
  /\ calls \in Nat /\ calls <= MaxCalls
  /\ asked \in [1..MaxCalls -> [kind : CallKinds \union {"none"}, rev : Nat]]
  /\ receipt \in [1..MaxCalls -> {"none", "waiting", "durable", "lost"}]
  /\ pending \in Seq(Items)
  /\ active \in {Idle} \union Actives
  /\ records \subseteq Nat \X Words
  /\ model \in [rev : Nat, by : Nat, form : {"none", "plain", "prepared", "committed"}]
  /\ evidenceBlocked \in BOOLEAN

\* An item is what its call asked for.
OfCall(item) ==
  /\ item.id \in 1..calls /\ item.id <= item.asOf /\ item.asOf <= calls
  /\ asked[item.id].kind = item.kind
  /\ item.kind \in {"checkpoint-durable", "checkpoint-terminal"}
       => asked[item.id].rev = item.rev

\* Items are queued in the order of their calls, the one being written apart.
Queued ==
  /\ \A i \in 1..Len(pending) : OfCall(pending[i]) /\ pending[i].id # active.item.id
  /\ \A i, j \in 1..Len(pending) : i < j => pending[i].id < pending[j].id
  /\ active # Idle => OfCall(active.item) /\ active.item.kind # "barrier"

\* A barrier waits as long as it is queued, and what is before it was asked for
\* before it.
BarriersHold ==
  /\ \A j \in 1..Len(pending) :
        pending[j].kind = "barrier" =>
          /\ receipt[pending[j].id] = "waiting"
          /\ \A i \in 1..j - 1 : pending[i].asOf < pending[j].id
  /\ \A n \in 1..calls :
        asked[n].kind = "barrier" /\ receipt[n] = "waiting" =>
          \E j \in 1..Len(pending) : pending[j].id = n

\* A receipt is answered once its work is done with, and only then.
Answered ==
  /\ \A n \in 1..MaxCalls : n > calls => receipt[n] = "none"
  /\ \A n \in 1..calls : receipt[n] \in {"durable", "lost"} =>
        /\ n # active.item.id
        /\ \A i \in 1..Len(pending) : pending[i].id # n

\* Nothing is on record of work that was not begun, and of the work at hand as
\* much as its step says.
Recording ==
  /\ \A r \in records : r[1] \in 1..calls
  /\ \A r \in records : \A i \in 1..Len(pending) : pending[i].id # r[1]
  /\ active # Idle =>
       /\ active.step \in {"prepared", "confirmed", "refused", "declined"}
            => active.item.kind = "checkpoint-terminal"
       /\ <<active.item.id, "success">> \in records
            <=> /\ active.item.kind = "checkpoint-terminal"
                /\ active.step \in {"confirmed", "written"}
       /\ <<active.item.id, "failure">> \in records => active.step = "declined"
       /\ active.step = "written" =>
            /\ active.item.kind \in {"activation", "evidence"}
                 => <<active.item.id, active.item.kind>> \in records
            /\ active.item.kind \in Checkpoints => model.rev >= active.item.rev
       /\ active.step \in {"prepared", "confirmed"} => model.rev >= active.item.rev

PersistInv ==
  /\ Types /\ Queued /\ BarriersHold /\ Answered /\ Recording
  /\ ReceiptsTruthful /\ TwoPhase /\ EvidenceAccounted /\ FenceHolds

-----------------------------------------------------------------------------
(* Queues *)

LEMMA Barriers == BarrierIdxs = {i \in 1..Len(pending) : pending[i].kind = "barrier"}
BY DEF BarrierIdxs, QueuedIdxs

LEMMA Plains == PlainIdxs = {i \in 1..Len(pending) : pending[i].kind = Plain}
BY DEF PlainIdxs, QueuedIdxs

LEMMA HeldItems ==
  ASSUME NEW kind, NEW item
  PROVE  item \in Held(kind) <=>
           \/ \E i \in 1..Len(pending) : pending[i].kind = kind /\ pending[i] = item
           \/ active.item.kind = kind /\ active.item = item
BY DEF Held, QueuedIdxs

\* What is taken is eligible, and the barrier that is passed the first.
LEMMA NextIsEligible ==
  ASSUME Eligible # {}
  PROVE  NextWork \in Eligible
<1> DEFINE urgency == [i \in Eligible |-> Priority(pending[i])]
<1>1. Eligible \subseteq Nat /\ urgency \in [Eligible -> Nat]
  BY DEF Priority, Eligible
<1> HIDE DEF urgency
<1>2. \E k \in Eligible : \A j \in Eligible :
         urgency[k] < urgency[j] \/ (urgency[k] = urgency[j] /\ k <= j)
  BY <1>1, Foremost
<1>3. \A i \in Eligible : urgency[i] = Priority(pending[i])
  BY DEF urgency
<1> QED BY <1>2, <1>3 DEF NextWork

LEMMA FirstBarrier ==
  ASSUME BarrierIdxs # {}
  PROVE  LET i == CHOOSE j \in BarrierIdxs : \A k \in BarrierIdxs : j <= k
         IN  i \in BarrierIdxs /\ \A k \in BarrierIdxs : i <= k
<1>1. BarrierIdxs \subseteq Nat
  BY Barriers
<1>2. \E j \in BarrierIdxs : \A k \in BarrierIdxs : j <= k
  BY <1>1, Least
<1> QED BY <1>2

-----------------------------------------------------------------------------
(* Submissions *)

LEMMA PersistInit == Init => PersistInv
<1> SUFFICES ASSUME Init PROVE PersistInv
  OBVIOUS
<1>1. /\ calls = 0 /\ pending = <<>> /\ active = Idle /\ records = {} /\ model = NoModel
      /\ receipt = [n \in 1..MaxCalls |-> "none"]
      /\ asked = [n \in 1..MaxCalls |-> [kind |-> "none", rev |-> 0]]
      /\ evidenceBlocked = FALSE
  BY DEF Init
<1>2. Types
  <2>1. asked \in [1..MaxCalls -> [kind : CallKinds \union {"none"}, rev : Nat]]
    BY <1>1
  <2>2. calls \in Nat /\ calls <= MaxCalls /\ pending \in Seq(Items)
    BY <1>1, QueueAssumption
  <2> QED BY <1>1, <2>1, <2>2 DEF Types, NoModel
<1>3. Queued /\ BarriersHold /\ Answered /\ Recording
  BY <1>1, QueueAssumption DEF Queued, BarriersHold, Answered, Recording
<1>4. ReceiptsTruthful /\ TwoPhase /\ EvidenceAccounted /\ FenceHolds
  BY <1>1 DEF ReceiptsTruthful, TwoPhase, EvidenceAccounted, FenceHolds, NoModel
<1> QED BY <1>2, <1>3, <1>4 DEF PersistInv

\* The item at hand, or none.
LEMMA ActiveItem ==
  ASSUME Types, Queued
  PROVE  /\ active.item.id \in Nat /\ active.item.asOf \in Nat
         /\ active.item.id <= calls /\ active.item.asOf <= calls
         /\ active # Idle => active \in Actives /\ active.item \in Items
         /\ active = Idle => active.item.id = 0
BY DEF Types, Queued, OfCall, Idle, Actives, Items

LEMMA NewCall ==
  ASSUME Types, NEW kind \in CallKinds, NEW rev \in Nat, Number(kind, rev)
  PROVE  /\ calls' = calls + 1 /\ calls' \in Nat /\ calls' <= MaxCalls
         /\ asked' \in [1..MaxCalls -> [kind : CallKinds \union {"none"}, rev : Nat]]
         /\ \A n \in 1..calls : asked'[n] = asked[n]
         /\ asked'[calls + 1].kind = kind /\ asked'[calls + 1].rev = rev
BY QueueAssumption DEF Types, Number

\* A call that queues nothing.
LEMMA UnqueuedInv ==
  ASSUME PersistInv, NEW kind \in CallKinds \ {"evidence", "barrier"}, NEW rev \in Nat,
         Number(kind, rev), kind = "recorder-gap" => evidenceBlocked',
         UNCHANGED <<pending, receipt, active, records, model>>,
         evidenceBlocked' \in BOOLEAN, evidenceBlocked => evidenceBlocked'
  PROVE  PersistInv'
<1>1. /\ calls' = calls + 1 /\ calls' \in Nat /\ calls' <= MaxCalls /\ calls \in Nat
      /\ asked' \in [1..MaxCalls -> [kind : CallKinds \union {"none"}, rev : Nat]]
      /\ \A n \in 1..calls : asked'[n] = asked[n]
      /\ asked'[calls + 1].kind = kind /\ asked'[calls + 1].rev = rev
  BY NewCall DEF PersistInv, Types
<1>2. /\ \A n \in 1..calls' : n \in 1..calls \/ n = calls + 1
      /\ \A n \in 1..calls : n \in 1..calls'
  BY <1>1
<1>3. receipt[calls + 1] = "none"
  BY <1>1 DEF PersistInv, Types, Answered
<1>4. Types'
  BY <1>1 DEF PersistInv, Types
<1>5. \A item \in Items : OfCall(item) => OfCall(item)'
  BY <1>1 DEF OfCall, Items
<1>6. Queued'
  <2>1. \A i \in 1..Len(pending) : pending[i] \in Items
    BY DEF PersistInv, Types
  <2>2. active # Idle => active.item \in Items
    BY ActiveItem DEF PersistInv
  <2> QED BY <1>5, <2>1, <2>2 DEF PersistInv, Queued
<1>7. BarriersHold'
  BY <1>1, <1>2, <1>3 DEF PersistInv, BarriersHold
<1>8. Answered'
  BY <1>1, <1>2, <1>3 DEF PersistInv, Answered
<1>9. Recording'
  BY <1>1, <1>2 DEF PersistInv, Recording
<1>10. \A r \in records : r[1] # calls + 1
  BY <1>1 DEF PersistInv, Recording
<1>11. ReceiptsTruthful'
  BY <1>1, <1>2, <1>3, <1>10 DEF PersistInv, ReceiptsTruthful, Backed
<1>12. TwoPhase'
  BY <1>1, <1>2, <1>10 DEF PersistInv, TwoPhase
<1>13. EvidenceAccounted'
  BY <1>1, <1>2, HeldItems DEF PersistInv, EvidenceAccounted, Held, QueuedIdxs
<1>14. FenceHolds'
  BY <1>1, <1>2, <1>3 DEF PersistInv, FenceHolds
<1> QED BY <1>4, <1>6, <1>7, <1>8, <1>9, <1>11, <1>12, <1>13, <1>14 DEF PersistInv

\* A call that queues an item.
LEMMA EnqueueInv ==
  ASSUME PersistInv, NEW kind \in CallKinds, NEW rev \in Nat, NEW state \in {"none", "waiting"},
         Enqueue(Item(kind, rev, NoBatch), state),
         kind = "barrier" => state = "waiting",
         kind = "recorder-gap" => evidenceBlocked',
         UNCHANGED <<active, records, model>>,
         evidenceBlocked' \in BOOLEAN, evidenceBlocked => evidenceBlocked'
  PROVE  PersistInv'
<1>0. PICK new \in Nat : new = calls + 1
  BY DEF PersistInv, Types
<1>1. PICK item \in Items :
         /\ item = Item(kind, rev, NoBatch)
         /\ item.kind = kind /\ item.rev = rev /\ item.id = new /\ item.asOf = new
  BY <1>0 DEF Item, Items
<1>2. Number(kind, rev)
  BY <1>1 DEF Enqueue
<1>3. /\ calls' = new /\ new = calls + 1 /\ new <= MaxCalls
      /\ calls \in Nat /\ calls <= MaxCalls
      /\ asked' \in [1..MaxCalls -> [kind : CallKinds \union {"none"}, rev : Nat]]
      /\ \A n \in 1..calls : asked'[n] = asked[n]
      /\ asked'[new].kind = kind /\ asked'[new].rev = rev
  BY <1>0, <1>2, NewCall DEF PersistInv, Types
<1>4. /\ \A n \in 1..calls' : n \in 1..calls \/ n = new
      /\ \A n \in 1..calls : n \in 1..calls' /\ n # new /\ n \in 1..MaxCalls
      /\ new \in 1..calls' /\ new \in 1..MaxCalls
  BY <1>3, QueueAssumption
<1>5. /\ receipt' \in [1..MaxCalls -> {"none", "waiting", "durable", "lost"}]
      /\ \A n \in 1..MaxCalls : n # new => receipt'[n] = receipt[n]
      /\ receipt'[new] = state
  BY <1>1, <1>3, <1>4 DEF Enqueue, Item, PersistInv, Types
<1>6. pending \in Seq(Items) /\ pending' = Append(pending, item)
  BY <1>1 DEF Enqueue, PersistInv, Types
<1>7. /\ pending' \in Seq(Items) /\ Len(pending') = Len(pending) + 1
      /\ \A i \in 1..Len(pending) : pending'[i] = pending[i]
      /\ pending'[Len(pending) + 1] = item
      /\ Len(pending) \in Nat
      /\ \A i \in 1..Len(pending) : pending[i] \in Items
  BY <1>1, <1>6
<1>8. \A i \in 1..Len(pending') : i \in 1..Len(pending) \/ i = Len(pending) + 1
  BY <1>7
<1>9. /\ active.item.id # new
      /\ active # Idle => active.item \in Items
      /\ \A r \in records : r[1] # new
  BY <1>3, ActiveItem DEF PersistInv, Recording
<1>10. Types'
  BY <1>3, <1>5, <1>7 DEF PersistInv, Types
<1>11. \A x \in Items : OfCall(x) => OfCall(x)' /\ x.id \in Nat /\ x.id < new /\ x.asOf < new
  BY <1>3 DEF OfCall, Items
<1>12. Queued'
  <2>1. OfCall(item)'
    BY <1>1, <1>3, <1>4 DEF OfCall
  <2>2. \A i \in 1..Len(pending') :
           OfCall(pending[i])' /\ pending'[i].id # active.item.id
    <3>1. ASSUME NEW i \in 1..Len(pending')
          PROVE  \E x \in Items : /\ x = pending'[i] /\ x.id # active.item.id
                                  /\ OfCall(x)'
      BY <1>1, <1>7, <1>8, <1>9, <1>11, <2>1 DEF PersistInv, Queued
    <3> QED BY <3>1 DEF OfCall
  <2>3. ASSUME NEW i \in 1..Len(pending'), NEW j \in 1..Len(pending'), i < j
        PROVE  pending'[i].id < pending'[j].id
    <3>1. CASE j \in 1..Len(pending)
      <4>1. i \in 1..Len(pending)
        BY <2>3, <3>1
      <4> QED BY <1>7, <2>3, <3>1, <4>1 DEF PersistInv, Queued
    <3>2. CASE j = Len(pending) + 1
      <4>1. i \in 1..Len(pending)
        BY <1>7, <2>3, <3>2
      <4> QED BY <1>1, <1>7, <1>11, <3>2, <4>1 DEF PersistInv, Queued
    <3> QED BY <1>8, <3>1, <3>2
  <2>4. active # Idle => OfCall(active.item)' /\ active.item.kind # "barrier"
    BY <1>9, <1>11 DEF PersistInv, Queued
  <2> QED BY <2>2, <2>3, <2>4 DEF Queued
<1>13. BarriersHold'
  <2>1. ASSUME NEW j \in 1..Len(pending'), pending'[j].kind = "barrier"
        PROVE  /\ receipt'[pending'[j].id] = "waiting"
               /\ \A i \in 1..j - 1 : pending'[i].asOf < pending'[j].id
    <3>1. CASE j \in 1..Len(pending)
      <4>1. pending[j].id \in 1..calls
        BY <3>1 DEF PersistInv, Queued, OfCall
      <4>2. pending[j].id \in 1..MaxCalls /\ pending[j].id # new
        BY <1>3, <1>4, <4>1
      <4>3. \A i \in 1..j - 1 : i \in 1..Len(pending)
        BY <3>1
      <4> QED BY <1>5, <1>7, <2>1, <3>1, <4>2, <4>3 DEF PersistInv, BarriersHold
    <3>2. CASE j = Len(pending) + 1
      <4>1. \A i \in 1..j - 1 : i \in 1..Len(pending)
        BY <1>7, <3>2
      <4> QED BY <1>1, <1>5, <1>7, <1>11, <2>1, <3>2, <4>1 DEF PersistInv, Queued
    <3> QED BY <1>8, <3>1, <3>2
  <2>2. ASSUME NEW n \in 1..calls', asked'[n].kind = "barrier", receipt'[n] = "waiting"
        PROVE  \E j \in 1..Len(pending') : pending'[j].id = n
    <3>1. CASE n = new
      BY <1>1, <1>7, <3>1
    <3>2. CASE n \in 1..calls
      <4>1. PICK j \in 1..Len(pending) : pending[j].id = n
        BY <1>3, <1>4, <1>5, <2>2, <3>2 DEF PersistInv, BarriersHold
      <4> QED BY <1>7, <4>1
    <3> QED BY <1>4, <3>1, <3>2
  <2> QED BY <2>1, <2>2 DEF BarriersHold
<1>14. Answered'
  <2>1. \A n \in 1..MaxCalls : n > calls' => n > calls /\ n # new
    BY <1>3
  <2>2. \A n \in 1..calls : n \in 1..MaxCalls
    BY <1>4
  <2>3. \A n \in 1..calls' : receipt'[n] \in {"durable", "lost"} => n \in 1..calls
    BY <1>4, <1>5
  <2> QED BY <1>1, <1>4, <1>5, <1>7, <1>8, <2>1, <2>2, <2>3 DEF PersistInv, Answered
<1>15. Recording'
  BY <1>1, <1>4, <1>7, <1>8, <1>9 DEF PersistInv, Recording
<1>16. ReceiptsTruthful'
  <2>1. \A n \in 1..calls' : receipt'[n] \in {"durable", "lost"} =>
           n \in 1..calls /\ receipt'[n] = receipt[n] /\ asked'[n] = asked[n]
    BY <1>3, <1>4, <1>5
  <2> QED BY <2>1 DEF PersistInv, ReceiptsTruthful, Backed
<1>17. TwoPhase'
  BY <1>4, <1>9 DEF PersistInv, TwoPhase
<1>18. EvidenceAccounted'
  <2> SUFFICES ASSUME NEW n \in 1..calls', asked'[n].kind \in {"evidence", "recorder-gap"},
                      ~ evidenceBlocked'
               PROVE  <<n, "evidence">> \in records
                        \/ \E x \in Held("evidence")' : x.id = n
    BY DEF EvidenceAccounted
  <2>1. CASE n = new
    <3>1. kind = "evidence"
      BY <1>3, <2>1
    <3>2. pending'[Len(pending) + 1] \in Held("evidence")'
      BY <1>1, <1>7, <3>1 DEF Held, QueuedIdxs
    <3> QED BY <1>1, <1>7, <2>1, <3>2
  <2>2. CASE n \in 1..calls
    <3>1. \A x \in Held("evidence") : x \in Held("evidence")'
      BY <1>7 DEF Held, QueuedIdxs
    <3> QED BY <1>3, <2>2, <3>1 DEF PersistInv, EvidenceAccounted
  <2> QED BY <1>4, <2>1, <2>2
<1>19. FenceHolds'
  <2> SUFFICES ASSUME NEW n \in 1..calls', asked'[n].kind = "barrier"
               PROVE  /\ receipt'[n] = "waiting" => active.item.asOf < n
                      /\ receipt'[n] = "durable" =>
                           /\ \A i \in 1..Len(pending') : pending'[i].id > n
                           /\ active.item.id \notin 1..n
    BY DEF FenceHolds
  <2>1. CASE n = new
    BY <1>3, <1>5, <2>1, ActiveItem DEF PersistInv
  <2>2. CASE n \in 1..calls
    <3>1. receipt'[n] = receipt[n] /\ asked[n].kind = "barrier"
      BY <1>3, <1>4, <1>5, <2>2
    <3>2. new > n
      BY <1>3, <2>2
    <3> QED BY <1>1, <1>7, <1>8, <2>2, <3>1, <3>2 DEF PersistInv, FenceHolds
  <2> QED BY <1>4, <2>1, <2>2
<1> QED BY <1>10, <1>12, <1>13, <1>14, <1>15, <1>16, <1>17, <1>18, <1>19 DEF PersistInv

\* A newer checkpoint takes the place of one that no barrier follows.
LEMMA ReplacedInv ==
  ASSUME PersistInv, NEW rev \in Nat, Number(Plain, rev), NEW i \in Replaceable,
         pending' = [pending EXCEPT ![i].rev = rev, ![i].asOf = calls + 1],
         UNCHANGED <<receipt, active, records, model, evidenceBlocked>>
  PROVE  PersistInv'
<1>0. PICK new \in Nat : new = calls + 1
  BY DEF PersistInv, Types
<1>1. /\ calls' = new /\ new = calls + 1 /\ new <= MaxCalls
      /\ calls \in Nat /\ calls <= MaxCalls
      /\ asked' \in [1..MaxCalls -> [kind : CallKinds \union {"none"}, rev : Nat]]
      /\ \A n \in 1..calls : asked'[n] = asked[n]
      /\ asked'[new].kind = Plain
  <2>1. Plain \in CallKinds
    BY DEF CallKinds, Checkpoints
  <2> QED BY <1>0, <2>1, NewCall DEF PersistInv, Types
<1>2. /\ \A n \in 1..calls' : n \in 1..calls \/ n = new
      /\ \A n \in 1..calls : n \in 1..calls' /\ n # new /\ n \in 1..MaxCalls
      /\ new \in 1..MaxCalls
  BY <1>1, QueueAssumption
<1>3. receipt[new] = "none"
  BY <1>1, <1>2 DEF PersistInv, Answered
<1>4. /\ i \in 1..Len(pending) /\ pending[i].kind = Plain
      /\ \A j \in 1..Len(pending) : pending[j].kind = "barrier" => j < i
      /\ pending \in Seq(Items) /\ Len(pending) \in Nat
      /\ \A j \in 1..Len(pending) : pending[j] \in Items
  BY Barriers, Plains DEF Replaceable, PersistInv, Types
<1>5. /\ Len(pending') = Len(pending)
      /\ \A j \in 1..Len(pending) : j # i => pending'[j] = pending[j]
      /\ pending'[i].kind = Plain /\ pending'[i].id = pending[i].id
      /\ pending'[i].asOf = new
      /\ pending' \in Seq(Items)
  <2> DEFINE x == [pending[i] EXCEPT !.rev = rev, !.asOf = new]
  <2>1. /\ x \in Items /\ x.kind = Plain /\ x.id = pending[i].id /\ x.asOf = new
    BY <1>4, Zenon DEF Items
  <2>2. pending' = [pending EXCEPT ![i] = x]
    BY <1>0, <1>4 DEF Items
  <2> HIDE DEF x
  <2>3. /\ pending' \in Seq(Items) /\ Len(pending') = Len(pending)
        /\ pending'[i] = x
        /\ \A j \in 1..Len(pending) : j # i => pending'[j] = pending[j]
    <3> DEFINE r == [pending EXCEPT ![i] = x]
    <3>1. r \in Seq(Items) /\ Len(r) = Len(pending)
      BY <1>4, <2>1, ExceptSeq
    <3>2. \A j \in 1..Len(pending) : r[j] = IF j = i THEN x ELSE pending[j]
      BY <1>4, <2>1, ExceptSeq
    <3> HIDE DEF r
    <3> QED BY <1>4, <2>2, <3>1, <3>2 DEF r
  <2> QED BY <2>1, <2>3
<1>6. \A j \in 1..Len(pending) : /\ pending'[j] \in Items
                                 /\ pending'[j].id = pending[j].id
                                 /\ pending'[j].kind = pending[j].kind
                                 /\ pending[j].kind # Plain => pending'[j] = pending[j]
  BY <1>4, <1>5
<1>7. Types'
  BY <1>1, <1>5 DEF PersistInv, Types
<1>8. \A x \in Items : OfCall(x) => OfCall(x)' /\ x.id \in Nat
  BY <1>1 DEF OfCall, Items
<1>9. Queued'
  <2>1. ASSUME NEW j \in 1..Len(pending')
        PROVE  OfCall(pending[j])' /\ pending'[j].id # active.item.id
    <3>1. j \in 1..Len(pending)
      BY <1>5
    <3>2. OfCall(pending[j]) /\ pending[j].id # active.item.id
      BY <3>1 DEF PersistInv, Queued
    <3>3. CASE j = i
      <4>1. PICK id \in Nat : id = pending[i].id
        BY <1>4 DEF Items
      <4>2. id \in 1..calls /\ asked[id].kind = Plain
        BY <1>4, <3>2, <3>3, <4>1 DEF OfCall
      <4> QED BY <1>1, <1>2, <1>5, <3>2, <3>3, <4>1, <4>2 DEF OfCall, Plain
    <3>4. CASE j # i
      <4>1. PICK x \in Items : x = pending[j]
        BY <1>4, <3>1
      <4>2. OfCall(x)' /\ pending'[j] = x
        BY <1>5, <1>8, <3>1, <3>2, <3>4, <4>1
      <4> QED BY <3>2, <4>1, <4>2 DEF OfCall
    <3> QED BY <3>3, <3>4
  <2>2. \A k, j \in 1..Len(pending') : k < j => pending'[k].id < pending'[j].id
    BY <1>5, <1>6 DEF PersistInv, Queued
  <2>3. active # Idle => active.item \in Items
    BY ActiveItem DEF PersistInv
  <2>4. active # Idle => OfCall(active.item)' /\ active.item.kind # "barrier"
    BY <1>8, <2>3 DEF PersistInv, Queued
  <2> QED BY <2>1, <2>2, <2>4 DEF Queued
<1>10. BarriersHold'
  <2>1. ASSUME NEW j \in 1..Len(pending'), pending'[j].kind = "barrier"
        PROVE  /\ receipt'[pending'[j].id] = "waiting"
               /\ \A k \in 1..j - 1 : pending'[k].asOf < pending'[j].id
    <3>1. j \in 1..Len(pending) /\ pending[j].kind = "barrier" /\ pending'[j] = pending[j]
      BY <1>5, <1>6, <2>1 DEF Plain
    <3>2. \A k \in 1..j - 1 : k \in 1..Len(pending) /\ k # i
      BY <1>4, <3>1
    <3> QED BY <1>5, <3>1, <3>2 DEF PersistInv, BarriersHold
  <2>2. ASSUME NEW n \in 1..calls', asked'[n].kind = "barrier", receipt'[n] = "waiting"
        PROVE  \E j \in 1..Len(pending') : pending'[j].id = n
    <3>1. n \in 1..calls /\ asked[n].kind = "barrier" /\ receipt[n] = "waiting"
      BY <1>1, <1>2, <1>3, <2>2
    <3> QED BY <1>5, <1>6, <3>1 DEF PersistInv, BarriersHold
  <2> QED BY <2>1, <2>2 DEF BarriersHold
<1>11. Answered'
  BY <1>1, <1>2, <1>3, <1>5, <1>6 DEF PersistInv, Answered
<1>12. Recording'
  BY <1>1, <1>2, <1>5, <1>6 DEF PersistInv, Recording
<1>13. \A r \in records : r[1] # new
  BY <1>1 DEF PersistInv, Recording
<1>14. ReceiptsTruthful'
  BY <1>1, <1>2, <1>3, <1>13 DEF PersistInv, ReceiptsTruthful, Backed
<1>15. TwoPhase'
  BY <1>1, <1>2, <1>13 DEF PersistInv, TwoPhase
<1>16. EvidenceAccounted'
  <2>1. \A x \in Held("evidence") : x \in Held("evidence")'
    BY <1>5, <1>6 DEF Held, QueuedIdxs, Plain
  <2> QED BY <1>1, <1>2, <2>1 DEF PersistInv, EvidenceAccounted, Plain
<1>17. FenceHolds'
  BY <1>1, <1>2, <1>3, <1>5, <1>6 DEF PersistInv, FenceHolds
<1> QED BY <1>7, <1>9, <1>10, <1>11, <1>12, <1>14, <1>15, <1>16, <1>17 DEF PersistInv

-----------------------------------------------------------------------------
(* The worker's thread *)

\* What is queued once an item is taken out, and what was.
LEMMA WithoutItem ==
  ASSUME Types, NEW k \in 1..Len(pending), pending' = RemoveAt(pending, k)
  PROVE  /\ \A j \in 1..Len(pending') :
               \E m \in 1..Len(pending) : /\ m # k /\ m = (IF j < k THEN j ELSE j + 1)
                                         /\ pending'[j] = pending[m]
         /\ \A m \in 1..Len(pending) :
               m # k => \E j \in 1..Len(pending') : pending'[j] = pending[m]
<1>1. pending \in Seq(Items) /\ Len(pending) \in Nat
  BY DEF Types
<1>2. /\ pending' \in Seq(Items) /\ Len(pending') = Len(pending) - 1
      /\ \A j \in 1..Len(pending) - 1 : pending'[j] = pending[IF j < k THEN j ELSE j + 1]
  BY <1>1, Removed
<1>3. ASSUME NEW j \in 1..Len(pending')
      PROVE  \E m \in 1..Len(pending) : /\ m # k /\ m = (IF j < k THEN j ELSE j + 1)
                                        /\ pending'[j] = pending[m]
  BY <1>1, <1>2
<1>4. ASSUME NEW m \in 1..Len(pending), m # k
      PROVE  \E j \in 1..Len(pending') : pending'[j] = pending[m]
  <2>1. CASE m < k
    <3>1. m \in 1..Len(pending) - 1 /\ pending'[m] = pending[m]
      BY <1>1, <1>2, <2>1
    <3> QED BY <1>2, <3>1
  <2>2. CASE k < m
    <3>1. m - 1 \in 1..Len(pending) - 1 /\ ~ (m - 1 < k) /\ (m - 1) + 1 = m
      BY <1>1, <2>2
    <3>2. pending'[m - 1] = pending[IF m - 1 < k THEN m - 1 ELSE (m - 1) + 1]
      BY <1>2, <3>1, Zenon
    <3> QED BY <1>2, <3>1, <3>2
  <2> QED BY <1>4, <2>1, <2>2
<1> QED BY <1>3, <1>4

LEMMA TakeInv ==
  ASSUME PersistInv, Take
  PROVE  PersistInv'
<1>1. PICK k \in 1..Len(pending) :
         /\ k = NextWork /\ pending[k].kind # "barrier"
         /\ \A j \in 1..Len(pending) : pending[j].kind = "barrier" => k < j
  BY NextIsEligible, Barriers DEF Take, Eligible, BeforeFence
<1>2. /\ pending \in Seq(Items) /\ Len(pending) \in Nat
      /\ \A j \in 1..Len(pending) : pending[j] \in Items
  BY DEF PersistInv, Types
<1>3. PICK item \in Items : item = pending[k]
  BY <1>2
<1>4. /\ active = Idle /\ active' = [item |-> item, step |-> "taken", saved |-> 0]
      /\ pending' = RemoveAt(pending, k)
      /\ UNCHANGED <<calls, asked, receipt, records, model, evidenceBlocked>>
  BY <1>1, <1>3 DEF Take, noQueue, healthVars, disk
<1>5. /\ pending' \in Seq(Items) /\ Len(pending') = Len(pending) - 1
      /\ \A j \in 1..Len(pending) - 1 : pending'[j] = pending[IF j < k THEN j ELSE j + 1]
  BY <1>2, <1>4, Removed
<1>6. \A j \in 1..Len(pending') :
         \E m \in 1..Len(pending) : /\ m # k /\ m = (IF j < k THEN j ELSE j + 1)
                                   /\ pending'[j] = pending[m]
  BY <1>4, WithoutItem DEF PersistInv
<1>7. \A m \in 1..Len(pending) : m # k => \E j \in 1..Len(pending') : pending'[j] = pending[m]
  BY <1>4, WithoutItem DEF PersistInv
<1>8. active'.item = item /\ active'.step = "taken" /\ active' \in Actives /\ active' # Idle
  BY <1>3, <1>4 DEF Actives, Steps, Idle
<1>9. Types'
  BY <1>4, <1>5, <1>8 DEF PersistInv, Types
<1>10. \A j \in 1..Len(pending) : OfCall(pending[j]) /\ pending[j].id \in Nat
  BY <1>2 DEF PersistInv, Queued, Items
<1>11. \A m \in 1..Len(pending) : m # k => pending[m].id # item.id
  BY <1>2, <1>3, <1>10 DEF PersistInv, Queued
<1>12. \A x \in Items : OfCall(x) => OfCall(x)'
  BY <1>4 DEF OfCall
<1>13. Queued'
  <2>1. ASSUME NEW j \in 1..Len(pending')
        PROVE  OfCall(pending[j])' /\ pending'[j].id # item.id
    <3>1. PICK m \in 1..Len(pending) : m # k /\ pending'[j] = pending[m]
      BY <1>6
    <3>2. PICK x \in Items : x = pending[m]
      BY <1>2
    <3>3. OfCall(x)' /\ pending'[j] = x
      BY <1>10, <1>12, <3>1, <3>2
    <3> QED BY <1>11, <3>1, <3>3 DEF OfCall
  <2>2. ASSUME NEW i \in 1..Len(pending'), NEW j \in 1..Len(pending'), i < j
        PROVE  pending'[i].id < pending'[j].id
    <3>1. PICK m \in 1..Len(pending) :
             m = (IF i < k THEN i ELSE i + 1) /\ pending'[i] = pending[m]
      BY <1>6
    <3>2. PICK l \in 1..Len(pending) :
             l = (IF j < k THEN j ELSE j + 1) /\ pending'[j] = pending[l]
      BY <1>6
    <3>3. m < l
      BY <2>2, <3>1, <3>2
    <3> QED BY <3>1, <3>2, <3>3 DEF PersistInv, Queued
  <2>3. OfCall(item)' /\ item.kind # "barrier"
    BY <1>1, <1>3, <1>10, <1>12
  <2> QED BY <1>8, <2>1, <2>2, <2>3 DEF Queued, OfCall
<1>14. BarriersHold'
  <2>1. ASSUME NEW j \in 1..Len(pending'), pending'[j].kind = "barrier"
        PROVE  /\ receipt'[pending'[j].id] = "waiting"
               /\ \A i \in 1..j - 1 : pending'[i].asOf < pending'[j].id
    <3>1. PICK l \in 1..Len(pending) :
             l = (IF j < k THEN j ELSE j + 1) /\ pending'[j] = pending[l]
      BY <1>6
    <3>2. ASSUME NEW i \in 1..j - 1
          PROVE  pending'[i].asOf < pending'[j].id
      <4>1. i \in 1..Len(pending') /\ i < j
        BY <1>2, <1>5
      <4>2. PICK m \in 1..Len(pending) :
               m = (IF i < k THEN i ELSE i + 1) /\ pending'[i] = pending[m]
        BY <1>6, <4>1
      <4>3. m \in 1..l - 1
        BY <3>1, <4>1, <4>2
      <4> QED BY <2>1, <3>1, <4>2, <4>3 DEF PersistInv, BarriersHold
    <3> QED BY <1>4, <2>1, <3>1, <3>2 DEF PersistInv, BarriersHold
  <2>2. ASSUME NEW n \in 1..calls', asked'[n].kind = "barrier", receipt'[n] = "waiting"
        PROVE  \E j \in 1..Len(pending') : pending'[j].id = n
    <3>1. PICK m \in 1..Len(pending) : pending[m].id = n
      BY <1>4, <2>2 DEF PersistInv, BarriersHold
    <3>2. m # k
      BY <1>1, <1>4, <1>10, <2>2, <3>1 DEF OfCall
    <3> QED BY <1>7, <3>1, <3>2
  <2> QED BY <2>1, <2>2 DEF BarriersHold
<1>15. Answered'
  <2>1. \A n \in 1..calls : receipt[n] \in {"durable", "lost"} =>
           n # item.id /\ \A j \in 1..Len(pending') : pending'[j].id # n
    BY <1>3, <1>6 DEF PersistInv, Answered
  <2> QED BY <1>4, <1>8, <2>1 DEF PersistInv, Answered
<1>16. Recording'
  BY <1>3, <1>4, <1>6, <1>8 DEF PersistInv, Recording
<1>17. ReceiptsTruthful' /\ TwoPhase'
  BY <1>4 DEF PersistInv, ReceiptsTruthful, Backed, TwoPhase
<1>18. EvidenceAccounted'
  <2>1. ASSUME NEW x \in Held("evidence") PROVE x \in Held("evidence")'
    <3>1. PICK m \in 1..Len(pending) : pending[m].kind = "evidence" /\ pending[m] = x
      BY <1>4, <2>1, HeldItems DEF Idle
    <3>2. CASE m = k
      BY <1>3, <1>8, <3>1, <3>2 DEF Held
    <3>3. CASE m # k
      <4>1. PICK j \in 1..Len(pending') : pending'[j] = x
        BY <1>7, <3>1, <3>3
      <4> QED BY <3>1, <4>1 DEF Held, QueuedIdxs
    <3> QED BY <3>2, <3>3
  <2> QED BY <1>4, <2>1 DEF PersistInv, EvidenceAccounted
<1>19. FenceHolds'
  <2> SUFFICES ASSUME NEW n \in 1..calls, asked[n].kind = "barrier"
               PROVE  /\ receipt[n] = "waiting" => item.asOf < n
                      /\ receipt[n] = "durable" =>
                           /\ \A i \in 1..Len(pending') : pending'[i].id > n
                           /\ item.id \notin 1..n
    BY <1>4, <1>8 DEF FenceHolds
  <2>1. ASSUME receipt[n] = "waiting" PROVE item.asOf < n
    <3>1. PICK m \in 1..Len(pending) : pending[m].id = n
      BY <2>1 DEF PersistInv, BarriersHold
    <3>2. pending[m].kind = "barrier"
      BY <1>10, <3>1 DEF OfCall
    <3>3. k \in 1..m - 1
      BY <1>1, <3>2
    <3> QED BY <1>3, <3>1, <3>2, <3>3 DEF PersistInv, BarriersHold
  <2>2. ASSUME receipt[n] = "durable"
        PROVE  (\A i \in 1..Len(pending') : pending'[i].id > n) /\ item.id \notin 1..n
    <3>1. \A m \in 1..Len(pending) : pending[m].id > n
      BY <2>2 DEF PersistInv, FenceHolds
    <3>2. item.id > n /\ item.id \in Nat
      BY <1>3, <1>10, <3>1
    <3>3. \A i \in 1..Len(pending') : pending'[i].id > n
      BY <1>6, <3>1
    <3> QED BY <3>2, <3>3
  <2> QED BY <2>1, <2>2
<1> QED BY <1>9, <1>13, <1>14, <1>15, <1>16, <1>17, <1>18, <1>19 DEF PersistInv

LEMMA PassBarrierInv ==
  ASSUME PersistInv, PassBarrier
  PROVE  PersistInv'
<1>1. /\ pending \in Seq(Items) /\ Len(pending) \in Nat
      /\ \A j \in 1..Len(pending) : pending[j] \in Items
      /\ \A j \in 1..Len(pending) : OfCall(pending[j]) /\ pending[j].id \in Nat
  <2>1. /\ pending \in Seq(Items) /\ Len(pending) \in Nat
        /\ \A j \in 1..Len(pending) : pending[j] \in Items
    BY DEF PersistInv, Types
  <2> QED BY <2>1 DEF PersistInv, Queued, Items
<1>2. Len(pending) >= 1 /\ pending[1].kind = "barrier"
  <2>1. Len(pending) >= 1 /\ 1 \in 1..Len(pending)
    BY <1>1, Barriers DEF PassBarrier
  <2>2. ASSUME pending[1].kind # "barrier" PROVE FALSE
    <3>1. BeforeFence(1)
      BY <2>2, Barriers DEF BeforeFence
    <3>2. 1 \in Eligible
      BY <2>1, <2>2, <3>1 DEF Eligible, LineageReady
    <3> QED BY <3>2 DEF PassBarrier
  <2> QED BY <2>1, <2>2
<1>3. PICK k \in 1..Len(pending) : k = 1
  BY <1>1, <1>2
<1>4. (CHOOSE j \in BarrierIdxs : \A i \in BarrierIdxs : j <= i) = k
  <2> DEFINE f == CHOOSE j \in BarrierIdxs : \A i \in BarrierIdxs : j <= i
  <2>1. k \in BarrierIdxs
    BY <1>2, <1>3, Barriers
  <2>2. f \in BarrierIdxs /\ \A i \in BarrierIdxs : f <= i
    BY <2>1, FirstBarrier
  <2> HIDE DEF f
  <2>3. f <= 1 /\ f >= 1 /\ f \in Nat
    BY <1>3, <2>1, <2>2, Barriers
  <2>4. f = k
    BY <1>3, <2>3
  <2> QED BY <2>4 DEF f
<1>5. PICK b \in 1..calls : b = pending[k].id
  BY <1>1 DEF OfCall
<1>6. /\ active = Idle /\ active' = Idle
      /\ pending' = RemoveAt(pending, k)
      /\ receipt' = [receipt EXCEPT ![b] = "durable"]
      /\ UNCHANGED <<calls, asked, records, model, evidenceBlocked>>
  BY <1>4, <1>5 DEF PassBarrier, noQueue, healthVars, disk
<1>7. /\ b \in 1..MaxCalls /\ b \in Nat \ {0} /\ receipt'[b] = "durable"
      /\ \A n \in 1..MaxCalls : n # b => receipt'[n] = receipt[n]
      /\ receipt' \in [1..MaxCalls -> {"none", "waiting", "durable", "lost"}]
      /\ \A n \in 1..calls : n \in 1..MaxCalls /\ n # 0
  BY <1>6, QueueAssumption DEF PersistInv, Types
<1>8. asked[b].kind = "barrier"
  BY <1>1, <1>2, <1>3, <1>5 DEF OfCall
<1>9. pending' \in Seq(Items)
  BY <1>1, <1>6, Removed
<1>10. \A j \in 1..Len(pending') :
         \E m \in 1..Len(pending) : /\ m # k /\ m = j + 1 /\ pending'[j] = pending[m]
  BY <1>3, <1>6, WithoutItem DEF PersistInv
<1>11. \A m \in 1..Len(pending) : m # k => \E j \in 1..Len(pending') : pending'[j] = pending[m]
  BY <1>6, WithoutItem DEF PersistInv
<1>12. \A m \in 1..Len(pending) : m # k => pending[m].id > b
  BY <1>3, <1>5 DEF PersistInv, Queued
<1>13. \A j \in 1..Len(pending') : pending'[j].id > b /\ pending'[j].id # b
  BY <1>1, <1>7, <1>10, <1>12
<1>14. Types'
  BY <1>6, <1>7, <1>9 DEF PersistInv, Types
<1>15. Queued'
  <2>1. ASSUME NEW j \in 1..Len(pending') PROVE OfCall(pending[j])'
    BY <1>1, <1>6, <1>10 DEF OfCall
  <2>2. ASSUME NEW i \in 1..Len(pending'), NEW j \in 1..Len(pending'), i < j
        PROVE  pending'[i].id < pending'[j].id
    <3>1. /\ i + 1 \in 1..Len(pending) /\ pending'[i] = pending[i + 1]
          /\ j + 1 \in 1..Len(pending) /\ pending'[j] = pending[j + 1]
      BY <1>10
    <3> QED BY <2>2, <3>1 DEF PersistInv, Queued
  <2>3. \A j \in 1..Len(pending') : pending'[j].id # active'.item.id
    BY <1>6, <1>7, <1>13 DEF Idle
  <2> QED BY <1>6, <2>1, <2>2, <2>3 DEF Queued
<1>16. BarriersHold'
  <2>1. ASSUME NEW j \in 1..Len(pending'), pending'[j].kind = "barrier"
        PROVE  /\ receipt'[pending'[j].id] = "waiting"
               /\ \A i \in 1..j - 1 : pending'[i].asOf < pending'[j].id
    <3>1. j + 1 \in 1..Len(pending) /\ pending'[j] = pending[j + 1] /\ j + 1 # k
      BY <1>10
    <3>2. ASSUME NEW i \in 1..j - 1 PROVE pending'[i].asOf < pending'[j].id
      <4>1. /\ i \in 1..Len(pending') /\ i + 1 \in 1..(j + 1) - 1
            /\ pending'[i] = pending[i + 1]
        BY <1>10
      <4> QED BY <2>1, <3>1, <4>1 DEF PersistInv, BarriersHold
    <3>3. pending[j + 1].id \in 1..MaxCalls /\ pending[j + 1].id # b
      BY <1>1, <1>7, <1>13, <3>1 DEF OfCall
    <3>4. receipt[pending[j + 1].id] = "waiting"
      BY <2>1, <3>1 DEF PersistInv, BarriersHold
    <3> QED BY <1>7, <3>1, <3>2, <3>3, <3>4
  <2>2. ASSUME NEW n \in 1..calls', asked'[n].kind = "barrier", receipt'[n] = "waiting"
        PROVE  \E j \in 1..Len(pending') : pending'[j].id = n
    <3>1. n # b /\ receipt[n] = "waiting" /\ n \in 1..calls
      BY <1>6, <1>7, <2>2
    <3>2. PICK m \in 1..Len(pending) : pending[m].id = n
      BY <1>6, <2>2, <3>1 DEF PersistInv, BarriersHold
    <3> QED BY <1>5, <1>11, <3>1, <3>2
  <2> QED BY <2>1, <2>2 DEF BarriersHold
<1>17. Answered'
  <2>1. ASSUME NEW n \in 1..calls, receipt'[n] \in {"durable", "lost"}
        PROVE  n # active'.item.id /\ \A i \in 1..Len(pending') : pending'[i].id # n
    <3>1. n # active'.item.id
      BY <1>6, <1>7 DEF Idle
    <3>2. CASE n = b
      BY <1>13, <3>1, <3>2
    <3>3. CASE n # b
      <4>1. \A m \in 1..Len(pending) : pending[m].id # n
        BY <1>7, <2>1, <3>3 DEF PersistInv, Answered
      <4> QED BY <1>10, <3>1, <4>1
    <3> QED BY <3>2, <3>3
  <2>2. \A n \in 1..MaxCalls : n > calls => n # b
    BY <1>7 DEF PersistInv, Types
  <2> QED BY <1>6, <1>7, <2>1, <2>2 DEF PersistInv, Answered
<1>18. Recording'
  BY <1>6, <1>10 DEF PersistInv, Recording
<1>19. ReceiptsTruthful'
  BY <1>6, <1>7, <1>8 DEF PersistInv, ReceiptsTruthful, Backed
<1>20. TwoPhase'
  BY <1>6 DEF PersistInv, TwoPhase
<1>21. EvidenceAccounted'
  <2>1. ASSUME NEW x \in Held("evidence") PROVE x \in Held("evidence")'
    <3>1. PICK m \in 1..Len(pending) : pending[m].kind = "evidence" /\ pending[m] = x
      BY <1>6, <2>1, HeldItems DEF Idle
    <3>2. m # k
      BY <1>2, <1>3, <3>1
    <3>3. PICK j \in 1..Len(pending') : pending'[j] = x
      BY <1>11, <3>1, <3>2
    <3> QED BY <3>1, <3>3 DEF Held, QueuedIdxs
  <2> QED BY <1>6, <2>1 DEF PersistInv, EvidenceAccounted
<1>22. FenceHolds'
  <2> SUFFICES ASSUME NEW n \in 1..calls, asked[n].kind = "barrier"
               PROVE  /\ receipt'[n] = "waiting" => Idle.item.asOf < n
                      /\ receipt'[n] = "durable" =>
                           /\ \A i \in 1..Len(pending') : pending'[i].id > n
                           /\ Idle.item.id \notin 1..n
    BY <1>6 DEF FenceHolds
  <2>1. Idle.item.asOf < n /\ Idle.item.id \notin 1..n
    BY DEF Idle
  <2>2. CASE n = b
    BY <1>13, <2>1, <2>2
  <2>3. CASE n # b
    <3>1. receipt[n] = "durable" => \A m \in 1..Len(pending) : pending[m].id > n
      BY DEF PersistInv, FenceHolds
    <3> QED BY <1>7, <1>10, <2>1, <2>3, <3>1
  <2> QED BY <2>2, <2>3
<1> QED BY <1>14, <1>15, <1>16, <1>17, <1>18, <1>19, <1>20, <1>21, <1>22 DEF PersistInv

\* A write of the item at hand disturbs nothing but what is on record of it.
LEMMA WriteKeeps ==
  ASSUME PersistInv, active \in Actives, active' \in Actives, active'.item = active.item,
         UNCHANGED <<calls, asked, pending, receipt, evidenceBlocked>>,
         records \subseteq records',
         \A r \in records' : r \in records \/ (r[1] = active.item.id /\ r \in Nat \X Words),
         model' \in [rev : Nat, by : Nat, form : {"none", "plain", "prepared", "committed"}],
         model'.rev >= model.rev
  PROVE  /\ Types' /\ Queued' /\ BarriersHold' /\ Answered'
         /\ ReceiptsTruthful' /\ EvidenceAccounted' /\ FenceHolds'
         /\ \A r \in records' : r[1] \in 1..calls'
         /\ \A r \in records' : \A i \in 1..Len(pending') : pending'[i].id # r[1]
<1>1. active # Idle /\ active' # Idle
  BY DEF Actives, Idle
<1>2. OfCall(active.item) /\ active.item.kind # "barrier" /\ active.item.id \in 1..calls
  BY <1>1 DEF PersistInv, Queued, OfCall
<1>3. Types'
  BY DEF PersistInv, Types
<1>4. Queued'
  BY <1>1 DEF PersistInv, Queued, OfCall
<1>5. BarriersHold' /\ Answered' /\ FenceHolds'
  BY DEF PersistInv, BarriersHold, Answered, FenceHolds
<1>6. ReceiptsTruthful'
  <2>1. ASSUME NEW n \in 1..calls, receipt[n] = "durable" PROVE Backed(n)'
    <3>1. Backed(n)
      BY <2>1 DEF PersistInv, ReceiptsTruthful
    <3>2. model.rev \in Nat /\ model'.rev \in Nat /\ asked[n].rev \in Nat
      BY QueueAssumption DEF PersistInv, Types
    <3> QED BY <3>1, <3>2 DEF Backed
  <2>2. ASSUME NEW n \in 1..calls, receipt[n] = "lost"
        PROVE  <<n, "success">> \notin records'
    <3>1. n # active.item.id /\ <<n, "success">> \notin records
      BY <2>2 DEF PersistInv, Answered, ReceiptsTruthful
    <3> QED BY <3>1
  <2> QED BY <2>1, <2>2 DEF ReceiptsTruthful
<1>7. EvidenceAccounted'
  <2>1. Held("evidence")' = Held("evidence")
    BY DEF Held, QueuedIdxs
  <2> QED BY <2>1 DEF PersistInv, EvidenceAccounted
<1>8. \A r \in records' : r[1] \in 1..calls'
  BY <1>2 DEF PersistInv, Recording
<1>9. \A r \in records' : \A i \in 1..Len(pending') : pending'[i].id # r[1]
  BY DEF PersistInv, Recording, Queued
<1> QED BY <1>3, <1>4, <1>5, <1>6, <1>7, <1>8, <1>9

Models == [rev : Nat, by : Nat, form : {"none", "plain", "prepared", "committed"}]

LEMMA StepReached ==
  ASSUME active \in Actives, NEW step \in Steps \ {"idle"}
  PROVE  /\ Reaches(step) => /\ active' \in Actives /\ active'.item = active.item
                             /\ active'.step = step
         /\ \A rev \in Nat :
              ReachesSaved(step, rev) => /\ active' \in Actives
                                         /\ active'.item = active.item
                                         /\ active'.step = step
<1>1. ASSUME Reaches(step)
      PROVE  active' \in Actives /\ active'.item = active.item /\ active'.step = step
  BY <1>1, Zenon DEF Reaches, Actives
<1>2. ASSUME NEW rev \in Nat, ReachesSaved(step, rev)
      PROVE  active' \in Actives /\ active'.item = active.item /\ active'.step = step
  BY <1>2, Zenon DEF ReachesSaved, Actives
<1> QED BY <1>1, <1>2

LEMMA SavedModel ==
  ASSUME Types, active \in Actives, NEW rev \in Nat,
         NEW form \in {"plain", "prepared", "committed"}, Saved(rev, form)
  PROVE  /\ records' = records /\ model' \in Models
         /\ model'.rev >= model.rev /\ model'.rev >= rev
         /\ model' = model \/ (model'.by = active.item.id /\ model'.form = form)
<1>1. active.item.id \in Nat
  BY DEF Actives, Items
<1> QED BY <1>1 DEF Saved, Types, Models

\* What is left to show of a write: what is on record of the item at hand, and
\* what is of the model.
LEMMA WriteShown ==
  ASSUME PersistInv, active \in Actives, active' \in Actives, active'.item = active.item,
         WriteFrame, records \subseteq records',
         \A r \in records' : r \in records \/ (r[1] = active.item.id /\ r \in Nat \X Words),
         model' \in Models, model'.rev >= model.rev,
         /\ active'.step \in {"prepared", "confirmed", "refused", "declined"}
              => active.item.kind = "checkpoint-terminal"
         /\ <<active.item.id, "success">> \in records'
              <=> /\ active.item.kind = "checkpoint-terminal"
                  /\ active'.step \in {"confirmed", "written"}
         /\ <<active.item.id, "failure">> \in records' => active'.step = "declined"
         /\ active'.step = "written" =>
              /\ active.item.kind \in {"activation", "evidence"}
                   => <<active.item.id, active.item.kind>> \in records'
              /\ active.item.kind \in Checkpoints => model'.rev >= active.item.rev
         /\ active'.step \in {"prepared", "confirmed"} => model'.rev >= active.item.rev,
         \/ model' = model
         \/ /\ model'.by = active.item.id
            /\ model'.form = "committed" => <<active.item.id, "success">> \in records'
  PROVE  PersistInv'
<1>1. UNCHANGED <<calls, asked, pending, receipt, evidenceBlocked>>
  BY DEF WriteFrame, queueVars, healthVars
<1>2. /\ Types' /\ Queued' /\ BarriersHold' /\ Answered'
      /\ ReceiptsTruthful' /\ EvidenceAccounted' /\ FenceHolds'
      /\ \A r \in records' : r[1] \in 1..calls'
      /\ \A r \in records' : \A i \in 1..Len(pending') : pending'[i].id # r[1]
  BY <1>1, WriteKeeps DEF Models
<1>3. Recording'
  BY <1>2 DEF Recording
<1>4. TwoPhase'
  <2>1. model'.form = "committed" => <<model'.by, "success">> \in records'
    BY DEF PersistInv, TwoPhase
  <2>2. ASSUME NEW n \in 1..calls, <<n, "success">> \in records', <<n, "failure">> \in records'
        PROVE  FALSE
    <3>1. CASE n = active.item.id
      BY <2>2, <3>1
    <3>2. CASE n # active.item.id
      <4>1. <<n, "success">> \in records /\ <<n, "failure">> \in records
        BY <2>2, <3>2
      <4> QED BY <4>1 DEF PersistInv, TwoPhase
    <3> QED BY <3>1, <3>2
  <2> QED BY <1>1, <2>1, <2>2 DEF TwoPhase
<1> QED BY <1>2, <1>3, <1>4 DEF PersistInv

LEMMA WriteInv ==
  ASSUME PersistInv, Write
  PROVE  PersistInv'
<1>1. active \in Actives
  <2>1. active.step # "idle"
    BY DEF Write, WriteCheckpoint, WriteRecord, WritePrepared, WriteSuccess, WriteCommitted,
       WriteFailure, Writing
  <2> QED BY <2>1 DEF PersistInv, Types, Idle
<1> DEFINE id == active.item.id
           kind == active.item.kind
<1>2. /\ active # Idle /\ id \in Nat /\ active.item.rev \in Nat
      /\ active.item.rev + 1 \in Nat /\ model \in Models /\ model.rev \in Nat
      /\ Types /\ kind \in CallKinds
  BY <1>1 DEF Actives, Idle, Items, PersistInv, Types, Models
<1>3. /\ active.step \in {"prepared", "confirmed", "refused", "declined"}
           => kind = "checkpoint-terminal"
      /\ <<id, "success">> \in records
           <=> kind = "checkpoint-terminal" /\ active.step \in {"confirmed", "written"}
      /\ <<id, "failure">> \in records => active.step = "declined"
      /\ active.step \in {"prepared", "confirmed"} => model.rev >= active.item.rev
  BY <1>2 DEF PersistInv, Recording
<1>4. CASE WriteCheckpoint
  <2>1. /\ Writing("taken") /\ kind \in {Plain, "checkpoint-durable"}
        /\ Saved(active.item.rev, "plain") /\ ReachesSaved("written", active.item.rev)
        /\ WriteFrame
    BY <1>4 DEF WriteCheckpoint
  <2>2. /\ active' \in Actives /\ active'.item = active.item /\ active'.step = "written"
    BY <1>1, <1>2, <2>1, StepReached DEF Steps
  <2>3. /\ records' = records /\ model' \in Models
        /\ model'.rev >= model.rev /\ model'.rev >= active.item.rev
        /\ model' = model \/ (model'.by = id /\ model'.form = "plain")
    BY <1>1, <1>2, <2>1, SavedModel
  <2> QED BY <1>1, <1>3, <2>1, <2>2, <2>3, WriteShown DEF Writing, Plain
<1>5. CASE WriteRecord
  <2>1. /\ Writing("taken") /\ kind \in {"activation", "evidence", "recorder-gap"}
        /\ records' = records \union {<<id, kind>>} /\ model' = model
        /\ Reaches("written") /\ WriteFrame
    BY <1>5 DEF WriteRecord, Recorded
  <2>2. /\ active' \in Actives /\ active'.item = active.item /\ active'.step = "written"
    BY <1>1, <2>1, StepReached DEF Steps
  <2>3. <<id, kind>> \in Nat \X Words
    BY <1>2, <2>1 DEF Words
  <2> QED BY <1>1, <1>2, <1>3, <2>1, <2>2, <2>3, WriteShown DEF Writing, Checkpoints, Plain
<1>6. CASE WritePrepared
  <2>1. Writing("taken") /\ kind = "checkpoint-terminal" /\ WriteFrame
    BY <1>6 DEF WritePrepared
  <2>2. CASE Saved(active.item.rev, "prepared") /\ ReachesSaved("prepared", active.item.rev)
    <3>1. /\ active' \in Actives /\ active'.item = active.item /\ active'.step = "prepared"
      BY <1>1, <1>2, <2>2, StepReached DEF Steps
    <3>2. /\ records' = records /\ model' \in Models
          /\ model'.rev >= model.rev /\ model'.rev >= active.item.rev
          /\ model' = model \/ (model'.by = id /\ model'.form = "prepared")
      BY <1>1, <1>2, <2>2, SavedModel
    <3> QED BY <1>1, <1>3, <2>1, <3>1, <3>2, WriteShown DEF Writing
  <2>3. CASE UNCHANGED disk /\ Reaches("refused")
    <3>1. /\ active' \in Actives /\ active'.item = active.item /\ active'.step = "refused"
      BY <1>1, <2>3, StepReached DEF Steps
    <3>2. records' = records /\ model' = model
      BY <2>3 DEF disk
    <3> QED BY <1>1, <1>2, <1>3, <2>1, <3>1, <3>2, WriteShown DEF Writing
  <2> QED BY <1>6, <2>2, <2>3 DEF WritePrepared
<1>7. CASE WriteSuccess
  <2>1. Writing("prepared") /\ WriteFrame
    BY <1>7 DEF WriteSuccess
  <2>2. CASE Recorded("success") /\ Reaches("confirmed")
    <3>1. /\ active' \in Actives /\ active'.item = active.item /\ active'.step = "confirmed"
      BY <1>1, <2>2, StepReached DEF Steps
    <3>2. records' = records \union {<<id, "success">>} /\ model' = model
      BY <2>2 DEF Recorded
    <3>3. <<id, "success">> \in Nat \X Words
      BY <1>2 DEF Words
    <3> QED BY <1>1, <1>2, <1>3, <2>1, <3>1, <3>2, <3>3, WriteShown DEF Writing
  <2>3. CASE UNCHANGED disk /\ Reaches("refused")
    <3>1. /\ active' \in Actives /\ active'.item = active.item /\ active'.step = "refused"
      BY <1>1, <2>3, StepReached DEF Steps
    <3>2. records' = records /\ model' = model
      BY <2>3 DEF disk
    <3> QED BY <1>1, <1>2, <1>3, <2>1, <3>1, <3>2, WriteShown DEF Writing
  <2> QED BY <1>7, <2>2, <2>3 DEF WriteSuccess
<1>8. CASE WriteCommitted
  <2>1. Writing("confirmed") /\ WriteFrame
    BY <1>8 DEF WriteCommitted
  <2>2. CASE /\ Saved(active.item.rev + 1, "committed")
             /\ ReachesSaved("written", active.item.rev + 1)
    <3>1. /\ active' \in Actives /\ active'.item = active.item /\ active'.step = "written"
      BY <1>1, <1>2, <2>2, StepReached DEF Steps
    <3>2. /\ records' = records /\ model' \in Models
          /\ model'.rev >= model.rev /\ model'.rev >= active.item.rev + 1
          /\ model' = model \/ (model'.by = id /\ model'.form = "committed")
      BY <1>1, <1>2, <2>2, SavedModel
    <3>3. model'.rev >= active.item.rev
      BY <1>2, <3>2 DEF Models
    <3> QED BY <1>1, <1>3, <2>1, <3>1, <3>2, <3>3, WriteShown DEF Writing
  <2>3. CASE UNCHANGED disk /\ Reaches("written")
    <3>1. /\ active' \in Actives /\ active'.item = active.item /\ active'.step = "written"
      BY <1>1, <2>3, StepReached DEF Steps
    <3>2. records' = records /\ model' = model
      BY <2>3 DEF disk
    <3> QED BY <1>1, <1>2, <1>3, <2>1, <3>1, <3>2, WriteShown DEF Writing
  <2> QED BY <1>8, <2>2, <2>3 DEF WriteCommitted
<1>9. CASE WriteFailure
  <2>1. /\ Writing("refused") /\ WriteFrame /\ Reaches("declined")
        /\ records' = records \union {<<id, "failure">>} /\ model' = model
    BY <1>9 DEF WriteFailure, Recorded
  <2>2. /\ active' \in Actives /\ active'.item = active.item /\ active'.step = "declined"
    BY <1>1, <2>1, StepReached DEF Steps
  <2>3. <<id, "failure">> \in Nat \X Words
    BY <1>2 DEF Words
  <2> QED BY <1>1, <1>2, <1>3, <2>1, <2>2, <2>3, WriteShown DEF Writing
<1> QED BY <1>4, <1>5, <1>6, <1>7, <1>8, <1>9 DEF Write

LEMMA SettleInv ==
  ASSUME PersistInv, Settle
  PROVE  PersistInv'
<1>1. active \in Actives /\ active # Idle
  BY DEF Settle, PersistInv, Types, Idle
<1>2. PICK item \in Items : item = active.item
  BY <1>1 DEF Actives
<1>3. PICK id \in Nat : id = item.id
  BY DEF Items
<1>4. /\ OfCall(item) /\ item.kind # "barrier" /\ item.kind \in CallKinds
      /\ id \in 1..calls /\ id # 0 /\ id \in 1..MaxCalls /\ asked[id].kind = item.kind
      /\ calls \in Nat
      /\ \A i \in 1..Len(pending) : pending[i].id # id
  <2>1. /\ OfCall(item) /\ item.kind # "barrier" /\ calls \in Nat /\ calls <= MaxCalls
        /\ \A i \in 1..Len(pending) : pending[i].id # id
    BY <1>1, <1>2, <1>3, Zenon DEF PersistInv, Queued, Types
  <2>2. item.kind \in CallKinds
    BY DEF Items
  <2>3. id \in 1..calls /\ asked[id].kind = item.kind
    BY <1>3, <2>1 DEF OfCall
  <2>4. calls \in Nat /\ id # 0 /\ id \in 1..MaxCalls
    BY <2>1, <2>3, QueueAssumption
  <2> QED BY <2>1, <2>2, <2>3, <2>4
<1>5. /\ active' = Idle /\ active.step \in {"written", "declined"}
      /\ receipt' = IF item.kind \in Receipts THEN [receipt EXCEPT ![id] = Verdict] ELSE receipt
      /\ UNCHANGED <<calls, asked, pending, records, model, evidenceBlocked>>
  BY <1>2, <1>3 DEF Settle, healthVars, disk
<1>6. /\ active.step = "declined" => item.kind = "checkpoint-terminal"
      /\ <<id, "success">> \in records
           <=> item.kind = "checkpoint-terminal" /\ active.step = "written"
      /\ active.step = "written" =>
           /\ item.kind \in {"activation", "evidence"} => <<id, item.kind>> \in records
           /\ item.kind \in Checkpoints => model.rev >= item.rev
  BY <1>1, <1>2, <1>3, <1>5 DEF PersistInv, Recording
<1>7. /\ receipt' \in [1..MaxCalls -> {"none", "waiting", "durable", "lost"}]
      /\ \A n \in 1..MaxCalls : n # id => receipt'[n] = receipt[n]
      /\ receipt'[id] = IF item.kind \in Receipts THEN Verdict ELSE receipt[id]
      /\ \A n \in 1..calls : n \in 1..MaxCalls /\ n # 0
      /\ Verdict = IF active.step = "written" THEN "durable" ELSE "lost"
  BY <1>4, <1>5, QueueAssumption DEF PersistInv, Types, Verdict
<1>8. Idle.item.id = 0 /\ Idle.item.asOf = 0 /\ Idle.item.kind = "none"
  BY DEF Idle
<1>9. Types'
  BY <1>5, <1>7 DEF PersistInv, Types
<1>10. \A i \in 1..Len(pending) : OfCall(pending[i]) /\ pending[i].id \in 1..MaxCalls
                                  /\ pending[i].id # 0
  BY <1>7 DEF PersistInv, Queued, OfCall
<1>11. Queued'
  <2>1. \A i \in 1..Len(pending) : OfCall(pending[i])'
    BY <1>5, <1>10 DEF OfCall
  <2> QED BY <1>5, <1>8, <1>10, <2>1 DEF PersistInv, Queued
<1>12. BarriersHold'
  <2>1. \A j \in 1..Len(pending) : receipt'[pending[j].id] = receipt[pending[j].id]
    BY <1>4, <1>7, <1>10
  <2>2. \A n \in 1..calls : asked[n].kind = "barrier" => receipt'[n] = receipt[n]
    BY <1>4, <1>7
  <2> QED BY <1>5, <2>1, <2>2 DEF PersistInv, BarriersHold
<1>13. Answered'
  <2>1. \A n \in 1..MaxCalls : n > calls => n # id
    BY <1>4
  <2> QED BY <1>4, <1>5, <1>7, <1>8, <2>1 DEF PersistInv, Answered
<1>14. Recording'
  BY <1>5 DEF PersistInv, Recording
<1>15. ReceiptsTruthful'
  <2>1. ASSUME NEW n \in 1..calls, n = id, item.kind \in Receipts
        PROVE  /\ receipt'[n] = "durable" => Backed(n)
               /\ receipt'[n] = "lost" => <<n, "success">> \notin records
    <3>1. /\ receipt'[n] = "lost" => active.step = "declined"
          /\ receipt'[n] = "durable" => active.step = "written"
      BY <1>5, <1>7, <2>1
    <3>2. item.kind \in {"checkpoint-durable", "checkpoint-terminal"} =>
             asked[n].rev = item.rev
      BY <1>3, <1>4, <2>1 DEF OfCall
    <3> QED BY <1>4, <1>6, <2>1, <3>1, <3>2 DEF Backed, Checkpoints
  <2>2. ASSUME NEW n \in 1..calls, receipt'[n] = receipt[n]
        PROVE  /\ receipt'[n] = "durable" => Backed(n)
               /\ receipt'[n] = "lost" => <<n, "success">> \notin records
    BY <2>2 DEF PersistInv, ReceiptsTruthful
  <2>3. \A n \in 1..calls : Backed(n) => Backed(n)'
    BY <1>5 DEF Backed
  <2> QED BY <1>5, <1>7, <2>1, <2>2, <2>3 DEF ReceiptsTruthful
<1>16. TwoPhase'
  BY <1>5 DEF PersistInv, TwoPhase
<1>17. EvidenceAccounted'
  <2> SUFFICES ASSUME NEW n \in 1..calls, asked[n].kind \in {"evidence", "recorder-gap"},
                      ~ evidenceBlocked
               PROVE  <<n, "evidence">> \in records
                        \/ \E x \in Held("evidence")' : x.id = n
    BY <1>5 DEF EvidenceAccounted
  <2>1. CASE <<n, "evidence">> \in records
    BY <2>1
  <2>2. CASE \E x \in Held("evidence") : x.id = n
    <3>1. PICK x \in Held("evidence") : x.id = n
      BY <2>2
    <3>2. CASE active.item.kind = "evidence" /\ active.item = x
      BY <1>2, <1>3, <1>5, <1>6, <3>1, <3>2
    <3>3. CASE \E i \in 1..Len(pending) : pending[i].kind = "evidence" /\ pending[i] = x
      <4>1. x \in Held("evidence")'
        BY <1>5, <3>3 DEF Held, QueuedIdxs
      <4> QED BY <3>1, <4>1
    <3> QED BY <3>1, <3>2, <3>3, HeldItems
  <2> QED BY <2>1, <2>2 DEF PersistInv, EvidenceAccounted
<1>18. FenceHolds'
  <2>1. \A n \in 1..calls : asked[n].kind = "barrier" => receipt'[n] = receipt[n]
    BY <1>4, <1>7
  <2> QED BY <1>5, <1>8, <2>1 DEF PersistInv, FenceHolds
<1> QED BY <1>9, <1>11, <1>12, <1>13, <1>14, <1>15, <1>16, <1>17, <1>18 DEF PersistInv

LEMMA FailInv ==
  ASSUME PersistInv, Fail
  PROVE  PersistInv'
<1>1. active \in Actives /\ active # Idle
  BY DEF Fail, Writing, PersistInv, Types, Idle
<1>2. PICK lost \in Nat : lost = active.item.id
  BY <1>1 DEF Actives, Items
<1>3. /\ active' = Idle /\ pending' = <<>> /\ evidenceBlocked' = TRUE
      /\ receipt' = FailPending(lost)
      /\ UNCHANGED <<calls, asked, records, model>>
  BY <1>2 DEF Fail, noQueue, disk
<1>4. /\ active.item.kind # "barrier" /\ lost \in 1..calls /\ calls \in Nat /\ calls <= MaxCalls
      /\ asked[lost].kind = active.item.kind
      /\ <<lost, "success">> \notin records
      /\ \A n \in 1..calls : n \in 1..MaxCalls /\ n # 0
  <2>1. ~ (active.item.kind = "checkpoint-terminal" /\ active.step \in {"confirmed", "written"})
    BY DEF Fail, Writing
  <2>2. <<lost, "success">> \notin records
    BY <1>1, <1>2, <2>1 DEF PersistInv, Recording
  <2> QED BY <1>1, <1>2, <2>2, QueueAssumption DEF PersistInv, Queued, OfCall, Types
<1>5. Idle.item.id = 0 /\ Idle.item.asOf = 0 /\ Idle.item.kind = "none"
  BY DEF Idle
<1>6. DOMAIN receipt = 1..MaxCalls
  BY DEF PersistInv, Types
<1>7. ASSUME NEW n \in 1..MaxCalls
      PROVE  \/ receipt'[n] = receipt[n] /\ ~ (receipt[n] = "waiting"
                   /\ \E i \in 1..Len(pending) : pending[i].id = n)
             \/ /\ receipt[n] = "waiting" /\ receipt'[n] = "durable"
                /\ \E i \in 1..Len(pending) : pending[i].id = n /\ pending[i].kind = "barrier"
             \/ /\ receipt[n] = "waiting" /\ receipt'[n] = "lost"
                /\ \E i \in 1..Len(pending) : pending[i].id = n
             \/ receipt[n] = "waiting" /\ receipt'[n] = "lost" /\ n = lost
  BY <1>3, <1>6, Barriers DEF FailPending
<1>8. receipt' \in [1..MaxCalls -> {"none", "waiting", "durable", "lost"}]
  <2>1. \A n \in 1..MaxCalls : receipt[n] \in {"none", "waiting", "durable", "lost"}
    BY DEF PersistInv, Types
  <2>2. \A n \in 1..MaxCalls : receipt'[n] \in {"none", "waiting", "durable", "lost"}
    BY <1>7, <2>1
  <2>3. receipt' = [n \in 1..MaxCalls |-> receipt'[n]]
    BY <1>3, <1>6 DEF FailPending
  <2> QED BY <2>2, <2>3
<1>9. Types'
  BY <1>3, <1>8 DEF PersistInv, Types
<1>10. \A i \in 1..Len(pending) : /\ pending[i].id \in 1..calls
                                  /\ asked[pending[i].id].kind = pending[i].kind
                                  /\ \A r \in records : r[1] # pending[i].id
  BY DEF PersistInv, Queued, OfCall, Recording
<1>11. Queued' /\ Recording'
  BY <1>3 DEF PersistInv, Queued, Recording
<1>12. BarriersHold'
  <2>1. ASSUME NEW n \in 1..calls, asked[n].kind = "barrier", receipt'[n] = "waiting"
        PROVE  FALSE
    BY <1>4, <1>7, <2>1 DEF PersistInv, BarriersHold
  <2> QED BY <1>3, <2>1 DEF BarriersHold
<1>13. Answered'
  <2>1. \A n \in 1..MaxCalls : n > calls => receipt'[n] = "none"
    BY <1>7 DEF PersistInv, Answered
  <2> QED BY <1>3, <1>4, <1>5, <2>1 DEF Answered
<1>14. ReceiptsTruthful'
  <2>1. \A n \in 1..calls : Backed(n) => Backed(n)'
    BY <1>3 DEF Backed
  <2>2. ASSUME NEW n \in 1..calls, receipt'[n] = "durable" PROVE Backed(n)
    <3>1. CASE receipt[n] = "durable"
      BY <3>1 DEF PersistInv, ReceiptsTruthful
    <3>2. CASE receipt[n] # "durable"
      <4>1. asked[n].kind = "barrier"
        BY <1>4, <1>7, <1>10, <2>2, <3>2
      <4> QED BY <4>1 DEF Backed
    <3> QED BY <3>1, <3>2
  <2>3. ASSUME NEW n \in 1..calls, receipt'[n] = "lost" PROVE <<n, "success">> \notin records
    BY <1>4, <1>7, <1>10, <2>3 DEF PersistInv, ReceiptsTruthful
  <2> QED BY <1>3, <2>1, <2>2, <2>3 DEF ReceiptsTruthful
<1>15. TwoPhase' /\ EvidenceAccounted'
  BY <1>3 DEF PersistInv, TwoPhase, EvidenceAccounted
<1>16. FenceHolds'
  BY <1>3, <1>4, <1>5 DEF FenceHolds
<1> QED BY <1>9, <1>11, <1>12, <1>13, <1>14, <1>15, <1>16 DEF PersistInv

-----------------------------------------------------------------------------
(* Every step *)

LEMMA UnchangedInv ==
  ASSUME PersistInv,
         UNCHANGED <<calls, asked, receipt, pending, active, records, model, evidenceBlocked>>
  PROVE  PersistInv'
BY DEF PersistInv, Types, Queued, OfCall, BarriersHold, Answered, Recording, ReceiptsTruthful,
   Backed, TwoPhase, EvidenceAccounted, Held, QueuedIdxs, FenceHolds

LEMMA CallsInv ==
  ASSUME PersistInv, Calls
  PROVE  PersistInv'
<1>1. ASSUME NEW rev \in 1..MaxRevision, SubmitCheckpoint(rev) PROVE PersistInv'
  <2>1. /\ UNCHANGED <<active, records, model, evidenceBlocked>> /\ rev \in Nat
        /\ Plain \in CallKinds \ {"evidence", "barrier", "recorder-gap"}
        /\ evidenceBlocked \in BOOLEAN
    BY <1>1, QueueAssumption
       DEF SubmitCheckpoint, disk, healthVars, CallKinds, Checkpoints, Plain, PersistInv, Types
  <2>2. CASE Number(Plain, rev) /\ UNCHANGED <<pending, receipt>>
    BY <2>1, <2>2, UnqueuedInv
  <2>3. CASE /\ Number(Plain, rev) /\ UNCHANGED receipt
             /\ \E i \in Replaceable :
                   pending' = [pending EXCEPT ![i].rev = rev, ![i].asOf = calls + 1]
    BY <2>1, <2>3, ReplacedInv
  <2>4. CASE Enqueue(Item(Plain, rev, NoBatch), "none")
    BY <2>1, <2>4, EnqueueInv
  <2> QED BY <1>1, <2>2, <2>3, <2>4 DEF SubmitCheckpoint
<1>2. ASSUME NEW rev \in 1..MaxRevision,
             NEW kind \in {"checkpoint-durable", "checkpoint-terminal"},
             SubmitDurable(kind, rev)
      PROVE  PersistInv'
  <2>1. /\ UNCHANGED <<active, records, model, evidenceBlocked>> /\ rev \in Nat
        /\ kind \in CallKinds \ {"evidence", "barrier", "recorder-gap"}
        /\ evidenceBlocked \in BOOLEAN /\ Enqueue(Item(kind, rev, NoBatch), "waiting")
    BY <1>2, QueueAssumption
       DEF SubmitDurable, disk, healthVars, CallKinds, Checkpoints, PersistInv, Types
  <2> QED BY <2>1, EnqueueInv
<1>3. CASE SubmitActivation
  <2>1. /\ UNCHANGED <<active, records, model, evidenceBlocked>> /\ 0 \in Nat
        /\ "activation" \in CallKinds
        /\ evidenceBlocked \in BOOLEAN /\ Enqueue(Item("activation", 0, NoBatch), "waiting")
    BY <1>3 DEF SubmitActivation, disk, healthVars, CallKinds, PersistInv, Types
  <2> QED BY <2>1, EnqueueInv
<1>4. CASE SubmitEvidence
  <2>1. /\ UNCHANGED <<active, records, model>> /\ 0 \in Nat
        /\ "evidence" \in CallKinds /\ "recorder-gap" \in CallKinds
        /\ evidenceBlocked \in BOOLEAN
    BY <1>4 DEF SubmitEvidence, disk, CallKinds, PersistInv, Types
  <2>2. CASE Enqueue(Item("evidence", 0, NoBatch), "none") /\ UNCHANGED evidenceBlocked
    BY <2>1, <2>2, EnqueueInv
  <2>3. CASE /\ Enqueue(Item("recorder-gap", 0, NoBatch), "none")
             /\ evidenceBlocked' = TRUE
    BY <2>1, <2>3, EnqueueInv
  <2>4. CASE /\ Number("recorder-gap", 0) /\ evidenceBlocked' = TRUE
             /\ UNCHANGED <<pending, receipt>>
    BY <2>1, <2>4, UnqueuedInv
  <2> QED BY <1>4, <2>2, <2>3, <2>4 DEF SubmitEvidence, RejectEvidence
<1>5. ASSUME Enqueue(Item("barrier", 0, NoBatch), "waiting"),
             UNCHANGED <<active, healthVars, disk>>
      PROVE  PersistInv'
  <2>1. /\ UNCHANGED <<active, records, model, evidenceBlocked>> /\ 0 \in Nat
        /\ "barrier" \in CallKinds /\ evidenceBlocked \in BOOLEAN
    BY <1>5 DEF disk, healthVars, CallKinds, PersistInv, Types
  <2> QED BY <1>5, <2>1, EnqueueInv
<1>6. CASE Barrier
  BY <1>5, <1>6 DEF Barrier
<1>7. CASE Close
  <2>1. CASE UNCHANGED queueVars
    <3>1. UNCHANGED <<calls, asked, receipt, pending, active, records, model, evidenceBlocked>>
      BY <1>7, <2>1 DEF Close, queueVars, disk, healthVars
    <3> QED BY <3>1, UnchangedInv
  <2>2. CASE Enqueue(Item("barrier", 0, NoBatch), "waiting")
    BY <1>5, <1>7, <2>2 DEF Close
  <2> QED BY <1>7, <2>1, <2>2 DEF Close
<1> QED BY <1>1, <1>2, <1>3, <1>4, <1>6, <1>7 DEF Calls

LEMMA PersistNext == PersistInv /\ [Calls \/ Worker]_workerVars => PersistInv'
<1> SUFFICES ASSUME PersistInv, [Calls \/ Worker]_workerVars PROVE PersistInv'
  OBVIOUS
<1>1. CASE UNCHANGED workerVars
  BY <1>1, UnchangedInv DEF workerVars, queueVars, healthVars, disk
<1>2. CASE End
  BY <1>2, UnchangedInv DEF End, queueVars, healthVars, disk
<1> QED BY <1>1, <1>2, CallsInv, TakeInv, PassBarrierInv, WriteInv, SettleInv, FailInv DEF Worker

\* The queue, the receipts and the stores agree with one another (_run,
\* _next_work_locked, _fail_pending_locked).
THEOREM PersistenceInvariant == WorkerSpec => []PersistInv
BY PersistInit, PersistNext, PTL DEF WorkerSpec

\* A receipt that says durable is backed by the store, and one that says lost by
\* no success on record (_run, _fail_pending_locked).
THEOREM PersistenceReceipts == WorkerSpec => []ReceiptsTruthful
BY PersistenceInvariant, PTL DEF PersistInv

\* A fit is never on disk committed before its success is on record, nor on
\* record both ways (the three writes of a terminal checkpoint in _run).
THEOREM PersistenceTwoPhase == WorkerSpec => []TwoPhase
BY PersistenceInvariant, PTL DEF PersistInv

\* No evidence is lost without confidence being blocked (submit_evidence,
\* _reject_evidence_locked, _fail_pending_locked).
THEOREM PersistenceEvidence == WorkerSpec => []EvidenceAccounted
BY PersistenceInvariant, PTL DEF PersistInv

\* What is submitted before a barrier is written before it completes, and nothing
\* submitted after it (_next_work_locked, submit_checkpoint).
THEOREM PersistenceFence == WorkerSpec => []FenceHolds
BY PersistenceInvariant, PTL DEF PersistInv

-----------------------------------------------------------------------------
(***************************************************************************)
(* The recorder and the worker together: what is stored of the trajectories*)
(* has no hole, and no frame whose batch was accepted is lost unless the   *)
(* worker fails: for any number of segments, frames, interruptions and     *)
(* calls, and every capacity.                                              *)
(***************************************************************************)

States == {"absent", "open", "finalized", "quarantined"}
Ended == {"finalized", "quarantined"}
Bodies == [state : States, carried : Seq(Nat), scored : Seq(Nat)]
Before(s) == <<s[1], s[2] - 1>>

\* The segments of a corpus: what they hold is contiguous, and one that the
\* repository rolled to is there only when the one before it is closed.
Sound(g) ==
  /\ g \in [Segments -> Bodies]
  /\ \A s \in Segments : Contiguous(FramesOf(g[s]))
  /\ \A s \in Segments : g[s].state = "absent" => g[s] = Absent
  /\ \A s \in Segments :
        s[2] > 0 /\ g[s].state # "absent" => g[Before(s)].state \in Ended

\* A frame is stored in some segment of its lineage, or one was quarantined.
Kept(g, n, l) ==
  \E s \in Segments :
    /\ s[1] = l
    /\ g[s].state = "quarantined" \/ n \in ToSet(FramesOf(g[s]))

-----------------------------------------------------------------------------
(* The repository *)

LEMMA SegmentIs ==
  ASSUME NEW s \in Segments
  PROVE  /\ s = <<s[1], s[2]>> /\ s[1] \in 1..Lineages /\ s[2] \in 0..Rolls
         /\ s[2] > 0 => Before(s) \in Segments /\ Before(s) # s
         /\ Successor(s) # s /\ Before(Successor(s)) = s /\ Successor(s)[2] > 0
         /\ Successor(s) # NoSegment /\ s # NoSegment /\ Successor(s)[1] = s[1]
BY CapacityAssumption DEF Segments, Before, Successor, NoSegment

LEMMA AppendedFrames ==
  ASSUME NEW carried \in Seq(Nat), NEW scored \in Seq(Nat), NEW x \in Nat
  PROVE  carried \o Append(scored, x) = Append(carried \o scored, x)
<1> DEFINE longer == Append(scored, x)
           whole == carried \o scored
           a == carried \o longer
           b == Append(whole, x)
           n == Len(carried)
           m == Len(scored)
<1>1. /\ longer \in Seq(Nat) /\ Len(longer) = m + 1
      /\ \A i \in 1..m : longer[i] = scored[i]
      /\ longer[m + 1] = x
      /\ n \in Nat /\ m \in Nat
  BY AppendProperties
<1>2. /\ whole \in Seq(Nat) /\ Len(whole) = n + m
      /\ \A i \in 1..n + m : whole[i] = IF i <= n THEN carried[i] ELSE scored[i - n]
  BY ConcatProperties
<1> HIDE DEF longer, whole
<1>3. /\ a \in Seq(Nat) /\ Len(a) = n + Len(longer)
      /\ \A i \in 1..n + Len(longer) :
            a[i] = IF i <= n THEN carried[i] ELSE longer[i - n]
  BY <1>1, ConcatProperties
<1>4. /\ b \in Seq(Nat) /\ Len(b) = Len(whole) + 1
      /\ \A i \in 1..Len(whole) : b[i] = whole[i]
      /\ b[Len(whole) + 1] = x
  BY <1>2, AppendProperties
<1> HIDE DEF a, b, n, m
<1>5. ASSUME NEW i \in 1..n + (m + 1) PROVE a[i] = b[i]
  <2>a. a[i] = IF i <= n THEN carried[i] ELSE longer[i - n]
    <3>1. n + Len(longer) = n + (m + 1)
      BY <1>1
    <3> QED BY <1>3, <3>1
  <2>b. i <= n + m => b[i] = IF i <= n THEN carried[i] ELSE scored[i - n]
    <3>1. i <= n + m => i \in 1..n + m /\ i \in 1..Len(whole)
      BY <1>1, <1>2
    <3> QED BY <1>2, <1>4, <3>1
  <2>1. CASE i <= n
    <3>1. i <= n + m
      BY <1>1, <2>1
    <3> QED BY <2>a, <2>b, <2>1, <3>1
  <2>2. CASE i > n /\ i <= n + m
    <3>1. i - n \in 1..m /\ ~ i <= n
      BY <1>1, <2>2
    <3>2. longer[i - n] = scored[i - n]
      BY <1>1, <3>1
    <3> QED BY <2>a, <2>b, <2>2, <3>1, <3>2
  <2>3. CASE i = n + (m + 1)
    <3>1. i - n = m + 1 /\ ~ i <= n
      BY <1>1, <2>3
    <3> QED BY <1>1, <1>2, <1>3, <1>4, <2>3, <3>1
  <2>4. i <= n \/ (i > n /\ i <= n + m) \/ i = n + (m + 1)
    BY <1>1
  <2> QED BY <2>1, <2>2, <2>3, <2>4
<1>6. Len(a) = n + (m + 1) /\ Len(b) = n + (m + 1)
  BY <1>1, <1>2, <1>3, <1>4
<1>7. a = b
  BY <1>3, <1>4, <1>5, <1>6, SeqEqual
<1> QED BY <1>7 DEF a, b, longer, whole

\* The end of frames that follow one another, one frame, and none.
LEMMA ContiguousEnd ==
  ASSUME NEW carried \in Seq(Nat), NEW scored \in Seq(Nat), Contiguous(carried \o scored)
  PROVE  Contiguous(scored)
<1>1. /\ Len(carried) \in Nat /\ Len(scored) \in Nat
      /\ Len(carried \o scored) = Len(carried) + Len(scored)
      /\ \A i \in 1..Len(carried) + Len(scored) :
            (carried \o scored)[i] = IF i <= Len(carried) THEN carried[i]
                                     ELSE scored[i - Len(carried)]
  BY ConcatProperties
<1> DEFINE n == Len(carried)
           m == Len(scored)
           t == carried \o scored
<1>2. ASSUME NEW i \in 1..m - 1 PROVE scored[i + 1] = scored[i] + 1
  <2>1. t[n + i] = scored[i] /\ t[n + i + 1] = scored[i + 1]
    <3>1. /\ n + i \in 1..n + m /\ n + i + 1 \in 1..n + m
          /\ (n + i) - n = i /\ (n + i + 1) - n = i + 1
          /\ ~ n + i <= n /\ ~ n + i + 1 <= n
      BY <1>1
    <3> HIDE DEF n, m, t
    <3> QED BY <1>1, <3>1 DEF n, m, t
  <2>2. n + i \in 1..Len(t) - 1
    BY <1>1
  <2> QED BY <2>1, <2>2 DEF Contiguous
<1> QED BY <1>2 DEF Contiguous

LEMMA ContiguousFew ==
  ASSUME NEW x \in Nat
  PROVE  /\ <<>> \o <<x>> = <<x>> /\ Contiguous(<<x>>) /\ Contiguous(<<>>)
         /\ ToSet(<<x>>) = {x} /\ ToSet(<<>>) = {}
<1>1. /\ <<>> \in Seq(Nat) /\ <<x>> \in Seq(Nat)
  OBVIOUS
<1>2. <<>> \o <<x>> = <<x>>
  BY <1>1, ConcatEmptySeq
<1> QED BY <1>2 DEF Contiguous, ToSet

LEMMA FramesType ==
  ASSUME NEW v \in Bodies
  PROVE  /\ FramesOf(v) \in Seq(Nat)
         /\ v.carried \in Seq(Nat) /\ v.scored \in Seq(Nat) /\ v.state \in States
BY ConcatProperties DEF FramesOf, Bodies

\* One segment changes.  What was kept still is.
LEMMA OneChanged ==
  ASSUME NEW g, Sound(g), NEW s \in Segments, NEW v \in Bodies,
         Contiguous(FramesOf(v)), v.state # "absent",
         g[s].state \in Ended => v.state \in Ended,
         s[2] > 0 => g[s].state # "absent" \/ g[Before(s)].state \in Ended,
         \/ v.state = "quarantined"
         \/ g[s].state # "quarantined" /\ ToSet(FramesOf(g[s])) \subseteq ToSet(FramesOf(v))
  PROVE  /\ Sound([g EXCEPT ![s] = v])
         /\ \A n, l : Kept(g, n, l) => Kept([g EXCEPT ![s] = v], n, l)
<1> DEFINE h == [g EXCEPT ![s] = v]
<1>1. /\ h \in [Segments -> Bodies] /\ h[s] = v
      /\ \A t \in Segments : t # s => h[t] = g[t]
  BY DEF Sound
<1> HIDE DEF h
<1>2. \A t \in Segments : Contiguous(FramesOf(h[t]))
  BY <1>1 DEF Sound
<1>3. \A t \in Segments : h[t].state = "absent" => h[t] = Absent
  BY <1>1 DEF Sound
<1>4. ASSUME NEW t \in Segments, t[2] > 0, h[t].state # "absent"
      PROVE  h[Before(t)].state \in Ended
  <2>1. Before(t) \in Segments /\ Before(t) # t
    BY <1>4, SegmentIs
  <2>2. CASE t = s
    <3>1. g[Before(s)].state \in Ended
      BY <1>4, <2>2 DEF Sound
    <3> QED BY <1>1, <2>1, <2>2, <3>1
  <2>3. CASE t # s
    <3>1. g[Before(t)].state \in Ended
      BY <1>1, <1>4, <2>3 DEF Sound
    <3> QED BY <1>1, <2>1, <3>1
  <2> QED BY <2>2, <2>3
<1>5. Sound(h)
  BY <1>1, <1>2, <1>3, <1>4 DEF Sound
<1>6. ASSUME NEW n, NEW l, Kept(g, n, l) PROVE Kept(h, n, l)
  <2>1. PICK t \in Segments :
           t[1] = l /\ (g[t].state = "quarantined" \/ n \in ToSet(FramesOf(g[t])))
    BY <1>6 DEF Kept
  <2>2. h[t].state = "quarantined" \/ n \in ToSet(FramesOf(h[t]))
    BY <1>1, <2>1
  <2> QED BY <2>1, <2>2 DEF Kept
<1> QED BY <1>5, <1>6 DEF h

\* What the repository makes of one segment: it opens with one frame, ...
LEMMA OpenedSound ==
  ASSUME NEW g, Sound(g), NEW s \in Segments, s[2] = 0, g[s].state = "absent",
         NEW x \in Nat
  PROVE  LET h == [g EXCEPT ![s] = Opened(x)]
         IN  Sound(h) /\ Kept(h, x, s[1]) /\ \A n, l : Kept(g, n, l) => Kept(h, n, l)
<1> DEFINE v == Opened(x)
           h == [g EXCEPT ![s] = v]
<1>1. /\ v \in Bodies /\ v.state = "open" /\ FramesOf(v) = <<x>>
  BY ContiguousFew DEF Opened, Bodies, States, FramesOf
<1>2. FramesOf(g[s]) = <<>>
  BY DEF Sound, Absent, FramesOf
<1> HIDE DEF v
<1>3. Sound(h) /\ \A n, l : Kept(g, n, l) => Kept(h, n, l)
  <2>1. /\ Contiguous(FramesOf(v)) /\ v.state # "absent" /\ ~ s[2] > 0
        /\ ~ g[s].state \in Ended /\ g[s].state # "quarantined"
        /\ ToSet(FramesOf(g[s])) \subseteq ToSet(FramesOf(v))
    BY <1>1, <1>2, ContiguousFew DEF Ended
  <2> QED BY <1>1, <2>1, OneChanged
<1>4. Kept(h, x, s[1])
  <2>1. h[s] = v
    BY DEF Sound
  <2> QED BY <1>1, <2>1, ContiguousFew DEF Kept
<1> QED BY <1>3, <1>4 DEF v

\* ... is closed, ...
LEMMA FinalizedSound ==
  ASSUME NEW g, Sound(g), NEW s \in Segments, g[s].state = "open"
  PROVE  LET h == [g EXCEPT ![s].state = "finalized"]
         IN  Sound(h) /\ \A n, l : Kept(g, n, l) => Kept(h, n, l)
<1> DEFINE v == [g[s] EXCEPT !.state = "finalized"]
<1>1. g[s] \in Bodies /\ Contiguous(FramesOf(g[s]))
  BY DEF Sound
<1>2. v \in Bodies /\ v.state = "finalized" /\ FramesOf(v) = FramesOf(g[s])
  BY <1>1 DEF Bodies, States, FramesOf
<1> HIDE DEF v
<1>3. /\ Contiguous(FramesOf(v)) /\ v.state # "absent" /\ v.state \in Ended
      /\ g[s].state # "absent" /\ g[s].state # "quarantined"
      /\ ToSet(FramesOf(g[s])) \subseteq ToSet(FramesOf(v))
  BY <1>1, <1>2 DEF Ended
<1>4. Sound([g EXCEPT ![s] = v]) /\ \A n, l : Kept(g, n, l) => Kept([g EXCEPT ![s] = v], n, l)
  BY <1>2, <1>3, OneChanged
<1>5. [g EXCEPT ![s].state = "finalized"] = [g EXCEPT ![s] = v]
  BY DEF v
<1> QED BY <1>4, <1>5

\* ... grows, and rolls to its successor when it is full, ...
LEMMA ExtendedSound ==
  ASSUME NEW c, Sound(c.seg), NEW s \in Segments, c.seg[s].state = "open", NEW x \in Nat,
         Contiguous(Append(FramesOf(c.seg[s]), x))
  PROVE  LET h == Extended(c, s, x)
         IN  Sound(h) /\ Kept(h, x, s[1]) /\ \A n, l : Kept(c.seg, n, l) => Kept(h, n, l)
<1> DEFINE g == c.seg
           old == g[s]
           longer == [old EXCEPT !.scored = Append(@, x)]
           full == [longer EXCEPT !.state = "finalized"]
           next == [state |-> "open", carried |-> full.scored, scored |-> <<>>]
           one(v) == [g EXCEPT ![s] = v]
<1>1. old \in Bodies /\ FramesOf(old) \in Seq(Nat)
  BY FramesType DEF Sound
<1>2. /\ longer \in Bodies /\ longer.state = old.state
      /\ FramesOf(longer) = Append(FramesOf(old), x)
      /\ longer.carried = old.carried /\ longer.scored = Append(old.scored, x)
  <2>1. old.carried \in Seq(Nat) /\ old.scored \in Seq(Nat)
    BY <1>1, FramesType
  <2> HIDE DEF old
  <2>2. /\ longer.carried = old.carried /\ longer.state = old.state
        /\ longer.scored = Append(old.scored, x)
    BY <1>1 DEF Bodies
  <2>3. longer \in Bodies
    <3>1. Append(old.scored, x) \in Seq(Nat)
      BY <2>1
    <3> QED BY <1>1, <2>1, <3>1 DEF Bodies
  <2>4. FramesOf(longer) = old.carried \o Append(old.scored, x)
    BY <2>2 DEF FramesOf
  <2>5. FramesOf(longer) = Append(FramesOf(old), x)
    BY <2>1, <2>4, AppendedFrames DEF FramesOf
  <2> QED BY <2>2, <2>3, <2>5 DEF old
<1>3. ToSet(FramesOf(old)) \subseteq ToSet(FramesOf(longer)) /\ x \in ToSet(FramesOf(longer))
  <2> DEFINE t == FramesOf(old)
             u == Append(t, x)
  <2> HIDE DEF t, old
  <2>1. /\ t \in Seq(Nat) /\ u \in Seq(Nat) /\ Len(u) = Len(t) + 1 /\ Len(t) \in Nat
        /\ DOMAIN t = 1..Len(t) /\ DOMAIN u = 1..Len(u)
        /\ \A i \in 1..Len(t) : u[i] = t[i]
        /\ u[Len(t) + 1] = x
    <3>1. t \in Seq(Nat)
      BY <1>1 DEF t
    <3> QED BY <3>1, AppendProperties, LenProperties
  <2> HIDE DEF u
  <2>2. ToSet(t) \subseteq ToSet(u) /\ x \in ToSet(u)
    BY <2>1 DEF ToSet
  <2> QED BY <1>2, <2>2 DEF t, u
<1>4. /\ full \in Bodies /\ full.state = "finalized" /\ FramesOf(full) = FramesOf(longer)
      /\ full.scored = longer.scored /\ full.carried = longer.carried
  BY <1>2 DEF Bodies, States, FramesOf
<1>5. Contiguous(FramesOf(longer))
  BY <1>2
<1>a. Sound(g) /\ old = g[s] /\ old.state = "open"
  OBVIOUS
<1>b. Extended(c, s, x) =
        IF Len(longer.scored) = SegmentCapacity
        THEN [g EXCEPT ![s] = full, ![Successor(s)] = next] ELSE one(longer)
  BY DEF Extended, Rolled
<1>c. [g EXCEPT ![s] = full, ![Successor(s)] = next] = [one(full) EXCEPT ![Successor(s)] = next]
  OBVIOUS
<1>n. next \in Bodies /\ next.state = "open" /\ FramesOf(next) = full.scored
  <2>1. full.scored \in Seq(Nat)
    BY <1>4, FramesType
  <2>2. full.scored \o <<>> = full.scored
    BY <2>1, ConcatEmptySeq
  <2>3. /\ next.state = "open" /\ next.carried = full.scored /\ next.scored = <<>>
        /\ next = [state |-> "open", carried |-> full.scored, scored |-> <<>>]
    OBVIOUS
  <2> HIDE DEF next, full
  <2>4. FramesOf(next) = full.scored
    BY <2>2, <2>3 DEF FramesOf
  <2>5. next \in Bodies
    <3>1. <<>> \in Seq(Nat) /\ "open" \in States
      BY DEF States
    <3> QED BY <2>1, <2>3, <3>1, Zenon DEF Bodies
  <2> QED BY <2>3, <2>4, <2>5
<1> HIDE DEF g, old, longer, full, next
<1>6. ASSUME NEW v \in {longer, full}
      PROVE  /\ Sound(one(v)) /\ \A n, l : Kept(g, n, l) => Kept(one(v), n, l)
             /\ Kept(one(v), x, s[1]) /\ one(v)[s] = v
  <2>1. /\ v \in Bodies /\ Contiguous(FramesOf(v)) /\ v.state # "absent"
        /\ ToSet(FramesOf(g[s])) \subseteq ToSet(FramesOf(v)) /\ x \in ToSet(FramesOf(v))
        /\ ~ g[s].state \in Ended /\ g[s].state # "absent" /\ g[s].state # "quarantined"
    BY <1>2, <1>3, <1>4, <1>5, <1>a DEF Ended
  <2>2. Sound(one(v)) /\ \A n, l : Kept(g, n, l) => Kept(one(v), n, l)
    <3>1. /\ Sound([g EXCEPT ![s] = v])
          /\ \A n, l : Kept(g, n, l) => Kept([g EXCEPT ![s] = v], n, l)
      BY <1>a, <2>1, OneChanged
    <3> QED BY <3>1
  <2>3. one(v)[s] = v
    BY <1>a DEF Sound
  <2>4. Kept(one(v), x, s[1])
    <3> HIDE DEF one
    <3> QED BY <2>1, <2>3 DEF Kept
  <2> QED BY <2>2, <2>3, <2>4
<1>7. CASE Len(longer.scored) # SegmentCapacity
  <2>1. Extended(c, s, x) = one(longer)
    BY <1>b, <1>7
  <2> HIDE DEF one
  <2> QED BY <1>6, <2>1 DEF g
<1>8. CASE Len(longer.scored) = SegmentCapacity
  <2> DEFINE k == one(full)
             h == [k EXCEPT ![Successor(s)] = next]
  <2>1. /\ Sound(k) /\ \A n, l : Kept(g, n, l) => Kept(k, n, l)
        /\ Kept(k, x, s[1]) /\ k[s] = full
    BY <1>6
  <2>2. Extended(c, s, x) = h
    BY <1>b, <1>c, <1>8
  <2>s. \A t \in Segments : t # s => k[t] = g[t]
    BY <1>a DEF Sound
  <2> HIDE DEF k
  <2>3. CASE Successor(s) \notin Segments
    <3>1. h = k
      BY <2>1, <2>3 DEF Sound
    <3>2. Sound(h) /\ Kept(h, x, s[1]) /\ \A n, l : Kept(g, n, l) => Kept(h, n, l)
      BY <2>1, <3>1, Zenon
    <3> HIDE DEF h
    <3> QED BY <2>2, <3>2, Zenon DEF g
  <2>4. CASE Successor(s) \in Segments
    <3>1. k[Successor(s)].state = "absent" /\ k[Successor(s)] = Absent
      <4>1. k[Successor(s)] = g[Successor(s)]
        BY <2>4, <2>s, SegmentIs
      <4>2. g[Successor(s)].state = "absent"
        BY <1>a, <2>4, SegmentIs DEF Sound, Ended
      <4> QED BY <1>a, <2>4, <4>1, <4>2 DEF Sound
    <3>2. Contiguous(full.scored)
      <4>1. Contiguous(full.carried \o full.scored)
        BY <1>4, <1>5 DEF FramesOf
      <4> QED BY <1>4, <4>1, FramesType, ContiguousEnd
    <3>3. FramesOf(Absent) = <<>>
      BY DEF Absent, FramesOf
    <3>4. /\ Contiguous(FramesOf(next)) /\ next.state # "absent"
          /\ ~ k[Successor(s)].state \in Ended
          /\ k[Before(Successor(s))].state \in Ended
          /\ k[Successor(s)].state # "quarantined"
          /\ ToSet(FramesOf(k[Successor(s)])) \subseteq ToSet(FramesOf(next))
      BY <1>n, <1>4, <2>1, <3>1, <3>2, <3>3, SegmentIs, ContiguousFew DEF Ended
    <3>5. Sound(h) /\ \A n, l : Kept(k, n, l) => Kept(h, n, l)
      BY <1>n, <2>1, <2>4, <3>4, OneChanged
    <3> HIDE DEF h
    <3>6. Sound(h) /\ Kept(h, x, s[1]) /\ \A n, l : Kept(g, n, l) => Kept(h, n, l)
      BY <2>1, <3>5, Zenon
    <3> QED BY <2>2, <3>6, Zenon DEF g
  <2> QED BY <2>3, <2>4
<1> QED BY <1>7, <1>8

\* ... or is taken out.
LEMMA QuarantinedSound ==
  ASSUME NEW c, Sound(c.seg), NEW s \in Segments, c.seg[s].state # "absent"
  PROVE  LET h == Quarantined(c, s).seg
         IN  Sound(h) /\ \A n, l : Kept(c.seg, n, l) => Kept(h, n, l)
<1> DEFINE v == [state |-> "quarantined", carried |-> <<>>, scored |-> <<>>]
           g == c.seg
<1>1. v \in Bodies /\ v.state = "quarantined" /\ FramesOf(v) = <<>>
  BY DEF Bodies, States, FramesOf
<1>2. \/ Quarantined(c, s).seg = g
      \/ Quarantined(c, s).seg = [g EXCEPT ![s] = v]
  BY DEF Quarantined
<1> HIDE DEF v
<1>3. Contiguous(FramesOf(v)) /\ v.state # "absent" /\ v.state \in Ended
  BY <1>1, ContiguousFew DEF Ended
<1>4. Sound(g) /\ g[s].state # "absent"
  OBVIOUS
<1> HIDE DEF g
<1>5. /\ Sound([g EXCEPT ![s] = v])
      /\ \A n, l : Kept(g, n, l) => Kept([g EXCEPT ![s] = v], n, l)
  BY <1>1, <1>3, <1>4, OneChanged
<1> QED BY <1>2, <1>4, <1>5 DEF g

-----------------------------------------------------------------------------
(* Batches *)

Ops == {"begin", "append", "break", "finalize"}
Lineage(b) == (IF b.op = "append" THEN b.cursor.seg ELSE b.next)[1]
Marked(c) == c \in [seg : {c.seg}, next : {c.next}, revision : {c.revision}]

\* A batch the recorder may submit.
Good(b) ==
  /\ b \in [op : Ops, cursor : {b.cursor}, next : {b.next}, frame : Nat]
  /\ b.op \in {"begin", "break"} => b.next \in (1..Lineages) \X {0}
  /\ b.op = "finalize" => b.frame = 0

\* What is known of a batch that was applied.
Shown(g, b) ==
  /\ b.op # "begin" => Marked(b.cursor) /\ b.cursor.seg \in Segments
  /\ b.op # "finalize" => Kept(g, b.frame, Lineage(b))

LEMMA CurrentIs ==
  ASSUME NEW c, NEW k, Current(c, k)
  PROVE  k.seg \in Segments /\ c.seg[k.seg].state = "open" /\ Marked(k)
BY DEF Current, CursorAt, Marked

\* A batch that applies keeps the corpus sound, all that was kept, and its frame.
LEMMA AppliedSound ==
  ASSUME NEW c, Sound(c.seg), NEW b, Good(b), Applicable(c, b)
  PROVE  /\ Sound(Applied(c, b).seg) /\ Shown(Applied(c, b).seg, b)
         /\ \A n, l : Kept(c.seg, n, l) => Kept(Applied(c, b).seg, n, l)
<1> DEFINE h == Applied(c, b).seg
           s == b.cursor.seg
<1>0. b.op \in Ops /\ b.frame \in Nat
  BY DEF Good
<1>1. CASE b.op = "begin"
  <2>1. h = [c.seg EXCEPT ![b.next] = Opened(b.frame)] /\ c.seg[b.next].state = "absent"
    BY <1>1 DEF Applied, Applicable
  <2>2. b.next \in Segments /\ b.next[2] = 0 /\ Lineage(b) = b.next[1]
    BY <1>1, CapacityAssumption DEF Good, Segments, Lineage
  <2>3. /\ Sound(h) /\ Kept(h, b.frame, b.next[1])
        /\ \A n, l : Kept(c.seg, n, l) => Kept(h, n, l)
    BY <1>0, <2>1, <2>2, OpenedSound
  <2> QED BY <1>1, <2>2, <2>3 DEF Shown
<1>2. CASE b.op = "append"
  <2>1. h = Extended(c, s, b.frame)
    BY <1>2 DEF Applied
  <2>2. /\ Current(c, b.cursor)
        /\ Contiguous(Append(FramesOf(c.seg[s]), b.frame))
    BY <1>2 DEF Applicable
  <2>3. s \in Segments /\ c.seg[s].state = "open" /\ Marked(b.cursor) /\ Lineage(b) = s[1]
    BY <1>2, <2>2, CurrentIs DEF Lineage
  <2>4. Sound(h) /\ Kept(h, b.frame, s[1]) /\ \A n, l : Kept(c.seg, n, l) => Kept(h, n, l)
    BY <1>0, <2>1, <2>2, <2>3, ExtendedSound
  <2> QED BY <2>3, <2>4 DEF Shown
<1>3. CASE b.op = "break"
  <2> DEFINE g == [c.seg EXCEPT ![s].state = "finalized"]
             k == [g EXCEPT ![b.next] = Opened(b.frame)]
  <2>1. h = [c.seg EXCEPT ![s].state = "finalized", ![b.next] = Opened(b.frame)]
    BY <1>3 DEF Applied
  <2>2. Current(c, b.cursor) /\ c.seg[b.next].state = "absent"
    BY <1>3 DEF Applicable
  <2>3. s \in Segments /\ c.seg[s].state = "open" /\ Marked(b.cursor)
    BY <2>2, CurrentIs
  <2>4. b.next \in Segments /\ b.next[2] = 0 /\ Lineage(b) = b.next[1]
    BY <1>3, CapacityAssumption DEF Good, Segments, Lineage
  <2>5. h = k
    BY <2>1
  <2>6. Sound(g) /\ \A n, l : Kept(c.seg, n, l) => Kept(g, n, l)
    BY <2>3, FinalizedSound
  <2>7. g[b.next].state = "absent"
    BY <2>2, <2>3, <2>4
  <2> HIDE DEF g
  <2>8. Sound(k) /\ Kept(k, b.frame, b.next[1]) /\ \A n, l : Kept(g, n, l) => Kept(k, n, l)
    BY <1>0, <2>4, <2>6, <2>7, OpenedSound
  <2>9. \A n, l : Kept(c.seg, n, l) => Kept(k, n, l)
    BY <2>6, <2>8, Zenon
  <2>10. Shown(k, b)
    BY <1>3, <2>3, <2>4, <2>8 DEF Shown
  <2> HIDE DEF k, h
  <2> QED BY <2>5, <2>8, <2>9, <2>10 DEF h
<1>4. CASE b.op = "finalize"
  <2>1. h = [c.seg EXCEPT ![s].state = "finalized"] /\ Current(c, b.cursor)
    BY <1>4 DEF Applied, Applicable
  <2>2. s \in Segments /\ c.seg[s].state = "open" /\ Marked(b.cursor)
    BY <2>1, CurrentIs
  <2>3. Sound(h) /\ \A n, l : Kept(c.seg, n, l) => Kept(h, n, l)
    BY <2>1, <2>2, FinalizedSound
  <2> QED BY <1>4, <2>2, <2>3 DEF Shown
<1> QED BY <1>0, <1>1, <1>2, <1>3, <1>4 DEF Ops

-----------------------------------------------------------------------------
(* The invariant *)

\* What the worker holds, and what it knows of the corpus.
Holding == {active.item} \union ToSet(pending)
HeldOK(item) ==
  IF item.kind = "trajectory" THEN Good(item.batch)
  ELSE item.kind \in {"none", "barrier", "trajectory-quarantine"} /\ item.batch.frame = 0

AtWork(a) == a \in [item : {a.item}, step : {"idle", "taken", "written"}, saved : {a.saved}]

MarksOf(known) == \A s \in DOMAIN known : Marked(known[s]) /\ known[s].seg[1] = s[1]
Marks == MarksOf(cursors)

Work ==
  /\ Sound(corpus.seg)
  /\ pending \in Seq(ToSet(pending))
  /\ AtWork(active)
  /\ \A item \in Holding : HeldOK(item)
  /\ Marks
  /\ active.step = "written" /\ active.item.kind = "trajectory"
       => Shown(corpus.seg, Effective(active.item.batch))

\* The answers the recorder takes its cursor from.
Answers ==
  /\ DOMAIN answer = 1..MaxCalls
  /\ \A n \in 1..MaxCalls : answer[n].cursor # NoCursor => answer[n].cursor.seg # NoSegment

\* What the recorder knows.
Numbers ==
  /\ lineage \in 0..Lineages /\ calls \in 0..MaxCalls /\ frame \in Nat
  /\ waiting \subseteq [id : 1..MaxCalls, current : BOOLEAN]
  /\ cursor # NoCursor => cursor.seg = segment /\ segment # NoSegment
  /\ boundary \in {"none", "finalize", "split"}

Others == {"reap", "drain", "fence", "await", "fenced", "giveup", "enter", "finalize",
           "split", "closed"}
CallSteps == Others \union {"submit"}

\* A frame is submitted once, last in its call.
Order ==
  /\ call \in Seq(CallSteps)
  /\ \A i \in 1..Len(call) : call[i] = "submit" => i = Len(call)
  /\ (\E i \in 1..Len(call) : call[i] = "submit") =>
        frame > 0 /\ \A x \in sent : x[1] < frame

\* A batch with a frame is of the lineage the frame was sent to.
Journal ==
  /\ \A x \in sent : x[1] \in 1..frame
  /\ \A x, y \in sent : x[1] = y[1] => x[2][1] = y[2][1]
  /\ \A item \in Holding : item.kind = "trajectory" /\ item.batch.op # "finalize" =>
        \E x \in sent : x[1] = item.batch.frame /\ x[2][1] = Lineage(item.batch)

\* The frames sent are kept, or still held.
HeldFrame(n) == \E item \in Holding : item.batch.frame = n
Arrives == failed \/ \A x \in sent : Kept(corpus.seg, x[1], x[2][1]) \/ HeldFrame(x[1])

WorkInv == Work /\ Answers /\ Journal /\ Arrives
RecordingInv == WorkInv /\ Numbers /\ Order

LEMMA RecordingInit == RecorderInit => RecordingInv
<1> SUFFICES ASSUME RecorderInit PROVE RecordingInv
  OBVIOUS
<1>1. /\ calls = 0 /\ pending = <<>> /\ active = Idle /\ cursors = [s \in {} |-> NoCursor]
      /\ answer = [n \in 1..MaxCalls |-> NoAnswer] /\ corpus = EmptyCorpus
      /\ call = <<>> /\ frame = 0 /\ lineage = 0 /\ cursor = NoCursor
      /\ boundary = "none" /\ waiting = {} /\ sent = {}
  BY DEF RecorderInit, Init
<1>2. Sound(corpus.seg)
  <2>1. corpus.seg = [s \in Segments |-> Absent]
    BY <1>1 DEF EmptyCorpus
  <2>2. Absent \in Bodies /\ FramesOf(Absent) = <<>> /\ Absent.state = "absent"
    BY DEF Absent, Bodies, States, FramesOf
  <2>3. Contiguous(<<>>)
    BY DEF Contiguous
  <2> QED BY <2>1, <2>2, <2>3, SegmentIs DEF Sound
<1>3. pending \in Seq(ToSet(pending)) /\ ToSet(pending) = {}
  BY <1>1 DEF ToSet
<1>4. Work
  BY <1>1, <1>2, <1>3 DEF Work, Holding, HeldOK, Marks, MarksOf, Idle, NoBatch, AtWork
<1>5. Answers
  BY <1>1 DEF Answers, NoAnswer
<1>6. Journal /\ Arrives
  BY <1>1, <1>3 DEF Journal, Holding, Idle, Arrives
<1>7. Numbers
  BY <1>1, CapacityAssumption, QueueAssumption DEF Numbers
<1>8. Order
  BY <1>1 DEF Order
<1> QED BY <1>4, <1>5, <1>6, <1>7, <1>8 DEF RecordingInv, WorkInv

\* The frames of a segment are those the properties speak of.
LEMMA InvImplies == RecordingInv => StoredContiguous /\ FramesStored
<1> SUFFICES ASSUME RecordingInv PROVE StoredContiguous /\ FramesStored
  OBVIOUS
<1>1. StoredContiguous
  BY DEF RecordingInv, WorkInv, Work, Sound, StoredContiguous, Stored
<1>2. FramesStored
  BY DEF RecordingInv, WorkInv, Arrives, Kept, HeldFrame, Holding, FramesStored, Stored,
         OnItsWay
<1> QED BY <1>1, <1>2

-----------------------------------------------------------------------------
(* The worker's thread *)

\* The cursor the worker knows is of the same lineage, and the batch as good.
LEMMA EffectiveIs ==
  ASSUME Marks, NEW b, Good(b)
  PROVE  /\ Good(Effective(b)) /\ Effective(b).op = b.op /\ Effective(b).frame = b.frame
         /\ Effective(b).next = b.next
         /\ Lineage(Effective(b)) = Lineage(b)
         /\ Effective(b).cursor.seg[1] = b.cursor.seg[1]
<1>1. CASE b.op # "begin" /\ b.cursor.seg \in DOMAIN cursors
  <2> DEFINE k == cursors[b.cursor.seg]
             e == [b EXCEPT !.cursor = k]
  <2>1. k.seg[1] = b.cursor.seg[1]
    BY <1>1 DEF Marks, MarksOf
  <2>2. Effective(b) = e
    BY <1>1 DEF Effective
  <2>3. /\ e.op = b.op /\ e.cursor = k /\ e.next = b.next /\ e.frame = b.frame
        /\ e \in [op : Ops, cursor : {e.cursor}, next : {e.next}, frame : Nat]
    <3> HIDE DEF k
    <3> QED BY DEF Good
  <2> HIDE DEF k, e
  <2>4. Good(e)
    BY <2>3 DEF Good
  <2> QED BY <2>1, <2>2, <2>3, <2>4 DEF Lineage
<1>2. CASE ~ (b.op # "begin" /\ b.cursor.seg \in DOMAIN cursors)
  BY <1>2 DEF Effective
<1> QED BY <1>1, <1>2

\* What is taken is queued, and so is the barrier that is passed.
LEMMA NextIsQueued ==
  ASSUME Eligible # {}
  PROVE  NextWork \in 1..Len(pending)
<1> DEFINE urgency == [i \in Eligible |-> Priority(pending[i])]
<1>1. Eligible \subseteq Nat /\ urgency \in [Eligible -> Nat]
  BY DEF Priority, Eligible
<1>2. Eligible \subseteq 1..Len(pending)
  BY DEF Eligible
<1> HIDE DEF urgency
<1>3. \E k \in Eligible : \A j \in Eligible :
         urgency[k] < urgency[j] \/ (urgency[k] = urgency[j] /\ k <= j)
  BY <1>1, Foremost
<1>4. \A i \in Eligible : urgency[i] = Priority(pending[i])
  BY DEF urgency
<1>5. NextWork \in Eligible
  BY <1>3, <1>4 DEF NextWork
<1> QED BY <1>2, <1>5

LEMMA BarrierIsQueued ==
  ASSUME BarrierIdxs # {}
  PROVE  (CHOOSE j \in BarrierIdxs : \A k \in BarrierIdxs : j <= k) \in 1..Len(pending)
<1>1. BarrierIdxs \subseteq Nat /\ BarrierIdxs \subseteq 1..Len(pending)
  BY DEF BarrierIdxs, QueuedIdxs
<1>2. \E j \in BarrierIdxs : \A k \in BarrierIdxs : j <= k
  BY <1>1, Least
<1> QED BY <1>1, <1>2

\* Items move or go, and the corpus stays as it is.
LEMMA HeldLess ==
  ASSUME WorkInv, Holding' \subseteq Holding \union {Idle.item},
         pending' \in Seq(ToSet(pending')), AtWork(active'), Marks', Answers', Arrives',
         active'.step = "written" => active' = active /\ cursors' = cursors,
         UNCHANGED <<corpus, sent, frame>>
  PROVE  WorkInv'
<1>1. \A item \in Holding' : HeldOK(item) /\ (item \in Holding \/ item.kind = "none")
  <2>1. HeldOK(Idle.item) /\ Idle.item.kind = "none"
    BY DEF Idle, NoBatch, HeldOK
  <2> QED BY <2>1 DEF WorkInv, Work
<1>2. Work'
  <2>1. \A item \in Holding' : HeldOK(item)'
    BY <1>1 DEF HeldOK
  <2>2. active'.step = "written" /\ active'.item.kind = "trajectory"
          => Shown(corpus.seg, Effective(active.item.batch))'
    BY DEF WorkInv, Work, Effective
  <2> QED BY <2>1, <2>2 DEF WorkInv, Work
<1>3. Journal'
  <2>1. \A item \in Holding' : item.kind = "trajectory" => item \in Holding
    BY <1>1
  <2> QED BY <2>1 DEF WorkInv, Journal, Lineage
<1> QED BY <1>2, <1>3 DEF WorkInv

\* What a frame loses its hold for is that its batch was written.
LEMMA ArrivesLess ==
  ASSUME WorkInv, NEW gone, Holding \subseteq Holding' \union {gone},
         UNCHANGED <<corpus, failed, sent, frame>>,
         \/ gone.batch.frame = 0
         \/ /\ gone \in Holding /\ gone.kind = "trajectory" /\ gone.batch.op # "finalize"
            /\ Kept(corpus.seg, gone.batch.frame, Lineage(gone.batch))
  PROVE  Arrives'
<1>1. ASSUME NEW x \in sent, HeldFrame(x[1])
      PROVE  Kept(corpus.seg, x[1], x[2][1]) \/ HeldFrame(x[1])'
  <2>1. PICK item \in Holding : item.batch.frame = x[1]
    BY <1>1 DEF HeldFrame
  <2>2. x[1] # 0
    BY DEF WorkInv, Journal
  <2>3. CASE item = gone
    <3>1. /\ gone \in Holding /\ gone.kind = "trajectory" /\ gone.batch.op # "finalize"
          /\ Kept(corpus.seg, gone.batch.frame, Lineage(gone.batch))
      BY <2>1, <2>2, <2>3
    <3>2. PICK y \in sent : y[1] = gone.batch.frame /\ y[2][1] = Lineage(gone.batch)
      BY <3>1 DEF WorkInv, Journal
    <3>3. x[2][1] = y[2][1]
      BY <2>1, <2>3, <3>2 DEF WorkInv, Journal
    <3> QED BY <2>1, <2>3, <3>1, <3>2, <3>3
  <2>4. CASE item # gone
    BY <2>1, <2>4 DEF HeldFrame
  <2> QED BY <2>3, <2>4
<1> QED BY <1>1 DEF WorkInv, Arrives, Kept

LEMMA RecorderTakeInv ==
  ASSUME WorkInv, Take, UNCHANGED <<sent, frame>>
  PROVE  WorkInv'
<1>1. /\ active = Idle /\ Eligible # {}
      /\ active' = [item |-> pending[NextWork], step |-> "taken", saved |-> 0]
      /\ pending' = RemoveAt(pending, NextWork)
      /\ UNCHANGED <<cursors, corpus, answer, failed>>
  BY DEF Take, noQueue, trajectoryVars, healthVars, disk
<1>2. PICK i \in 1..Len(pending) :
        pending' = RemoveAt(pending, i) /\ active'.item = pending[i]
  BY <1>1, NextIsQueued
<1>3. /\ pending' \in Seq(ToSet(pending'))
      /\ ToSet(pending) = ToSet(pending') \union {pending[i]}
  <2>1. pending \in Seq(ToSet(pending))
    BY DEF WorkInv, Work
  <2> QED BY <1>2, <2>1, RemovedSet
<1>4. Holding' = ToSet(pending) /\ Holding = {Idle.item} \union ToSet(pending)
  BY <1>1, <1>2, <1>3 DEF Holding
<1>5. Idle.item.batch.frame = 0
  BY DEF Idle, NoBatch
<1>6. Arrives' /\ Marks' /\ Answers'
  <2>1. Holding \subseteq Holding' \union {Idle.item}
    BY <1>4
  <2>2. Arrives'
    BY <1>1, <1>5, <2>1, ArrivesLess
  <2> QED BY <1>1, <2>2 DEF WorkInv, Work, Marks, MarksOf, Answers
<1>7. AtWork(active') /\ active'.step = "taken"
  BY <1>1 DEF AtWork
<1>8. Holding' \subseteq Holding \union {Idle.item}
  BY <1>4
<1> QED BY <1>1, <1>3, <1>6, <1>7, <1>8, HeldLess

LEMMA RecorderPassBarrierInv ==
  ASSUME WorkInv, PassBarrier, UNCHANGED <<sent, frame>>
  PROVE  WorkInv'
<1>1. /\ BarrierIdxs # {}
      /\ pending' = RemoveAt(pending, CHOOSE j \in BarrierIdxs : \A k \in BarrierIdxs : j <= k)
      /\ UNCHANGED <<active, cursors, corpus, answer, failed>>
  BY DEF PassBarrier, noQueue, trajectoryVars, healthVars, disk
<1>2. PICK i \in 1..Len(pending) :
        pending' = RemoveAt(pending, i) /\ i \in BarrierIdxs
  <2>1. (CHOOSE j \in BarrierIdxs : \A k \in BarrierIdxs : j <= k) \in BarrierIdxs
    <3>1. BarrierIdxs \subseteq Nat
      BY DEF BarrierIdxs, QueuedIdxs
    <3>2. \E j \in BarrierIdxs : \A k \in BarrierIdxs : j <= k
      BY <1>1, <3>1, Least
    <3> QED BY <3>2
  <2> QED BY <1>1, <2>1, BarrierIsQueued
<1>3. /\ pending' \in Seq(ToSet(pending'))
      /\ ToSet(pending) = ToSet(pending') \union {pending[i]}
  <2>1. pending \in Seq(ToSet(pending))
    BY DEF WorkInv, Work
  <2> QED BY <1>2, <2>1, RemovedSet
<1>4. Holding = Holding' \union {pending[i]}
  BY <1>1, <1>3 DEF Holding
<1>5. pending[i].batch.frame = 0
  <2>1. pending[i].kind = "barrier"
    BY <1>2 DEF BarrierIdxs, QueuedIdxs
  <2> QED BY <1>4, <2>1 DEF WorkInv, Work, HeldOK
<1>6. Arrives' /\ Marks' /\ Answers'
  <2>1. Holding \subseteq Holding' \union {pending[i]}
    BY <1>4
  <2>2. Arrives'
    BY <1>1, <1>5, <2>1, ArrivesLess
  <2> QED BY <1>1, <2>2 DEF WorkInv, Work, Marks, MarksOf, Answers
<1>7. AtWork(active') /\ active' = active /\ cursors' = cursors
  BY <1>1 DEF WorkInv, Work
<1>8. Holding' \subseteq Holding \union {Idle.item}
  BY <1>4
<1> QED BY <1>1, <1>3, <1>6, <1>7, <1>8, HeldLess

\* The worker's other writes are of work the recorder does not ask for.
LEMMA NoOtherWrite ==
  ASSUME WorkInv
  PROVE  ~ Write
<1>1. /\ active.step \in {"idle", "taken", "written"}
      /\ active.item.kind \in {"trajectory", "none", "barrier", "trajectory-quarantine"}
  <2>1. HeldOK(active.item) /\ AtWork(active)
    BY DEF WorkInv, Work, Holding
  <2>2. active.step \in {"idle", "taken", "written"}
    BY <2>1 DEF AtWork
  <2> QED BY <2>1, <2>2 DEF HeldOK
<1>2. /\ ~ WriteCheckpoint /\ ~ WriteRecord /\ ~ WritePrepared
  BY <1>1 DEF WriteCheckpoint, WriteRecord, WritePrepared, Plain
<1>3. /\ ~ WriteSuccess /\ ~ WriteCommitted /\ ~ WriteFailure
  BY <1>1 DEF WriteSuccess, WriteCommitted, WriteFailure, Writing
<1> QED BY <1>2, <1>3 DEF Write

\* The item at hand is written: the corpus stays sound and keeps what it kept.
LEMMA WrittenInv ==
  ASSUME WorkInv, active.step = "taken", active' = [active EXCEPT !.step = "written"],
         UNCHANGED <<pending, cursors, answer, failed, sent, frame>>,
         Sound(corpus'.seg), \A n, l : Kept(corpus.seg, n, l) => Kept(corpus'.seg, n, l),
         active.item.kind = "trajectory" => Shown(corpus'.seg, Effective(active.item.batch))
  PROVE  WorkInv'
<1>1. AtWork(active') /\ active'.item = active.item
  BY DEF WorkInv, Work, AtWork
<1>2. Holding' = Holding
  BY <1>1 DEF Holding
<1>3. Work'
  <2>1. Marks'
    BY DEF WorkInv, Work, Marks, MarksOf
  <2>2. Effective(active.item.batch)' = Effective(active.item.batch)
    BY <1>1 DEF Effective
  <2>3. \A item \in Holding' : HeldOK(item)'
    BY <1>2 DEF WorkInv, Work, HeldOK
  <2>4. Shown(corpus.seg, Effective(active.item.batch))'
          <=> Shown(corpus'.seg, Effective(active.item.batch))
    BY <2>2 DEF Shown, Kept, Lineage, Marked
  <2> QED BY <1>1, <2>1, <2>2, <2>3, <2>4 DEF WorkInv, Work
<1>4. Answers' /\ Journal'
  BY <1>2 DEF WorkInv, Answers, Journal
<1>5. Arrives'
  BY <1>2 DEF WorkInv, Arrives, HeldFrame
<1> QED BY <1>3, <1>4, <1>5 DEF WorkInv

LEMMA WriteLearningInv ==
  ASSUME WorkInv, WriteLearning, UNCHANGED <<sent, frame>>
  PROVE  WorkInv'
<1>1. /\ active.step = "taken" /\ active' = [active EXCEPT !.step = "written"]
      /\ UNCHANGED <<pending, cursors, answer, failed>>
  BY Zenon DEF WriteLearning, WriteTrajectory, WriteQuarantine, Writing, Reaches, WriteFrame,
         queueVars, trajectoryVars, healthVars
<1>2. HeldOK(active.item) /\ Sound(corpus.seg) /\ Marks
  BY DEF WorkInv, Work, Holding
<1>3. CASE WriteTrajectory
  <2> DEFINE b == Effective(active.item.batch)
  <2>1. /\ active.item.kind = "trajectory" /\ Applicable(corpus, b)
        /\ corpus' = Applied(corpus, b)
    BY <1>3 DEF WriteTrajectory
  <2>2. Good(b)
    BY <1>2, <2>1, EffectiveIs DEF HeldOK
  <2> HIDE DEF b
  <2>3. /\ Sound(corpus'.seg) /\ Shown(corpus'.seg, b)
        /\ \A n, l : Kept(corpus.seg, n, l) => Kept(corpus'.seg, n, l)
    BY <1>2, <2>1, <2>2, AppliedSound
  <2> QED BY <1>1, <2>3, WrittenInv DEF b
<1>4. CASE WriteQuarantine
  <2> DEFINE s == SegmentOf(active.item.batch)
  <2>1. /\ active.item.kind = "trajectory-quarantine"
        /\ corpus.seg[s].state # "absent" /\ corpus' = Quarantined(corpus, s)
    BY <1>4 DEF WriteQuarantine
  <2> HIDE DEF s
  <2>2. /\ Sound(corpus'.seg)
        /\ \A n, l : Kept(corpus.seg, n, l) => Kept(corpus'.seg, n, l)
    <3>1. s \in Segments => Sound(corpus'.seg)
        /\ \A n, l : Kept(corpus.seg, n, l) => Kept(corpus'.seg, n, l)
      BY <1>2, <2>1, QuarantinedSound
    <3>2. s \notin Segments => corpus'.seg = corpus.seg
      BY <1>2, <2>1 DEF Quarantined, Sound
    <3> QED BY <1>2, <3>1, <3>2
  <2> QED BY <1>1, <2>1, <2>2, WrittenInv
<1> QED BY <1>3, <1>4 DEF WriteLearning, WriteTrajectory, WriteQuarantine

\* The cursor a batch returns is a cursor of its lineage.
LEMMA ReturnedIs ==
  ASSUME NEW c, NEW b, Good(b), Shown(c.seg, b)
  PROVE  LET r == Returned(c, b)
         IN  /\ Marked(r) /\ r.seg # NoSegment
             /\ b.op \in {"begin", "break"} => r.seg[1] = b.next[1]
             /\ b.op = "append" => r.seg[1] = b.cursor.seg[1]
<1> DEFINE r == Returned(c, b)
<1>0. b.op \in Ops
  BY DEF Good
<1>1. \A s : Marked(CursorAt(c, s)) /\ CursorAt(c, s).seg = s
  BY DEF CursorAt, Marked
<1>2. CASE b.op \in {"begin", "break"}
  <2>1. r = CursorAt(c, b.next)
    BY <1>2 DEF Returned
  <2>2. b.next # NoSegment
    BY <1>2, CapacityAssumption DEF Good, NoSegment
  <2> QED BY <1>1, <1>2, <2>1, <2>2
<1>3. CASE b.op = "append"
  <2> DEFINE s == b.cursor.seg
             t == IF c.seg[s].state = "open" THEN s ELSE Successor(s)
  <2>1. r = CursorAt(c, t)
    BY <1>3 DEF Returned
  <2>2. t # NoSegment /\ t[1] = s[1]
    BY <1>3, SegmentIs DEF Shown
  <2> HIDE DEF t
  <2>3. Marked(r) /\ r.seg = t
    BY <1>1, <2>1
  <2> QED BY <1>3, <2>2, <2>3
<1>4. CASE b.op = "finalize"
  <2>1. r = [b.cursor EXCEPT !.revision = c.revision]
    BY <1>4 DEF Returned
  <2>2. Marked(b.cursor) /\ b.cursor.seg # NoSegment
    BY <1>4, SegmentIs DEF Shown
  <2>3. Marked(r) /\ r.seg = b.cursor.seg
    BY <2>1, <2>2 DEF Marked
  <2> QED BY <1>4, <2>2, <2>3
<1> HIDE DEF r
<1>5. /\ Marked(r) /\ r.seg # NoSegment
      /\ b.op \in {"begin", "break"} => r.seg[1] = b.next[1]
      /\ b.op = "append" => r.seg[1] = b.cursor.seg[1]
  BY <1>0, <1>2, <1>3, <1>4 DEF r, Ops
<1> QED BY <1>5 DEF r

\* What the worker remembers are cursors of the lineages it remembers them for.
LEMMA RememberMarks ==
  ASSUME Marks, NEW c, NEW b, Good(b), Shown(c.seg, b), Remember(b, Returned(c, b))
  PROVE  Marks'
<1> DEFINE r == Returned(c, b)
           known == Stamped(cursors, r.revision)
           same == {s \in DOMAIN known : s = b.cursor.seg \/ known[s].seg = b.cursor.seg}
<1>1. /\ Marked(r) /\ b.op \in Ops
      /\ b.op = "append" => r.seg[1] = b.cursor.seg[1]
  BY ReturnedIs DEF Good
<1>2. MarksOf(known)
  BY DEF Marks, MarksOf, Stamped, Marked
<1>3. \A S : MarksOf(Forget(known, S))
  BY <1>2 DEF MarksOf, Forget
<1>4. ASSUME NEW f, MarksOf(f), NEW S, NEW k, Marked(k), \A s \in S : k.seg[1] = s[1]
      PROVE  MarksOf(Learn(f, S, k))
  BY <1>4 DEF MarksOf, Learn
<1>5. \A s \in same : s[1] = b.cursor.seg[1]
  BY <1>2 DEF MarksOf
<1>6. CASE b.op = "begin"
  <2>1. cursors' = Learn(known, {r.seg}, r)
    BY <1>6 DEF Remember
  <2> HIDE DEF r, known
  <2>2. MarksOf(Learn(known, {r.seg}, r))
    BY <1>1, <1>2, <1>4
  <2> QED BY <2>1, <2>2 DEF Marks
<1>7. CASE b.op = "break"
  <2>1. cursors' = Learn(Forget(known, same), {r.seg}, r)
    BY <1>7 DEF Remember
  <2> HIDE DEF r, known, same
  <2>2. MarksOf(Learn(Forget(known, same), {r.seg}, r))
    BY <1>1, <1>3, <1>4
  <2> QED BY <2>1, <2>2 DEF Marks
<1>8. CASE b.op = "finalize"
  <2>1. cursors' = Forget(known, same)
    BY <1>8 DEF Remember
  <2> HIDE DEF known, same
  <2> QED BY <1>3, <2>1 DEF Marks
<1>9. CASE b.op = "append"
  <2> DEFINE T == same \union {b.cursor.seg}
  <2>1. cursors' = Learn(known, T, r)
    BY <1>9 DEF Remember
  <2>2. \A s \in T : r.seg[1] = s[1]
    BY <1>1, <1>5, <1>9
  <2> HIDE DEF r, known, T
  <2>3. MarksOf(Learn(known, T, r))
    BY <1>1, <1>2, <1>4, <2>2
  <2> QED BY <2>1, <2>3 DEF Marks
<1> QED BY <1>1, <1>6, <1>7, <1>8, <1>9 DEF Ops

LEMMA RecorderSettleInv ==
  ASSUME WorkInv, Settle, UNCHANGED <<sent, frame>>
  PROVE  WorkInv'
<1> DEFINE item == active.item
           b == Effective(item.batch)
           r == Returned(corpus, b)
<1>1. /\ active.step = "written" /\ active' = Idle
      /\ UNCHANGED <<pending, corpus, failed>>
      /\ item.kind # "trajectory" => UNCHANGED <<cursors, answer>>
      /\ item.kind = "trajectory" =>
            /\ Remember(b, r)
            /\ answer' = [answer EXCEPT ![item.id] = [cursor |-> r, segments |-> ReadBack(b)]]
  <2>1. active.step # "declined"
    BY DEF WorkInv, Work, AtWork
  <2> QED BY <2>1, Zenon DEF Settle, trajectoryVars, healthVars, disk
<1>2. HeldOK(item) /\ Marks /\ (item.kind = "trajectory" => Shown(corpus.seg, b))
  BY <1>1 DEF WorkInv, Work, Holding
<1>3. item.kind = "trajectory" =>
        /\ Good(item.batch) /\ Good(b)
        /\ b.op = item.batch.op /\ b.frame = item.batch.frame
        /\ Lineage(b) = Lineage(item.batch)
  BY <1>2, EffectiveIs DEF HeldOK
<1>4. Marks'
  <2> HIDE DEF b
  <2>1. CASE item.kind = "trajectory"
    <3>1. Remember(b, Returned(corpus, b))
      BY <1>1, <2>1
    <3> QED BY <1>2, <1>3, <2>1, <3>1, RememberMarks
  <2>2. CASE item.kind # "trajectory"
    BY <1>1, <1>2, <2>2 DEF Marks
  <2> QED BY <2>1, <2>2
<1>5. Answers'
  <2>1. CASE item.kind = "trajectory"
    <3> HIDE DEF b
    <3>1. r.seg # NoSegment
      BY <1>2, <1>3, <2>1, ReturnedIs
    <3> DEFINE given == [cursor |-> r, segments |-> ReadBack(b)]
    <3>2. given.cursor = r
      OBVIOUS
    <3>3. answer' = [answer EXCEPT ![item.id] = given]
      BY <1>1, <2>1
    <3> HIDE DEF r, given, item
    <3>4. /\ DOMAIN answer' = DOMAIN answer
          /\ \A n \in DOMAIN answer : answer'[n] = answer[n] \/ answer'[n] = given
      BY <3>3
    <3> QED BY <3>1, <3>2, <3>4 DEF WorkInv, Answers
  <2>2. CASE item.kind # "trajectory"
    BY <1>1, <2>2 DEF WorkInv, Answers
  <2> QED BY <2>1, <2>2
<1>6. Arrives'
  <2>1. Holding \subseteq Holding' \union {item}
    BY <1>1 DEF Holding
  <2>2. \/ item.batch.frame = 0
        \/ /\ item \in Holding /\ item.kind = "trajectory" /\ item.batch.op # "finalize"
           /\ Kept(corpus.seg, item.batch.frame, Lineage(item.batch))
    <3>1. item \in Holding
      BY DEF Holding
    <3>2. item.kind = "trajectory" /\ item.batch.op = "finalize" => item.batch.frame = 0
      BY <1>3 DEF Good
    <3>3. item.kind # "trajectory" => item.batch.frame = 0
      BY <1>2 DEF HeldOK
    <3> HIDE DEF b, item
    <3>4. item.kind = "trajectory" /\ item.batch.op # "finalize"
            => Kept(corpus.seg, item.batch.frame, Lineage(item.batch))
      BY <1>2, <1>3 DEF Shown
    <3> QED BY <3>1, <3>2, <3>3, <3>4
  <2>3. UNCHANGED <<corpus, failed, sent, frame>>
    BY <1>1
  <2> HIDE DEF item
  <2> QED BY <2>1, <2>2, <2>3, ArrivesLess
<1>7. /\ Holding' \subseteq Holding \union {Idle.item}
      /\ pending' \in Seq(ToSet(pending'))
  BY <1>1 DEF WorkInv, Work, Holding
<1>8. AtWork(active') /\ active'.step # "written"
  BY <1>1 DEF AtWork, Idle
<1> QED BY <1>1, <1>4, <1>5, <1>6, <1>7, <1>8, HeldLess

LEMMA RecorderFailInv ==
  ASSUME WorkInv, Fail, UNCHANGED <<sent, frame>>
  PROVE  WorkInv'
<1>1. /\ failed' = TRUE /\ pending' = <<>> /\ active' = Idle
      /\ UNCHANGED <<cursors, corpus, answer>>
  BY Zenon DEF Fail, noQueue, disk
<1>2. Holding' \subseteq Holding \union {Idle.item} /\ pending' \in Seq(ToSet(pending'))
  BY <1>1 DEF Holding, ToSet
<1>3. Marks' /\ Answers' /\ Arrives'
  BY <1>1 DEF WorkInv, Work, Marks, Answers, Arrives
<1>4. AtWork(active') /\ active'.step # "written"
  BY <1>1 DEF AtWork, Idle
<1> QED BY <1>1, <1>2, <1>3, <1>4, HeldLess

\* Nothing the worker's part of the invariant speaks of changes, or a frame is over.
LEMMA WorkUnchanged ==
  ASSUME WorkInv, UNCHANGED <<active, pending, cursors, corpus, answer, failed, sent>>,
         frame \in Nat, frame' = frame \/ frame' = frame + 1
  PROVE  WorkInv'
<1>1. \A n \in 1..frame : n \in 1..frame'
  OBVIOUS
<1> QED BY <1>1 DEF WorkInv, Work, Marks, Answers, Journal, Arrives, Holding, HeldOK, Shown,
           Effective, Kept, HeldFrame, Lineage

LEMMA DurableInv ==
  ASSUME RecordingInv, Durable
  PROVE  RecordingInv'
<1>1. /\ UNCHANGED recorderVars
      /\ Take \/ PassBarrier \/ Settle \/ Fail \/ End \/ WriteLearning
  BY NoOtherWrite DEF Durable, Worker, RecordingInv
<1>2. UNCHANGED <<call, frame, lineage, enabled, segment, cursor, boundary, waiting, sent>>
  BY <1>1 DEF recorderVars, recording, receiptVars, history
<1>3. calls' = calls
  BY <1>1, Zenon DEF Take, PassBarrier, Settle, Fail, End, WriteLearning, WriteTrajectory,
     WriteQuarantine, WriteFrame, noQueue, queueVars
<1>4. WorkInv'
  <2>1. ASSUME End PROVE WorkInv'
    <3>1. UNCHANGED <<active, pending, cursors, corpus, answer, failed, sent, frame>>
      BY <1>2, <2>1 DEF End, queueVars, trajectoryVars, healthVars, disk
    <3> QED BY <1>2, <3>1, WorkUnchanged DEF RecordingInv, Numbers
  <2> QED BY <1>1, <1>2, <2>1, RecorderTakeInv, RecorderPassBarrierInv, RecorderSettleInv, RecorderFailInv, WriteLearningInv
          DEF RecordingInv
<1>5. Numbers' /\ Order'
  BY <1>2, <1>3 DEF RecordingInv, Numbers, Order
<1> QED BY <1>4, <1>5 DEF RecordingInv

-----------------------------------------------------------------------------
(* The recorder's calls *)

LEMMA OtherSteps ==
  /\ ReapSteps \in Seq(Others) /\ BarrierSteps \in Seq(Others) /\ <<>> \in Seq(Others)
<1>1. {"reap", "drain", "fence", "fenced", "giveup"} \subseteq Others
  BY DEF Others
<1> HIDE DEF Others
<1>2. ReapSteps \in Seq(Others) /\ <<>> \in Seq(Others)
  BY <1>1 DEF ReapSteps
<1>3. Attempt \in Seq(Others)
  <2>1. <<"fence">> \in Seq(Others) /\ <<"fenced">> \in Seq(Others)
    BY <1>1
  <2>2. <<"fence">> \o ReapSteps \in Seq(Others)
    BY <1>2, <2>1, ConcatProperties
  <2> QED BY <2>1, <2>2, ConcatProperties DEF Attempt
<1>4. BarrierSteps \in Seq(Others)
  <2>1. <<"giveup">> \in Seq(Others)
    BY <1>1
  <2>2. Attempt \o Attempt \in Seq(Others)
    BY <1>3, ConcatProperties
  <2>3. Attempt \o Attempt \o Attempt \in Seq(Others)
    BY <1>3, <2>2, ConcatProperties
  <2>4. Attempt \o Attempt \o Attempt \o Attempt \in Seq(Others)
    BY <1>3, <2>3, ConcatProperties
  <2> QED BY <2>1, <2>4, ConcatProperties DEF BarrierSteps
<1> QED BY <1>2, <1>4

LEMMA OtherCall ==
  ASSUME call' \in Seq(Others)
  PROVE  Order'
<1>1. \A i \in 1..Len(call') : call'[i] \in Others
  <2> DEFINE c == call'
  <2> HIDE DEF c
  <2>1. c \in Seq(Others) => \A i \in 1..Len(c) : c[i] \in Others
    BY ElementOfSeq
  <2> QED BY <2>1 DEF c
<1>2. call' \in Seq(CallSteps)
  <2>1. Others \subseteq CallSteps
    BY DEF CallSteps
  <2> QED BY <2>1, SeqMonotonic
<1> QED BY <1>1, <1>2 DEF Order, Others

\* A step of a call may put others before what is left of it.
LEMMA ThenOrder ==
  ASSUME Order, call # <<>>, NEW steps \in Seq(Others), Then(steps),
         frame' = frame, sent' = sent \/ At("submit")
  PROVE  Order'
<1> DEFINE rest == Tail(call)
           n == Len(steps)
           m == Len(rest)
<1>1. /\ rest \in Seq(CallSteps) /\ m = Len(call) - 1 /\ Len(call) \in Nat /\ Len(call) > 0
      /\ \A i \in 1..m : rest[i] = call[i + 1]
  BY HeadTailProperties DEF Order
<1>2. steps \in Seq(CallSteps) /\ n \in Nat /\ \A i \in 1..n : steps[i] # "submit"
  <2>1. Others \subseteq CallSteps
    BY DEF CallSteps
  <2>2. \A i \in 1..n : steps[i] \in Others
    BY ElementOfSeq
  <2>3. steps \in Seq(CallSteps)
    BY <2>1, SeqMonotonic
  <2> QED BY <2>2, <2>3, LenProperties DEF Others
<1>3. call' = steps \o rest
  BY DEF Then
<1> HIDE DEF rest
<1>4. /\ call' \in Seq(CallSteps) /\ Len(call') = n + m
      /\ \A i \in 1..n + m : call'[i] = IF i <= n THEN steps[i] ELSE rest[i - n]
  BY <1>1, <1>2, <1>3, ConcatProperties
<1> HIDE DEF n, m
<1>5. ASSUME NEW i \in 1..Len(call'), call'[i] = "submit"
      PROVE  /\ i = Len(call') /\ ~ At("submit")
             /\ \E j \in 1..Len(call) : call[j] = "submit"
  <2>1. i \in 1..n + m /\ m \in Nat
    BY <1>1, <1>4
  <2>2. ~ i <= n
    BY <1>2, <1>4, <1>5, <2>1
  <2>3. i - n \in 1..m /\ (i - n) + 1 \in 1..Len(call) /\ (i - n) + 1 # 1
    BY <1>1, <1>2, <2>1, <2>2
  <2>4. call[(i - n) + 1] = "submit"
    BY <1>1, <1>4, <1>5, <2>1, <2>2, <2>3
  <2>5. (i - n) + 1 = Len(call)
    BY <2>3, <2>4 DEF Order
  <2>6. i = Len(call')
    BY <1>1, <1>2, <1>4, <2>1, <2>5
  <2>7. ~ At("submit")
    <3>1. ASSUME call[1] = "submit" PROVE FALSE
      <4>1. 1 \in 1..Len(call)
        BY <1>1
      <4>2. 1 = Len(call)
        BY <3>1, <4>1 DEF Order
      <4> QED BY <2>3, <2>5, <4>2
    <3> QED BY <3>1 DEF At
  <2> QED BY <2>3, <2>4, <2>6, <2>7
<1> QED BY <1>4, <1>5 DEF Order

LEMMA ThenNothing ==
  ASSUME Order, call # <<>>, Then(<<>>), frame' = frame, sent' = sent \/ At("submit")
  PROVE  Order'
BY OtherSteps, ThenOrder

LEMMA WaitsOK ==
  ASSUME NEW items, items \subseteq [id : 1..MaxCalls, current : BOOLEAN]
  PROVE  Stale(items) \subseteq [id : 1..MaxCalls, current : BOOLEAN]
BY DEF Stale

\* The worker's part, and the calls it counts.
Unmoved == UNCHANGED <<calls, active, pending, cursors, corpus, answer, failed>>

LEMMA WorkerUnmoved == UNCHANGED workerVars => Unmoved
BY DEF workerVars, queueVars, trajectoryVars, healthVars, disk, Unmoved

\* An item is queued: one without a frame, or with the one sent.
LEMMA QueuedInv ==
  ASSUME WorkInv, NEW item, HeldOK(item), pending' = Append(pending, item),
         UNCHANGED <<active, cursors, corpus, answer, failed, frame>>, frame \in Nat,
         \/ /\ sent' = sent
            /\ item.kind = "trajectory" => item.batch.op = "finalize"
         \/ /\ item.batch.frame = frame /\ frame > 0
            /\ \A x \in sent : x[1] < frame
            /\ \E to : sent' = sent \union {<<frame, to>>} /\ to[1] = Lineage(item.batch)
  PROVE  WorkInv'
<1>1. /\ pending' \in Seq(ToSet(pending'))
      /\ ToSet(pending') = ToSet(pending) \union {item}
  BY AddedSet DEF WorkInv, Work
<1>2. Holding' = Holding \union {item}
  BY <1>1 DEF Holding
<1>3. Work'
  <2>1. \A x \in Holding' : HeldOK(x)'
    BY <1>2 DEF WorkInv, Work, HeldOK
  <2>2. Marks'
    BY DEF WorkInv, Work, Marks, MarksOf
  <2>3. active.step = "written" /\ active.item.kind = "trajectory"
          => Shown(corpus.seg, Effective(active.item.batch))'
    BY DEF WorkInv, Work, Effective
  <2> QED BY <1>1, <2>1, <2>2, <2>3 DEF WorkInv, Work
<1>4. Answers'
  BY DEF WorkInv, Answers
<1>5. CASE sent' = sent /\ (item.kind = "trajectory" => item.batch.op = "finalize")
  <2>1. Journal'
    BY <1>2, <1>5 DEF WorkInv, Journal, Lineage
  <2>2. Arrives'
    BY <1>2, <1>5 DEF WorkInv, Arrives, HeldFrame, Kept
  <2> QED BY <1>3, <1>4, <2>1, <2>2 DEF WorkInv
<1>6. CASE /\ item.batch.frame = frame /\ frame > 0
           /\ \A x \in sent : x[1] < frame
           /\ \E to : sent' = sent \union {<<frame, to>>} /\ to[1] = Lineage(item.batch)
  <2>1. PICK to : sent' = sent \union {<<frame, to>>} /\ to[1] = Lineage(item.batch)
    BY <1>6
  <2> DEFINE new == <<frame, to>>
  <2>2. new[1] = frame /\ new[2] = to
    OBVIOUS
  <2> HIDE DEF new
  <2>3. sent' = sent \union {new}
    BY <2>1 DEF new
  <2>4. \A x \in sent : x[1] \in 1..frame /\ x[1] # frame
    BY <1>6 DEF WorkInv, Journal
  <2>5. Journal'
    <3>1. \A x \in sent' : x[1] \in 1..frame'
      BY <1>6, <2>2, <2>3, <2>4
    <3>2. \A x, y \in sent' : x[1] = y[1] => x[2][1] = y[2][1]
      BY <2>2, <2>3, <2>4 DEF WorkInv, Journal
    <3>3. ASSUME NEW x \in Holding', x.kind = "trajectory", x.batch.op # "finalize"
          PROVE  \E y \in sent' : y[1] = x.batch.frame /\ y[2][1] = Lineage(x.batch)
      <4>1. CASE x \in Holding
        BY <2>3, <3>3, <4>1 DEF WorkInv, Journal
      <4>2. CASE x = item
        BY <1>6, <2>1, <2>2, <2>3, <4>2
      <4> QED BY <1>2, <4>1, <4>2
    <3> QED BY <3>1, <3>2, <3>3 DEF Journal
  <2>6. Arrives'
    <3>1. ASSUME NEW x \in sent', ~ failed
          PROVE  Kept(corpus.seg, x[1], x[2][1]) \/ HeldFrame(x[1])'
      <4>1. CASE x \in sent
        BY <1>2, <3>1, <4>1 DEF WorkInv, Arrives, HeldFrame
      <4>2. CASE x = new
        BY <1>2, <1>6, <2>2, <4>2 DEF HeldFrame
      <4> QED BY <2>3, <4>1, <4>2
    <3> QED BY <3>1 DEF Arrives
  <2> QED BY <1>3, <1>4, <2>5, <2>6 DEF WorkInv
<1> QED BY <1>5, <1>6

\* What a call that queues does, of which the invariant speaks.
LEMMA EnqueueIs ==
  ASSUME NEW item, NEW state, Numbers, Enqueue(item, state)
  PROVE  /\ pending' = Append(pending, item) /\ UNCHANGED answer
         /\ calls' = calls + 1 /\ calls' \in 0..MaxCalls /\ calls + 1 \in 1..MaxCalls
<1>1. /\ pending' = Append(pending, item) /\ UNCHANGED answer
      /\ calls' = calls + 1 /\ calls < MaxCalls
  BY Zenon DEF Enqueue, Number
<1> QED BY <1>1, QueueAssumption DEF Numbers

\* The lineage is given up.
LEMMA AbandonNumbers ==
  ASSUME Numbers, NEW items, items \subseteq waiting, Abandon(items),
         UNCHANGED <<lineage, calls, frame>>
  PROVE  Numbers'
<1>1. /\ waiting' \subseteq [id : 1..MaxCalls, current : BOOLEAN]
      /\ cursor' = NoCursor /\ boundary' = "none"
  BY WaitsOK DEF Numbers, Abandon
<1> QED BY <1>1 DEF Numbers

\* How a call goes on, or another begins.
Calling == call' \in Seq(Others) \/ (call # <<>> /\ \E steps \in Seq(Others) : Then(steps))

LEMMA CallingOrder ==
  ASSUME Order, Calling, frame' = frame, sent' = sent \/ At("submit")
  PROVE  Order'
BY OtherCall, ThenOrder DEF Calling

\* A step that moves no batch and knows no more of the cursor.
LEMMA QuietInv ==
  ASSUME RecordingInv, Unmoved, Calling, boundary' \in {"none", "finalize", "split"},
         UNCHANGED <<frame, lineage, segment, cursor, waiting, sent>>
  PROVE  RecordingInv'
<1>1. WorkInv'
  BY WorkUnchanged DEF Unmoved, RecordingInv, Numbers
<1>2. Numbers'
  BY DEF RecordingInv, Numbers, Unmoved
<1>3. Order'
  BY CallingOrder DEF RecordingInv
<1> QED BY <1>1, <1>2, <1>3 DEF RecordingInv

LEMMA CompleteFrameInv == RecordingInv /\ CompleteFrame => RecordingInv'
<1> SUFFICES ASSUME RecordingInv, CompleteFrame PROVE RecordingInv'
  OBVIOUS
<1>1. /\ Unmoved /\ frame' = frame + 1
      /\ UNCHANGED <<lineage, boundary, segment, cursor, waiting, sent>>
      /\ \/ call' = ReapSteps \o <<"submit">>
         \/ call = <<>> /\ call' = call
  BY WorkerUnmoved, Zenon DEF CompleteFrame, Begins, recording, receiptVars, history
<1>2. WorkInv'
  BY <1>1, WorkUnchanged DEF Unmoved, RecordingInv, Numbers
<1>3. Numbers'
  BY <1>1 DEF RecordingInv, Numbers, Unmoved
<1>4. Order'
  <2>1. CASE call' = ReapSteps \o <<"submit">>
    <3>1. /\ call' \in Seq(CallSteps) /\ Len(call') = 3
          /\ call'[1] = "reap" /\ call'[2] = "drain"
      <4> DEFINE a == ReapSteps
                 b == <<"submit">>
      <4>1. /\ a \in Seq(CallSteps) /\ Len(a) = 2 /\ a[1] = "reap" /\ a[2] = "drain"
            /\ b \in Seq(CallSteps) /\ Len(b) = 1
        BY DEF CallSteps, Others, ReapSteps
      <4> HIDE DEF a, b
      <4>2. /\ a \o b \in Seq(CallSteps) /\ Len(a \o b) = Len(a) + Len(b)
            /\ \A i \in 1..Len(a) + Len(b) :
                  (a \o b)[i] = IF i <= Len(a) THEN a[i] ELSE b[i - Len(a)]
        BY <4>1, ConcatProperties
      <4>3. call' = a \o b
        BY <2>1 DEF a, b
      <4> QED BY <4>1, <4>2, <4>3
    <3>2. frame' > 0 /\ \A x \in sent' : x[1] < frame'
      BY <1>1 DEF RecordingInv, WorkInv, Numbers, Journal
    <3>3. \A i \in 1..3 : i = 1 \/ i = 2 \/ i = 3
      OBVIOUS
    <3> QED BY <3>1, <3>2, <3>3 DEF Order
  <2>2. CASE call = <<>> /\ call' = call
    BY <2>2 DEF Order
  <2> QED BY <1>1, <2>1, <2>2
<1> QED BY <1>2, <1>3, <1>4 DEF RecordingInv

\* The other calls of the loop, and the steps that only go on.
LEMMA LoopInv == RecordingInv /\ (Interrupt \/ EnterHold \/ Status) => RecordingInv'
<1> SUFFICES ASSUME RecordingInv, Interrupt \/ EnterHold \/ Status PROVE RecordingInv'
  OBVIOUS
<1>1. /\ Unmoved
      /\ UNCHANGED <<frame, lineage, boundary, segment, cursor, waiting, sent>>
  BY WorkerUnmoved, Zenon DEF Interrupt, EnterHold, Status, recording, receiptVars, history
<1>2. Calling
  <2>1. {<<"enter">>, <<"finalize">>, <<"split">>} \subseteq Seq(Others)
    BY DEF Others
  <2>2. ASSUME NEW a \in Seq(Others), NEW b \in Seq(Others)
        PROVE  a \o b \in Seq(Others)
    BY ConcatProperties
  <2>3. CASE Interrupt
    <3>1. PICK how \in {"finalize", "split"}, left \in BOOLEAN :
             call' = ReapSteps \o <<how>> \o (IF left THEN BarrierSteps ELSE <<>>)
      BY <2>3 DEF Interrupt, Begins
    <3>2. <<how>> \in Seq(Others)
      BY <2>1
    <3>3. (IF left THEN BarrierSteps ELSE <<>>) \in Seq(Others)
      BY OtherSteps
    <3>4. ReapSteps \o <<how>> \in Seq(Others)
      BY <2>2, <3>2, OtherSteps
    <3> QED BY <2>2, <3>1, <3>3, <3>4 DEF Calling
  <2>4. CASE EnterHold
    <3>1. call' = ReapSteps \o <<"enter">>
      BY <2>4 DEF EnterHold, Begins
    <3> QED BY <2>1, <2>2, <3>1, OtherSteps DEF Calling
  <2>5. CASE Status
    BY <2>5, OtherSteps DEF Status, Begins, Calling
  <2> QED BY <2>3, <2>4, <2>5
<1>3. boundary' \in {"none", "finalize", "split"}
  BY <1>1 DEF RecordingInv, Numbers
<1> QED BY <1>1, <1>2, <1>3, QuietInv

LEMMA GoOn ==
  ASSUME NEW step, At(step), NEW steps \in Seq(Others), Then(steps)
  PROVE  Calling
BY DEF At, Calling

\* The steps that change nothing but the call, and those that put a boundary off.
LEMMA IdleStepInv ==
  RecordingInv /\ (Enter \/ DropFrame \/ PutOff \/ NothingToFinalize \/ Awaited \/ Fenced)
    => RecordingInv'
<1> SUFFICES ASSUME RecordingInv,
                    Enter \/ DropFrame \/ PutOff \/ NothingToFinalize \/ Awaited \/ Fenced
             PROVE  RecordingInv'
  OBVIOUS
<1>1. Unmoved /\ UNCHANGED <<frame, lineage, segment, cursor, waiting, sent>>
  BY WorkerUnmoved, Zenon DEF Enter, DropFrame, PutOff, NothingToFinalize, Awaited, Fenced,
     recording, receiptVars, history
<1>2. Calling
  <2>1. \E step : At(step) /\ (Then(<<>>) \/ call' = <<>>)
    BY Zenon DEF Enter, DropFrame, PutOff, NothingToFinalize, Awaited, Fenced
  <2> QED BY <2>1, OtherSteps, GoOn DEF Calling
<1>3. boundary' \in {"none", "finalize", "split"}
  <2>1. boundary' = boundary \/ (PutOff /\ boundary' = Head(call))
    BY Zenon DEF Enter, DropFrame, PutOff, NothingToFinalize, Awaited, Fenced, recording
  <2>2. PutOff => Head(call) \in {"finalize", "split"}
    BY DEF PutOff, At
  <2> QED BY <2>1, <2>2 DEF RecordingInv, Numbers
<1> QED BY <1>1, <1>2, <1>3, QuietInv

LEMMA DrainInv == RecordingInv /\ Drain => RecordingInv'
<1> SUFFICES ASSUME RecordingInv, Drain PROVE RecordingInv'
  OBVIOUS
<1>1. Unmoved /\ UNCHANGED <<frame, lineage, segment, cursor, waiting, sent>>
  BY WorkerUnmoved, Zenon DEF Drain, receiptVars, history
<1>2. /\ At("drain")
      /\ \/ boundary # "none" /\ boundary' = "none" /\ Then(<<boundary>>)
         \/ Then(<<>>) /\ boundary' = boundary
  BY DEF Drain
<1>3. boundary \in {"none", "finalize", "split"}
  BY DEF RecordingInv, Numbers
<1>4. boundary # "none" => <<boundary>> \in Seq(Others)
  BY <1>3 DEF Others
<1>5. Calling
  BY <1>2, <1>4, OtherSteps, GoOn
<1> QED BY <1>1, <1>2, <1>3, <1>5, QuietInv

\* The segment is over, or to be broken by the next.
LEMMA SegmentOverInv == RecordingInv /\ (Closed \/ Split) => RecordingInv'
<1> SUFFICES ASSUME RecordingInv, Closed \/ Split PROVE RecordingInv'
  OBVIOUS
<1>1. /\ Unmoved /\ UNCHANGED <<frame, lineage, boundary, sent>>
      /\ cursor' = NoCursor /\ waiting' = Stale(waiting)
  BY WorkerUnmoved, Zenon DEF Closed, Split, history
<1>2. \E step : At(step) /\ Then(<<>>)
  BY Zenon DEF Closed, Split
<1>3. WorkInv'
  BY <1>1, WorkUnchanged DEF Unmoved, RecordingInv, Numbers
<1>4. Numbers'
  BY <1>1, WaitsOK DEF RecordingInv, Numbers, Unmoved
<1>5. Order'
  BY <1>1, <1>2, ThenNothing DEF RecordingInv, At
<1> QED BY <1>3, <1>4, <1>5 DEF RecordingInv

\* The lineage is given up, and whatever else is recorded stays.
LEMMA AbandonedInv ==
  ASSUME RecordingInv, UNCHANGED <<calls, active, pending, cursors, corpus, answer, failed>>,
         Abandon(waiting), Calling, UNCHANGED <<frame, sent>>, lineage' \in 0..Lineages
  PROVE  RecordingInv'
<1>1. WorkInv'
  BY WorkUnchanged DEF RecordingInv, Numbers
<1>2. /\ waiting' \subseteq [id : 1..MaxCalls, current : BOOLEAN]
      /\ cursor' = NoCursor /\ boundary' = "none"
  BY WaitsOK DEF RecordingInv, Numbers, Abandon
<1>3. Numbers'
  BY <1>2 DEF RecordingInv, Numbers
<1>4. Order'
  BY CallingOrder DEF RecordingInv
<1> QED BY <1>1, <1>3, <1>4 DEF RecordingInv

LEMMA GivingUpInv ==
  RecordingInv /\ (QuarantineRefused \/ FenceRefused \/ FenceTimeout \/ FencedOut)
    => RecordingInv'
<1> SUFFICES ASSUME RecordingInv,
                    QuarantineRefused \/ FenceRefused \/ FenceTimeout \/ FencedOut
             PROVE  RecordingInv'
  OBVIOUS
<1>1. /\ UNCHANGED <<calls, active, pending, cursors, corpus, answer, failed>>
      /\ Abandon(waiting) /\ UNCHANGED <<frame, lineage, sent>>
  BY Zenon DEF QuarantineRefused, FenceRefused, FenceTimeout, FencedOut, GiveUp,
     RefuseQuarantine, workerFrame, workerVars, queueVars, trajectoryVars, healthVars, disk
<1>2. Calling
  <2>1. \E step : At(step) /\ (Then(<<>>) \/ call' = <<>>)
    BY Zenon DEF QuarantineRefused, FenceRefused, FenceTimeout, FencedOut, GiveUp
  <2> QED BY <2>1, OtherSteps, GoOn DEF Calling
<1>3. lineage' \in 0..Lineages
  BY <1>1 DEF RecordingInv, Numbers
<1> QED BY <1>1, <1>2, <1>3, AbandonedInv

LEMMA FenceInv == RecordingInv /\ Fence => RecordingInv'
<1> SUFFICES ASSUME RecordingInv, Fence PROVE RecordingInv'
  OBVIOUS
<1>1. /\ UNCHANGED <<frame, lineage, boundary, segment, cursor, waiting, sent>>
      /\ At("fence")
      /\ \/ Then(<<>>) /\ UNCHANGED workerVars
         \/ Barrier /\ Then(<<"await">>)
  BY Zenon DEF Fence, recording, receiptVars, history
<1>2. Calling
  <2>1. <<"await">> \in Seq(Others)
    BY DEF Others
  <2> QED BY <1>1, <2>1, OtherSteps, GoOn
<1>3. CASE UNCHANGED workerVars
  <2>1. boundary' \in {"none", "finalize", "split"}
    BY <1>1 DEF RecordingInv, Numbers
  <2> QED BY <1>1, <1>2, <1>3, <2>1, WorkerUnmoved, QuietInv
<1>4. CASE Barrier
  <2> DEFINE item == Item("barrier", 0, NoBatch)
  <2>1. Enqueue(item, "waiting") /\ UNCHANGED <<active, cursors, corpus, failed>>
    BY <1>4, Zenon DEF Barrier, trajectoryVars, healthVars, disk
  <2>2. HeldOK(item) /\ item.kind = "barrier"
    BY DEF Item, HeldOK, NoBatch
  <2> HIDE DEF item
  <2>3. /\ pending' = Append(pending, item) /\ UNCHANGED answer
        /\ calls' \in 0..MaxCalls
    BY <2>1, EnqueueIs DEF RecordingInv
  <2>4. WorkInv'
    BY <1>1, <2>1, <2>2, <2>3, QueuedInv DEF RecordingInv, Numbers
  <2>5. Numbers'
    BY <1>1, <2>3 DEF RecordingInv, Numbers
  <2>6. Order'
    BY <1>1, <1>2, CallingOrder DEF RecordingInv
  <2> QED BY <2>4, <2>5, <2>6 DEF RecordingInv
<1> QED BY <1>1, <1>3, <1>4

\* The newest answer of the lineage moves the cursor, and the segment with it.
LEMMA ReapInv == RecordingInv /\ Reap => RecordingInv'
<1> SUFFICES ASSUME RecordingInv, Reap PROVE RecordingInv'
  OBVIOUS
<1>1. /\ Unmoved /\ UNCHANGED <<frame, lineage, sent>> /\ At("reap") /\ Then(<<>>)
      /\ \/ Abandon(Left)
         \/ /\ waiting' = Left /\ boundary' = boundary
            /\ \/ \E last \in Moving : /\ cursor' = answer[last.id].cursor
                                      /\ segment' = cursor'.seg
               \/ UNCHANGED <<cursor, segment>>
  BY WorkerUnmoved, Zenon DEF Reap
<1>2. Left \subseteq waiting /\ \A w \in Moving : w \in waiting
  BY DEF Left, Moving, Done
<1>3. WorkInv'
  BY <1>1, WorkUnchanged DEF Unmoved, RecordingInv, Numbers
<1>4. Order'
  BY <1>1, ThenNothing DEF RecordingInv, At
<1>5. Numbers'
  <2>1. CASE Abandon(Left)
    BY <1>1, <1>2, <2>1, AbandonNumbers DEF RecordingInv, Unmoved
  <2>2. CASE waiting' = Left /\ boundary' = boundary /\ UNCHANGED <<cursor, segment>>
    BY <1>1, <1>2, <2>2 DEF RecordingInv, Numbers, Unmoved
  <2>3. CASE /\ waiting' = Left /\ boundary' = boundary
             /\ \E last \in Moving : /\ cursor' = answer[last.id].cursor
                                     /\ segment' = cursor'.seg
    <3>1. PICK last \in Moving : cursor' = answer[last.id].cursor /\ segment' = cursor'.seg
      BY <2>3
    <3>2. last.id \in 1..MaxCalls
      BY <1>2 DEF RecordingInv, Numbers
    <3>3. cursor' # NoCursor => cursor'.seg = segment' /\ segment' # NoSegment
      BY <3>1, <3>2 DEF RecordingInv, WorkInv, Answers
    <3> QED BY <1>1, <1>2, <2>3, <3>3 DEF RecordingInv, Numbers, Unmoved
  <2> QED BY <1>1, <2>1, <2>2, <2>3
<1> QED BY <1>3, <1>4, <1>5 DEF RecordingInv

LEMMA QuarantineInv == RecordingInv /\ Quarantine => RecordingInv'
<1> SUFFICES ASSUME RecordingInv, Quarantine PROVE RecordingInv'
  OBVIOUS
<1>1. /\ UNCHANGED <<active, cursors, corpus, failed, call, frame, lineage, boundary, segment,
                    cursor, waiting, sent>>
      /\ \E s \in retry : SubmitQuarantine(s)
  BY Zenon DEF Quarantine, workerFrame, disk, recording, history
<1>2. PICK item : /\ Enqueue(item, "waiting") /\ item.kind = "trajectory-quarantine"
                  /\ item.batch.frame = 0
  <2>1. PICK s : Enqueue(Item("trajectory-quarantine", 0,
                           [NoBatch EXCEPT !.cursor = [NoCursor EXCEPT !.seg = s]]), "waiting")
    BY <1>1 DEF SubmitQuarantine
  <2> DEFINE item == Item("trajectory-quarantine", 0,
                       [NoBatch EXCEPT !.cursor = [NoCursor EXCEPT !.seg = s]])
  <2>2. item.kind = "trajectory-quarantine" /\ item.batch.frame = 0
    BY DEF Item, NoBatch
  <2> QED BY <2>1, <2>2
<1>3. HeldOK(item)
  BY <1>2 DEF HeldOK
<1>4. /\ pending' = Append(pending, item) /\ UNCHANGED answer /\ calls' \in 0..MaxCalls
  BY <1>2, EnqueueIs DEF RecordingInv
<1>5. WorkInv'
  BY <1>1, <1>2, <1>3, <1>4, QueuedInv DEF RecordingInv, Numbers
<1>6. Numbers' /\ Order'
  BY <1>1, <1>4 DEF RecordingInv, Numbers, Order
<1> QED BY <1>5, <1>6 DEF RecordingInv

\* What a refusal leaves as it was.
LEMMA RefusedIs ==
  ASSUME NEW batch, SubmitRefused(batch), UNCHANGED workerFrame
  PROVE  /\ UNCHANGED <<calls, active, pending, cursors, corpus, answer, failed>>
         /\ Abandon(waiting)
BY Zenon DEF SubmitRefused, RefuseTrajectory, workerFrame, queueVars, disk

\* What a batch accepted adds to the queue and to the receipts.
LEMMA SubmittedIs ==
  ASSUME Numbers, NEW items, items \subseteq [id : 1..MaxCalls, current : BOOLEAN],
         NEW batch, Good(batch), NEW moves \in BOOLEAN,
         Submit(items, batch, moves), UNCHANGED workerFrame
  PROVE  /\ \E item : /\ item.kind = "trajectory" /\ item.batch = batch /\ HeldOK(item)
                       /\ pending' = Append(pending, item)
         /\ UNCHANGED <<active, cursors, corpus, answer, failed>>
         /\ calls' \in 0..MaxCalls
         /\ waiting' \subseteq [id : 1..MaxCalls, current : BOOLEAN]
<1> DEFINE item == Item("trajectory", 0, batch)
<1>1. /\ Enqueue(item, "waiting") /\ UNCHANGED <<active, cursors, corpus, failed>>
      /\ waiting' = items \union {[id |-> calls + 1, current |-> moves]}
  BY Zenon DEF Submit, SubmitTrajectory, workerFrame, disk
<1>2. item.kind = "trajectory" /\ item.batch = batch
  BY DEF Item
<1> HIDE DEF item
<1>3. HeldOK(item)
  BY <1>2 DEF HeldOK
<1>4. /\ pending' = Append(pending, item) /\ UNCHANGED answer
      /\ calls' \in 0..MaxCalls /\ calls + 1 \in 1..MaxCalls
  BY <1>1, EnqueueIs
<1>5. waiting' \subseteq [id : 1..MaxCalls, current : BOOLEAN]
  BY <1>1, <1>4
<1> QED BY <1>1, <1>2, <1>3, <1>4, <1>5

\* A step that submits a frame comes once in its call.
LEMMA AtSubmit ==
  ASSUME RecordingInv, At("submit")
  PROVE  frame > 0 /\ frame \in Nat /\ call # <<>> /\ \A x \in sent : x[1] < frame
<1>1. call # <<>> /\ call[1] = "submit"
  BY DEF At
<1>2. 1 \in 1..Len(call)
  BY <1>1, EmptySeq DEF RecordingInv, Order
<1> QED BY <1>1, <1>2 DEF RecordingInv, Order, Numbers

LEMMA NewLineageInv == RecordingInv /\ NewLineage => RecordingInv'
<1> SUFFICES ASSUME RecordingInv, NewLineage PROVE RecordingInv'
  OBVIOUS
<1> DEFINE next == <<lineage + 1, 0>>
           batch == Opening(next)
<1>1. /\ At("submit") /\ segment = NoSegment /\ lineage < Lineages /\ lineage' = lineage + 1
      /\ \/ /\ Submit(Stale(waiting), batch, TRUE)
            /\ segment' = next /\ sent' = sent \union {<<frame, next>>}
            /\ Then(ReapSteps) /\ UNCHANGED <<cursor, boundary>>
         \/ SubmitRefused(batch) /\ Then(<<>>) /\ sent' = sent
      /\ UNCHANGED workerFrame /\ frame' = frame
  BY Zenon DEF NewLineage
<1>2. frame > 0 /\ frame \in Nat /\ call # <<>> /\ \A x \in sent : x[1] < frame
  BY <1>1, AtSubmit
<1>3. lineage + 1 \in 1..Lineages /\ lineage' \in 0..Lineages
  BY <1>1, CapacityAssumption DEF RecordingInv, Numbers
<1>4. /\ Good(batch) /\ batch.frame = frame /\ Lineage(batch) = next[1]
      /\ batch.op # "finalize"
  <2>1. next \in (1..Lineages) \X {0}
    BY <1>3
  <2> HIDE DEF next
  <2>2. /\ batch.op \in {"begin", "break"} /\ batch.next = next /\ batch.frame = frame
        /\ batch \in [op : Ops, cursor : {batch.cursor}, next : {batch.next}, frame : Nat]
    BY <1>2 DEF Opening, Batch, Ops
  <2> HIDE DEF batch
  <2> QED BY <2>1, <2>2 DEF Good, Lineage
<1> HIDE DEF batch
<1>5. Order'
  BY <1>1, <1>2, OtherSteps, ThenOrder DEF RecordingInv
<1>6. CASE /\ Submit(Stale(waiting), batch, TRUE)
           /\ segment' = next /\ sent' = sent \union {<<frame, next>>}
           /\ UNCHANGED <<cursor, boundary>>
  <2>1. Stale(waiting) \subseteq [id : 1..MaxCalls, current : BOOLEAN]
    BY WaitsOK DEF RecordingInv, Numbers
  <2>2. /\ \E item : /\ item.kind = "trajectory" /\ item.batch = batch /\ HeldOK(item)
                      /\ pending' = Append(pending, item)
        /\ UNCHANGED <<active, cursors, corpus, answer, failed>>
        /\ calls' \in 0..MaxCalls
        /\ waiting' \subseteq [id : 1..MaxCalls, current : BOOLEAN]
    BY <1>1, <1>4, <1>6, <2>1, SubmittedIs DEF RecordingInv
  <2>3. WorkInv'
    <3>1. PICK item : /\ item.kind = "trajectory" /\ item.batch = batch /\ HeldOK(item)
                      /\ pending' = Append(pending, item)
      BY <2>2
    <3>2. \E to : sent' = sent \union {<<frame, to>>} /\ to[1] = Lineage(item.batch)
      BY <1>4, <1>6, <3>1
    <3> QED BY <1>1, <1>2, <1>4, <2>2, <3>1, <3>2, QueuedInv DEF RecordingInv
  <2>4. Numbers'
    <3>1. cursor = NoCursor
      BY <1>1 DEF RecordingInv, Numbers
    <3> QED BY <1>1, <1>2, <1>3, <1>6, <2>2, <3>1 DEF RecordingInv, Numbers
  <2> QED BY <1>5, <2>3, <2>4 DEF RecordingInv
<1>7. CASE SubmitRefused(batch) /\ Then(<<>>) /\ sent' = sent
  BY <1>1, <1>2, <1>3, <1>7, RefusedIs, OtherSteps, AbandonedInv DEF Calling
<1> QED BY <1>1, <1>6, <1>7

LEMMA AppendFrameInv == RecordingInv /\ AppendFrame => RecordingInv'
<1> SUFFICES ASSUME RecordingInv, AppendFrame PROVE RecordingInv'
  OBVIOUS
<1> DEFINE batch == Batch("append", cursor, NoSegment, frame)
<1>1. /\ At("submit") /\ cursor # NoCursor
      /\ \/ /\ Submit(waiting, batch, TRUE)
            /\ sent' = sent \union {<<frame, segment>>}
            /\ Then(ReapSteps) /\ UNCHANGED <<segment, cursor, boundary>>
         \/ SubmitRefused(batch) /\ Then(<<>>) /\ sent' = sent
      /\ UNCHANGED workerFrame /\ UNCHANGED <<frame, lineage>>
  BY Zenon DEF AppendFrame
<1>2. frame > 0 /\ frame \in Nat /\ call # <<>> /\ \A x \in sent : x[1] < frame
  BY <1>1, AtSubmit
<1>3. lineage' \in 0..Lineages
  BY <1>1 DEF RecordingInv, Numbers
<1>4. /\ Good(batch) /\ batch.frame = frame /\ Lineage(batch) = segment[1]
  <2>1. /\ batch.op = "append" /\ batch.cursor = cursor /\ batch.frame = frame
        /\ batch \in [op : Ops, cursor : {batch.cursor}, next : {batch.next}, frame : Nat]
    BY <1>2 DEF Batch, Ops
  <2>2. cursor.seg = segment
    BY <1>1 DEF RecordingInv, Numbers
  <2> HIDE DEF batch
  <2> QED BY <2>1, <2>2 DEF Good, Lineage
<1> HIDE DEF batch
<1>5. Order'
  BY <1>1, <1>2, OtherSteps, ThenOrder DEF RecordingInv
<1>6. CASE /\ Submit(waiting, batch, TRUE)
           /\ sent' = sent \union {<<frame, segment>>}
           /\ UNCHANGED <<segment, cursor, boundary>>
  <2>1. waiting \subseteq [id : 1..MaxCalls, current : BOOLEAN]
    BY DEF RecordingInv, Numbers
  <2>2. /\ \E item : /\ item.kind = "trajectory" /\ item.batch = batch /\ HeldOK(item)
                      /\ pending' = Append(pending, item)
        /\ UNCHANGED <<active, cursors, corpus, answer, failed>>
        /\ calls' \in 0..MaxCalls
        /\ waiting' \subseteq [id : 1..MaxCalls, current : BOOLEAN]
    BY <1>1, <1>4, <1>6, <2>1, SubmittedIs DEF RecordingInv
  <2>3. WorkInv'
    <3>1. PICK item : /\ item.kind = "trajectory" /\ item.batch = batch /\ HeldOK(item)
                      /\ pending' = Append(pending, item)
      BY <2>2
    <3>2. \E to : sent' = sent \union {<<frame, to>>} /\ to[1] = Lineage(item.batch)
      BY <1>4, <1>6, <3>1
    <3> QED BY <1>1, <1>2, <1>4, <2>2, <3>1, <3>2, QueuedInv DEF RecordingInv
  <2>4. Numbers'
    BY <1>1, <1>2, <1>3, <1>6, <2>2 DEF RecordingInv, Numbers
  <2> QED BY <1>5, <2>3, <2>4 DEF RecordingInv
<1>7. CASE SubmitRefused(batch) /\ Then(<<>>) /\ sent' = sent
  BY <1>1, <1>2, <1>3, <1>7, RefusedIs, OtherSteps, AbandonedInv DEF Calling
<1> QED BY <1>1, <1>6, <1>7

LEMMA FinalizeInv == RecordingInv /\ Finalize => RecordingInv'
<1> SUFFICES ASSUME RecordingInv, Finalize PROVE RecordingInv'
  OBVIOUS
<1> DEFINE at == IF segment = NoSegment THEN pendingBreak ELSE cursor
           batch == Batch("finalize", at, NoSegment, 0)
           steps == ReapSteps \o (IF segment = NoSegment THEN <<>> ELSE <<"closed">>)
<1>1. /\ At("finalize")
      /\ \/ /\ Submit(waiting, batch, FALSE) /\ Then(steps)
            /\ UNCHANGED <<segment, cursor, boundary>>
         \/ SubmitRefused(batch) /\ Then(<<>>)
      /\ UNCHANGED workerFrame /\ UNCHANGED <<frame, lineage, sent>>
  BY Zenon DEF Finalize, history
<1>2. Calling
  <2>1. <<"closed">> \in Seq(Others)
    BY DEF Others
  <2>2. (IF segment = NoSegment THEN <<>> ELSE <<"closed">>) \in Seq(Others)
    BY <2>1, OtherSteps
  <2>3. steps \in Seq(Others)
    BY <2>2, OtherSteps, ConcatProperties
  <2> HIDE DEF steps
  <2> QED BY <1>1, <2>3, OtherSteps, GoOn
<1>3. Good(batch) /\ batch.op = "finalize"
  BY DEF Batch, Good, Ops
<1> HIDE DEF batch, steps
<1>4. lineage' \in 0..Lineages /\ frame \in Nat
  BY <1>1 DEF RecordingInv, Numbers
<1>5. CASE Submit(waiting, batch, FALSE) /\ UNCHANGED <<segment, cursor, boundary>>
  <2>1. waiting \subseteq [id : 1..MaxCalls, current : BOOLEAN]
    BY DEF RecordingInv, Numbers
  <2>2. /\ \E item : /\ item.kind = "trajectory" /\ item.batch = batch /\ HeldOK(item)
                      /\ pending' = Append(pending, item)
        /\ UNCHANGED <<active, cursors, corpus, answer, failed>>
        /\ calls' \in 0..MaxCalls
        /\ waiting' \subseteq [id : 1..MaxCalls, current : BOOLEAN]
    BY <1>1, <1>3, <1>5, <2>1, SubmittedIs DEF RecordingInv
  <2>3. WorkInv'
    <3>1. PICK item : /\ item.kind = "trajectory" /\ item.batch = batch /\ HeldOK(item)
                      /\ pending' = Append(pending, item)
      BY <2>2
    <3> QED BY <1>1, <1>3, <1>4, <2>2, <3>1, QueuedInv DEF RecordingInv
  <2>4. Numbers'
    BY <1>1, <1>4, <1>5, <2>2 DEF RecordingInv, Numbers
  <2>5. Order'
    BY <1>1, <1>2, CallingOrder DEF RecordingInv
  <2> QED BY <2>3, <2>4, <2>5 DEF RecordingInv
<1>6. CASE SubmitRefused(batch)
  BY <1>1, <1>2, <1>4, <1>6, RefusedIs, AbandonedInv
<1> QED BY <1>1, <1>5, <1>6

-----------------------------------------------------------------------------
LEMMA RecordingNext == RecordingInv /\ [Next]_vars => RecordingInv'
<1> SUFFICES ASSUME RecordingInv, [Next]_vars PROVE RecordingInv'
  OBVIOUS
<1>1. CASE Loop
  BY <1>1, CompleteFrameInv, LoopInv DEF Loop
<1>2. CASE Continue
  BY <1>2, IdleStepInv, DrainInv, SegmentOverInv, GivingUpInv, FenceInv, ReapInv,
     QuarantineInv, NewLineageInv, AppendFrameInv, FinalizeInv DEF Continue
<1>3. CASE Durable
  BY <1>3, DurableInv
<1>4. CASE UNCHANGED vars
  <2>1. /\ UNCHANGED <<active, pending, cursors, corpus, answer, failed, calls>>
        /\ UNCHANGED <<call, frame, lineage, segment, cursor, boundary, waiting, sent>>
    BY <1>4 DEF vars, workerVars, queueVars, trajectoryVars, healthVars, disk, recorderVars,
       recording, receiptVars, history
  <2>2. WorkInv'
    BY <2>1, WorkUnchanged DEF RecordingInv, Numbers
  <2>3. Numbers' /\ Order'
    BY <2>1 DEF RecordingInv, Numbers, Order
  <2> QED BY <2>2, <2>3 DEF RecordingInv
<1> QED BY <1>1, <1>2, <1>3, <1>4 DEF Next

\* The invariant the recorder and the worker keep together.
THEOREM RecordingInvariant == Spec => []RecordingInv
BY RecordingInit, RecordingNext, PTL DEF Spec

\* The frames of every stored segment follow one another without a hole, whatever
\* frames were refused, dropped or cut off, and wherever segments rolled
\* (TrajectoryRepository._with_frames, validate_segment).
THEOREM RecordingContiguous == Spec => []StoredContiguous
<1>1. RecordingInv => StoredContiguous
  BY InvImplies
<1> QED BY <1>1, RecordingInvariant, PTL

\* A frame whose batch was accepted is stored, or held, or its lineage lost a
\* segment to quarantine, as long as the worker lives (submit_trajectory_batch,
\* _effective_trajectory_batch, _record_trajectory_success_locked).
THEOREM RecordingKeepsFrames == Spec => []FramesStored
<1>1. RecordingInv => FramesStored
  BY InvImplies
<1> QED BY <1>1, RecordingInvariant, PTL

=============================================================================
