----------------------- MODULE ModelActivation_proofs -----------------------
(***************************************************************************)
(* That no candidate drives before its activation is durable, that the     *)
(* pair which drives is the one in authority or one that another was built *)
(* on, and that a pair which failed does not come back by itself: for any  *)
(* number of candidates, failures, rollbacks and sessions.                 *)
(***************************************************************************)
EXTENDS ModelActivationProperties, SequenceTheorems, TLAPS

Pair == [id : Int, role : Int]
Txn == [inc : Pair, cand : Pair]
RowType == [phase : {"none", "prepared", "active", "aborted"}, t : Txn]
ChalType ==
  [phase : {"none", "evaluating", "qualified", "activating", "retired"}, t : Txn]
Flights == [phase : {"none", "active", "aborted"}, t : Txn]

\* The runtimes that have the events ev to report.
Runtimes(ev) ==
  [active : Pair, authorized : BOOLEAN, backup : Pair, inert : Txn, record : Txn,
   pending : Txn, flight : Flights, abort : Txn, known : SUBSET Txn,
   failedRoles : SUBSET Int, gen : Int, events : {ev},
   seed : {"exact", "uncertain"}, terminated : BOOLEAN]

\* Only a transition in flight asks for its row to be made active.
Items ==
  {w \in [kind : {"active", "aborted", "confident", "blocked"}, t : Txn,
          owner : Owners \union {"none"}] :
     w.kind = "active" => w.owner \in {"flight", "none"}}

Orders(Ops) ==
  {d \in [op : Ops, row : RowType, gone : BOOLEAN] : d.op = "restore" => d.row # NoRow}

Types ==
  /\ fits \in Nat
  /\ row \in RowType /\ look \in RowType /\ chal \in ChalType
  /\ saved \in Pair /\ entered \in Pair /\ holds \in Txn
  /\ rt \in Runtimes(rt.events)
  /\ receipt \in [Owners -> {"none", "waiting", "durable", "lost"}]
  /\ queue \in Seq(Items)
  /\ \E Ops : batch \in Seq(Orders(Ops)) /\ dispatch \in Seq(Orders(Ops))

-----------------------------------------------------------------------------
(* The transactions there are *)

\* The rows that Hold has read and nothing has settled yet.
LookRows ==
  {look} \union {batch[i].row : i \in DOMAIN batch}
         \union {dispatch[i].row : i \in DOMAIN dispatch}
Read == {r.t : r \in LookRows}

\* The transactions that were ever a row, and all that there are.
Seen == rt.known \union Read \union {row.t}
Txs == Seen \union {holds, chal.t}

\* The transitions whose row the worker is still to make active.
ActiveItems == {i \in DOMAIN queue : queue[i].kind = "active"}
NoItem(t) == \A i \in ActiveItems : queue[i].t # t

\* A candidate is younger than what it was built on; no two transactions have
\* the same one.
Ids ==
  /\ \A t \in Txs \ {NoTxn} :
        t.inc.id \in 0..fits /\ t.cand.id \in 1..fits /\ t.inc.id < t.cand.id
  /\ \A t, u \in Txs : t.cand = u.cand => t = u
  /\ \A i \in ActiveItems : queue[i].t.cand.id <= fits

Young(p) == p.id \in 0..fits
Pairs ==
  /\ Young(rt.active) /\ Young(entered)
  /\ saved # NoPair => Young(saved)
  /\ rt.backup # NoPair => Young(rt.backup)

Rows ==
  /\ row = NoRow \/ (row.phase # "none" /\ row.t # NoTxn)
  /\ \A r \in LookRows : r = NoRow \/ (r.phase # "none" /\ r.t # NoTxn)
  /\ row = NoRow => rt.known = {} /\ LookRows \subseteq {NoRow}
  /\ NoTxn \notin rt.known

\* Nothing that was a row is built on the candidate of the row there is.
Past == \A u \in Seen \ {NoTxn} : u.inc # row.t.cand

\* A challenger that may yet be prepared never was a row.
Open == {"evaluating", "qualified"}
Fresh ==
  chal.phase \in Open =>
    /\ chal.t # NoTxn /\ chal.t \notin Seen
    /\ NoItem(chal.t)
    /\ \A u \in Seen : u.inc # chal.t.cand

-----------------------------------------------------------------------------
(* What may drive *)

\* The pair the session began with, the one in authority, or one on which a
\* transaction was built that the runtime knows.
Allowed(p) ==
  \/ p = entered
  \/ row # NoRow /\ p = Authority(row)
  \/ \E t \in rt.known : t.inc = p

MayDrive == Driving => Allowed(rt.active)
ReadAllowed == \A r \in LookRows : r.phase = "active" => Allowed(r.t.cand)
BackedUp == rt.backup # NoPair => \E u \in rt.known : u.inc = rt.backup

\* t was not made active, and nothing was built on it.
NotYet(t) == row # [phase |-> "active", t |-> t] /\ \A u \in Seen : u.inc # t.cand

Learning ==
  /\ learner \in {"queue", "lifecycle", "withdraw", "refused"} => chal.phase \notin Open
  /\ learner = "queue" => /\ row.t = holds /\ holds # NoTxn /\ holds # rt.pending
                          /\ NotYet(holds) /\ NoItem(holds)

Pending ==
  rt.pending # NoTxn =>
    /\ rt.pending \in rt.known /\ rt.flight = NoFlight
    /\ NotYet(rt.pending) /\ NoItem(rt.pending)
    /\ rt.active # rt.pending.cand

\* A transition in flight has one item queued until its receipt is answered;
\* until it is durable its candidate does not drive, and can be taken back.
Flying ==
  /\ rt.flight # NoFlight =>
        rt.flight.t \in rt.known /\ receipt["flight"] # "none" /\ rt.flight.phase # "none"
  /\ rt.flight.phase = "active" /\ receipt["flight"] # "durable" =>
        /\ NotYet(rt.flight.t)
        /\ \A i \in ActiveItems : queue[i].t = rt.flight.t => queue[i].owner = "flight"
        /\ rt.active = rt.flight.t.cand => ~rt.authorized /\ rt.backup = rt.flight.t.inc
  /\ rt.flight.phase = "active" /\ receipt["flight"] = "durable" =>
        Allowed(rt.flight.t.cand)

FlightItems == {i \in DOMAIN queue : queue[i].owner = "flight"}
Queued ==
  /\ \A i \in FlightItems :
        /\ rt.flight # NoFlight /\ receipt["flight"] = "waiting"
        /\ queue[i].kind = rt.flight.phase /\ queue[i].t = rt.flight.t
  /\ \A i, j \in FlightItems : i = j

\* A transition that an earlier session left in the queue may still be written;
\* until its row is read and restored, this session drives what it began with.
Untouched ==
  /\ rt.active = entered /\ rt.known = {} /\ rt.backup = NoPair
  /\ rt.pending = NoTxn /\ rt.flight = NoFlight
  /\ LookRows \subseteq {NoRow, row}
Left ==
  in => \A i \in ActiveItems :
          row = [phase |-> "prepared", t |-> queue[i].t] =>
            queue[i].t \in rt.known \/ Untouched

Outside ==
  ~in => /\ look = NoRow /\ batch = <<>> /\ dispatch = <<>> /\ learner = "idle"
         /\ rt = [NewRuntime(Configured) EXCEPT !.authorized = FALSE]

History == Ids /\ Rows /\ Past /\ Fresh
Session == MayDrive /\ ReadAllowed /\ BackedUp /\ Pending /\ Flying /\ Queued /\ Left
ActInv == Types /\ Pairs /\ History /\ Session /\ Learning /\ Outside

-----------------------------------------------------------------------------
(* Initially *)

LEMMA None ==
  /\ NoPair \in Pair /\ Configured \in Pair /\ NoTxn \in Txn /\ NoRow \in RowType
  /\ NoFlight \in Flights /\ NoRow.t = NoTxn /\ NoRow.phase = "none"
  /\ NoTxn.inc = NoPair /\ NoTxn.cand = NoPair /\ NoPair.id = -1
  /\ NoFlight.phase = "none" /\ NoFlight.t = NoTxn
BY DEF NoPair, Configured, NoTxn, NoRow, NoFlight, Pair, Txn, RowType, Flights

LEMMA NewIs ==
  ASSUME NEW p \in Pair
  PROVE  /\ NewRuntime(p) \in Runtimes(<<>>)
         /\ [NewRuntime(p) EXCEPT !.authorized = FALSE] \in Runtimes(<<>>)
         /\ NewRuntime(p).active = p /\ NewRuntime(p).backup = NoPair
         /\ NewRuntime(p).known = {} /\ NewRuntime(p).pending = NoTxn
         /\ NewRuntime(p).flight = NoFlight /\ NewRuntime(p).events = <<>>
BY None DEF NewRuntime, Runtimes, Pair

LEMMA InitInv == Init => ActInv
<1> SUFFICES ASSUME Init PROVE ActInv
  OBVIOUS
<1>1. /\ row = NoRow /\ look = NoRow /\ chal.t = NoTxn /\ chal.phase = "none"
      /\ chal \in ChalType /\ holds = NoTxn /\ saved = NoPair /\ entered = Configured
      /\ fits = 0 /\ queue = <<>> /\ batch = <<>> /\ dispatch = <<>> /\ learner = "idle"
      /\ in = TRUE /\ rt = NewRuntime(Configured) /\ receipt = NoReceipts
  BY None DEF Init, ChalType
<1>2. /\ rt \in Runtimes(<<>>) /\ rt.active = Configured /\ rt.backup = NoPair
      /\ rt.known = {} /\ rt.pending = NoTxn /\ rt.flight = NoFlight /\ rt.events = <<>>
  BY <1>1, None, NewIs
<1>3. receipt \in [Owners -> {"none", "waiting", "durable", "lost"}]
  BY <1>1 DEF NoReceipts
<1>4. Types
  <2>1. queue \in Seq(Items) /\ batch \in Seq(Orders({})) /\ dispatch \in Seq(Orders({}))
    BY <1>1, EmptySeq
  <2> QED BY <1>1, <1>2, <1>3, <2>1, None DEF Types
<1>5. LookRows = {NoRow} /\ Read = {NoTxn} /\ Seen = {NoTxn} /\ Txs = {NoTxn}
  <2>1. LookRows = {NoRow}
    BY <1>1 DEF LookRows
  <2>2. Read = {NoTxn}
    BY <2>1, None DEF Read
  <2> QED BY <1>1, <1>2, <2>1, <2>2, None DEF Seen, Txs
<1>6. Pairs
  BY <1>1, <1>2, None DEF Pairs, Young, Configured
<1>7. ActiveItems = {} /\ FlightItems = {}
  BY <1>1 DEF ActiveItems, FlightItems
<1>8. History
  BY <1>1, <1>2, <1>5, <1>7, None DEF History, Ids, Rows, Past, Fresh, Open
<1>9. Session
  BY <1>1, <1>2, <1>5, <1>7, None
  DEF Session, MayDrive, Allowed, ReadAllowed, BackedUp, Pending, Flying, Queued, Left
<1>10. Learning /\ Outside
  BY <1>1 DEF Learning, Outside
<1> QED BY <1>4, <1>6, <1>8, <1>9, <1>10 DEF ActInv

-----------------------------------------------------------------------------
(* What most steps leave alone *)

\* The queue loses its head at most, and gains nothing for a transition in flight.
Harmless(w) == w.kind # "active" /\ w.owner # "flight"
QuietQueue ==
  \E d \in {0, 1} : \A i \in DOMAIN queue' :
     \/ Harmless(queue'[i])
     \/ i + d \in DOMAIN queue /\ queue'[i] = queue[i + d]

\* A prepared row may be aborted.
RowSettled ==
  row' = row \/ (row.phase = "prepared" /\ row' = [row EXCEPT !.phase = "aborted"])

LooksOn == LookRows' \subseteq LookRows \union {NoRow, row}

ChallengerOn == chal'.t = chal.t /\ (chal'.phase \in Open => chal.phase \in Open)

\* A session goes on.
Onward ==
  /\ in' = in /\ entered' = entered /\ fits' = fits /\ holds' = holds
  /\ LooksOn /\ RowSettled /\ ChallengerOn
  /\ rt.known \subseteq rt'.known /\ rt'.known \subseteq Seen \ {NoTxn}

LEMMA RowSettles ==
  ASSUME Types, RowSettled
  PROVE  /\ row'.t = row.t /\ Authority(row') = Authority(row)
         /\ (row' = NoRow <=> row = NoRow)
         /\ row' # row => row.phase = "prepared" /\ row'.phase = "aborted"
         /\ \A t : row' = [phase |-> "active", t |-> t] => row = row'
         /\ row'.phase = "none" <=> row.phase = "none"
BY None DEF Types, RowSettled, RowType, Authority, NoRow

LEMMA SeenOn ==
  ASSUME Types, LooksOn, row'.t = row.t, rt'.known \subseteq Seen
  PROVE  Read' \subseteq Read \union {NoTxn, row.t} /\ Seen' \subseteq Seen \union {NoTxn}
<1>1. Read' = {r.t : r \in LookRows'}
  BY DEF Read
<1>2. Read' \subseteq Read \union {NoTxn, row.t}
  BY <1>1, None DEF LooksOn, Read
<1> QED BY <1>2 DEF Seen

LEMMA HistoryKept ==
  ASSUME Types, History, LooksOn, ChallengerOn, fits' = fits,
         row'.t = row.t, row' = row \/ (row # NoRow /\ row'.phase # "none"),
         rt'.known \subseteq Seen \ {NoTxn}, holds' \in Txs \union {NoTxn},
         \A i \in ActiveItems' :
            \/ queue'[i].t \in rt.known
            \/ \E j \in ActiveItems : queue[j].t = queue'[i].t
  PROVE  History'
<1>1. Seen' \subseteq Seen \union {NoTxn}
  BY SeenOn
<1>2. Txs' \subseteq Txs \union {NoTxn}
  BY <1>1 DEF Txs, ChallengerOn
<1>3. \A t \in Txs \ {NoTxn} : t.cand # NoTxn.cand
  BY None DEF History, Ids, Types
<1>4. Ids'
  <2>1. ASSUME NEW t \in Txs', t # NoTxn
        PROVE  t.inc.id \in 0..fits' /\ t.cand.id \in 1..fits' /\ t.inc.id < t.cand.id
    BY <1>2, <2>1 DEF History, Ids
  <2>2. ASSUME NEW t \in Txs', NEW u \in Txs', t.cand = u.cand
        PROVE  t = u
    BY <1>2, <1>3, <2>2 DEF History, Ids
  <2>3. ASSUME NEW i \in ActiveItems'
        PROVE  queue'[i].t.cand.id <= fits'
    <3>1. CASE queue'[i].t \in rt.known
      <4>1. queue'[i].t \in Txs \ {NoTxn}
        BY <3>1 DEF History, Rows, Txs, Seen
      <4> QED BY <4>1 DEF History, Ids, Types
    <3>2. CASE \E j \in ActiveItems : queue[j].t = queue'[i].t
      BY <3>2 DEF History, Ids
    <3> QED BY <3>1, <3>2
  <2> QED BY <2>1, <2>2, <2>3 DEF Ids
<1>5. Rows'
  <2>1. row' = NoRow \/ (row'.phase # "none" /\ row'.t # NoTxn)
    BY DEF History, Rows
  <2>2. ASSUME NEW r \in LookRows'
        PROVE  r = NoRow \/ (r.phase # "none" /\ r.t # NoTxn)
    BY DEF LooksOn, History, Rows
  <2>3. ASSUME row' = NoRow
        PROVE  rt'.known = {} /\ LookRows' \subseteq {NoRow}
    <3>1. row = NoRow
      BY <2>3, None
    <3>2. Seen \subseteq {NoTxn}
      BY <3>1, None DEF Seen, Read, History, Rows
    <3> QED BY <3>1, <3>2 DEF LooksOn, History, Rows
  <2> QED BY <2>1, <2>2, <2>3 DEF Rows
<1>6. Past'
  BY <1>1 DEF History, Past
<1>7. Fresh'
  <2> SUFFICES ASSUME chal'.phase \in Open
               PROVE  /\ chal'.t # NoTxn /\ chal'.t \notin Seen'
                      /\ NoItem(chal.t)'
                      /\ \A u \in Seen' : u.inc # chal'.t.cand
    BY DEF Fresh, NoItem
  <2>1. /\ chal'.t = chal.t /\ chal.t # NoTxn /\ chal.t \notin Seen
        /\ NoItem(chal.t) /\ \A u \in Seen : u.inc # chal.t.cand
    BY DEF ChallengerOn, History, Fresh
  <2>2. chal.t.cand # NoPair
    BY <1>3, <2>1, None DEF Txs
  <2>a. chal.t \in Txs /\ chal.t.cand.id \in 1..fits
    BY <2>1 DEF Txs, History, Ids
  <2>3. NoItem(chal.t)'
    <3>1. ASSUME NEW i \in ActiveItems' PROVE queue'[i].t # chal'.t
      <4>1. CASE queue'[i].t \in rt.known
        BY <2>1, <4>1 DEF Seen
      <4>2. CASE \E j \in ActiveItems : queue[j].t = queue'[i].t
        BY <2>1, <4>2 DEF NoItem
      <4> QED BY <4>1, <4>2
    <3> QED BY <3>1 DEF NoItem
  <2>4. \A u \in Seen' : u.inc # chal'.t.cand
    BY <1>1, <2>1, <2>2, None
  <2> QED BY <1>1, <2>1, <2>3, <2>4
<1> QED BY <1>4, <1>5, <1>6, <1>7 DEF History

LEMMA QueueOn ==
  ASSUME Types, Types', QuietQueue
  PROVE  /\ \A i \in ActiveItems' : \E j \in ActiveItems : queue[j] = queue'[i]
         /\ \A i \in FlightItems' : \E j \in FlightItems : queue[j] = queue'[i]
         /\ (\A i, j \in FlightItems : i = j) => \A i, j \in FlightItems' : i = j
<1>1. PICK d \in {0, 1} : \A i \in DOMAIN queue' :
         \/ Harmless(queue'[i])
         \/ i + d \in DOMAIN queue /\ queue'[i] = queue[i + d]
  BY DEF QuietQueue
<1>2. ASSUME NEW i \in ActiveItems' PROVE \E j \in ActiveItems : queue[j] = queue'[i]
  BY <1>1 DEF ActiveItems, Harmless
<1>3. ASSUME NEW i \in FlightItems'
      PROVE  i + d \in FlightItems /\ queue[i + d] = queue'[i]
  BY <1>1 DEF FlightItems, Harmless
<1>4. FlightItems' \subseteq Int
  BY DEF FlightItems, Types
<1>5. ASSUME \A i, j \in FlightItems : i = j, NEW i \in FlightItems', NEW j \in FlightItems'
      PROVE  i = j
  BY <1>1, <1>3, <1>4, <1>5
<1> QED BY <1>2, <1>3, <1>5

\* The receipt of a transition in flight is only answered together with its item.
AnswersOn ==
  \/ receipt'["flight"] = receipt["flight"] \/ rt.flight = NoFlight
  \/ /\ receipt["flight"] = "waiting" /\ receipt'["flight"] = "lost" /\ queue' = <<>>
  \/ /\ receipt["flight"] = "waiting" /\ receipt'["flight"] = "durable"
     /\ rt.flight.phase # "active" /\ FlightItems' = {}

LEMMA AllowedStays ==
  ASSUME Types, Onward, NEW p, Allowed(p)
  PROVE  Allowed(p)'
<1>1. Authority(row') = Authority(row) /\ (row' = NoRow <=> row = NoRow)
  BY RowSettles DEF Onward
<1> QED BY <1>1 DEF Allowed, Onward

LEMMA NotYetStays ==
  ASSUME Types, Onward, NEW t, NotYet(t), t.cand # NoPair
  PROVE  NotYet(t)'
<1>1. Seen' \subseteq Seen \union {NoTxn}
  BY SeenOn, RowSettles DEF Onward
<1>2. row' # [phase |-> "active", t |-> t]
  BY RowSettles DEF Onward, NotYet
<1> QED BY <1>1, <1>2, None DEF NotYet

LEMMA PendingKept ==
  ASSUME Types, Types', History, Session, Onward, QuietQueue,
         rt'.flight = rt.flight, rt'.pending \in {rt.pending, NoTxn},
         rt'.pending # NoTxn => rt'.active # rt.pending.cand
  PROVE  Pending'
<1>1. rt.known \subseteq rt'.known
  BY DEF Onward
<1>2. \A t \in rt.known : t # NoTxn /\ t \in Txs /\ t.cand # NoPair
  <2>1. ASSUME NEW t \in rt.known PROVE t # NoTxn /\ t \in Txs /\ t.cand # NoPair
    <3>1. t # NoTxn /\ t \in Txs
      BY DEF History, Rows, Seen, Txs
    <3> QED BY <3>1, None DEF History, Ids
  <2> QED BY <2>1
<1>3. \A t : NoItem(t) => NoItem(t)'
  BY QueueOn DEF NoItem
<1> SUFFICES ASSUME rt'.pending # NoTxn
             PROVE  /\ rt'.pending \in rt'.known /\ rt'.flight = NoFlight
                    /\ NotYet(rt.pending)' /\ NoItem(rt.pending)'
                    /\ rt'.active # rt'.pending.cand
  BY DEF Pending, NotYet, NoItem
<1>4. /\ rt'.pending = rt.pending /\ rt.pending \in rt.known /\ rt.flight = NoFlight
      /\ NotYet(rt.pending) /\ NoItem(rt.pending)
  BY DEF Session, Pending
<1>5. PICK t : t = rt.pending
  OBVIOUS
<1>6. NotYet(t) /\ t.cand # NoPair /\ t = rt'.pending /\ NoItem(t)
  BY <1>2, <1>4, <1>5
<1>7. NotYet(t)' /\ NoItem(t)'
  BY <1>3, <1>6, NotYetStays
<1> QED BY <1>1, <1>4, <1>5, <1>6, <1>7 DEF NotYet, NoItem

LEMMA SessionKept ==
  ASSUME Types, Types', History, Session, Onward, QuietQueue, AnswersOn,
         rt'.flight = rt.flight, Pending',
         MayDrive', BackedUp',
         rt.flight.phase = "active" /\ receipt'["flight"] # "durable"
           /\ rt'.active = rt.flight.t.cand =>
              ~rt'.authorized /\ rt'.backup = rt.flight.t.inc,
         rt'.known = {} => /\ rt'.active = rt.active /\ rt'.backup = rt.backup
                           /\ rt'.pending \in {rt.pending, NoTxn}
  PROVE  Session'
<1>1. /\ in' = in /\ entered' = entered /\ LooksOn /\ RowSettled
      /\ rt.known \subseteq rt'.known /\ rt'.known \subseteq Seen \ {NoTxn}
  BY DEF Onward
<1>2. /\ row'.t = row.t /\ Authority(row') = Authority(row)
      /\ (row' = NoRow <=> row = NoRow)
      /\ row' # row => row.phase = "prepared" /\ row'.phase = "aborted"
  BY <1>1, RowSettles
<1>3. \A t \in rt.known : t # NoTxn /\ t \in Txs /\ t.cand # NoPair
  <2>1. ASSUME NEW t \in rt.known PROVE t # NoTxn /\ t \in Txs /\ t.cand # NoPair
    <3>1. t # NoTxn /\ t \in Txs
      BY DEF History, Rows, Seen, Txs
    <3> QED BY <3>1, None DEF History, Ids
  <2> QED BY <2>1
<1>5. ReadAllowed'
  <2> SUFFICES ASSUME NEW r \in LookRows', r.phase = "active" PROVE Allowed(r.t.cand)'
    BY DEF ReadAllowed, Allowed
  <2>1. CASE r \in LookRows
    BY <2>1, AllowedStays DEF Session, ReadAllowed
  <2>2. CASE r = row
    <3>1. row # NoRow /\ Authority(row) = row.t.cand
      BY <2>2, None DEF Authority
    <3> QED BY <2>2, <3>1, AllowedStays DEF Allowed
  <2> QED BY <1>1, <2>1, <2>2, None DEF LooksOn
<1>6. /\ \A i \in ActiveItems' : \E j \in ActiveItems : queue[j] = queue'[i]
      /\ \A i \in FlightItems' : \E j \in FlightItems : queue[j] = queue'[i]
      /\ (\A i, j \in FlightItems : i = j) => \A i, j \in FlightItems' : i = j
  BY QueueOn
<1>7. \A t : NoItem(t) => NoItem(t)'
  BY <1>6 DEF NoItem
<1>9. Flying'
  <2>1. ASSUME rt'.flight # NoFlight
        PROVE  /\ rt'.flight.t \in rt'.known /\ receipt'["flight"] # "none"
               /\ rt'.flight.phase # "none"
    BY <1>1, <2>1, None DEF Session, Flying, AnswersOn
  <2>2. ASSUME rt'.flight.phase = "active", receipt'["flight"] # "durable"
        PROVE  /\ NotYet(rt.flight.t)'
               /\ \A i \in ActiveItems' : queue'[i].t = rt'.flight.t =>
                     queue'[i].owner = "flight"
               /\ rt'.active = rt'.flight.t.cand =>
                     ~rt'.authorized /\ rt'.backup = rt'.flight.t.inc
    <3>1. receipt["flight"] # "durable"
      BY <2>2, None DEF AnswersOn
    <3>2. PICK t : t = rt.flight.t
      OBVIOUS
    <3>3. /\ NotYet(t)
          /\ \A i \in ActiveItems : queue[i].t = t => queue[i].owner = "flight"
      BY <2>2, <3>1, <3>2 DEF Session, Flying
    <3>4. t.cand # NoPair
      <4>1. rt.flight # NoFlight
        BY <2>2, None
      <4> QED BY <1>3, <3>2, <4>1 DEF Session, Flying
    <3>5. NotYet(t)'
      BY <3>3, <3>4, NotYetStays
    <3> QED BY <1>6, <2>2, <3>2, <3>3, <3>5 DEF NotYet
  <2>3. ASSUME rt'.flight.phase = "active", receipt'["flight"] = "durable"
        PROVE  Allowed(rt.flight.t.cand)'
    <3>1. receipt["flight"] = "durable"
      BY <2>3, None DEF AnswersOn
    <3>2. Allowed(rt.flight.t.cand)
      BY <2>3, <3>1 DEF Session, Flying
    <3>3. PICK p : p = rt.flight.t.cand
      OBVIOUS
    <3>4. Allowed(p)'
      BY <3>2, <3>3, AllowedStays
    <3> QED BY <3>3, <3>4 DEF Allowed
  <2> QED BY <2>1, <2>2, <2>3 DEF Flying, NotYet, Allowed
<1>10. Queued'
  <2>1. ASSUME NEW i \in FlightItems'
        PROVE  /\ rt'.flight # NoFlight /\ receipt'["flight"] = "waiting"
               /\ queue'[i].kind = rt'.flight.phase /\ queue'[i].t = rt'.flight.t
    <3>1. /\ rt.flight # NoFlight /\ receipt["flight"] = "waiting"
          /\ queue'[i].kind = rt.flight.phase /\ queue'[i].t = rt.flight.t
      BY <1>6 DEF Session, Queued
    <3>2. queue' # <<>> /\ FlightItems' # {}
      BY DEF FlightItems
    <3> QED BY <3>1, <3>2 DEF AnswersOn
  <2> QED BY <1>6, <2>1 DEF Session, Queued
<1>11. Left'
  <2> SUFFICES ASSUME in', NEW i \in ActiveItems',
                      row' = [phase |-> "prepared", t |-> queue'[i].t]
               PROVE  queue'[i].t \in rt'.known \/ Untouched'
    BY DEF Left
  <2>1. row' = row /\ row # NoRow /\ queue'[i].t = row.t
    BY <1>2, None
  <2>2. queue'[i].t \in rt.known \/ Untouched
    BY <1>1, <1>6, <2>1 DEF Session, Left
  <2>3. CASE Untouched
    <3>1. LookRows \subseteq {NoRow, row} /\ rt.known = {}
      BY <2>3 DEF Untouched
    <3>2. Seen \subseteq {NoTxn, row.t}
      BY <3>1, None DEF Seen, Read
    <3>3. rt'.known \subseteq {row.t}
      BY <1>1, <3>2
    <3>4. CASE rt'.known = {}
      BY <1>1, <2>1, <2>3, <3>4 DEF Untouched, LooksOn
    <3>5. CASE rt'.known # {}
      BY <2>1, <3>3, <3>5
    <3> QED BY <3>4, <3>5
  <2> QED BY <1>1, <2>2, <2>3
<1> QED BY <1>5, <1>9, <1>10, <1>11 DEF Session

-----------------------------------------------------------------------------
(* Steps that leave what drives as it is *)

Steady ==
  /\ rt'.flight = rt.flight /\ rt'.pending \in {rt.pending, NoTxn} /\ rt'.known = rt.known
  /\ rt'.active = rt.active /\ rt'.backup = rt.backup
  /\ rt'.authorized => rt.authorized

Preparing == {"queue", "lifecycle", "withdraw", "refused"}
LearnerOn ==
  /\ learner' = "queue" => learner = "queue"
  /\ learner' \in Preparing => learner \in Preparing

LEMMA LearningKept ==
  ASSUME Types, Types', History, Learning, Onward, QuietQueue, LearnerOn,
         learner' = "queue" => rt'.pending \in {rt.pending, NoTxn}
  PROVE  Learning'
<1>1. learner' \in Preparing => chal'.phase \notin Open
  BY DEF Learning, LearnerOn, Preparing, Onward, ChallengerOn
<1>2. ASSUME learner' = "queue"
      PROVE  /\ row'.t = holds' /\ holds' # NoTxn /\ holds' # rt'.pending
             /\ NotYet(holds)' /\ NoItem(holds)'
  <2>1. /\ row.t = holds /\ holds # NoTxn /\ holds # rt.pending
        /\ NotYet(holds) /\ NoItem(holds)
    BY <1>2 DEF Learning, LearnerOn
  <2>2. PICK t : t = holds
    OBVIOUS
  <2>3. t # NoTxn /\ t \in Txs /\ NotYet(t) /\ NoItem(t) /\ t = holds'
    BY <2>1, <2>2 DEF Txs, Onward
  <2>4. t.cand # NoPair
    BY <2>3, None DEF History, Ids
  <2>5. NotYet(t)'
    BY <2>3, <2>4, NotYetStays
  <2>6. NoItem(t)'
    BY <2>3, QueueOn DEF NoItem
  <2>7. row'.t = row.t
    BY RowSettles DEF Onward
  <2> QED BY <1>2, <2>1, <2>2, <2>3, <2>5, <2>6, <2>7 DEF NotYet, NoItem
<1> QED BY <1>1, <1>2 DEF Learning, Preparing

LEMMA SteadyInv ==
  ASSUME ActInv, Types', Onward, QuietQueue, AnswersOn, Steady, LearnerOn,
         saved' \in {saved, rt.active},
         in \/ UNCHANGED <<look, batch, dispatch, learner, rt>>
  PROVE  ActInv'
<1>1. Types /\ History /\ Session /\ Learning /\ Pairs /\ Outside
  BY DEF ActInv
<1>2. row'.t = row.t /\ (row' = row \/ (row # NoRow /\ row'.phase # "none"))
  BY <1>1, RowSettles, None DEF Onward
<1>3. History'
  <2>1. \A i \in ActiveItems' :
            \/ queue'[i].t \in rt.known
            \/ \E j \in ActiveItems : queue[j].t = queue'[i].t
    BY <1>1, QueueOn
  <2>2. holds' \in Txs \union {NoTxn}
    BY DEF Onward, Txs
  <2> QED BY <1>1, <1>2, <2>1, <2>2, HistoryKept DEF Onward
<1>4. Session'
  <2>1. MayDrive'
    BY <1>1, AllowedStays DEF Session, MayDrive, Driving, Steady, Onward
  <2>2. BackedUp'
    BY <1>1 DEF Session, BackedUp, Steady
  <2>3. Pending'
    <3>1. rt'.pending # NoTxn => rt'.active # rt.pending.cand
      BY <1>1 DEF Session, Pending, Steady
    <3> QED BY <1>1, <3>1, PendingKept DEF Steady
  <2>4. rt.flight.phase = "active" /\ receipt'["flight"] # "durable"
           /\ rt'.active = rt.flight.t.cand =>
              ~rt'.authorized /\ rt'.backup = rt.flight.t.inc
    BY <1>1, None DEF Session, Flying, Steady, AnswersOn
  <2> QED BY <1>1, <2>1, <2>2, <2>3, <2>4, SessionKept DEF Steady
<1>5. Learning'
  BY <1>1, LearningKept DEF Steady
<1>6. Pairs'
  BY <1>1, None DEF Pairs, Young, Steady, Onward
<1>7. Outside'
  BY <1>1 DEF Outside, Onward
<1> QED BY <1>3, <1>4, <1>5, <1>6, <1>7 DEF ActInv

\* The ways in which the rows that are read change.
LEMMA LooksSame ==
  ASSUME Types, UNCHANGED <<look, batch, dispatch>>
  PROVE  LooksOn /\ \E Ops : batch' \in Seq(Orders(Ops)) /\ dispatch' \in Seq(Orders(Ops))
BY DEF LooksOn, LookRows, Types

LEMMA LooksTaken ==
  ASSUME Types, UNCHANGED look, batch' = dispatch, dispatch' = <<>>
  PROVE  LooksOn /\ \E Ops : batch' \in Seq(Orders(Ops)) /\ dispatch' \in Seq(Orders(Ops))
<1>1. PICK Ops : batch \in Seq(Orders(Ops)) /\ dispatch \in Seq(Orders(Ops))
  BY DEF Types
<1>2. LooksOn
  BY DEF LooksOn, LookRows
<1> QED BY <1>1, <1>2, EmptySeq

LEMMA LooksTail ==
  ASSUME Types, UNCHANGED <<look, dispatch>>, batch # <<>>, batch' = Tail(batch)
  PROVE  LooksOn /\ \E Ops : batch' \in Seq(Orders(Ops)) /\ dispatch' \in Seq(Orders(Ops))
<1>1. PICK Ops : batch \in Seq(Orders(Ops)) /\ dispatch \in Seq(Orders(Ops))
  BY DEF Types
<1>2. batch' \in Seq(Orders(Ops))
  BY <1>1, HeadTailProperties
<1>3. \A i \in DOMAIN batch' : i + 1 \in DOMAIN batch /\ batch'[i] = batch[i + 1]
  BY <1>1
<1>4. LooksOn
  BY <1>3 DEF LooksOn, LookRows
<1> QED BY <1>1, <1>2, <1>4

LEMMA LooksAppend ==
  ASSUME Types, UNCHANGED batch, look' \in {look, NoRow}, NEW o, NEW r \in RowType,
         NEW g \in BOOLEAN, r \in LookRows \union {NoRow}, o = "restore" => r # NoRow,
         dispatch' = Append(dispatch, [op |-> o, row |-> r, gone |-> g])
  PROVE  LooksOn /\ \E Ops : batch' \in Seq(Orders(Ops)) /\ dispatch' \in Seq(Orders(Ops))
<1>1. PICK Ops : batch \in Seq(Orders(Ops)) /\ dispatch \in Seq(Orders(Ops))
  BY DEF Types
<1> DEFINE more == Ops \union {o}
           d == [op |-> o, row |-> r, gone |-> g]
<1>2. Orders(Ops) \subseteq Orders(more) /\ d \in Orders(more) /\ d.row = r
  BY DEF Orders
<1>3. batch \in Seq(Orders(more)) /\ dispatch \in Seq(Orders(more))
  BY <1>1, <1>2, SeqMonotonic
<1> HIDE DEF more, d
<1>4. /\ dispatch' \in Seq(Orders(more))
      /\ \A i \in DOMAIN dispatch' : dispatch'[i] = d \/ (i \in DOMAIN dispatch /\ dispatch'[i] = dispatch[i])
  <2>1. dispatch' = Append(dispatch, d)
    BY DEF d
  <2> QED BY <1>2, <1>3, <2>1, AppendProperties
<1>5. \A x \in LookRows' : x \in LookRows \/ x \in {NoRow, r}
  BY <1>2, <1>4 DEF LookRows
<1>6. LooksOn
  BY <1>5 DEF LooksOn
<1> QED BY <1>3, <1>4, <1>6

LEMMA LooksRead ==
  ASSUME Types, UNCHANGED <<batch, dispatch>>, look' = row
  PROVE  LooksOn /\ \E Ops : batch' \in Seq(Orders(Ops)) /\ dispatch' \in Seq(Orders(Ops))
BY DEF LooksOn, LookRows, Types

\* The ways in which the queue does.
LEMMA QueueSame ==
  ASSUME Types, UNCHANGED queue
  PROVE  QuietQueue
<1>1. \A i \in DOMAIN queue' : i + 0 \in DOMAIN queue /\ queue'[i] = queue[i + 0]
  BY DEF Types
<1> QED BY <1>1 DEF QuietQueue

LEMMA QueueTail ==
  ASSUME Types, queue # <<>>, queue' = Tail(queue)
  PROVE  QuietQueue /\ queue' \in Seq(Items)
<1>1. queue' \in Seq(Items)
  BY HeadTailProperties DEF Types
<1>2. \A i \in DOMAIN queue' : i + 1 \in DOMAIN queue /\ queue'[i] = queue[i + 1]
  BY DEF Types
<1> QED BY <1>1, <1>2 DEF QuietQueue

LEMMA WorkIs ==
  ASSUME NEW k \in {"active", "aborted", "confident", "blocked"}, NEW t \in Txn,
         NEW o \in Owners \union {"none"}, k = "active" => o \in {"flight", "none"}
  PROVE  /\ Work(k, t, o) \in Items /\ <<Work(k, t, o)>> \in Seq(Items)
         /\ Work(k, t, o).kind = k /\ Work(k, t, o).t = t /\ Work(k, t, o).owner = o
BY DEF Work, Items

LEMMA SendIs ==
  ASSUME Types, NEW items \in Seq(Items), NEW done, Send(items, done)
  PROVE  /\ queue' \in Seq(Items)
         /\ receipt' \in [Owners -> {"none", "waiting", "durable", "lost"}]
         /\ \A i \in DOMAIN queue' :
               \/ i \in DOMAIN queue /\ queue'[i] = queue[i]
               \/ /\ i \notin DOMAIN queue /\ i - Len(queue) \in DOMAIN items
                  /\ queue'[i] = items[i - Len(queue)]
         /\ (\A j \in DOMAIN items : items[j].owner # "flight") =>
              receipt'["flight"] = IF "flight" \in done THEN "none" ELSE receipt["flight"]
         /\ (\E j \in DOMAIN items : items[j].owner = "flight") =>
              receipt'["flight"] = "waiting"
<1>1. /\ queue' = queue \o items
      /\ receipt' = [o \in Owners |-> IF \E i \in DOMAIN items : items[i].owner = o
                                      THEN "waiting"
                                      ELSE IF o \in done THEN "none" ELSE receipt[o]]
  BY DEF Send
<1>2. "flight" \in Owners
  BY DEF Owners
<1>3. receipt' \in [Owners -> {"none", "waiting", "durable", "lost"}]
  BY <1>1 DEF Types
<1>4. queue' \in Seq(Items) /\ Len(queue') = Len(queue) + Len(items)
  BY <1>1, ConcatProperties DEF Types
<1>5. \A i \in 1..Len(queue) + Len(items) :
         queue'[i] = IF i <= Len(queue) THEN queue[i] ELSE items[i - Len(queue)]
  BY <1>1, ConcatProperties DEF Types
<1>6. /\ DOMAIN queue' = 1..Len(queue) + Len(items) /\ DOMAIN queue = 1..Len(queue)
      /\ DOMAIN items = 1..Len(items) /\ Len(queue) \in Nat /\ Len(items) \in Nat
  BY <1>4 DEF Types
<1>7. ASSUME NEW i \in DOMAIN queue'
      PROVE  \/ i \in DOMAIN queue /\ queue'[i] = queue[i]
             \/ /\ i \notin DOMAIN queue /\ i - Len(queue) \in DOMAIN items
                /\ queue'[i] = items[i - Len(queue)]
  BY <1>5, <1>6
<1>8. receipt'["flight"] = IF \E i \in DOMAIN items : items[i].owner = "flight"
                           THEN "waiting"
                           ELSE IF "flight" \in done THEN "none" ELSE receipt["flight"]
  BY <1>1, <1>2
<1> QED BY <1>3, <1>4, <1>7, <1>8

LEMMA SendQuiet ==
  ASSUME Types, NEW items \in Seq(Items), NEW done, Send(items, done),
         \A j \in DOMAIN items : Harmless(items[j])
  PROVE  QuietQueue /\ ("flight" \notin done => receipt'["flight"] = receipt["flight"])
<1>1. \A i \in DOMAIN queue' :
         Harmless(queue'[i]) \/ (i + 0 \in DOMAIN queue /\ queue'[i] = queue[i + 0])
  BY SendIs DEF Types
<1> QED BY <1>1, SendIs DEF QuietQueue, Harmless

LEMMA AbandonedIs ==
  ASSUME Types, NEW gone
  PROVE  /\ Abandoned(queue, gone) \in Seq(Items)
         /\ DOMAIN Abandoned(queue, gone) = DOMAIN queue
         /\ \A i \in DOMAIN queue :
               /\ Abandoned(queue, gone)[i].kind = queue[i].kind
               /\ Abandoned(queue, gone)[i].t = queue[i].t
               /\ queue[i].owner \notin gone => Abandoned(queue, gone)[i] = queue[i]
               /\ queue[i].owner \in gone => Abandoned(queue, gone)[i].owner = "none"
<1> DEFINE q == Abandoned(queue, gone)
<1>1. q = [i \in 1..Len(queue) |-> IF queue[i].owner \in gone
                                   THEN [queue[i] EXCEPT !.owner = "none"] ELSE queue[i]]
  BY DEF Abandoned, Types
<1>2. /\ \A i \in 1..Len(queue) : queue[i] \in Items
      /\ Len(queue) \in Nat /\ DOMAIN queue = 1..Len(queue)
  BY DEF Types
<1>3. ASSUME NEW i \in 1..Len(queue)
      PROVE  /\ q[i] \in Items /\ q[i].kind = queue[i].kind /\ q[i].t = queue[i].t
             /\ queue[i].owner \notin gone => q[i] = queue[i]
             /\ queue[i].owner \in gone => q[i].owner = "none"
  BY <1>1, <1>2 DEF Items
<1>4. q \in Seq(Items) /\ DOMAIN q = 1..Len(queue)
  <2>1. q \in [1..Len(queue) -> Items]
    BY <1>1, <1>3
  <2> QED BY <1>2, <2>1
<1> QED BY <1>2, <1>3, <1>4

LEMMA ForgetQuiet ==
  ASSUME Types, NEW owner \in {"learner", "restore"}, Forget(owner)
  PROVE  /\ QuietQueue /\ queue' \in Seq(Items) /\ receipt'["flight"] = receipt["flight"]
         /\ receipt' \in [Owners -> {"none", "waiting", "durable", "lost"}]
<1>1. queue' = Abandoned(queue, {owner}) /\ receipt' = [receipt EXCEPT ![owner] = "none"]
  BY DEF Forget
<1>2. \A i \in DOMAIN queue : queue[i] \in Items
  BY DEF Types
<1>3. ASSUME NEW i \in DOMAIN queue'
      PROVE  Harmless(queue'[i]) \/ (i + 0 \in DOMAIN queue /\ queue'[i] = queue[i + 0])
  <2>1. i \in DOMAIN queue /\ i \in Nat
    BY <1>1, AbandonedIs DEF Types
  <2>2. CASE queue[i].owner = owner
    <3>1. queue[i].kind # "active"
      BY <1>2, <2>1, <2>2 DEF Items
    <3> QED BY <1>1, <2>1, <2>2, <3>1, AbandonedIs DEF Harmless
  <2>3. CASE queue[i].owner # owner
    BY <1>1, <2>1, <2>3, AbandonedIs
  <2> QED BY <2>2, <2>3
<1>4. /\ receipt'["flight"] = receipt["flight"]
      /\ receipt' \in [Owners -> {"none", "waiting", "durable", "lost"}]
  BY <1>1 DEF Types, Owners
<1> QED BY <1>1, <1>3, <1>4, AbandonedIs DEF QuietQueue

-----------------------------------------------------------------------------
(* The steps that leave what drives as it is *)

\* What such a step leaves alone altogether.
Alone == UNCHANGED <<fits, in, entered, holds>>

LEMMA AloneOn ==
  ASSUME ActInv, Alone, LooksOn, RowSettled, ChallengerOn, rt'.known = rt.known
  PROVE  Onward
BY DEF ActInv, History, Rows, Alone, Onward, Seen

LEMMA SameRuntime == ActInv /\ UNCHANGED rt => Steady /\ rt' \in Runtimes(rt'.events)
BY DEF ActInv, Types, Steady

LEMMA SameChallenger == ActInv /\ UNCHANGED chal => ChallengerOn /\ chal' \in ChalType
BY DEF ActInv, Types, ChallengerOn

LEMMA SameRow == ActInv /\ UNCHANGED row => RowSettled /\ row' \in RowType
BY DEF ActInv, Types, RowSettled

LEMMA ReviewedOn ==
  ASSUME ActInv, NEW p, chal' = Reviewed(chal, p)
  PROVE  ChallengerOn /\ chal' \in ChalType
BY DEF ActInv, Types, ChallengerOn, Reviewed, ChalType, Open

LEMMA TakeDispatchesInv == ActInv /\ TakeDispatches => ActInv'
<1> SUFFICES ASSUME ActInv, TakeDispatches PROVE ActInv'
  OBVIOUS
<1>1. /\ UNCHANGED <<row, chal, saved, queue, receipt, rt, look, learner>> /\ Alone /\ in
      /\ batch' = dispatch /\ dispatch' = <<>>
  BY DEF TakeDispatches, durable, worker, learning, hold, session, Alone
<1>2. LooksOn /\ \E Ops : batch' \in Seq(Orders(Ops)) /\ dispatch' \in Seq(Orders(Ops))
  BY <1>1, LooksTaken DEF ActInv
<1>3. Types'
  BY <1>1, <1>2 DEF ActInv, Types, Alone
<1>4. Onward /\ Steady
  BY <1>1, <1>2, AloneOn, SameRuntime, SameChallenger, SameRow
<1>5. QuietQueue /\ AnswersOn /\ LearnerOn
  BY <1>1, QueueSame DEF ActInv, AnswersOn, LearnerOn
<1> QED BY <1>1, <1>3, <1>4, <1>5, SteadyInv

LEMMA RestoreKnownInv == ActInv /\ RestoreKnown => ActInv'
<1> SUFFICES ASSUME ActInv, RestoreKnown PROVE ActInv'
  OBVIOUS
<1>1. /\ UNCHANGED <<row, saved, queue, receipt, rt, look, dispatch, learner>> /\ Alone /\ in
      /\ batch # <<>> /\ batch' = Tail(batch)
      /\ chal' = chal \/ chal' = Reviewed(chal, rt.active)
  BY DEF RestoreKnown, OutsideRuntime, Synchronize, NotSynchronized, hold, session, Alone
<1>2. LooksOn /\ \E Ops : batch' \in Seq(Orders(Ops)) /\ dispatch' \in Seq(Orders(Ops))
  BY <1>1, LooksTail DEF ActInv
<1>3. ChallengerOn /\ chal' \in ChalType
  BY <1>1, SameChallenger, ReviewedOn
<1>4. Types'
  BY <1>1, <1>2, <1>3 DEF ActInv, Types, Alone
<1>5. Onward /\ Steady
  BY <1>1, <1>2, <1>3, AloneOn, SameRuntime, SameRow
<1>6. QuietQueue /\ AnswersOn /\ LearnerOn
  BY <1>1, QueueSame DEF ActInv, AnswersOn, LearnerOn
<1> QED BY <1>1, <1>4, <1>5, <1>6, SteadyInv

LEMMA SolveInv == ActInv /\ Solve => ActInv'
<1> SUFFICES ASSUME ActInv, Solve PROVE ActInv'
  OBVIOUS
<1>1. /\ UNCHANGED <<row, chal, queue, receipt, rt, look, batch, dispatch, learner>>
      /\ Alone /\ in /\ saved' \in {saved, rt.active}
  BY DEF Solve, worker, learning, hold, session, Alone
<1>2. LooksOn /\ \E Ops : batch' \in Seq(Orders(Ops)) /\ dispatch' \in Seq(Orders(Ops))
  BY <1>1, LooksSame DEF ActInv
<1>3. Types'
  BY <1>1, <1>2 DEF ActInv, Types, Alone, Runtimes
<1>4. Onward /\ Steady
  BY <1>1, <1>2, AloneOn, SameRuntime, SameChallenger, SameRow
<1>5. QuietQueue /\ AnswersOn /\ LearnerOn
  BY <1>1, QueueSame DEF ActInv, AnswersOn, LearnerOn
<1> QED BY <1>1, <1>3, <1>4, <1>5, SteadyInv

LEMMA MissDeadlinesInv == ActInv /\ MissDeadlines => ActInv'
<1> SUFFICES ASSUME ActInv, MissDeadlines PROVE ActInv'
  OBVIOUS
<1>1. /\ UNCHANGED <<row, chal, saved, queue, receipt, rt, look, batch, learner>>
      /\ Alone /\ in
      /\ dispatch' = Append(dispatch, [op |-> "fallback", row |-> NoRow, gone |-> FALSE])
  BY DEF MissDeadlines, durable, worker, learning, hold, session, Alone
<1>2. LooksOn /\ \E Ops : batch' \in Seq(Orders(Ops)) /\ dispatch' \in Seq(Orders(Ops))
  <2>1. /\ NoRow \in RowType /\ NoRow \in LookRows \union {NoRow} /\ FALSE \in BOOLEAN
        /\ "fallback" = "restore" => NoRow # NoRow
        /\ Types /\ UNCHANGED batch /\ look' \in {look, NoRow}
    BY <1>1, None DEF ActInv
  <2> QED BY <1>1, <2>1, LooksAppend
<1>3. Types'
  BY <1>1, <1>2 DEF ActInv, Types, Alone
<1>4. Onward /\ Steady
  BY <1>1, <1>2, AloneOn, SameRuntime, SameChallenger, SameRow
<1>5. QuietQueue /\ AnswersOn /\ LearnerOn
  BY <1>1, QueueSame DEF ActInv, AnswersOn, LearnerOn
<1> QED BY <1>1, <1>3, <1>4, <1>5, SteadyInv

LEMMA ReadRowInv == ActInv /\ ReadRow => ActInv'
<1> SUFFICES ASSUME ActInv, ReadRow PROVE ActInv'
  OBVIOUS
<1>1. /\ UNCHANGED <<row, chal, saved, queue, receipt, rt, batch, dispatch, learner>>
      /\ Alone /\ in /\ look' = row
  BY DEF ReadRow, HoldFrame, durable, learning, session, Alone
<1>2. LooksOn /\ \E Ops : batch' \in Seq(Orders(Ops)) /\ dispatch' \in Seq(Orders(Ops))
  BY <1>1, LooksRead DEF ActInv
<1>3. Types'
  BY <1>1, <1>2 DEF ActInv, Types, Alone
<1>4. Onward /\ Steady
  BY <1>1, <1>2, AloneOn, SameRuntime, SameChallenger, SameRow
<1>5. QuietQueue /\ AnswersOn /\ LearnerOn
  BY <1>1, QueueSame DEF ActInv, AnswersOn, LearnerOn
<1> QED BY <1>1, <1>3, <1>4, <1>5, SteadyInv

LEMMA ReconcileInv == ActInv /\ Reconcile => ActInv'
<1> SUFFICES ASSUME ActInv, Reconcile PROVE ActInv'
  OBVIOUS
<1>1. /\ UNCHANGED <<row, chal, saved, queue, receipt, rt, batch, learner>>
      /\ Alone /\ in /\ look # NoRow /\ look' = NoRow
      /\ \/ UNCHANGED dispatch
         \/ \E o : \E g \in BOOLEAN :
              dispatch' = Append(dispatch, [op |-> o, row |-> look, gone |-> g])
  <2> DEFINE life == LastOf(look.t.cand)
  <2>1. \/ UNCHANGED dispatch
        \/ dispatch' = Append(dispatch,
                         [op |-> IF look # seen THEN "restore" ELSE life, row |-> look,
                          gone |-> life # "none"])
    BY DEF Reconcile
  <2> HIDE DEF life
  <2>2. /\ UNCHANGED <<row, chal, saved, queue, receipt, rt, batch, learner>>
        /\ Alone /\ in /\ look # NoRow /\ look' = NoRow
    BY DEF Reconcile, HoldFrame, durable, learning, session, Alone
  <2>3. (life # "none") \in BOOLEAN
    OBVIOUS
  <2> QED BY <2>1, <2>2, <2>3
<1>2. LooksOn /\ \E Ops : batch' \in Seq(Orders(Ops)) /\ dispatch' \in Seq(Orders(Ops))
  <2>1. CASE UNCHANGED dispatch
    <3>1. LooksOn
      BY <1>1, <2>1 DEF LooksOn, LookRows
    <3> QED BY <1>1, <2>1, <3>1 DEF ActInv, Types
  <2>2. CASE \E o : \E g \in BOOLEAN :
               dispatch' = Append(dispatch, [op |-> o, row |-> look, gone |-> g])
    <3>1. PICK o : \E g \in BOOLEAN :
             dispatch' = Append(dispatch, [op |-> o, row |-> look, gone |-> g])
      BY <2>2
    <3>2. PICK g \in BOOLEAN :
             dispatch' = Append(dispatch, [op |-> o, row |-> look, gone |-> g])
      BY <3>1
    <3>3. /\ look \in RowType /\ look \in LookRows \union {NoRow}
          /\ o = "restore" => look # NoRow
          /\ Types /\ UNCHANGED batch /\ look' \in {look, NoRow}
      BY <1>1 DEF ActInv, Types, LookRows
    <3> QED BY <3>2, <3>3, LooksAppend
  <2> QED BY <1>1, <2>1, <2>2
<1>3. Types'
  BY <1>1, <1>2, None DEF ActInv, Types, Alone
<1>4. Onward /\ Steady
  BY <1>1, <1>2, AloneOn, SameRuntime, SameChallenger, SameRow
<1>5. QuietQueue /\ AnswersOn /\ LearnerOn
  BY <1>1, QueueSame DEF ActInv, AnswersOn, LearnerOn
<1> QED BY <1>1, <1>3, <1>4, <1>5, SteadyInv

LEMMA DrainEventsInv == ActInv /\ DrainEvents => ActInv'
<1> SUFFICES ASSUME ActInv, DrainEvents PROVE ActInv'
  OBVIOUS
<1>1. /\ UNCHANGED <<row, chal, saved, queue, receipt, look, batch, dispatch, learner>>
      /\ Alone /\ in /\ rt' = [rt EXCEPT !.events = <<>>]
  BY DEF DrainEvents, HoldFrame, durable, learning, session, hold, Alone
<1>2. LooksOn /\ \E Ops : batch' \in Seq(Orders(Ops)) /\ dispatch' \in Seq(Orders(Ops))
  BY <1>1, LooksSame DEF ActInv
<1>3. rt' \in Runtimes(<<>>) /\ rt'.events = <<>> /\ Steady
  BY <1>1 DEF ActInv, Types, Runtimes, Steady
<1>4. Types'
  BY <1>1, <1>2, <1>3 DEF ActInv, Types, Alone
<1>5. Onward
  BY <1>1, <1>2, <1>3, AloneOn, SameChallenger, SameRow DEF Steady
<1>6. QuietQueue /\ AnswersOn /\ LearnerOn
  BY <1>1, QueueSame DEF ActInv, AnswersOn, LearnerOn
<1> QED BY <1>1, <1>3, <1>4, <1>5, <1>6, SteadyInv

LEMMA RollbackInv == ActInv /\ Rollback => ActInv'
<1> SUFFICES ASSUME ActInv, Rollback PROVE ActInv'
  OBVIOUS
<1>1. /\ UNCHANGED <<row, chal, saved, queue, receipt, rt, look, batch, dispatch, learner>>
      /\ Alone
  BY DEF Rollback, worker, solver, learning, session, hold, Alone
<1>2. LooksOn /\ \E Ops : batch' \in Seq(Orders(Ops)) /\ dispatch' \in Seq(Orders(Ops))
  BY <1>1, LooksSame DEF ActInv
<1>3. Types'
  BY <1>1, <1>2 DEF ActInv, Types, Alone
<1>4. Onward /\ Steady
  BY <1>1, <1>2, AloneOn, SameRuntime, SameChallenger, SameRow
<1>5. QuietQueue /\ AnswersOn /\ LearnerOn
  BY <1>1, QueueSame DEF ActInv, AnswersOn, LearnerOn
<1> QED BY <1>1, <1>3, <1>4, <1>5, SteadyInv

LEMMA WriteReportInv == ActInv /\ WriteReport => ActInv'
<1> SUFFICES ASSUME ActInv, WriteReport PROVE ActInv'
  OBVIOUS
<1>1. /\ UNCHANGED <<row, chal, saved, queue, receipt, rt, look, batch, dispatch, learner>>
      /\ Alone
  BY DEF WriteReport, WorkerFrame, solver, learning, session, hold, Alone
<1>2. LooksOn /\ \E Ops : batch' \in Seq(Orders(Ops)) /\ dispatch' \in Seq(Orders(Ops))
  BY <1>1, LooksSame DEF ActInv
<1>3. Types'
  BY <1>1, <1>2 DEF ActInv, Types, Alone
<1>4. Onward /\ Steady
  BY <1>1, <1>2, AloneOn, SameRuntime, SameChallenger, SameRow
<1>5. QuietQueue /\ AnswersOn /\ LearnerOn
  BY <1>1, QueueSame DEF ActInv, AnswersOn, LearnerOn
<1> QED BY <1>1, <1>3, <1>4, <1>5, SteadyInv

LEMMA FailWriteInv == ActInv /\ FailWrite => ActInv'
<1> SUFFICES ASSUME ActInv, FailWrite PROVE ActInv'
  OBVIOUS
<1>1. /\ UNCHANGED <<row, chal, saved, rt, look, batch, dispatch, learner>> /\ Alone
      /\ queue' = <<>> /\ receipt' = Told("lost", queue)
  BY DEF FailWrite, WorkerFrame, solver, learning, session, hold, Alone
<1>2. LooksOn /\ \E Ops : batch' \in Seq(Orders(Ops)) /\ dispatch' \in Seq(Orders(Ops))
  BY <1>1, LooksSame DEF ActInv
<1>3. /\ receipt' \in [Owners -> {"none", "waiting", "durable", "lost"}]
      /\ receipt'["flight"] = IF \E i \in DOMAIN queue : queue[i].owner = "flight"
                              THEN "lost" ELSE receipt["flight"]
  BY <1>1 DEF Told, ActInv, Types, Owners
<1>4. Types'
  BY <1>1, <1>2, <1>3, EmptySeq DEF ActInv, Types, Alone
<1>5. Onward /\ Steady
  BY <1>1, <1>2, AloneOn, SameRuntime, SameChallenger, SameRow
<1>6. QuietQueue /\ LearnerOn
  BY <1>1 DEF QuietQueue, LearnerOn
<1>7. AnswersOn
  BY <1>1, <1>3 DEF ActInv, Session, Queued, FlightItems, AnswersOn
<1> QED BY <1>1, <1>4, <1>5, <1>6, <1>7, SteadyInv

LEMMA JudgeInv == ActInv /\ Judge => ActInv'
<1> SUFFICES ASSUME ActInv, Judge PROVE ActInv'
  OBVIOUS
<1>1. PICK phase \in {"retired", "evaluating", "qualified"} :
         /\ chal' = [chal EXCEPT !.phase = phase]
         /\ LET work == Work(IF phase = "qualified" THEN "confident" ELSE "blocked",
                             holds, "learner")
            IN  \E ok \in Answers :
                  /\ Charge(Cost(ok))
                  /\ Send(IF ok THEN <<work>> ELSE <<>>, {})
                  /\ learner' = IF ok THEN "confidence" ELSE "idle"
  BY DEF Judge
<1> DEFINE kind == IF phase = "qualified" THEN "confident" ELSE "blocked"
           work == Work(kind, holds, "learner")
<1>2. PICK ok \in Answers : /\ Send(IF ok THEN <<work>> ELSE <<>>, {})
                            /\ learner' = IF ok THEN "confidence" ELSE "idle"
  BY <1>1
<1>3. /\ UNCHANGED <<row, saved, rt, look, batch, dispatch>> /\ Alone /\ in
      /\ chal.phase = "evaluating" /\ learner' \in {"confidence", "idle"}
  BY <1>2 DEF Judge, LearnerFrame, solver, hold, session, Alone
<1>4. /\ Types /\ work \in Items /\ <<work>> \in Seq(Items)
      /\ work.kind # "active" /\ work.owner # "flight"
  <2>1. kind \in {"confident", "blocked"} /\ "learner" \in Owners /\ holds \in Txn
    BY DEF Owners, ActInv, Types
  <2>2. Types
    BY DEF ActInv
  <2> HIDE DEF kind
  <2> QED BY <2>1, <2>2, WorkIs
<1> HIDE DEF work, kind
<1>5. QuietQueue /\ receipt'["flight"] = receipt["flight"] /\ queue' \in Seq(Items)
      /\ receipt' \in [Owners -> {"none", "waiting", "durable", "lost"}]
  <2> DEFINE items == IF ok THEN <<work>> ELSE <<>>
  <2>1. items \in Seq(Items) /\ \A j \in DOMAIN items : Harmless(items[j])
    BY <1>4, EmptySeq DEF Harmless
  <2>2. Send(items, {}) /\ "flight" \notin {}
    BY <1>2
  <2> HIDE DEF items
  <2> QED BY <1>4, <2>1, <2>2, SendIs, SendQuiet
<1>6. LooksOn /\ \E Ops : batch' \in Seq(Orders(Ops)) /\ dispatch' \in Seq(Orders(Ops))
  BY <1>3, LooksSame DEF ActInv
<1>7. ChallengerOn /\ chal' \in ChalType
  BY <1>1, <1>3 DEF ActInv, Types, ChalType, ChallengerOn, Open
<1>8. Types'
  BY <1>3, <1>5, <1>6, <1>7 DEF ActInv, Types, Alone
<1>9. Onward /\ Steady
  BY <1>3, <1>6, <1>7, AloneOn, SameRuntime, SameRow
<1>10. AnswersOn /\ LearnerOn
  BY <1>3, <1>5 DEF AnswersOn, LearnerOn, Preparing
<1> QED BY <1>3, <1>5, <1>8, <1>9, <1>10, SteadyInv

LEMMA AwaitConfidenceInv == ActInv /\ AwaitConfidence => ActInv'
<1> SUFFICES ASSUME ActInv, AwaitConfidence PROVE ActInv'
  OBVIOUS
<1>1. /\ UNCHANGED <<row, chal, saved, rt, look, batch, dispatch>> /\ Alone /\ in
      /\ Forget("learner") /\ learner' \in {"prepare", "idle"}
  BY DEF AwaitConfidence, LearnerFrame, solver, hold, session, Alone
<1>2. LooksOn /\ \E Ops : batch' \in Seq(Orders(Ops)) /\ dispatch' \in Seq(Orders(Ops))
  BY <1>1, LooksSame DEF ActInv
<1>3. QuietQueue /\ receipt'["flight"] = receipt["flight"] /\ queue' \in Seq(Items)
      /\ receipt' \in [Owners -> {"none", "waiting", "durable", "lost"}]
  BY <1>1, ForgetQuiet DEF ActInv
<1>4. Types'
  BY <1>1, <1>2, <1>3 DEF ActInv, Types, Alone
<1>5. Onward /\ Steady
  BY <1>1, <1>2, AloneOn, SameRuntime, SameChallenger, SameRow
<1>6. AnswersOn /\ LearnerOn
  BY <1>1, <1>3 DEF AnswersOn, LearnerOn, Preparing
<1> QED BY <1>1, <1>3, <1>4, <1>5, <1>6, SteadyInv

LEMMA AbortRowOn ==
  ASSUME ActInv, AbortRow \/ UNCHANGED <<row, chal>>
  PROVE  RowSettled /\ row' \in RowType /\ ChallengerOn /\ chal' \in ChalType
<1>1. CASE UNCHANGED <<row, chal>>
  BY <1>1, SameRow, SameChallenger
<1>2. CASE /\ row.phase = "prepared" /\ row' = [row EXCEPT !.phase = "aborted"]
           /\ chal' = [chal EXCEPT !.phase = "retired"]
  BY <1>2 DEF ActInv, Types, RowType, ChalType, RowSettled, ChallengerOn, Open
<1>3. AbortRow => \/ UNCHANGED <<row, chal>>
                  \/ /\ row.phase = "prepared" /\ row' = [row EXCEPT !.phase = "aborted"]
                     /\ chal' = [chal EXCEPT !.phase = "retired"]
  BY DEF AbortRow
<1> QED BY <1>1, <1>2, <1>3

LEMMA SettledRowInv ==
  ASSUME ActInv, Refused \/ RecordPrepared
  PROVE  ActInv'
<1>1. /\ UNCHANGED <<queue, receipt, saved, rt, look, batch, dispatch>> /\ Alone /\ in
      /\ learner \in Preparing /\ learner' \in {"withdraw", "idle"}
      /\ AbortRow \/ UNCHANGED <<row, chal>>
  BY DEF Refused, RecordPrepared, LearnerFrame, solver, hold, session, Alone, Preparing
<1>2. LooksOn /\ \E Ops : batch' \in Seq(Orders(Ops)) /\ dispatch' \in Seq(Orders(Ops))
  BY <1>1, LooksSame DEF ActInv
<1>3. RowSettled /\ row' \in RowType /\ ChallengerOn /\ chal' \in ChalType
  BY <1>1, AbortRowOn
<1>4. Types'
  BY <1>1, <1>2, <1>3 DEF ActInv, Types, Alone
<1>5. Onward /\ Steady
  BY <1>1, <1>2, <1>3, AloneOn, SameRuntime
<1>6. QuietQueue /\ AnswersOn /\ LearnerOn
  BY <1>1, QueueSame DEF ActInv, AnswersOn, LearnerOn, Preparing
<1> QED BY <1>1, <1>4, <1>5, <1>6, SteadyInv

LEMMA WithdrawInv == ActInv /\ Withdraw => ActInv'
<1> SUFFICES ASSUME ActInv, Withdraw PROVE ActInv'
  OBVIOUS
<1>1. /\ UNCHANGED <<row, chal, saved, look, batch, dispatch>> /\ Alone /\ in
      /\ learner' \in {"aborting", "idle"}
  BY DEF Withdraw, LearnerFrame, solver, hold, session, Alone
<1>2. \/ UNCHANGED <<rt, queue, receipt>>
      \/ /\ rt' = [rt EXCEPT !.pending = NoTxn, !.abort = holds,
                             !.failedRoles = @ \union {holds.cand.role}]
         /\ queue' \in {queue, Append(queue, Work("aborted", holds, "abort"))}
         /\ \E w \in {"waiting", "none"} : receipt' = [receipt EXCEPT !["abort"] = w]
  <2>1. CASE rt.pending = holds
    <3>1. PICK ok \in Answers :
             /\ queue' = IF ok THEN Append(queue, Work("aborted", holds, "abort")) ELSE queue
             /\ receipt' = [receipt EXCEPT !["abort"] = IF ok THEN "waiting" ELSE "none"]
      BY <2>1 DEF Withdraw
    <3>2. rt' = [rt EXCEPT !.pending = NoTxn, !.abort = holds,
                           !.failedRoles = @ \union {holds.cand.role}]
      BY <2>1 DEF Withdraw
    <3> QED BY <3>1, <3>2
  <2>2. CASE rt.pending # holds
    BY <2>2 DEF Withdraw
  <2> QED BY <2>1, <2>2
<1>3. LooksOn /\ \E Ops : batch' \in Seq(Orders(Ops)) /\ dispatch' \in Seq(Orders(Ops))
  BY <1>1, LooksSame DEF ActInv
<1>4. QuietQueue /\ queue' \in Seq(Items)
  <2>1. CASE queue' = queue
    BY <2>1, QueueSame DEF ActInv, Types
  <2>2. CASE queue' = Append(queue, Work("aborted", holds, "abort"))
    <3> DEFINE w == Work("aborted", holds, "abort")
    <3>1. w \in Items /\ w.owner = "abort" /\ w.kind = "aborted"
      BY WorkIs DEF ActInv, Types, Owners
    <3> HIDE DEF w
    <3>2. queue \in Seq(Items)
      BY DEF ActInv, Types
    <3>3. queue' = Append(queue, w)
      BY <2>2 DEF w
    <3>4. /\ queue' \in Seq(Items)
          /\ \A i \in DOMAIN queue' :
               queue'[i] = w \/ (i + 0 \in DOMAIN queue /\ queue'[i] = queue[i + 0])
      BY <3>1, <3>2, <3>3, AppendProperties
    <3> QED BY <3>1, <3>4 DEF QuietQueue, Harmless
  <2> QED BY <1>2, <2>1, <2>2
<1>5. Steady /\ rt' \in Runtimes(rt'.events)
  <2>1. CASE UNCHANGED rt
    BY <2>1, SameRuntime
  <2>2. CASE rt' = [rt EXCEPT !.pending = NoTxn, !.abort = holds,
                              !.failedRoles = @ \union {holds.cand.role}]
    <3>1. rt \in Runtimes(rt.events) /\ holds \in Txn /\ holds.cand.role \in Int
      BY DEF ActInv, Types, Txn, Pair
    <3> QED BY <2>2, <3>1, None DEF Runtimes, Steady
  <2> QED BY <1>2, <2>1, <2>2
<1>6. /\ receipt' \in [Owners -> {"none", "waiting", "durable", "lost"}]
      /\ receipt'["flight"] = receipt["flight"]
  BY <1>2 DEF ActInv, Types, Owners
<1>7. Types'
  BY <1>1, <1>3, <1>4, <1>5, <1>6 DEF ActInv, Types, Alone
<1>8. Onward
  BY <1>1, <1>3, <1>5, AloneOn, SameChallenger, SameRow DEF Steady
<1>9. AnswersOn /\ LearnerOn
  BY <1>1, <1>6 DEF AnswersOn, LearnerOn, Preparing
<1> QED BY <1>1, <1>4, <1>5, <1>7, <1>8, <1>9, SteadyInv

LEMMA AwaitAbortedInv == ActInv /\ AwaitAborted => ActInv'
<1> SUFFICES ASSUME ActInv, AwaitAborted PROVE ActInv'
  OBVIOUS
<1>1. /\ UNCHANGED <<row, chal, saved, queue, receipt, look, batch, dispatch>> /\ Alone /\ in
      /\ learner' = "idle"
      /\ UNCHANGED rt \/ rt' = [rt EXCEPT !.abort = NoTxn]
  BY DEF AwaitAborted, LearnerFrame, solver, hold, session, Alone
<1>2. LooksOn /\ \E Ops : batch' \in Seq(Orders(Ops)) /\ dispatch' \in Seq(Orders(Ops))
  BY <1>1, LooksSame DEF ActInv
<1>3. Steady /\ rt' \in Runtimes(rt'.events)
  <2>1. CASE UNCHANGED rt
    BY <2>1, SameRuntime
  <2>2. CASE rt' = [rt EXCEPT !.abort = NoTxn]
    BY <2>2, None DEF ActInv, Types, Runtimes, Steady
  <2> QED BY <1>1, <2>1, <2>2
<1>4. Types'
  BY <1>1, <1>2, <1>3 DEF ActInv, Types, Alone
<1>5. Onward
  BY <1>1, <1>2, <1>3, AloneOn, SameChallenger, SameRow DEF Steady
<1>6. QuietQueue /\ AnswersOn /\ LearnerOn
  BY <1>1, QueueSame DEF ActInv, AnswersOn, LearnerOn, Preparing
<1> QED BY <1>1, <1>3, <1>4, <1>5, <1>6, SteadyInv

-----------------------------------------------------------------------------
(* Another pair is put in force *)

LEMMA ChangedInv ==
  ASSUME ActInv, Types', Onward, QuietQueue, AnswersOn, LearnerOn, in, saved' = saved,
         rt'.flight = rt.flight, rt'.pending = rt.pending, rt'.known # {},
         Allowed(rt.active)', Young(rt'.active), BackedUp',
         rt'.backup # NoPair => Young(rt'.backup),
         rt.pending # NoTxn => rt'.active # rt.pending.cand,
         rt.flight.phase = "active" /\ receipt["flight"] # "durable" =>
            rt'.active # rt.flight.t.cand
  PROVE  ActInv'
<1>1. Types /\ History /\ Session /\ Learning /\ Pairs /\ Outside
  BY DEF ActInv
<1>2. row'.t = row.t /\ (row' = row \/ (row # NoRow /\ row'.phase # "none"))
  BY <1>1, RowSettles, None DEF Onward
<1>3. History'
  <2>1. \A i \in ActiveItems' :
            \/ queue'[i].t \in rt.known
            \/ \E j \in ActiveItems : queue[j].t = queue'[i].t
    BY <1>1, QueueOn
  <2>2. holds' \in Txs \union {NoTxn}
    BY DEF Onward, Txs
  <2> QED BY <1>1, <1>2, <2>1, <2>2, HistoryKept DEF Onward
<1>4. Session'
  <2>1. Pending'
    BY <1>1, PendingKept
  <2>2. rt.flight.phase = "active" /\ receipt'["flight"] # "durable"
           /\ rt'.active = rt.flight.t.cand =>
              ~rt'.authorized /\ rt'.backup = rt.flight.t.inc
    BY None DEF AnswersOn
  <2>3. MayDrive'
    BY DEF MayDrive
  <2> QED BY <1>1, <2>1, <2>2, <2>3, SessionKept
<1>5. Learning'
  BY <1>1, LearningKept
<1>6. Pairs'
  BY <1>1 DEF Pairs, Young, Onward
<1>7. Outside'
  BY <1>1 DEF Outside, Onward
<1> QED BY <1>3, <1>4, <1>5, <1>6, <1>7 DEF ActInv

\* The incumbent of a known transaction is not the candidate of one that is
\* pending, or in flight and not yet durable.
LEMMA BuiltOn ==
  ASSUME ActInv, NEW u \in Seen
  PROVE  /\ rt.pending # NoTxn => u.inc # rt.pending.cand
         /\ rt.flight.phase = "active" /\ receipt["flight"] # "durable" =>
               u.inc # rt.flight.t.cand
BY DEF ActInv, Session, Pending, Flying, NotYet

Kept(r) ==
  /\ r.flight = rt.flight /\ r.pending = rt.pending /\ r.known = rt.known
  /\ r.active = rt.active /\ r.backup = rt.backup /\ (r.authorized => rt.authorized)
Back(r) ==
  /\ r.flight = rt.flight /\ r.pending = rt.pending /\ r.known = rt.known
  /\ rt.backup # NoPair /\ r.active = rt.backup /\ r.backup = NoPair

LEMMA TerminatedIs ==
  ASSUME NEW r, NEW ev, r \in Runtimes(ev)
  PROVE  /\ Terminated(r) \in Runtimes(ev) /\ ~Terminated(r).authorized
         /\ Terminated(r) = [r EXCEPT !.authorized = FALSE, !.terminated = TRUE]
         /\ Terminated(r).flight = r.flight /\ Terminated(r).pending = r.pending
         /\ Terminated(r).known = r.known /\ Terminated(r).active = r.active
         /\ Terminated(r).backup = r.backup /\ Terminated(r).events = r.events
BY DEF Terminated, Runtimes

LEMMA TerminatedBack ==
  ASSUME NEW r, r \in Runtimes(r.events), Kept(r) \/ Back(r)
  PROVE  /\ Terminated(r) \in Runtimes(Terminated(r).events)
         /\ Kept(r) => Kept(Terminated(r))
         /\ Back(r) => Back(Terminated(r))
<1>1. /\ Terminated(r) \in Runtimes(r.events) /\ ~Terminated(r).authorized
      /\ Terminated(r).flight = r.flight /\ Terminated(r).pending = r.pending
      /\ Terminated(r).known = r.known /\ Terminated(r).active = r.active
      /\ Terminated(r).backup = r.backup /\ Terminated(r).events = r.events
  BY TerminatedIs
<1>2. Terminated(r) \in Runtimes(Terminated(r).events)
  BY <1>1, Zenon
<1> QED BY <1>1, <1>2 DEF Kept, Back

LEMMA UnseededIs ==
  ASSUME NEW r, r \in Runtimes(r.events)
  PROVE  /\ Unseeded(r) \in Runtimes(r.events)
         /\ Unseeded(r).flight = r.flight /\ Unseeded(r).pending = r.pending
         /\ Unseeded(r).known = r.known /\ Unseeded(r).active = r.active
         /\ Unseeded(r).backup = r.backup /\ Unseeded(r).authorized = r.authorized
         /\ Unseeded(r).events = r.events
BY DEF Unseeded, Runtimes

LEMMA ReinstatedIs ==
  ASSUME NEW r, r \in Runtimes(r.events)
  PROVE  /\ Reinstated(r) \in Runtimes(r.events) /\ Reinstated(r).events = r.events
         /\ Reinstated(r).flight = r.flight /\ Reinstated(r).pending = r.pending
         /\ Reinstated(r).known = r.known /\ Reinstated(r).active = r.backup
         /\ Reinstated(r).backup = NoPair
<1>1. r.active.role + 1 \in Int /\ r.gen \in Int
  BY DEF Runtimes, Pair
<1>2. Larger(r.gen, r.active.role + 1) \in Int
  BY <1>1 DEF Larger
<1> QED BY <1>2, None DEF Reinstated, Runtimes

LEMMA FencedIs ==
  ASSUME NEW r, r \in Runtimes(r.events)
  PROVE  /\ Fenced(r) \in Runtimes(r.events) /\ Fenced(r).events = r.events
         /\ Fenced(r).flight = r.flight /\ Fenced(r).pending = r.pending
         /\ Fenced(r).known = r.known /\ Fenced(r).active = r.backup
         /\ Fenced(r).backup = NoPair
<1> DEFINE s == Reinstated(r)
<1>1. r.active.role \in Int
  BY DEF Runtimes, Pair
<1>2. /\ s \in Runtimes(r.events) /\ s.events = r.events
      /\ s.flight = r.flight /\ s.pending = r.pending /\ s.known = r.known
      /\ s.active = r.backup /\ s.backup = NoPair
  BY ReinstatedIs
<1>3. Fenced(r) = [s EXCEPT !.failedRoles = @ \union {r.active.role}]
  BY DEF Fenced
<1> HIDE DEF s
<1> QED BY <1>1, <1>2, <1>3 DEF Runtimes

LEMMA GaveUp ==
  ASSUME rt \in Runtimes(rt.events), NEW o \in RolledBack(rt) \union FellBack(rt)
  PROVE  o.rt \in Runtimes(o.rt.events) /\ (Kept(o.rt) \/ Back(o.rt))
<1> DEFINE told == [Fenced(rt) EXCEPT !.events =
                      Append(@, [cand |-> rt.active, place |-> Len(evidence)])]
<1>1. \/ o.rt = rt \/ o.rt = Unseeded(rt)
      \/ rt.backup # NoPair /\ (o.rt = Fenced(rt) \/ o.rt = told \/ o.rt = Terminated(told))
  <2>1. CASE ~CanFallBack(rt)
    <3>1. o = Outcome(rt, <<>>, FALSE, 0)
      BY <2>1 DEF RolledBack, FellBack
    <3> QED BY <3>1 DEF Outcome
  <2>2. CASE CanFallBack(rt) /\ o \in RolledBack(rt)
    <3>1. \/ o = Outcome(Fenced(rt), <<>>, TRUE, 0)
          \/ o = Outcome(Unseeded(rt), <<>>, FALSE, 1)
      BY <2>2 DEF RolledBack
    <3> QED BY <2>2, <3>1 DEF Outcome, CanFallBack
  <2>3. CASE CanFallBack(rt) /\ o \in FellBack(rt)
    <3>1. \/ o = Outcome(Unseeded(rt), <<>>, FALSE, 1)
          \/ \E ok \in Answers :
                o = Outcome(IF ok THEN told ELSE Terminated(told), <<>>, ok, Cost(ok))
      BY <2>3 DEF FellBack
    <3> HIDE DEF told
    <3> QED BY <2>3, <3>1 DEF Outcome, CanFallBack
  <2> QED BY <2>1, <2>2, <2>3
<1>2. (told \in Runtimes(told.events) /\ Back(told)) \/ rt.backup = NoPair
  <2> DEFINE f == Fenced(rt)
  <2>1. /\ f \in Runtimes(rt.events)
        /\ f.flight = rt.flight /\ f.pending = rt.pending /\ f.known = rt.known
        /\ f.active = rt.backup /\ f.backup = NoPair
    BY FencedIs
  <2>2. PICK ev : told = [f EXCEPT !.events = ev]
    <3>1. told = [f EXCEPT !.events =
                    Append(f.events, [cand |-> rt.active, place |-> Len(evidence)])]
      BY <2>1 DEF Runtimes
    <3> QED BY <3>1
  <2> HIDE DEF f, told
  <2> QED BY <2>1, <2>2 DEF Runtimes, Back
<1> HIDE DEF told
<1>3. CASE o.rt = rt
  BY <1>3 DEF Kept
<1>4. CASE o.rt = Unseeded(rt)
  BY <1>4, UnseededIs DEF Kept
<1>5. CASE rt.backup # NoPair /\ o.rt = Fenced(rt)
  BY <1>5, FencedIs DEF Back
<1>6. CASE rt.backup # NoPair /\ o.rt = told
  BY <1>2, <1>6
<1>7. CASE rt.backup # NoPair /\ o.rt = Terminated(told)
  <2>1. told \in Runtimes(told.events) /\ Back(told)
    BY <1>2, <1>7
  <2>2. Terminated(told) \in Runtimes(Terminated(told).events) /\ Back(Terminated(told))
    BY <2>1, TerminatedBack
  <2> QED BY <1>7, <2>2
<1> QED BY <1>1, <1>3, <1>4, <1>5, <1>6, <1>7

\* A runtime that goes back to its incumbent, or stays as it is.
LEMMA BackInv ==
  ASSUME ActInv, Types', Alone, UNCHANGED <<row, queue, receipt, saved, learner>>,
         LooksOn, ChallengerOn, in, Kept(rt') \/ Back(rt')
  PROVE  ActInv'
<1>1. Onward
  BY AloneOn, SameRow DEF Kept, Back
<1>2. QuietQueue /\ AnswersOn /\ LearnerOn
  BY QueueSame DEF ActInv, AnswersOn, LearnerOn
<1>3. CASE Kept(rt')
  <2>1. Steady
    BY <1>3 DEF Kept, Steady
  <2> QED BY <1>1, <1>2, <2>1, SteadyInv
<1>4. CASE Back(rt')
  <2>1. PICK u \in rt.known : u.inc = rt.backup
    BY <1>4 DEF Back, ActInv, Session, BackedUp
  <2>2. u \in Seen
    BY DEF Seen
  <2>3. Allowed(rt.active)' /\ rt'.known # {}
    BY <1>4, <2>1 DEF Back, Allowed
  <2>4. Young(rt'.active)
    BY <1>4 DEF Back, ActInv, Pairs
  <2>5. BackedUp' /\ (rt'.backup # NoPair => Young(rt'.backup))
    BY <1>4 DEF Back, BackedUp
  <2>6. /\ rt.pending # NoTxn => rt'.active # rt.pending.cand
        /\ rt.flight.phase = "active" /\ receipt["flight"] # "durable" =>
              rt'.active # rt.flight.t.cand
    BY <1>4, <2>1, <2>2, BuiltOn DEF Back
  <2> QED BY <1>1, <1>2, <1>4, <2>3, <2>4, <2>5, <2>6, ChangedInv DEF Back
<1> QED BY <1>3, <1>4

LEMMA GiveUpInv == ActInv /\ GiveUp => ActInv'
<1> SUFFICES ASSUME ActInv, GiveUp PROVE ActInv'
  OBVIOUS
<1>1. /\ UNCHANGED <<row, queue, receipt, saved, learner, look, dispatch>> /\ Alone /\ in
      /\ batch # <<>> /\ batch' = Tail(batch)
  BY DEF GiveUp, OutsideRuntime, hold, session, Alone
<1>2. PICK o \in RolledBack(rt) \union FellBack(rt) :
         /\ rt' = o.rt
         /\ chal' = chal \/ chal' = Reviewed(chal, o.rt.active)
  BY DEF GiveUp, Synchronize, NotSynchronized
<1>3. rt' \in Runtimes(rt'.events) /\ (Kept(rt') \/ Back(rt'))
  BY <1>2, GaveUp DEF ActInv, Types
<1>4. LooksOn /\ \E Ops : batch' \in Seq(Orders(Ops)) /\ dispatch' \in Seq(Orders(Ops))
  BY <1>1, LooksTail DEF ActInv
<1>5. ChallengerOn /\ chal' \in ChalType
  BY <1>2, SameChallenger, ReviewedOn
<1>6. Types'
  BY <1>1, <1>3, <1>4, <1>5 DEF ActInv, Types, Alone
<1> QED BY <1>1, <1>3, <1>4, <1>5, <1>6, BackInv

LEMMA SolveFailsInv == ActInv /\ SolveFails => ActInv'
<1> SUFFICES ASSUME ActInv, SolveFails PROVE ActInv'
  OBVIOUS
<1>1. /\ UNCHANGED <<row, queue, receipt, saved, learner, look, batch, dispatch>>
      /\ Alone /\ in
  BY DEF SolveFails, OutsideRuntime, hold, session, Alone
<1>2. PICK o \in FellBack(rt) :
         /\ rt' = o.rt \/ rt' = Terminated(o.rt)
         /\ chal' = chal \/ chal' = Reviewed(chal, o.rt.active)
  BY DEF SolveFails, Synchronize, NotSynchronized
<1>3. rt' \in Runtimes(rt'.events) /\ (Kept(rt') \/ Back(rt'))
  <2>1. o.rt \in Runtimes(o.rt.events) /\ (Kept(o.rt) \/ Back(o.rt))
    BY GaveUp DEF ActInv, Types
  <2>2. /\ Terminated(o.rt) \in Runtimes(Terminated(o.rt).events)
        /\ Kept(Terminated(o.rt)) \/ Back(Terminated(o.rt))
    BY <2>1, TerminatedBack
  <2> QED BY <1>2, <2>1, <2>2
<1>4. LooksOn /\ \E Ops : batch' \in Seq(Orders(Ops)) /\ dispatch' \in Seq(Orders(Ops))
  BY <1>1, LooksSame DEF ActInv
<1>5. ChallengerOn /\ chal' \in ChalType
  BY <1>2, SameChallenger, ReviewedOn
<1>6. Types'
  BY <1>1, <1>3, <1>4, <1>5 DEF ActInv, Types, Alone
<1> QED BY <1>1, <1>3, <1>4, <1>5, <1>6, BackInv

-----------------------------------------------------------------------------
(* Restoring what Hold has read *)

PutBack(r, phase, t) ==
  /\ r.flight = rt.flight /\ r.pending = rt.pending /\ r.known = rt.known \union {t}
  /\ \/ phase = "active" /\ r.active = t.cand /\ r.backup = t.inc
     \/ r.active = t.inc /\ r.backup = NoPair

LEMMA RestoredIs ==
  ASSUME rt \in Runtimes(rt.events), NEW phase, NEW t \in Txn, NEW gone \in BOOLEAN,
         NEW o \in Restored(rt, phase, t, gone)
  PROVE  o.rt \in Runtimes(o.rt.events) /\ (Kept(o.rt) \/ PutBack(o.rt, phase, t))
<1> DEFINE keeps == phase = "active" /\ ~gone
           pair == IF keeps THEN t.cand ELSE t.inc
           r == [rt EXCEPT !.active = pair, !.authorized = TRUE, !.inert = NoTxn,
                           !.backup = IF keeps THEN t.inc ELSE NoPair,
                           !.record = IF keeps THEN t ELSE NoTxn,
                           !.gen = IF gone THEN t.cand.role + 1 ELSE pair.role,
                           !.failedRoles = IF gone THEN @ \union {t.cand.role} ELSE @,
                           !.known = @ \union {t}]
<1>1. o = Outcome(r, <<>>, TRUE, 0) \/ o = Outcome(Terminated(rt), <<>>, FALSE, 1)
  BY DEF Restored
<1>2. CASE o = Outcome(r, <<>>, TRUE, 0)
  <2>1. o.rt = r
    BY <1>2 DEF Outcome
  <2>2. /\ t.inc \in Pair /\ t.cand \in Pair /\ t.cand.role \in Int /\ t.inc.role \in Int
        /\ NoPair \in Pair /\ NoTxn \in Txn
    BY None DEF Txn, Pair
  <2>3. r \in Runtimes(rt.events) /\ r.events = rt.events /\ r.active = pair
        /\ r.backup = IF keeps THEN t.inc ELSE NoPair
    <3>1. PICK a \in Pair, b \in Pair, x \in Txn, g \in Int :
             /\ a = pair /\ b = (IF keeps THEN t.inc ELSE NoPair)
             /\ x = (IF keeps THEN t ELSE NoTxn)
             /\ g = (IF gone THEN t.cand.role + 1 ELSE pair.role)
      <4>1. pair \in Pair /\ (IF keeps THEN t.inc ELSE NoPair) \in Pair
            /\ (IF keeps THEN t ELSE NoTxn) \in Txn
        BY <2>2
      <4>2. (IF gone THEN t.cand.role + 1 ELSE pair.role) \in Int
        BY <2>2
      <4> QED BY <4>1, <4>2
    <3>2. PICK f \in SUBSET Int :
             f = (IF gone THEN rt.failedRoles \union {t.cand.role} ELSE rt.failedRoles)
      BY <2>2 DEF Runtimes
    <3> DEFINE s == [rt EXCEPT !.active = a, !.authorized = TRUE, !.inert = NoTxn,
                               !.backup = b, !.record = x, !.gen = g, !.failedRoles = f,
                               !.known = rt.known \union {t}]
    <3>3. r = s
      BY <3>1, <3>2 DEF Runtimes
    <3>4. s \in Runtimes(rt.events) /\ s.events = rt.events /\ s.active = a /\ s.backup = b
      BY <2>2 DEF Runtimes
    <3> HIDE DEF r, s
    <3> QED BY <3>1, <3>3, <3>4
  <2>4. r.flight = rt.flight /\ r.pending = rt.pending /\ r.known = rt.known \union {t}
    BY DEF Runtimes
  <2> HIDE DEF r
  <2>5. r \in Runtimes(r.events)
    BY <2>3, Zenon
  <2>6. PutBack(r, phase, t)
    BY <2>3, <2>4 DEF PutBack
  <2> QED BY <2>1, <2>5, <2>6
<1>3. CASE o = Outcome(Terminated(rt), <<>>, FALSE, 1)
  <2>1. o.rt = Terminated(rt) /\ Kept(rt)
    BY <1>3 DEF Outcome, Kept
  <2> QED BY <2>1, TerminatedBack
<1> QED BY <1>1, <1>2, <1>3

LEMMA PutBackInv ==
  ASSUME ActInv, Types', Alone, UNCHANGED <<row, saved, learner>>, in,
         QuietQueue, AnswersOn, LooksOn, ChallengerOn,
         NEW r \in LookRows, r # NoRow, NEW phase,
         phase = "active" => r.phase = "active" /\ r.t \notin rt.known,
         Kept(rt') \/ PutBack(rt', phase, r.t)
  PROVE  ActInv'
<1>1. LearnerOn
  BY DEF LearnerOn
<1>2. CASE Kept(rt')
  <2>1. Onward
    BY <1>2, AloneOn, SameRow DEF Kept
  <2>2. Steady
    BY <1>2 DEF Kept, Steady
  <2> QED BY <1>1, <2>1, <2>2, SteadyInv
<1>3. CASE PutBack(rt', phase, r.t)
  <2>1. PICK t : t = r.t
    OBVIOUS
  <2>2. t \in Seen /\ t # NoTxn /\ t \in Txs
    BY <2>1 DEF Seen, Read, Txs, ActInv, History, Rows
  <2>3. Onward
    BY <1>3, <2>1, <2>2, SameRow DEF PutBack, Onward, Alone, ActInv, History, Rows, Seen
  <2>4. t.inc.id \in 0..fits /\ t.cand.id \in 1..fits /\ fits \in Nat
    BY <2>2 DEF ActInv, History, Ids, Types
  <2>5. Young(rt'.active) /\ (rt'.backup # NoPair => Young(rt'.backup))
    BY <1>3, <2>1, <2>4 DEF PutBack, Young
  <2>6. t \in rt'.known /\ BackedUp'
    BY <1>3, <2>1 DEF PutBack, BackedUp
  <2>7. CASE phase = "active" /\ rt'.active = t.cand
    <3>1. PICK p : p = t.cand
      OBVIOUS
    <3>2. Allowed(p)
      BY <2>1, <2>7, <3>1 DEF ActInv, Session, ReadAllowed
    <3>3. Allowed(p)'
      BY <2>3, <3>2, AllowedStays DEF ActInv
    <3>4. Allowed(rt.active)'
      BY <2>7, <3>1, <3>3 DEF Allowed
    <3>5. \A u \in rt.known : u.cand # t.cand
      BY <2>1, <2>2, <2>7 DEF ActInv, History, Ids, Txs, Seen
    <3>6. /\ rt.pending # NoTxn => rt'.active # rt.pending.cand
          /\ rt.flight.phase = "active" /\ receipt["flight"] # "durable" =>
                rt'.active # rt.flight.t.cand
      BY <2>7, <3>5, None DEF ActInv, Session, Pending, Flying
    <3> QED BY <1>1, <1>3, <2>3, <2>5, <2>6, <3>4, <3>6, ChangedInv DEF PutBack
  <2>8. CASE rt'.active = t.inc
    <3>1. Allowed(rt.active)'
      BY <2>6, <2>8 DEF Allowed
    <3>2. /\ rt.pending # NoTxn => rt'.active # rt.pending.cand
          /\ rt.flight.phase = "active" /\ receipt["flight"] # "durable" =>
                rt'.active # rt.flight.t.cand
      BY <2>2, <2>8, BuiltOn
    <3> QED BY <1>1, <1>3, <2>3, <2>5, <2>6, <3>1, <3>2, ChangedInv DEF PutBack
  <2> QED BY <1>3, <2>1, <2>7, <2>8 DEF PutBack
<1> QED BY <1>2, <1>3

LEMMA HeadIs ==
  ASSUME Types, batch # <<>>, Head(batch).op = "restore"
  PROVE  /\ Head(batch).row \in LookRows /\ Head(batch).row # NoRow
         /\ Head(batch).row \in RowType /\ Head(batch).row.t \in Txn
         /\ Head(batch).gone \in BOOLEAN
<1>1. PICK Ops : batch \in Seq(Orders(Ops))
  BY DEF Types
<1>2. 1 \in DOMAIN batch /\ Head(batch) = batch[1] /\ Head(batch) \in Orders(Ops)
  BY <1>1
<1>3. Head(batch).row \in LookRows
  BY <1>2 DEF LookRows
<1> QED BY <1>2, <1>3 DEF Orders, RowType

\* The outcomes that restoring what was read may have.
LEMMA ConcludeIs ==
  ASSUME ActInv, NEW phase, NEW t \in Txn, NEW gone \in BOOLEAN, NEW n,
         NEW S, \A o \in S : \/ o \in Restored(rt, phase, t, gone)
                            \/ o.rt = Terminated(rt),
         Conclude(S, n)
  PROVE  /\ rt' \in Runtimes(rt'.events) /\ (Kept(rt') \/ PutBack(rt', phase, t))
         /\ ChallengerOn /\ chal' \in ChalType /\ batch' = Tail(batch)
<1>1. PICK o \in S : /\ rt' = o.rt
                     /\ chal' = chal \/ chal' = Reviewed(chal, o.rt.active)
  BY DEF Conclude, Synchronize, NotSynchronized
<1>2. rt \in Runtimes(rt.events) /\ Kept(rt)
  BY DEF ActInv, Types, Kept
<1>3. /\ Terminated(rt) \in Runtimes(Terminated(rt).events) /\ Kept(Terminated(rt))
  BY <1>2, TerminatedBack
<1>4. o.rt \in Runtimes(o.rt.events) /\ (Kept(o.rt) \/ PutBack(o.rt, phase, t))
  <2>1. CASE o \in Restored(rt, phase, t, gone)
    BY <1>2, <2>1, RestoredIs
  <2>2. CASE o.rt = Terminated(rt)
    BY <1>3, <2>2
  <2> QED BY <2>1, <2>2
<1>5. ChallengerOn /\ chal' \in ChalType
  BY <1>1, SameChallenger, ReviewedOn
<1> QED BY <1>1, <1>4, <1>5 DEF Conclude

LEMMA RestoreInv == ActInv /\ Restore => ActInv'
<1> SUFFICES ASSUME ActInv, Restore PROVE ActInv'
  OBVIOUS
<1> DEFINE d == Head(batch)
<1>1. /\ UNCHANGED <<row, queue, receipt, saved, learner, look, dispatch>> /\ Alone /\ in
      /\ batch # <<>> /\ d.op = "restore" /\ d.row.t \notin rt.known
  BY DEF Restore, Unknown, OutsideRuntime, hold, session, Alone
<1>2. d.row \in LookRows /\ d.row # NoRow /\ d.row.t \in Txn /\ d.gone \in BOOLEAN
  BY <1>1, HeadIs DEF ActInv
<1>3. Conclude(Restored(rt, d.row.phase, d.row.t, d.gone), 0)
  BY DEF Restore
<1> HIDE DEF d
<1>4. /\ rt' \in Runtimes(rt'.events) /\ (Kept(rt') \/ PutBack(rt', d.row.phase, d.row.t))
      /\ ChallengerOn /\ chal' \in ChalType /\ batch' = Tail(batch)
  BY <1>2, <1>3, ConcludeIs
<1>5. LooksOn /\ \E Ops : batch' \in Seq(Orders(Ops)) /\ dispatch' \in Seq(Orders(Ops))
  BY <1>1, <1>4, LooksTail DEF ActInv
<1>6. Types'
  BY <1>1, <1>4, <1>5 DEF ActInv, Types, Alone
<1>7. QuietQueue /\ AnswersOn
  BY <1>1, QueueSame DEF ActInv, AnswersOn
<1> QED BY <1>1, <1>2, <1>4, <1>5, <1>6, <1>7, PutBackInv

LEMMA RestorePreparedInv == ActInv /\ RestorePrepared => ActInv'
<1> SUFFICES ASSUME ActInv, RestorePrepared PROVE ActInv'
  OBVIOUS
<1> DEFINE d == Head(batch)
           w == Work("aborted", d.row.t, "restore")
           S == {Outcome(Terminated(rt), <<>>, FALSE, Cost(FALSE))}
<1>1. /\ UNCHANGED <<row, saved, learner, look, dispatch>> /\ Alone /\ in
      /\ batch # <<>> /\ d.op = "restore" /\ d.row.phase = "prepared"
  BY DEF RestorePrepared, Unknown, OutsideRuntime, hold, session, Alone
<1>2. d.row \in LookRows /\ d.row # NoRow /\ d.row.t \in Txn /\ d.gone \in BOOLEAN
  BY <1>1, HeadIs DEF ActInv
<1>3. \/ Send(<<w>>, {}) /\ UNCHANGED <<rt, batch, chal>>
      \/ Conclude(S, 0) /\ UNCHANGED <<queue, receipt>>
  BY DEF RestorePrepared
<1>4. CASE Send(<<w>>, {}) /\ UNCHANGED <<rt, batch, chal>>
  <2>1. <<w>> \in Seq(Items) /\ \A j \in DOMAIN <<w>> : Harmless(<<w>>[j])
    <3>1. /\ <<w>> \in Seq(Items) /\ w.kind = "aborted" /\ w.owner = "restore"
      BY <1>2, WorkIs DEF Owners
    <3> HIDE DEF w
    <3> QED BY <3>1 DEF Harmless
  <2>2. /\ queue' \in Seq(Items) /\ QuietQueue /\ receipt'["flight"] = receipt["flight"]
        /\ receipt' \in [Owners -> {"none", "waiting", "durable", "lost"}]
    <3> DEFINE items == <<w>>
    <3>1. /\ items \in Seq(Items) /\ \A j \in DOMAIN items : Harmless(items[j])
          /\ Send(items, {}) /\ "flight" \notin {} /\ Types
      BY <1>4, <2>1 DEF ActInv
    <3> HIDE DEF items
    <3> QED BY <3>1, SendIs, SendQuiet
  <2> HIDE DEF w
  <2>3. LooksOn /\ \E Ops : batch' \in Seq(Orders(Ops)) /\ dispatch' \in Seq(Orders(Ops))
    BY <1>1, <1>4, LooksSame DEF ActInv
  <2>4. Types'
    BY <1>1, <1>4, <2>2, <2>3 DEF ActInv, Types, Alone
  <2>5. Onward /\ Steady
    BY <1>1, <1>4, <2>3, AloneOn, SameRuntime, SameChallenger, SameRow
  <2>6. AnswersOn /\ LearnerOn
    BY <1>1, <2>2 DEF AnswersOn, LearnerOn
  <2> QED BY <1>1, <2>2, <2>4, <2>5, <2>6, SteadyInv
<1>5. CASE Conclude(S, 0) /\ UNCHANGED <<queue, receipt>>
  <2>1. \A o \in S : o \in Restored(rt, "aborted", d.row.t, d.gone) \/ o.rt = Terminated(rt)
    BY DEF Outcome
  <2> HIDE DEF S, d
  <2>2. /\ rt' \in Runtimes(rt'.events) /\ (Kept(rt') \/ PutBack(rt', "aborted", d.row.t))
        /\ ChallengerOn /\ chal' \in ChalType /\ batch' = Tail(batch)
    <3>1. Conclude(S, 0)
      BY <1>5
    <3> QED BY <1>2, <2>1, <3>1, ConcludeIs
  <2>3. LooksOn /\ \E Ops : batch' \in Seq(Orders(Ops)) /\ dispatch' \in Seq(Orders(Ops))
    BY <1>1, <2>2, LooksTail DEF ActInv
  <2>4. Types'
    BY <1>1, <1>5, <2>2, <2>3 DEF ActInv, Types, Alone
  <2>5. QuietQueue /\ AnswersOn
    BY <1>5, QueueSame DEF ActInv, AnswersOn
  <2> QED BY <1>1, <1>2, <2>2, <2>3, <2>4, <2>5, PutBackInv
<1> QED BY <1>3, <1>4, <1>5

\* What is restored while its row is being aborted is still at hand.
Restoring == pc = "restoring" => batch # <<>> /\ Head(batch).op = "restore"

LEMMA RestoreAbortedInv == ActInv /\ Restoring /\ RestoreAborted => ActInv'
<1> SUFFICES ASSUME ActInv, Restoring, RestoreAborted PROVE ActInv'
  OBVIOUS
<1> DEFINE d == Head(batch)
           S == Restored(rt, "aborted", d.row.t, d.gone)
                  \union {Outcome(Terminated(rt), <<>>, FALSE, 0)}
<1>1. /\ UNCHANGED <<row, saved, learner, look, dispatch>> /\ Alone /\ in
      /\ batch # <<>> /\ d.op = "restore" /\ Forget("restore")
  BY DEF RestoreAborted, Restoring, OutsideRuntime, hold, session, Alone
<1>2. d.row \in LookRows /\ d.row # NoRow /\ d.row.t \in Txn /\ d.gone \in BOOLEAN
  BY <1>1, HeadIs DEF ActInv
<1>3. \E n : \/ Conclude(Restored(rt, "aborted", d.row.t, d.gone), n)
             \/ Conclude({Outcome(Terminated(rt), <<>>, FALSE, 0)}, n)
  BY DEF RestoreAborted
<1>4. PICK n : \E T \in SUBSET S : Conclude(T, n)
  <2> DEFINE A == Restored(rt, "aborted", d.row.t, d.gone)
             B == {Outcome(Terminated(rt), <<>>, FALSE, 0)}
  <2>1. A \in SUBSET S /\ B \in SUBSET S
    OBVIOUS
  <2> HIDE DEF S, A, B
  <2>2. \E n : Conclude(A, n) \/ Conclude(B, n)
    BY <1>3 DEF A, B
  <2>3. PICK n : Conclude(A, n) \/ Conclude(B, n)
    BY <2>2
  <2>4. \E T \in SUBSET S : Conclude(T, n)
    BY <2>1, <2>3
  <2> QED BY <2>4
<1> HIDE DEF S
<1>5. PICK T \in SUBSET S : Conclude(T, n)
  BY <1>4
<1>6. \A o \in T : o \in Restored(rt, "aborted", d.row.t, d.gone) \/ o.rt = Terminated(rt)
  BY DEF Outcome, S
<1> HIDE DEF d
<1>7. /\ rt' \in Runtimes(rt'.events) /\ (Kept(rt') \/ PutBack(rt', "aborted", d.row.t))
      /\ ChallengerOn /\ chal' \in ChalType /\ batch' = Tail(batch)
  BY <1>2, <1>6, <1>5, ConcludeIs
<1>8. LooksOn /\ \E Ops : batch' \in Seq(Orders(Ops)) /\ dispatch' \in Seq(Orders(Ops))
  BY <1>1, <1>7, LooksTail DEF ActInv
<1>9. QuietQueue /\ queue' \in Seq(Items) /\ receipt'["flight"] = receipt["flight"]
      /\ receipt' \in [Owners -> {"none", "waiting", "durable", "lost"}]
  BY <1>1, ForgetQuiet DEF ActInv
<1>10. Types'
  BY <1>1, <1>7, <1>8, <1>9 DEF ActInv, Types, Alone
<1>11. AnswersOn
  BY <1>9 DEF AnswersOn
<1> QED BY <1>1, <1>2, <1>7, <1>8, <1>9, <1>10, <1>11, PutBackInv

-----------------------------------------------------------------------------
(* The worker writes *)

LEMMA ItemIs ==
  ASSUME ActInv, Write
  PROVE  /\ queue # <<>> /\ queue' = Tail(queue) /\ QuietQueue /\ queue' \in Seq(Items)
         /\ 1 \in DOMAIN queue /\ Head(queue) = queue[1] /\ queue[1] \in Items
         /\ receipt' \in [Owners -> {"none", "waiting", "durable", "lost"}]
         /\ receipt'["flight"] = IF queue[1].owner = "flight" THEN "durable"
                                 ELSE receipt["flight"]
         /\ UNCHANGED <<chal, saved, rt, look, batch, dispatch, learner>> /\ Alone
<1>1. queue # <<>> /\ queue' = Tail(queue) /\ receipt' = Told("durable", <<Head(queue)>>)
  BY DEF Write
<1>2. 1 \in DOMAIN queue /\ Head(queue) = queue[1] /\ queue[1] \in Items
  BY <1>1 DEF ActInv, Types
<1>3. QuietQueue /\ queue' \in Seq(Items)
  BY <1>1, QueueTail DEF ActInv
<1>4. /\ receipt' \in [Owners -> {"none", "waiting", "durable", "lost"}]
      /\ receipt'["flight"] = IF queue[1].owner = "flight" THEN "durable"
                              ELSE receipt["flight"]
  <2> DEFINE items == <<Head(queue)>>
  <2>1. DOMAIN items = {1} /\ items[1] = queue[1]
    BY <1>2
  <2>2. receipt' = [o \in Owners |-> IF queue[1].owner = o THEN "durable" ELSE receipt[o]]
    <3> HIDE DEF items
    <3>1. receipt' = Told("durable", items)
      BY <1>1 DEF items
    <3> QED BY <2>1, <3>1 DEF Told
  <2> QED BY <2>2 DEF ActInv, Types, Owners
<1>5. UNCHANGED <<chal, saved, rt, look, batch, dispatch, learner>> /\ Alone
  BY DEF Write, WorkerFrame, solver, learning, hold, session, Alone
<1> QED BY <1>1, <1>2, <1>3, <1>4, <1>5

\* Whatever it writes but a transition's row.
LEMMA WriteOtherInv == ActInv /\ Write /\ Head(queue).kind # "active" => ActInv'
<1> SUFFICES ASSUME ActInv, Write, Head(queue).kind # "active" PROVE ActInv'
  OBVIOUS
<1>1. /\ queue # <<>> /\ queue' = Tail(queue) /\ QuietQueue /\ queue' \in Seq(Items)
      /\ 1 \in DOMAIN queue /\ Head(queue) = queue[1] /\ queue[1] \in Items
      /\ receipt' \in [Owners -> {"none", "waiting", "durable", "lost"}]
      /\ receipt'["flight"] = IF queue[1].owner = "flight" THEN "durable"
                              ELSE receipt["flight"]
      /\ UNCHANGED <<chal, saved, rt, look, batch, dispatch, learner>> /\ Alone
  BY ItemIs
<1>2. RowSettled /\ row' \in RowType
  <2>1. CASE row' = row
    BY <2>1, SameRow
  <2>2. CASE row' # row
    <3>1. row' = [row EXCEPT !.phase = "aborted"] /\ row = [phase |-> "prepared", t |-> Head(queue).t]
      BY <2>2 DEF Write, Writable, Prepared
    <3> QED BY <3>1 DEF RowSettled, ActInv, Types, RowType
  <2> QED BY <2>1, <2>2
<1>3. LooksOn /\ \E Ops : batch' \in Seq(Orders(Ops)) /\ dispatch' \in Seq(Orders(Ops))
  BY <1>1, LooksSame DEF ActInv
<1>4. Types'
  BY <1>1, <1>2, <1>3 DEF ActInv, Types, Alone
<1>5. Onward /\ Steady
  BY <1>1, <1>2, <1>3, AloneOn, SameRuntime, SameChallenger
<1>6. AnswersOn
  <2>1. CASE queue[1].owner = "flight"
    <3>1. 1 \in FlightItems
      BY <1>1, <2>1 DEF FlightItems
    <3>2. receipt["flight"] = "waiting" /\ queue[1].kind = rt.flight.phase
          /\ \A i \in FlightItems : i = 1
      BY <3>1 DEF ActInv, Session, Queued
    <3>3. ASSUME NEW i \in FlightItems' PROVE FALSE
      <4>1. i \in Nat \ {0} /\ i + 1 \in DOMAIN queue /\ queue'[i] = queue[i + 1]
        BY <1>1 DEF FlightItems, ActInv, Types
      <4>2. i + 1 \in FlightItems
        BY <4>1 DEF FlightItems
      <4> QED BY <3>2, <4>1, <4>2
    <3> QED BY <1>1, <2>1, <3>2, <3>3 DEF AnswersOn
  <2>2. CASE queue[1].owner # "flight"
    BY <1>1, <2>2 DEF AnswersOn
  <2> QED BY <2>1, <2>2
<1>7. LearnerOn
  BY <1>1 DEF LearnerOn
<1> QED BY <1>1, <1>4, <1>5, <1>6, <1>7, SteadyInv

\* A transition's row is made active.
LEMMA WriteActiveInv == ActInv /\ Write /\ Head(queue).kind = "active" => ActInv'
<1> SUFFICES ASSUME ActInv, Write, Head(queue).kind = "active" PROVE ActInv'
  OBVIOUS
<1>1. /\ queue # <<>> /\ queue' = Tail(queue) /\ QuietQueue /\ queue' \in Seq(Items)
      /\ 1 \in DOMAIN queue /\ Head(queue) = queue[1] /\ queue[1] \in Items
      /\ receipt' \in [Owners -> {"none", "waiting", "durable", "lost"}]
      /\ receipt'["flight"] = IF queue[1].owner = "flight" THEN "durable"
                              ELSE receipt["flight"]
      /\ UNCHANGED <<chal, saved, rt, look, batch, dispatch, learner>> /\ Alone
  BY ItemIs
<1>2. Types /\ History /\ Session /\ Learning /\ Pairs /\ Outside
  BY DEF ActInv
<1>3. PICK t : t = queue[1].t
  OBVIOUS
<1>4. row = [phase |-> "prepared", t |-> t] /\ row' = [phase |-> "active", t |-> t]
  BY <1>1, <1>3 DEF Write, Writable, Prepared
<1>5. /\ 1 \in ActiveItems /\ t \in Txn /\ row # NoRow /\ row' # NoRow
      /\ Authority(row) = t.inc /\ Authority(row') = t.cand
      /\ t \in Seen
  BY <1>1, <1>3, <1>4, None DEF ActiveItems, Items, Authority, Seen
<1>6. row' \in RowType
  BY <1>4, <1>5 DEF RowType
<1>7. LooksOn /\ LookRows' = LookRows
      /\ \E Ops : batch' \in Seq(Orders(Ops)) /\ dispatch' \in Seq(Orders(Ops))
  BY <1>1, <1>2, LooksSame DEF LookRows
<1>8. Types'
  BY <1>1, <1>2, <1>6, <1>7 DEF Types, Alone
<1>9. /\ \A i \in ActiveItems' : \E j \in ActiveItems : queue[j] = queue'[i]
      /\ \A i \in FlightItems' : \E j \in FlightItems : queue[j] = queue'[i]
      /\ \A i, j \in FlightItems' : i = j
  BY <1>1, <1>2, <1>8, QueueOn DEF Session, Queued
<1>10. Seen' = Seen
  BY <1>1, <1>4, <1>7 DEF Seen, Read
<1>11. History'
  <2>1. /\ row'.t = row.t /\ (row' = row \/ (row # NoRow /\ row'.phase # "none"))
        /\ ChallengerOn /\ fits' = fits /\ holds' \in Txs \union {NoTxn}
        /\ rt'.known \subseteq Seen \ {NoTxn}
    BY <1>1, <1>2, <1>4, <1>5, SameChallenger DEF Alone, Txs, Seen, History, Rows
  <2>2. \A i \in ActiveItems' :
            \/ queue'[i].t \in rt.known
            \/ \E j \in ActiveItems : queue[j].t = queue'[i].t
    BY <1>9
  <2> QED BY <1>2, <1>7, <2>1, <2>2, HistoryKept
<1>12. in => t \in rt.known \/ Untouched
  BY <1>2, <1>3, <1>4, <1>5 DEF Session, Left
<1>13. ASSUME NEW p, Allowed(p), in, Untouched => p = entered
       PROVE  Allowed(p)'
  BY <1>1, <1>5, <1>12, <1>13 DEF Allowed, Alone
<1>14. \A r \in LookRows : r.phase = "active" => in /\ ~Untouched
  <2>1. ASSUME NEW r \in LookRows, r.phase = "active", ~in PROVE FALSE
    <3>1. LookRows = {NoRow}
      BY <1>2, <2>1 DEF Outside, LookRows
    <3> QED BY <2>1, <3>1, None
  <2>2. ASSUME NEW r \in LookRows, r.phase = "active", Untouched PROVE FALSE
    BY <1>4, <2>2, None DEF Untouched
  <2> QED BY <2>1, <2>2
<1>15. Session'
  <2>1. MayDrive'
    <3> SUFFICES ASSUME Driving' PROVE Allowed(rt.active)'
      BY DEF MayDrive, Allowed
    <3>1. PICK p : p = rt.active
      OBVIOUS
    <3>2. Driving /\ in
      BY <1>1 DEF Driving, Alone
    <3>3. Allowed(p) /\ (Untouched => p = entered)
      BY <1>2, <3>1, <3>2 DEF Session, MayDrive, Untouched
    <3>4. Allowed(p)'
      BY <1>13, <3>2, <3>3
    <3> QED BY <1>1, <3>1, <3>4 DEF Allowed
  <2>2. ReadAllowed'
    <3> SUFFICES ASSUME NEW r \in LookRows', r.phase = "active" PROVE Allowed(r.t.cand)'
      BY DEF ReadAllowed, Allowed
    <3>1. Allowed(r.t.cand) /\ in /\ ~Untouched
      BY <1>2, <1>7, <1>14 DEF Session, ReadAllowed
    <3> QED BY <1>13, <3>1
  <2>3. BackedUp'
    BY <1>1, <1>2 DEF Session, BackedUp
  <2>4. Pending'
    <3> SUFFICES ASSUME rt.pending # NoTxn
                 PROVE  /\ NotYet(rt.pending)' /\ NoItem(rt.pending)'
      BY <1>1, <1>2 DEF Session, Pending, NotYet, NoItem
    <3>1. NotYet(rt.pending) /\ NoItem(rt.pending)
      BY <1>2 DEF Session, Pending
    <3>2. t # rt.pending
      BY <1>3, <1>5, <3>1 DEF NoItem
    <3> QED BY <1>1, <1>4, <1>9, <1>10, <3>1, <3>2 DEF NotYet, NoItem
  <2>5. Flying'
    <3>1. rt'.flight # NoFlight =>
             rt'.flight.t \in rt'.known /\ receipt'["flight"] # "none" /\ rt'.flight.phase # "none"
      BY <1>1, <1>2 DEF Session, Flying
    <3>2. ASSUME rt'.flight.phase = "active", receipt'["flight"] # "durable"
          PROVE  /\ NotYet(rt.flight.t)'
                 /\ \A i \in ActiveItems' : queue'[i].t = rt'.flight.t => queue'[i].owner = "flight"
                 /\ rt'.active = rt'.flight.t.cand =>
                       ~rt'.authorized /\ rt'.backup = rt'.flight.t.inc
      <4>1. /\ NotYet(rt.flight.t) /\ queue[1].owner # "flight"
            /\ \A i \in ActiveItems : queue[i].t = rt.flight.t => queue[i].owner = "flight"
            /\ rt.active = rt.flight.t.cand => ~rt.authorized /\ rt.backup = rt.flight.t.inc
        BY <1>1, <1>2, <3>2 DEF Session, Flying
      <4>2. t # rt.flight.t
        BY <1>3, <1>5, <4>1
      <4> QED BY <1>1, <1>4, <1>9, <1>10, <4>1, <4>2 DEF NotYet
    <3>3. ASSUME rt'.flight.phase = "active", receipt'["flight"] = "durable"
          PROVE  Allowed(rt.flight.t.cand)'
      <4>1. CASE queue[1].owner = "flight"
        <5>1. 1 \in FlightItems
          BY <1>1, <4>1 DEF FlightItems
        <5>2. t = rt.flight.t
          BY <1>2, <1>3, <5>1 DEF Session, Queued
        <5> QED BY <1>1, <1>5, <5>2 DEF Allowed
      <4>2. CASE queue[1].owner # "flight"
        <5>1. PICK p : p = rt.flight.t.cand
          OBVIOUS
        <5>2. rt.flight # NoFlight /\ Allowed(p)
          BY <1>1, <1>2, <3>3, <4>2, <5>1, None DEF Session, Flying
        <5>3. in /\ ~Untouched
          BY <1>2, <5>2, NewIs, None DEF Outside, NewRuntime, Untouched
        <5>4. Allowed(p)'
          BY <1>13, <5>2, <5>3
        <5> QED BY <1>1, <5>1, <5>4 DEF Allowed
      <4> QED BY <4>1, <4>2
    <3> QED BY <3>1, <3>2, <3>3 DEF Flying, NotYet, Allowed
  <2>6. Queued'
    <3>1. ASSUME NEW i \in FlightItems'
          PROVE  /\ rt'.flight # NoFlight /\ receipt'["flight"] = "waiting"
                 /\ queue'[i].kind = rt'.flight.phase /\ queue'[i].t = rt'.flight.t
      <4>1. /\ i \in Nat \ {0} /\ i + 1 \in DOMAIN queue /\ queue'[i] = queue[i + 1]
            /\ i + 1 \in FlightItems
        BY <1>1, <1>2 DEF FlightItems, Types
      <4>2. queue[1].owner # "flight"
        <5>1. 1 \notin FlightItems
          BY <1>2, <4>1 DEF Session, Queued
        <5> QED BY <1>1, <5>1 DEF FlightItems
      <4> QED BY <1>1, <1>2, <4>1, <4>2 DEF Session, Queued
    <3> QED BY <1>9, <3>1 DEF Queued
  <2>7. Left'
    BY <1>4 DEF Left
  <2> QED BY <2>1, <2>2, <2>3, <2>4, <2>5, <2>6, <2>7 DEF Session
<1>16. Learning'
  <2>1. learner' = learner /\ chal' = chal /\ holds' = holds
    BY <1>1 DEF Alone
  <2>2. learner # "queue"
    BY <1>2, <1>3, <1>4, <1>5 DEF Learning, NoItem
  <2> QED BY <1>2, <2>1, <2>2 DEF Learning
<1>17. Pairs' /\ Outside'
  BY <1>1, <1>2 DEF Pairs, Young, Outside, Alone
<1> QED BY <1>8, <1>11, <1>15, <1>16, <1>17 DEF ActInv

-----------------------------------------------------------------------------
(* Sessions *)

LEMMA OutInv ==
  ASSUME ActInv, Out, queue' \in Seq(Items),
         \A i \in DOMAIN queue' : /\ queue'[i].owner # "flight"
                                  /\ queue'[i].kind = "active" =>
                                       \E j \in ActiveItems : queue[j].t = queue'[i].t
  PROVE  ActInv'
<1>1. Types /\ History /\ Pairs
  BY DEF ActInv
<1>2. /\ in' = FALSE /\ rt' = [NewRuntime(Configured) EXCEPT !.authorized = FALSE]
      /\ receipt' = NoReceipts /\ batch' = <<>> /\ dispatch' = <<>> /\ learner' = "idle"
      /\ holds' = NoTxn /\ look' = NoRow /\ UNCHANGED <<row, chal, saved, fits, entered>>
  BY DEF Out, durable
<1>3. /\ rt' \in Runtimes(<<>>) /\ rt'.active = Configured /\ rt'.backup = NoPair
      /\ rt'.known = {} /\ rt'.pending = NoTxn /\ rt'.flight = NoFlight /\ rt'.events = <<>>
      /\ ~rt'.authorized
  <2>1. NewRuntime(Configured) \in Runtimes(<<>>)
    BY None, NewIs
  <2> HIDE DEF NewRuntime
  <2> DEFINE r == NewRuntime(Configured)
  <2>2. /\ r \in Runtimes(<<>>) /\ r.active = Configured /\ r.backup = NoPair
        /\ r.known = {} /\ r.pending = NoTxn /\ r.flight = NoFlight /\ r.events = <<>>
    BY None, NewIs
  <2>3. rt' = [r EXCEPT !.authorized = FALSE]
    BY <1>2
  <2> HIDE DEF r
  <2> QED BY <2>2, <2>3 DEF Runtimes
<1>4. LooksOn /\ LookRows' = {NoRow}
  BY <1>2 DEF LooksOn, LookRows
<1>5. Types'
  <2>1. receipt' \in [Owners -> {"none", "waiting", "durable", "lost"}]
    BY <1>2 DEF NoReceipts
  <2>2. batch' \in Seq(Orders({})) /\ dispatch' \in Seq(Orders({}))
    BY <1>2, EmptySeq
  <2> QED BY <1>1, <1>2, <1>3, <2>1, <2>2, None DEF Types
<1>6. History'
  <2>1. \A i \in ActiveItems' :
            \/ queue'[i].t \in rt.known
            \/ \E j \in ActiveItems : queue[j].t = queue'[i].t
    BY DEF ActiveItems
  <2>2. ChallengerOn
    BY <1>2 DEF ChallengerOn
  <2> QED BY <1>1, <1>2, <1>3, <1>4, <2>1, <2>2, HistoryKept
<1>7. Session'
  <2>1. FlightItems' = {}
    BY DEF FlightItems
  <2>2. MayDrive' /\ ReadAllowed' /\ BackedUp' /\ Left'
    BY <1>2, <1>3, <1>4, None DEF MayDrive, Driving, ReadAllowed, BackedUp, Left
  <2>3. Pending' /\ Flying' /\ Queued'
    BY <1>3, <2>1, None DEF Pending, Flying, Queued
  <2> QED BY <2>2, <2>3 DEF Session
<1>8. Pairs'
  BY <1>1, <1>2, <1>3 DEF Pairs, Young, Configured, Types
<1>9. Learning' /\ Outside'
  BY <1>2 DEF Learning, Outside
<1> QED BY <1>5, <1>6, <1>7, <1>8, <1>9 DEF ActInv

LEMMA LeaveInv == ActInv /\ Leave => ActInv'
<1> SUFFICES ASSUME ActInv, Leave PROVE ActInv'
  OBVIOUS
<1> DEFINE q == Abandoned(queue, Owners)
           w == Work("aborted", rt.abort, "none")
<1>1. Out /\ Types /\ (queue' = q \o <<>> \/ queue' = q \o <<w>>)
  BY DEF Leave, ActInv
<1>2. /\ q \in Seq(Items) /\ DOMAIN q = DOMAIN queue
      /\ \A i \in DOMAIN queue : q[i].kind = queue[i].kind /\ q[i].t = queue[i].t
                                 /\ q[i].owner # "flight"
  <2>1. \A i \in DOMAIN queue : queue[i].owner \in Owners => q[i].owner = "none"
    BY <1>1, AbandonedIs
  <2>2. \A i \in DOMAIN queue : queue[i].owner \notin Owners => q[i] = queue[i]
    BY <1>1, AbandonedIs
  <2> QED BY <1>1, <2>1, <2>2, AbandonedIs DEF Owners
<1>3. w \in Items /\ w.kind = "aborted" /\ w.owner = "none"
  <2>1. rt.abort \in Txn
    BY <1>1 DEF Types, Runtimes
  <2> QED BY <2>1, WorkIs
<1> HIDE DEF q, w
<1>4. PICK items \in Seq(Items) : /\ queue' = q \o items
                                 /\ \A j \in DOMAIN items : items[j] = w
  <2>1. <<>> \in Seq(Items) /\ <<w>> \in Seq(Items)
    BY <1>3
  <2>2. CASE queue' = q \o <<>>
    <3>1. \A j \in DOMAIN <<>> : <<>>[j] = w
      OBVIOUS
    <3> QED BY <2>1, <2>2, <3>1
  <2>3. CASE queue' = q \o <<w>>
    <3>1. \A j \in DOMAIN <<w>> : <<w>>[j] = w
      OBVIOUS
    <3> QED BY <2>1, <2>3, <3>1
  <2> QED BY <1>1, <2>2, <2>3
<1>5. /\ queue' \in Seq(Items)
      /\ \A i \in DOMAIN queue' : \/ i \in DOMAIN q /\ queue'[i] = q[i]
                                  \/ queue'[i] = w
  <2>1. /\ queue' \in Seq(Items) /\ Len(queue') = Len(q) + Len(items)
        /\ \A i \in 1..Len(q) + Len(items) :
              queue'[i] = IF i <= Len(q) THEN q[i] ELSE items[i - Len(q)]
    BY <1>2, <1>4, ConcatProperties
  <2> QED BY <1>2, <1>4, <2>1
<1>6. \A i \in DOMAIN queue' : /\ queue'[i].owner # "flight"
                               /\ queue'[i].kind = "active" =>
                                    \E j \in ActiveItems : queue[j].t = queue'[i].t
  BY <1>2, <1>3, <1>5 DEF ActiveItems
<1> QED BY <1>1, <1>5, <1>6, OutInv

LEMMA CrashInv == ActInv /\ Crash => ActInv'
<1> SUFFICES ASSUME ActInv, Crash PROVE ActInv'
  OBVIOUS
<1>1. Out /\ queue' = <<>>
  BY DEF Crash
<1>2. queue' \in Seq(Items) /\ DOMAIN queue' = {}
  BY <1>1, EmptySeq
<1> QED BY <1>1, <1>2, OutInv

LEMMA EnterInv == ActInv /\ Enter => ActInv'
<1> SUFFICES ASSUME ActInv, Enter PROVE ActInv'
  OBVIOUS
<1>1. Types /\ History /\ Session /\ Learning /\ Pairs /\ Outside
  BY DEF ActInv
<1>2. PICK base \in {Configured, saved} \ {NoPair} :
         /\ rt' = NewRuntime(base) /\ entered' = base
         /\ IF base = saved /\ Retirable
            THEN \/ Recovered(base)
                 \/ chal' = [chal EXCEPT !.phase = "retired"] /\ UNCHANGED <<row, holds>>
            ELSE UNCHANGED <<row, chal, holds>>
  BY DEF Enter
<1>3. /\ ~in /\ in' = TRUE
      /\ UNCHANGED <<saved, queue, receipt, learner, fits, look, batch, dispatch>>
  BY DEF Enter, worker, solver, hold
<1>4. /\ look = NoRow /\ batch = <<>> /\ dispatch = <<>> /\ learner = "idle"
      /\ rt = [NewRuntime(Configured) EXCEPT !.authorized = FALSE]
  BY <1>1, <1>3 DEF Outside
<1>5. rt.flight = NoFlight
  BY <1>4 DEF NewRuntime
<1>6. base \in Pair /\ Young(base)
  BY <1>1, <1>2, None DEF Types, Pairs, Young, Configured
<1>7. /\ rt' \in Runtimes(<<>>) /\ rt'.active = base /\ rt'.backup = NoPair
      /\ rt'.known = {} /\ rt'.pending = NoTxn /\ rt'.flight = NoFlight /\ rt'.events = <<>>
  BY <1>2, <1>6, NewIs
<1>8. /\ row' = row \/ (row.phase = "prepared" /\ row' = [row EXCEPT !.phase = "aborted"])
      /\ chal' = chal \/ chal' = [chal EXCEPT !.phase = "retired"]
      /\ holds' = holds \/ holds' = chal.t
  <2>1. CASE UNCHANGED <<row, chal, holds>>
    BY <2>1
  <2>2. CASE chal' = [chal EXCEPT !.phase = "retired"] /\ UNCHANGED <<row, holds>>
    BY <2>2
  <2>3. CASE Recovered(base)
    BY <2>3 DEF Recovered
  <2> QED BY <1>2, <2>1, <2>2, <2>3
<1>9. RowSettled /\ row' \in RowType /\ ChallengerOn /\ chal' \in ChalType
      /\ holds' \in Txn /\ holds' \in Txs
  BY <1>1, <1>8 DEF Types, RowSettled, RowType, ChallengerOn, ChalType, Open, Txs
<1>10. LooksOn /\ LookRows' = {NoRow}
       /\ \E Ops : batch' \in Seq(Orders(Ops)) /\ dispatch' \in Seq(Orders(Ops))
  BY <1>1, <1>3, <1>4, LooksSame DEF LookRows
<1>11. Types'
  BY <1>1, <1>2, <1>3, <1>6, <1>7, <1>9, <1>10 DEF Types
<1>12. ActiveItems' = ActiveItems /\ FlightItems' = {}
  <2>1. FlightItems = {}
    BY <1>1, <1>5 DEF Session, Queued
  <2> QED BY <1>3, <2>1 DEF ActiveItems, FlightItems
<1>13. History'
  <2>1. row'.t = row.t /\ (row' = row \/ (row # NoRow /\ row'.phase # "none"))
    BY <1>1, <1>9, RowSettles, None
  <2>2. \A i \in ActiveItems' :
            \/ queue'[i].t \in rt.known
            \/ \E j \in ActiveItems : queue[j].t = queue'[i].t
    BY <1>3, <1>12
  <2> QED BY <1>1, <1>3, <1>7, <1>9, <1>10, <2>1, <2>2, HistoryKept
<1>14. Session'
  <2>1. MayDrive' /\ ReadAllowed' /\ BackedUp'
    BY <1>2, <1>7, <1>10, None DEF MayDrive, Allowed, ReadAllowed, BackedUp
  <2>2. Pending' /\ Flying' /\ Queued'
    BY <1>7, <1>12, None DEF Pending, Flying, Queued
  <2>3. Left'
    BY <1>2, <1>7, <1>10, None DEF Left, Untouched
  <2> QED BY <2>1, <2>2, <2>3 DEF Session
<1>15. Pairs'
  BY <1>1, <1>2, <1>3, <1>6, <1>7 DEF Pairs, Young
<1>16. Learning' /\ Outside'
  BY <1>3, <1>4 DEF Learning, Outside
<1> QED BY <1>11, <1>13, <1>14, <1>15, <1>16 DEF ActInv

-----------------------------------------------------------------------------
(* Candidates *)

LEMMA DeliverInv == ActInv /\ Deliver => ActInv'
<1> SUFFICES ASSUME ActInv, Deliver PROVE ActInv'
  OBVIOUS
<1>1. Types /\ History /\ Session /\ Learning /\ Pairs /\ Outside
  BY DEF ActInv
<1>2. /\ in /\ learner = "idle" /\ learnRole = rt.active.role /\ fits' = fits + 1
      /\ holds' = [inc |-> rt.active, cand |-> [id |-> fits', role |-> learnRole + 1]]
      /\ chal' = [phase |-> "evaluating", t |-> holds']
      /\ UNCHANGED <<row, queue, rt, receipt, learner, saved, look, batch, dispatch, in, entered>>
  BY DEF Deliver, LearnerFrame, solver, hold, session
<1>3. /\ rt.active \in Pair /\ fits \in Nat /\ fits' \in Nat
      /\ holds' \in Txn /\ holds'.inc = rt.active /\ holds'.cand.id = fits + 1
      /\ rt.active.id \in 0..fits
  <2>1. rt.active \in Pair /\ rt.active.role \in Int /\ fits \in Nat /\ rt.active.id \in 0..fits
    BY <1>1 DEF Types, Runtimes, Pair, Pairs, Young
  <2> QED BY <1>2, <2>1 DEF Txn, Pair
<1>4. LookRows' = LookRows /\ Seen' = Seen /\ ActiveItems' = ActiveItems
      /\ FlightItems' = FlightItems
  BY <1>2 DEF LookRows, Seen, Read, ActiveItems, FlightItems
<1>5. Types'
  <2>1. \E Ops : batch' \in Seq(Orders(Ops)) /\ dispatch' \in Seq(Orders(Ops))
    BY <1>1, <1>2, LooksSame
  <2> QED BY <1>1, <1>2, <1>3, <2>1 DEF Types, ChalType
<1>6. PICK t : t = holds'
  OBVIOUS
<1>7. /\ Txs' \subseteq Seen \union {t} /\ Seen \subseteq Txs
      /\ t # NoTxn /\ t \in Txn /\ t.inc.id \in 0..fits /\ t.cand.id = fits + 1
  BY <1>2, <1>3, <1>4, <1>6, None DEF Txs
<1>8. \A u \in Seen : u.cand.id <= fits /\ u.inc.id <= fits
  BY <1>1, <1>7, None DEF History, Ids, Types
<1>9. \A i \in ActiveItems : queue[i].t.cand.id <= fits
  BY <1>1 DEF History, Ids
<1>10. t \notin Seen /\ (\A u \in Seen : u.inc # t.cand) /\ NoItem(t)
  <2>1. \A u \in Seen : u # t /\ u.inc # t.cand
    BY <1>3, <1>7, <1>8
  <2> QED BY <1>3, <1>7, <1>9, <2>1 DEF NoItem
<1>11. History'
  <2>1. Ids'
    <3>1. ASSUME NEW u \in Txs', u # NoTxn
          PROVE  u.inc.id \in 0..fits' /\ u.cand.id \in 1..fits' /\ u.inc.id < u.cand.id
      <4>1. CASE u = t
        BY <1>2, <1>3, <1>7, <4>1
      <4>2. CASE u \in Seen
        <5>1. u.inc.id \in 0..fits /\ u.cand.id \in 1..fits /\ u.inc.id < u.cand.id
          BY <1>1, <1>7, <3>1, <4>2 DEF History, Ids
        <5> QED BY <1>2, <1>3, <5>1
      <4> QED BY <1>7, <4>1, <4>2
    <3>2. ASSUME NEW u \in Txs', NEW v \in Txs', u.cand = v.cand
          PROVE  u = v
      <4>1. \A x \in Seen : x.cand # t.cand
        BY <1>3, <1>7, <1>8
      <4> QED BY <1>1, <1>7, <3>2, <4>1 DEF History, Ids
    <3>3. \A i \in ActiveItems' : queue'[i].t.cand.id <= fits'
      <4>1. ASSUME NEW i \in ActiveItems' PROVE queue'[i].t.cand.id <= fits'
        <5>1. queue[i].t.cand.id <= fits /\ queue[i] \in Items
          BY <1>1, <1>4, <1>9 DEF Types, ActiveItems
        <5> QED BY <1>2, <1>3, <5>1 DEF Items, Txn, Pair
      <4> QED BY <4>1
    <3> QED BY <3>1, <3>2, <3>3 DEF Ids
  <2>2. Rows' /\ Past'
    BY <1>1, <1>2, <1>4 DEF History, Rows, Past
  <2>3. Fresh'
    BY <1>2, <1>4, <1>6, <1>7, <1>10 DEF Fresh, NoItem
  <2> QED BY <2>1, <2>2, <2>3 DEF History
<1>12. Session'
  <2>1. MayDrive' /\ ReadAllowed' /\ BackedUp' /\ Left'
    BY <1>1, <1>2, <1>4
    DEF Session, MayDrive, Driving, ReadAllowed, Allowed, BackedUp, Left, Untouched
  <2>2. Pending' /\ Flying' /\ Queued'
    BY <1>1, <1>2, <1>4 DEF Session, Pending, Flying, Queued, NotYet, NoItem, Allowed
  <2> QED BY <2>1, <2>2 DEF Session
<1>13. Pairs'
  BY <1>1, <1>2, <1>3 DEF Pairs, Young
<1>14. Learning' /\ Outside'
  BY <1>2 DEF Learning, Outside
<1> QED BY <1>5, <1>11, <1>12, <1>13, <1>14 DEF ActInv

LEMMA PrepareInv == ActInv /\ Prepare => ActInv'
<1> SUFFICES ASSUME ActInv, Prepare PROVE ActInv'
  OBVIOUS
<1>1. Types /\ History /\ Session /\ Learning /\ Pairs /\ Outside
  BY DEF ActInv
<1>2. /\ UNCHANGED <<queue, receipt, saved, rt, look, batch, dispatch>> /\ Alone /\ in
  BY DEF Prepare, LearnerFrame, solver, hold, session, Alone
<1>3. LooksOn /\ \E Ops : batch' \in Seq(Orders(Ops)) /\ dispatch' \in Seq(Orders(Ops))
  BY <1>1, <1>2, LooksSame
<1>4. CASE ~Preparable
  <2>1. UNCHANGED <<row, chal>> /\ learner' = "idle"
    BY <1>4 DEF Prepare
  <2>2. Types'
    BY <1>1, <1>2, <1>3, <2>1 DEF Types, Alone
  <2>3. Onward /\ Steady
    BY <1>2, <1>3, <2>1, AloneOn, SameRuntime, SameChallenger, SameRow
  <2>4. QuietQueue /\ AnswersOn /\ LearnerOn
    BY <1>1, <1>2, <2>1, QueueSame DEF AnswersOn, LearnerOn, Preparing
  <2> QED BY <1>2, <2>2, <2>3, <2>4, SteadyInv
<1>5. CASE Preparable
  <2>1. PICK t : t = holds
    OBVIOUS
  <2>2. /\ row' = [phase |-> "prepared", t |-> t] /\ learner' = "queue"
        /\ chal' = [chal EXCEPT !.phase = "activating"]
    BY <1>5, <2>1 DEF Prepare
  <2>3. /\ chal.phase = "qualified" /\ chal.t = t /\ rt.active = t.inc
        /\ row.phase # "none" => Authority(row) = t.inc
    BY <1>5, <2>1 DEF Preparable
  <2>4. /\ t # NoTxn /\ t \notin Seen /\ NoItem(t)
        /\ \A u \in Seen : u.inc # t.cand
    BY <1>1, <2>3 DEF History, Fresh, Open
  <2>5. t \in Txn /\ t \in Txs /\ t.inc # t.cand
    BY <1>1, <2>1, <2>4 DEF Types, Txs, History, Ids
  <2>6. /\ row' \in RowType /\ row' # NoRow /\ row'.t = t /\ Authority(row') = t.inc
        /\ chal' \in ChalType /\ chal'.t = t /\ chal'.phase \notin Open
    <3>1. /\ row' \in RowType /\ row' # NoRow /\ row'.t = t /\ Authority(row') = t.inc
      BY <2>2, <2>5, None DEF RowType, Authority
    <3>2. chal \in ChalType
      BY <1>1 DEF Types
    <3> QED BY <2>2, <2>3, <3>1, <3>2 DEF ChalType, Open
  <2>7. Types'
    BY <1>1, <1>2, <1>3, <2>6 DEF Types, Alone
  <2>8. /\ LookRows' = LookRows /\ Seen' \subseteq Seen \union {t} /\ Txs' \subseteq Txs
        /\ ActiveItems' = ActiveItems /\ FlightItems' = FlightItems
    <3>1. LookRows' = LookRows /\ ActiveItems' = ActiveItems /\ FlightItems' = FlightItems
      BY <1>2 DEF LookRows, ActiveItems, FlightItems
    <3>2. Seen' \subseteq Seen \union {t}
      BY <1>2, <2>6, <3>1 DEF Seen, Read
    <3> QED BY <1>2, <2>5, <2>6, <3>1, <3>2 DEF Txs, Alone
  <2>9. History'
    <3>1. Ids'
      BY <1>1, <1>2, <2>8 DEF History, Ids, Alone
    <3>2. Rows'
      BY <1>1, <1>2, <2>2, <2>4, <2>6, <2>8 DEF History, Rows
    <3>3. Past'
      BY <2>4, <2>5, <2>6, <2>8 DEF Past
    <3>4. Fresh'
      BY <2>6 DEF Fresh
    <3> QED BY <3>1, <3>2, <3>3, <3>4 DEF History
  <2>10. row # NoRow => Authority(row) = t.inc
    BY <1>1, <2>3 DEF History, Rows
  <2>11. \A p : Allowed(p) => Allowed(p)'
    BY <1>2, <2>6, <2>10 DEF Allowed, Alone
  <2>12. \A u \in rt.known : u # NoTxn /\ u \in Seen /\ row # NoRow
    BY <1>1 DEF History, Rows, Seen
  <2>13. Session'
    <3>1. MayDrive' /\ ReadAllowed' /\ BackedUp'
      <4>1. MayDrive'
        BY <1>2, <2>3, <2>6 DEF MayDrive, Allowed, Alone
      <4>2. ReadAllowed'
        <5> SUFFICES ASSUME NEW r \in LookRows', r.phase = "active" PROVE Allowed(r.t.cand)'
          BY DEF ReadAllowed, Allowed
        <5> QED BY <1>1, <2>8, <2>11 DEF Session, ReadAllowed
      <4>3. BackedUp'
        BY <1>1, <1>2 DEF Session, BackedUp
      <4> QED BY <4>1, <4>2, <4>3
    <3>2. Pending'
      <4> SUFFICES ASSUME rt.pending # NoTxn
                   PROVE  NotYet(rt.pending)' /\ NoItem(rt.pending)'
        BY <1>1, <1>2 DEF Session, Pending, NotYet, NoItem
      <4>1. /\ NotYet(rt.pending) /\ NoItem(rt.pending) /\ rt.active # rt.pending.cand
        BY <1>1 DEF Session, Pending
      <4> QED BY <1>2, <2>2, <2>3, <2>8, <4>1 DEF NotYet, NoItem
    <3>3. Flying'
      <4>1. ASSUME rt.flight.phase = "active", receipt["flight"] # "durable"
            PROVE  NotYet(rt.flight.t)'
        <5>1. PICK f : f = rt.flight.t
          OBVIOUS
        <5>2. NotYet(f) /\ f \in rt.known
          BY <1>1, <4>1, <5>1, None DEF Session, Flying
        <5>3. row # NoRow /\ row \in RowType /\ Authority(row) = t.inc /\ row.t \in Seen /\ f \in Seen
          BY <1>1, <2>10, <2>12, <5>2 DEF Types, Seen
        <5>4. t.inc # f.cand
          <6>1. CASE row.phase = "active"
            <7>1. row = [phase |-> "active", t |-> row.t]
              BY <5>3, <6>1 DEF RowType
            <7>2. row.t # f
              BY <5>2, <7>1 DEF NotYet
            <7>3. row.t.cand # f.cand
              BY <1>1, <5>3, <7>2 DEF History, Ids, Txs
            <7> QED BY <5>3, <6>1, <7>3 DEF Authority
          <6>2. CASE row.phase # "active"
            BY <5>2, <5>3, <6>2 DEF Authority, NotYet
          <6> QED BY <6>1, <6>2
        <5> QED BY <1>2, <2>2, <2>8, <5>1, <5>2, <5>4 DEF NotYet
      <4>2. ASSUME rt.flight.phase = "active", receipt["flight"] = "durable"
            PROVE  Allowed(rt.flight.t.cand)'
        <5>1. PICK p : p = rt.flight.t.cand
          OBVIOUS
        <5>2. Allowed(p)'
          BY <1>1, <2>11, <4>2, <5>1 DEF Session, Flying
        <5> QED BY <1>2, <5>1, <5>2 DEF Allowed
      <4> QED BY <1>1, <1>2, <2>8, <4>1, <4>2 DEF Session, Flying, NotYet, Allowed
    <3>4. Queued'
      BY <1>1, <1>2, <2>8 DEF Session, Queued
    <3>5. Left'
      BY <1>2, <2>2, <2>4, <2>8 DEF Left, NoItem
    <3> QED BY <3>1, <3>2, <3>3, <3>4, <3>5 DEF Session
  <2>14. Learning'
    <3>1. holds' = t /\ NotYet(t)'
      BY <1>2, <2>1, <2>2, <2>4, <2>5, <2>8 DEF Alone, NotYet
    <3>2. NoItem(t)'
      BY <1>2, <2>4, <2>8 DEF NoItem
    <3>3. t # rt'.pending
      BY <1>1, <1>2, <2>4, <2>12 DEF Session, Pending
    <3> QED BY <2>2, <2>4, <2>6, <3>1, <3>2, <3>3 DEF Learning, NotYet, NoItem
  <2>15. Pairs' /\ Outside'
    BY <1>1, <1>2 DEF Pairs, Young, Outside, Alone
  <2> QED BY <2>7, <2>9, <2>13, <2>14, <2>15 DEF ActInv
<1> QED BY <1>4, <1>5

LEMMA QueueInv == ActInv /\ Queue => ActInv'
<1> SUFFICES ASSUME ActInv, Queue PROVE ActInv'
  OBVIOUS
<1>1. Types /\ History /\ Session /\ Learning /\ Pairs /\ Outside
  BY DEF ActInv
<1>2. /\ UNCHANGED <<row, chal, queue, receipt, saved, look, batch, dispatch>> /\ Alone /\ in
      /\ learner = "queue"
  BY DEF Queue, LearnerFrame, solver, hold, session, Alone
<1>3. LooksOn /\ \E Ops : batch' \in Seq(Orders(Ops)) /\ dispatch' \in Seq(Orders(Ops))
  BY <1>1, <1>2, LooksSame
<1>4. QuietQueue /\ AnswersOn
  BY <1>1, <1>2, QueueSame DEF AnswersOn
<1>5. CASE ~Queueable(holds)
  <2>1. UNCHANGED rt /\ learner' = "refused"
    BY <1>5 DEF Queue
  <2>2. Types'
    BY <1>1, <1>2, <1>3, <2>1 DEF Types, Alone
  <2>3. Onward /\ Steady
    BY <1>2, <1>3, <2>1, AloneOn, SameRuntime, SameChallenger, SameRow
  <2>4. LearnerOn
    BY <1>2, <2>1 DEF LearnerOn, Preparing
  <2> QED BY <1>2, <1>4, <2>2, <2>3, <2>4, SteadyInv
<1>6. CASE Queueable(holds)
  <2>1. PICK t : t = holds
    OBVIOUS
  <2>2. learner' = "lifecycle" /\ rt' = [rt EXCEPT !.pending = t, !.known = @ \union {t}]
    BY <1>6, <2>1 DEF Queue, Taken
  <2>3. t.inc = rt.active /\ rt.pending = NoTxn /\ rt.flight = NoFlight
    BY <1>6, <2>1 DEF Queueable
  <2>4. row.t = t /\ t # NoTxn /\ NotYet(t) /\ NoItem(t)
    BY <1>1, <1>2, <2>1 DEF Learning
  <2>5. t \in Txn /\ t \in Seen /\ t \in Txs
    BY <1>1, <2>1, <2>4 DEF Types, Seen, Txs
  <2>6. t.inc # t.cand /\ t.cand # NoPair
    BY <1>1, <2>4, <2>5, None DEF History, Ids, Types
  <2>7. /\ rt' \in Runtimes(rt'.events) /\ rt'.pending = t /\ rt'.known = rt.known \union {t}
        /\ rt'.flight = rt.flight /\ rt'.active = rt.active /\ rt'.backup = rt.backup
        /\ rt'.authorized = rt.authorized
    BY <1>1, <2>2, <2>5 DEF Types, Runtimes
  <2>8. Types'
    BY <1>1, <1>2, <1>3, <2>7 DEF Types, Alone
  <2>9. rt'.known \subseteq Seen \ {NoTxn} /\ row'.t = row.t
    BY <1>1, <1>2, <2>4, <2>5, <2>7 DEF History, Rows, Seen
  <2>10. Onward
    BY <1>2, <1>3, <2>7, <2>9, SameChallenger, SameRow DEF Onward, Alone
  <2>11. History'
    <3>1. \A i \in ActiveItems' :
            \/ queue'[i].t \in rt.known
            \/ \E j \in ActiveItems : queue[j].t = queue'[i].t
      BY <1>2 DEF ActiveItems
    <3>2. holds' \in Txs \union {NoTxn}
      BY <1>2 DEF Alone, Txs
    <3> QED BY <1>1, <1>2, <2>9, <2>10, <3>1, <3>2, HistoryKept DEF Onward
  <2>12. Session'
    <3>1. Pending'
      <4>1. NotYet(t)'
        BY <1>1, <2>4, <2>6, <2>10, NotYetStays
      <4>2. NoItem(t)'
        BY <1>2, <2>4 DEF NoItem, ActiveItems
      <4> QED BY <2>3, <2>6, <2>7, <4>1, <4>2 DEF Pending, NotYet, NoItem
    <3>2. MayDrive'
      BY <1>1, <2>7, <2>10, AllowedStays DEF Session, MayDrive, Driving, Onward
    <3>3. BackedUp'
      BY <1>1, <2>7 DEF Session, BackedUp
    <3>4. rt.flight.phase # "active" /\ rt'.known # {}
      BY <2>3, <2>7, None
    <3> QED BY <1>1, <1>4, <2>7, <2>8, <2>10, <3>1, <3>2, <3>3, <3>4, SessionKept
  <2>13. Learning'
    <3>1. LearnerOn /\ learner' # "queue"
      BY <1>2, <2>2 DEF LearnerOn, Preparing
    <3> QED BY <1>1, <1>4, <2>8, <2>10, <3>1, LearningKept
  <2>14. Pairs' /\ Outside'
    BY <1>1, <1>2, <2>7 DEF Pairs, Young, Outside, Alone
  <2> QED BY <2>8, <2>11, <2>12, <2>13, <2>14 DEF ActInv
<1> QED BY <1>5, <1>6

-----------------------------------------------------------------------------
(* The solver's thread takes a transition one step on *)

\* The runtime after a step of a transition that it knows.
Moved(r, t) ==
  /\ r.known = rt.known /\ r.pending = NoTxn
  /\ \/ /\ r.active = rt.active /\ r.backup = rt.backup
        /\ r.authorized => rt.authorized \/ Allowed(rt.active)
     \/ r.active = t.inc /\ r.backup = NoPair
     \/ r.active = t.cand /\ r.backup = t.inc /\ ~r.authorized

\* It is over, or aborted, or installed without output, and that is submitted.
Carried(r, items, t) ==
  \/ r.flight = NoFlight /\ items = <<>>
  \/ /\ r.flight = [phase |-> "aborted", t |-> t]
     /\ items = <<Work("aborted", t, "flight")>>
  \/ /\ r.flight = [phase |-> "active", t |-> t]
     /\ items = <<Work("active", t, "flight")>>
     /\ t = rt.pending /\ NotYet(t) /\ NoItem(t)
     /\ r.active = t.cand /\ r.backup = t.inc /\ ~r.authorized

\* The frame of the action.
Advancing(items, done) ==
  /\ UNCHANGED <<row, saved, learner, look, batch, dispatch>> /\ Alone /\ in
  /\ ChallengerOn /\ chal' \in ChalType
  /\ Send(items, done)

LEMMA CarriedInv ==
  ASSUME ActInv, rt' \in Runtimes(rt'.events), FlightItems = {},
         NEW t \in rt.known, Moved(rt', t),
         NEW items, Carried(rt', items, t), NEW done, Advancing(items, done)
  PROVE  ActInv'
<1>1. Types /\ History /\ Session /\ Learning /\ Pairs /\ Outside
  BY DEF ActInv
<1>2. /\ UNCHANGED <<row, saved, learner, look, batch, dispatch>> /\ Alone /\ in
      /\ ChallengerOn /\ chal' \in ChalType /\ Send(items, done)
  BY DEF Advancing
<1>3. /\ t \in Txn /\ t # NoTxn /\ t \in Txs /\ t \in Seen
      /\ t.inc.id \in 0..fits /\ t.cand.id \in 0..fits
  BY <1>1 DEF Types, Runtimes, History, Ids, Rows, Txs, Seen
<1>4. /\ items \in Seq(Items) /\ DOMAIN items \subseteq {1}
      /\ \A j \in DOMAIN items :
            /\ items[j].owner = "flight" /\ items[j].t = t /\ rt'.flight # NoFlight
            /\ items[j].kind = rt'.flight.phase /\ rt'.flight.t = t
            /\ items[j].kind \in {"active", "aborted"}
      /\ rt'.flight # NoFlight => /\ rt'.flight.t = t /\ 1 \in DOMAIN items
                                  /\ rt'.flight.phase \in {"active", "aborted"}
  <2>1. CASE rt'.flight = NoFlight /\ items = <<>>
    BY <2>1
  <2>2. ASSUME NEW k \in {"active", "aborted"}, rt'.flight = [phase |-> k, t |-> t],
               items = <<Work(k, t, "flight")>>
        PROVE  /\ items \in Seq(Items) /\ DOMAIN items \subseteq {1}
               /\ \A j \in DOMAIN items :
                     /\ items[j].owner = "flight" /\ items[j].t = t /\ rt'.flight # NoFlight
                     /\ items[j].kind = rt'.flight.phase /\ rt'.flight.t = t
                     /\ items[j].kind \in {"active", "aborted"}
               /\ rt'.flight # NoFlight => /\ rt'.flight.t = t /\ 1 \in DOMAIN items
                                           /\ rt'.flight.phase \in {"active", "aborted"}
    <3> DEFINE w == Work(k, t, "flight")
    <3>1. /\ <<w>> \in Seq(Items) /\ w.kind = k /\ w.t = t /\ w.owner = "flight"
      BY <1>3, WorkIs DEF Owners
    <3>2. rt'.flight # NoFlight
      BY <2>2, None
    <3>3. items = <<w>>
      BY <2>2
    <3> HIDE DEF w
    <3> QED BY <2>2, <3>1, <3>2, <3>3
  <2> QED BY <2>1, <2>2 DEF Carried
<1>5. /\ queue' \in Seq(Items)
      /\ receipt' \in [Owners -> {"none", "waiting", "durable", "lost"}]
      /\ \A i \in DOMAIN queue' :
            \/ i \in DOMAIN queue /\ queue'[i] = queue[i]
            \/ /\ i \notin DOMAIN queue /\ i - Len(queue) \in DOMAIN items
               /\ queue'[i] = items[i - Len(queue)]
      /\ rt'.flight # NoFlight => receipt'["flight"] = "waiting"
  BY <1>1, <1>2, <1>4, SendIs
<1>6. LooksOn /\ LookRows' = LookRows /\ Seen' = Seen
      /\ \E Ops : batch' \in Seq(Orders(Ops)) /\ dispatch' \in Seq(Orders(Ops))
  <2>1. LookRows' = LookRows
    BY <1>2 DEF LookRows
  <2>2. Seen' = Seen
    BY <1>2, <2>1 DEF Seen, Read, Moved
  <2> QED BY <1>1, <1>2, <2>1, <2>2, LooksSame
<1>7. Types'
  BY <1>1, <1>2, <1>5, <1>6 DEF Types, Alone
<1>8. \A i \in ActiveItems' :
         \/ i \in ActiveItems /\ queue[i] = queue'[i]
         \/ queue'[i].t = t /\ queue'[i].owner = "flight" /\ rt'.flight.phase = "active"
  BY <1>4, <1>5 DEF ActiveItems
<1>9. Onward
  <2>1. rt'.known = rt.known
    BY DEF Moved
  <2> QED BY <1>2, <1>6, <2>1, AloneOn, SameRow
<1>10. History'
  <2>1. \A i \in ActiveItems' :
            \/ queue'[i].t \in rt.known
            \/ \E j \in ActiveItems : queue[j].t = queue'[i].t
    BY <1>8
  <2>2. /\ row'.t = row.t /\ row' = row /\ fits' = fits /\ holds' \in Txs \union {NoTxn}
        /\ rt'.known \subseteq Seen \ {NoTxn}
    BY <1>1, <1>2, <1>9 DEF Alone, Txs, Onward
  <2> QED BY <1>1, <1>2, <1>6, <2>1, <2>2, HistoryKept
<1>11. \A p : Allowed(p) => Allowed(p)'
  BY <1>1, <1>9, AllowedStays
<1>12. Session'
  <2>1. MayDrive'
    <3> SUFFICES ASSUME Driving' PROVE Allowed(rt.active)'
      BY DEF MayDrive, Allowed
    <3>1. PICK p : p = rt'.active
      OBVIOUS
    <3>2. Allowed(p)'
      <4>1. CASE p = rt.active /\ (rt.authorized \/ Allowed(rt.active))
        BY <1>1, <1>2, <1>11, <4>1 DEF Session, MayDrive, Driving
      <4>2. CASE p = t.inc
        BY <4>2 DEF Allowed, Moved
      <4> QED BY <3>1, <4>1, <4>2 DEF Driving, Moved
    <3> QED BY <3>1, <3>2 DEF Allowed
  <2>2. ReadAllowed'
    <3> SUFFICES ASSUME NEW r \in LookRows', r.phase = "active" PROVE Allowed(r.t.cand)'
      BY DEF ReadAllowed, Allowed
    <3> QED BY <1>1, <1>6, <1>11 DEF Session, ReadAllowed
  <2>3. BackedUp'
    BY <1>1 DEF Session, BackedUp, Moved
  <2>4. Pending'
    BY DEF Pending, Moved
  <2>5. Flying'
    <3>1. CASE rt'.flight = NoFlight
      BY <3>1, None DEF Flying
    <3>2. CASE rt'.flight # NoFlight
      <4>1. rt'.flight.t = t /\ t \in rt'.known /\ receipt'["flight"] = "waiting"
            /\ rt'.flight.phase # "none"
        BY <1>4, <1>5, <3>2 DEF Moved
      <4>2. ASSUME rt'.flight.phase = "active"
            PROVE  /\ NotYet(t) /\ NoItem(t)
                   /\ rt'.active = t.cand /\ rt'.backup = t.inc /\ ~rt'.authorized
        BY <4>2, None DEF Carried
      <4>3. ASSUME rt'.flight.phase = "active"
            PROVE  /\ NotYet(t)'
                   /\ \A i \in ActiveItems' : queue'[i].t = t => queue'[i].owner = "flight"
        BY <1>2, <1>6, <1>8, <4>2, <4>3 DEF NotYet, NoItem
      <4> QED BY <4>1, <4>2, <4>3 DEF Flying, NotYet
    <3> QED BY <3>1, <3>2
  <2>6. Queued'
    <3>1. ASSUME NEW i \in FlightItems'
          PROVE  i - Len(queue) \in DOMAIN items /\ queue'[i] = items[i - Len(queue)]
                 /\ i \in Int
      <4>1. i \in DOMAIN queue'
        BY DEF FlightItems
      <4>2. ~(i \in DOMAIN queue /\ queue'[i] = queue[i])
        BY DEF FlightItems
      <4> QED BY <1>5, <4>1, <4>2
    <3>2. \A i, j \in FlightItems' : i = j
      <4>1. Len(queue) \in Nat
        BY <1>1 DEF Types
      <4>2. ASSUME NEW i \in FlightItems' PROVE i = Len(queue) + 1
        BY <1>4, <3>1, <4>1
      <4> QED BY <4>2
    <3>3. ASSUME NEW i \in FlightItems'
          PROVE  /\ rt'.flight # NoFlight /\ receipt'["flight"] = "waiting"
                 /\ queue'[i].kind = rt'.flight.phase /\ queue'[i].t = rt'.flight.t
      <4>1. PICK j \in DOMAIN items : queue'[i] = items[j]
        BY <3>1
      <4> QED BY <1>4, <1>5, <4>1
    <3> QED BY <3>2, <3>3 DEF Queued
  <2>7. Left'
    <3>1. ~Untouched
      BY DEF Untouched
    <3> QED BY <1>1, <1>2, <1>8, <3>1 DEF Session, Left, Moved
  <2> QED BY <2>1, <2>2, <2>3, <2>4, <2>5, <2>6, <2>7 DEF Session
<1>13. Learning'
  <2>1. learner' = learner /\ holds' = holds /\ row' = row
    BY <1>2 DEF Alone
  <2>2. learner' \in {"queue", "lifecycle", "withdraw", "refused"} => chal'.phase \notin Open
    BY <1>1, <1>2 DEF Learning, ChallengerOn
  <2>3. ASSUME learner = "queue"
        PROVE  /\ row.t = holds /\ holds # NoTxn /\ holds # rt'.pending
               /\ NotYet(holds)' /\ NoItem(holds)'
    <3>1. /\ row.t = holds /\ holds # NoTxn /\ holds # rt.pending
          /\ NotYet(holds) /\ NoItem(holds)
      BY <1>1, <2>3 DEF Learning
    <3>2. NotYet(holds)'
      BY <1>6, <2>1, <3>1 DEF NotYet
    <3>3. rt'.flight.phase = "active" => t # holds
      BY <3>1, None DEF Carried
    <3>4. NoItem(holds)'
      BY <1>8, <2>1, <3>1, <3>3 DEF NoItem
    <3> QED BY <3>1, <3>2, <3>4 DEF Moved
  <2> QED BY <2>1, <2>2, <2>3 DEF Learning
<1>14. Pairs'
  <2>1. Young(t.inc) /\ Young(t.cand)
    BY <1>3 DEF Young
  <2> QED BY <1>1, <1>2, <2>1 DEF Pairs, Young, Moved, Alone
<1>15. Outside'
  BY <1>2 DEF Outside, Alone
<1> QED BY <1>7, <1>10, <1>12, <1>13, <1>14, <1>15 DEF ActInv

LEMMA SubmitIs ==
  ASSUME NEW r, NEW ev, r \in Runtimes(ev), NEW t \in Txn, NEW c,
         NEW o \in SubmitAborted(r, t, c)
  PROVE  /\ o.rt \in Runtimes(ev)
         /\ o.rt.known = r.known /\ o.rt.pending = r.pending
         /\ o.rt.active = r.active /\ o.rt.backup = r.backup
         /\ o.rt.authorized => r.authorized
         /\ \/ /\ o.rt.flight = [phase |-> "aborted", t |-> t]
               /\ o.sends = <<Work("aborted", t, "flight")>>
            \/ o.rt.flight = r.flight /\ o.sends = <<>>
<1>1. PICK ok \in Answers :
         o = IF ok THEN Outcome([r EXCEPT !.flight = [phase |-> "aborted", t |-> t]],
                                <<Work("aborted", t, "flight")>>, FALSE, c)
             ELSE Outcome(Terminated(r), <<>>, FALSE, c + Cost(ok))
  BY DEF SubmitAborted
<1>2. CASE ok
  <2> DEFINE s == [r EXCEPT !.flight = [phase |-> "aborted", t |-> t]]
  <2>1. o.rt = s /\ o.sends = <<Work("aborted", t, "flight")>>
    BY <1>1, <1>2 DEF Outcome
  <2>2. /\ s \in Runtimes(ev) /\ s.flight = [phase |-> "aborted", t |-> t]
        /\ s.known = r.known /\ s.pending = r.pending
        /\ s.active = r.active /\ s.backup = r.backup /\ s.authorized = r.authorized
    BY DEF Runtimes, Flights
  <2> HIDE DEF s
  <2> QED BY <2>1, <2>2
<1>3. CASE ~ok
  <2>1. o.rt = Terminated(r) /\ o.sends = <<>>
    BY <1>1, <1>3 DEF Outcome
  <2> QED BY <2>1 DEF Terminated, Runtimes
<1> QED BY <1>2, <1>3

\* compensate_candidate_pair, of a transition that is not in flight any more.
LEMMA CompensatedIs ==
  ASSUME NEW r, NEW ev, r \in Runtimes(ev), r.flight = NoFlight, NEW t \in Txn, NEW c,
         NEW o \in Compensated(r, t, c)
  PROVE  /\ o.rt \in Runtimes(ev)
         /\ o.rt.known = r.known /\ o.rt.pending = r.pending
         /\ \/ /\ o.rt.active = r.active /\ o.rt.backup = r.backup
               /\ o.rt.authorized => r.authorized /\ r.active # t.cand
            \/ r.active = t.cand /\ o.rt.active = r.backup /\ o.rt.backup = NoPair
         /\ \/ o.rt.flight = NoFlight /\ o.sends = <<>>
            \/ /\ o.rt.flight = [phase |-> "aborted", t |-> t]
               /\ o.sends = <<Work("aborted", t, "flight")>>
<1>1. CASE r.active # t.cand
  <2>1. o \in SubmitAborted(r, t, c)
    BY <1>1 DEF Compensated
  <2> QED BY <1>1, <2>1, SubmitIs
<1>2. CASE r.active = t.cand
  <2> DEFINE s == Reinstated(r)
             u == Unseeded(r)
  <2>1. \/ o = Outcome(Terminated(u), <<>>, FALSE, c + 1)
        \/ o \in SubmitAborted(s, t, c)
        \/ \E ok \in Answers : o = Outcome(Terminated(s), <<>>, FALSE, c + Cost(ok))
    BY <1>2 DEF Compensated
  <2>2. r.events = ev
    BY DEF Runtimes
  <2>3. /\ s \in Runtimes(ev) /\ s.flight = NoFlight /\ s.pending = r.pending
        /\ s.known = r.known /\ s.active = r.backup /\ s.backup = NoPair /\ s.events = ev
    BY <2>2, ReinstatedIs
  <2>4. /\ u \in Runtimes(ev) /\ u.flight = NoFlight /\ u.pending = r.pending
        /\ u.known = r.known /\ u.active = r.active /\ u.backup = r.backup /\ u.events = ev
    BY <2>2, UnseededIs
  <2> HIDE DEF s, u
  <2>5. CASE o = Outcome(Terminated(u), <<>>, FALSE, c + 1)
    <3>1. o.rt = Terminated(u) /\ o.sends = <<>>
      BY <2>5 DEF Outcome
    <3>2. /\ Terminated(u) \in Runtimes(ev) /\ ~Terminated(u).authorized
          /\ Terminated(u).flight = u.flight /\ Terminated(u).pending = u.pending
          /\ Terminated(u).known = u.known /\ Terminated(u).active = u.active
          /\ Terminated(u).backup = u.backup
      BY <2>4, TerminatedIs
    <3> QED BY <2>4, <3>1, <3>2
  <2>6. CASE o \in SubmitAborted(s, t, c)
    BY <1>2, <2>3, <2>6, SubmitIs
  <2>7. CASE \E ok \in Answers : o = Outcome(Terminated(s), <<>>, FALSE, c + Cost(ok))
    <3>1. o.rt = Terminated(s) /\ o.sends = <<>>
      BY <2>7 DEF Outcome
    <3>2. /\ Terminated(s) \in Runtimes(ev) /\ ~Terminated(s).authorized
          /\ Terminated(s).flight = s.flight /\ Terminated(s).pending = s.pending
          /\ Terminated(s).known = s.known /\ Terminated(s).active = s.active
          /\ Terminated(s).backup = s.backup
      BY <2>3, TerminatedIs
    <3> QED BY <1>2, <2>3, <3>1, <3>2
  <2> QED BY <2>1, <2>5, <2>6, <2>7
<1> QED BY <1>1, <1>2

\* A step that leaves what drives, and a transition in flight, as they are.
Idle(o) ==
  /\ o.rt.flight = rt.flight /\ o.rt.pending \in {rt.pending, NoTxn}
  /\ o.rt.known = rt.known /\ o.rt.active = rt.active /\ o.rt.backup = rt.backup
  /\ o.rt.authorized => rt.authorized
  /\ o.sends \in Seq(Items) /\ \A j \in DOMAIN o.sends : Harmless(o.sends[j])

\* A step of a transition.
Steps(o) ==
  /\ FlightItems = {}
  /\ \E t \in rt.known : Moved(o.rt, t) /\ Carried(o.rt, o.sends, t)

Settled == [rt EXCEPT !.abort = NoTxn]

LEMMA SettledIs ==
  ASSUME rt \in Runtimes(rt.events)
  PROVE  /\ Settled \in Runtimes(rt.events) /\ Settled.flight = rt.flight
         /\ Settled.pending = rt.pending /\ Settled.known = rt.known
         /\ Settled.active = rt.active /\ Settled.backup = rt.backup
         /\ Settled.authorized = rt.authorized /\ Settled.inert = rt.inert
         /\ Settled.events = rt.events
BY None DEF Settled, Runtimes

LEMMA InFlightIs ==
  ASSUME ActInv, rt.flight # NoFlight, NEW o \in InFlight(Settled)
  PROVE  o.rt \in Runtimes(rt.events) /\ (Idle(o) \/ Steps(o))
<1> DEFINE r == Settled
           t == rt.flight.t
           landed == [r EXCEPT !.flight = NoFlight]
<1>1. Types /\ Session
  BY DEF ActInv
<1>2. /\ r \in Runtimes(rt.events) /\ r.flight = rt.flight /\ r.pending = rt.pending
      /\ r.known = rt.known /\ r.active = rt.active /\ r.backup = rt.backup
      /\ r.authorized = rt.authorized /\ r.inert = rt.inert /\ r.events = rt.events
  BY <1>1, SettledIs DEF Types
<1>3. t \in rt.known /\ t \in Txn /\ rt.pending = NoTxn
  BY <1>1 DEF Session, Flying, Pending, Types, Runtimes
<1>4. /\ landed \in Runtimes(rt.events) /\ landed.flight = NoFlight
      /\ landed.pending = NoTxn /\ landed.known = rt.known /\ landed.active = rt.active
      /\ landed.backup = rt.backup /\ landed.authorized = rt.authorized
  BY <1>2, <1>3, None DEF Runtimes
<1>5. /\ rt.flight.phase \in {"active", "aborted"}
      /\ receipt["flight"] \in {"waiting", "durable", "lost"}
  BY <1>1, None DEF Types, Runtimes, Flights, Session, Flying, Owners
<1>6. receipt["flight"] # "waiting" => FlightItems = {}
  BY <1>1 DEF Session, Queued
<1>7. <<>> \in Seq(Items) /\ DOMAIN <<>> = {}
  BY EmptySeq
<1>8. /\ receipt["flight"] = "waiting" => o = Outcome(r, <<>>, FALSE, 0)
      /\ rt.flight.phase = "active" /\ receipt["flight"] = "durable" =>
            o \in Authorized(r, t)
      /\ rt.flight.phase = "active" /\ receipt["flight"] = "lost" =>
            o \in Compensated(landed, t, 0)
      /\ rt.flight.phase = "aborted" /\ receipt["flight"] = "durable" =>
            o = Outcome(landed, <<>>, TRUE, 0)
      /\ rt.flight.phase = "aborted" /\ receipt["flight"] = "lost" =>
            o = Outcome(Terminated(r), <<>>, FALSE, 0)
  <2> HIDE DEF landed
  <2>1. r.flight = rt.flight
    BY <1>2
  <2> HIDE DEF r
  <2> QED BY <2>1 DEF InFlight, landed, r
<1> HIDE DEF r, landed, t
<1>9. /\ Terminated(r) \in Runtimes(rt.events) /\ ~Terminated(r).authorized
       /\ Terminated(r).flight = r.flight /\ Terminated(r).pending = r.pending
       /\ Terminated(r).known = r.known /\ Terminated(r).active = r.active
       /\ Terminated(r).backup = r.backup
  BY <1>2, TerminatedIs
<1>10. CASE receipt["flight"] = "waiting"
  <2>1. o.rt = r /\ o.sends = <<>>
    BY <1>8, <1>10 DEF Outcome
  <2> QED BY <1>2, <1>7, <2>1 DEF Idle
<1>11. CASE rt.flight.phase = "active" /\ receipt["flight"] = "durable"
  <2> DEFINE driving == [r EXCEPT !.authorized = TRUE, !.record = t, !.inert = NoTxn,
                                  !.gen = Larger(r.gen, t.cand.role)]
             over == [driving EXCEPT !.flight = NoFlight]
  <2>1. Larger(r.gen, t.cand.role) \in Int
    BY <1>2, <1>3 DEF Runtimes, Txn, Pair, Larger
  <2>2. /\ driving \in Runtimes(rt.events) /\ driving.flight = rt.flight
        /\ driving.pending = NoTxn /\ driving.known = rt.known /\ driving.active = rt.active
        /\ driving.backup = rt.backup /\ driving.events = rt.events
    BY <1>2, <1>3, <2>1, None DEF Runtimes
  <2>3. \/ o = Outcome(Terminated(r), <<>>, FALSE, 0)
        \/ r.active = t.cand /\ o = Outcome(over, <<>>, TRUE, 0)
        \/ \E ok \in Answers : o = Outcome(Terminated(driving), <<>>, FALSE, Cost(ok))
    BY <1>8, <1>11 DEF Authorized
  <2> HIDE DEF driving
  <2>4. /\ over \in Runtimes(rt.events) /\ over.flight = NoFlight
        /\ over.pending = NoTxn /\ over.known = rt.known /\ over.active = rt.active
        /\ over.backup = rt.backup
    BY <2>2, None DEF Runtimes
  <2> HIDE DEF over
  <2>5. CASE o = Outcome(Terminated(r), <<>>, FALSE, 0)
    <3>1. o.rt = Terminated(r) /\ o.sends = <<>>
      BY <2>5 DEF Outcome
    <3> QED BY <1>2, <1>7, <1>9, <3>1 DEF Idle
  <2>6. CASE r.active = t.cand /\ o = Outcome(over, <<>>, TRUE, 0)
    <3>1. o.rt = over /\ o.sends = <<>>
      BY <2>6 DEF Outcome
    <3>2. Allowed(rt.active)
      BY <1>1, <1>2, <1>11, <2>6 DEF Session, Flying, t
    <3> QED BY <1>3, <1>6, <1>11, <2>4, <3>1, <3>2 DEF Steps, Moved, Carried
  <2>7. CASE \E ok \in Answers : o = Outcome(Terminated(driving), <<>>, FALSE, Cost(ok))
    <3>1. o.rt = Terminated(driving) /\ o.sends = <<>>
      BY <2>7 DEF Outcome
    <3>2. /\ Terminated(driving) \in Runtimes(rt.events) /\ ~Terminated(driving).authorized
          /\ Terminated(driving).flight = driving.flight /\ Terminated(driving).pending = driving.pending
          /\ Terminated(driving).known = driving.known /\ Terminated(driving).active = driving.active
          /\ Terminated(driving).backup = driving.backup
      BY <2>2, TerminatedIs
    <3> QED BY <1>3, <1>7, <2>2, <3>1, <3>2 DEF Idle
  <2> QED BY <2>3, <2>5, <2>6, <2>7
<1>12. CASE rt.flight.phase = "active" /\ receipt["flight"] = "lost"
  <2>1. /\ o.rt \in Runtimes(rt.events) /\ o.rt.known = rt.known /\ o.rt.pending = NoTxn
        /\ \/ /\ o.rt.active = rt.active /\ o.rt.backup = rt.backup
              /\ o.rt.authorized => rt.authorized
           \/ rt.active = t.cand /\ o.rt.active = rt.backup /\ o.rt.backup = NoPair
        /\ \/ o.rt.flight = NoFlight /\ o.sends = <<>>
           \/ /\ o.rt.flight = [phase |-> "aborted", t |-> t]
              /\ o.sends = <<Work("aborted", t, "flight")>>
    BY <1>3, <1>4, <1>8, <1>12, CompensatedIs
  <2>2. rt.active = t.cand => rt.backup = t.inc
    BY <1>1, <1>12 DEF Session, Flying, t
  <2> QED BY <1>3, <1>6, <1>12, <2>1, <2>2 DEF Steps, Moved, Carried
<1>13. CASE rt.flight.phase = "aborted" /\ receipt["flight"] = "durable"
  <2>1. o.rt = landed /\ o.sends = <<>>
    BY <1>8, <1>13 DEF Outcome
  <2> QED BY <1>3, <1>4, <1>6, <1>13, <2>1 DEF Steps, Moved, Carried
<1>14. CASE rt.flight.phase = "aborted" /\ receipt["flight"] = "lost"
  <2>1. o.rt = Terminated(r) /\ o.sends = <<>>
    BY <1>8, <1>14 DEF Outcome
  <2> QED BY <1>2, <1>7, <1>9, <2>1 DEF Idle
<1> QED BY <1>5, <1>10, <1>11, <1>12, <1>13, <1>14

LEMMA InstalledIs ==
  ASSUME ActInv, rt.flight = NoFlight, rt.pending # NoTxn,
         NEW o \in Installed([Settled EXCEPT !.pending = NoTxn], rt.pending)
  PROVE  o.rt \in Runtimes(rt.events) /\ Steps(o)
<1> DEFINE r == [Settled EXCEPT !.pending = NoTxn]
           t == rt.pending
           in_ == [Inert(r, t) EXCEPT !.flight = [phase |-> "active", t |-> t]]
<1>1. Types /\ Session
  BY DEF ActInv
<1>2. /\ r \in Runtimes(rt.events) /\ r.flight = NoFlight /\ r.pending = NoTxn
      /\ r.known = rt.known /\ r.active = rt.active /\ r.backup = rt.backup
      /\ r.authorized = rt.authorized /\ r.events = rt.events
  <2> DEFINE s == Settled
  <2>1. /\ s \in Runtimes(rt.events) /\ s.flight = NoFlight
        /\ s.known = rt.known /\ s.active = rt.active /\ s.backup = rt.backup
        /\ s.authorized = rt.authorized /\ s.events = rt.events
    BY <1>1, SettledIs DEF Types
  <2>2. r = [s EXCEPT !.pending = NoTxn]
    OBVIOUS
  <2> HIDE DEF s, r
  <2> QED BY <2>1, <2>2, None DEF Runtimes
<1>3. /\ t \in rt.known /\ t \in Txn /\ NotYet(t) /\ NoItem(t) /\ rt.active # t.cand
  BY <1>1 DEF Session, Pending, Types, Runtimes
<1>4. FlightItems = {}
  BY <1>1 DEF Session, Queued
<1>5. \/ \E c : o \in Compensated(r, t, c)
      \/ /\ r.active = t.inc
         /\ \/ o = Outcome(in_, <<Work("active", t, "flight")>>, FALSE, 0)
            \/ \E c : o \in Compensated(Inert(r, t), t, c)
  <2> HIDE DEF r, t, in_
  <2>1. o \in Installed(r, t)
    BY DEF r, t
  <2>2. CASE r.active # t.inc \/ r.inert # NoTxn
    BY <2>1, <2>2 DEF Installed
  <2>3. CASE ~(r.active # t.inc \/ r.inert # NoTxn)
    <3>1. \/ o \in Compensated(r, t, 1)
          \/ \E ok \in Answers :
                o \in IF ok THEN {Outcome(in_, <<Work("active", t, "flight")>>, FALSE, 0)}
                      ELSE Compensated(Inert(r, t), t, Cost(ok))
      BY <2>1, <2>3 DEF Installed, in_
    <3> QED BY <2>3, <3>1
  <2> QED BY <2>2, <2>3
<1>6. /\ Inert(r, t) \in Runtimes(rt.events) /\ Inert(r, t).flight = NoFlight
      /\ Inert(r, t).pending = NoTxn /\ Inert(r, t).known = rt.known
      /\ Inert(r, t).active = t.cand /\ Inert(r, t).backup = rt.active
      /\ ~Inert(r, t).authorized
  <2> HIDE DEF r
  <2> QED BY <1>2, <1>3 DEF Inert, Runtimes, Txn
<1>7. /\ in_ \in Runtimes(rt.events) /\ in_.flight = [phase |-> "active", t |-> t]
      /\ in_.pending = NoTxn /\ in_.known = rt.known
      /\ in_.active = t.cand /\ in_.backup = rt.active /\ ~in_.authorized
  <2> DEFINE s == Inert(r, t)
  <2>1. /\ s \in Runtimes(rt.events) /\ s.pending = NoTxn /\ s.known = rt.known
        /\ s.active = t.cand /\ s.backup = rt.active /\ ~s.authorized
    BY <1>6
  <2>2. in_ = [s EXCEPT !.flight = [phase |-> "active", t |-> t]]
    OBVIOUS
  <2> HIDE DEF s, in_
  <2> QED BY <1>3, <2>1, <2>2 DEF Runtimes, Flights
<1>8. t = rt.pending
  OBVIOUS
<1> HIDE DEF r, t, in_
<1>9. CASE \E c : o \in Compensated(r, t, c)
  <2>1. PICK c : o \in Compensated(r, t, c)
    BY <1>9
  <2>2. /\ o.rt \in Runtimes(rt.events) /\ o.rt.known = rt.known /\ o.rt.pending = NoTxn
        /\ o.rt.active = rt.active /\ o.rt.backup = rt.backup
        /\ o.rt.authorized => rt.authorized
        /\ \/ o.rt.flight = NoFlight /\ o.sends = <<>>
           \/ /\ o.rt.flight = [phase |-> "aborted", t |-> t]
              /\ o.sends = <<Work("aborted", t, "flight")>>
    BY <1>2, <1>3, <2>1, CompensatedIs
  <2> QED BY <1>3, <1>4, <2>2 DEF Steps, Moved, Carried
<1>10. CASE r.active = t.inc /\ o = Outcome(in_, <<Work("active", t, "flight")>>, FALSE, 0)
  <2>1. o.rt = in_ /\ o.sends = <<Work("active", t, "flight")>>
    BY <1>10 DEF Outcome
  <2> QED BY <1>2, <1>3, <1>4, <1>7, <1>8, <1>10, <2>1 DEF Steps, Moved, Carried
<1>11. CASE r.active = t.inc /\ \E c : o \in Compensated(Inert(r, t), t, c)
  <2>1. PICK c : o \in Compensated(Inert(r, t), t, c)
    BY <1>11
  <2>2. PICK s : s = Inert(r, t)
    OBVIOUS
  <2>3. /\ o.rt \in Runtimes(rt.events) /\ o.rt.known = rt.known /\ o.rt.pending = NoTxn
        /\ \/ o.rt.active = t.cand /\ o.rt.backup = t.inc /\ ~o.rt.authorized
           \/ o.rt.active = t.inc /\ o.rt.backup = NoPair
        /\ \/ o.rt.flight = NoFlight /\ o.sends = <<>>
           \/ /\ o.rt.flight = [phase |-> "aborted", t |-> t]
              /\ o.sends = <<Work("aborted", t, "flight")>>
    <3>1. /\ s \in Runtimes(rt.events) /\ s.flight = NoFlight /\ s.pending = NoTxn
          /\ s.known = rt.known /\ s.active = t.cand /\ s.backup = t.inc /\ ~s.authorized
      BY <1>2, <1>6, <1>11, <2>2
    <3>2. o \in Compensated(s, t, c)
      BY <2>1, <2>2
    <3> QED BY <1>3, <3>1, <3>2, CompensatedIs
  <2> QED BY <1>3, <1>4, <2>3 DEF Steps, Moved, Carried
<1> QED BY <1>5, <1>9, <1>10, <1>11

LEMMA AdvancedIs ==
  ASSUME ActInv, NEW o \in Advanced(rt)
  PROVE  o.rt \in Runtimes(rt.events) /\ (Idle(o) \/ Steps(o))
<1>1. Types /\ Session
  BY DEF ActInv
<1>2. rt \in Runtimes(rt.events) /\ rt.abort \in Txn
  BY <1>1 DEF Types, Runtimes
<1>3. <<>> \in Seq(Items) /\ DOMAIN <<>> = {}
  BY EmptySeq
<1>4. CASE rt.abort # NoTxn /\ receipt["abort"] # "durable"
  <2> DEFINE w == Work("aborted", rt.abort, "abort")
  <2>1. o.rt = rt /\ (o.sends = <<>> \/ o.sends = <<w>>)
    <3> HIDE DEF w
    <3>1. o \in Retried(rt)
      BY <1>4 DEF Advanced
    <3>2. \/ o = Outcome(rt, <<>>, FALSE, 0)
          \/ \E ok \in Answers :
                o = Outcome(rt, IF ok THEN <<w>> ELSE <<>>, FALSE, Cost(ok))
      BY <3>1 DEF Retried, w
    <3> QED BY <3>2 DEF Outcome
  <2>2. /\ <<w>> \in Seq(Items) /\ w.kind = "aborted" /\ w.owner = "abort"
    BY <1>2, WorkIs DEF Owners
  <2> HIDE DEF w
  <2>3. o.sends \in Seq(Items) /\ \A j \in DOMAIN o.sends : Harmless(o.sends[j])
    <3>1. CASE o.sends = <<>>
      BY <1>3, <3>1
    <3>2. CASE o.sends = <<w>>
      <4>1. Harmless(w)
        BY <2>2 DEF Harmless
      <4> QED BY <2>2, <3>2, <4>1
    <3> QED BY <2>1, <3>1, <3>2
  <2> QED BY <1>2, <2>1, <2>3 DEF Idle
<1>5. CASE ~(rt.abort # NoTxn /\ receipt["abort"] # "durable")
  <2>1. /\ rt.terminated => o = Outcome(Settled, <<>>, FALSE, 0)
        /\ ~rt.terminated /\ rt.flight # NoFlight => o \in InFlight(Settled)
        /\ ~rt.terminated /\ rt.flight = NoFlight /\ rt.pending # NoTxn =>
              o \in Installed([Settled EXCEPT !.pending = NoTxn], rt.pending)
        /\ ~rt.terminated /\ rt.flight = NoFlight /\ rt.pending = NoTxn =>
              o = Outcome(Settled, <<>>, TRUE, 0)
    <3>1. o \in CASE rt.terminated -> {Outcome(Settled, <<>>, FALSE, 0)}
                  [] ~rt.terminated /\ rt.flight # NoFlight -> InFlight(Settled)
                  [] ~rt.terminated /\ rt.flight = NoFlight /\ rt.pending # NoTxn ->
                        Installed([Settled EXCEPT !.pending = NoTxn], rt.pending)
                  [] OTHER -> {Outcome(Settled, <<>>, TRUE, 0)}
      BY <1>5 DEF Advanced, Settled
    <3> QED BY <3>1
  <2>2. CASE o = Outcome(Settled, <<>>, FALSE, 0) \/ o = Outcome(Settled, <<>>, TRUE, 0)
    <3>1. o.rt = Settled /\ o.sends = <<>>
      BY <2>2 DEF Outcome
    <3> QED BY <1>2, <1>3, <3>1, SettledIs DEF Idle
  <2>3. CASE rt.flight # NoFlight /\ o \in InFlight(Settled)
    BY <2>3, InFlightIs
  <2>4. CASE /\ rt.flight = NoFlight /\ rt.pending # NoTxn
             /\ o \in Installed([Settled EXCEPT !.pending = NoTxn], rt.pending)
    BY <2>4, InstalledIs
  <2> QED BY <2>1, <2>2, <2>3, <2>4
<1> QED BY <1>4, <1>5

LEMMA AdvanceInv == ActInv /\ Advance => ActInv'
<1> SUFFICES ASSUME ActInv, Advance PROVE ActInv'
  OBVIOUS
<1>1. Types
  BY DEF ActInv
<1>2. /\ UNCHANGED <<row, saved, learner, look, batch, dispatch>> /\ Alone /\ in
  BY DEF Advance, OutsideRuntime, hold, session, Alone
<1>3. PICK o \in Advanced(rt) :
         /\ rt' = o.rt
         /\ Send(o.sends, (IF o.rt.flight = NoFlight THEN {"flight"} ELSE {})
                            \union (IF o.rt.abort = NoTxn THEN {"abort"} ELSE {}))
         /\ chal' = chal \/ chal' = Reviewed(chal, o.rt.active)
  BY DEF Advance, Synchronize, NotSynchronized
<1>4. PICK done : /\ Send(o.sends, done)
                  /\ "flight" \in done => o.rt.flight = NoFlight
  <2> DEFINE D == (IF o.rt.flight = NoFlight THEN {"flight"} ELSE {})
                    \union (IF o.rt.abort = NoTxn THEN {"abort"} ELSE {})
  <2>1. Send(o.sends, D)
    BY <1>3
  <2>2. "flight" \in D => o.rt.flight = NoFlight
    OBVIOUS
  <2> HIDE DEF D
  <2> QED BY <2>1, <2>2
<1>5. o.rt \in Runtimes(rt.events) /\ (Idle(o) \/ Steps(o))
  BY <1>3, AdvancedIs
<1>6. rt' \in Runtimes(rt'.events)
  BY <1>3, <1>5 DEF Runtimes
<1>7. ChallengerOn /\ chal' \in ChalType
  BY <1>3, SameChallenger, ReviewedOn
<1>8. CASE Idle(o)
  <2>1. /\ queue' \in Seq(Items) /\ QuietQueue
        /\ receipt' \in [Owners -> {"none", "waiting", "durable", "lost"}]
        /\ "flight" \notin done => receipt'["flight"] = receipt["flight"]
    BY <1>1, <1>4, <1>8, SendIs, SendQuiet DEF Idle
  <2>2. LooksOn /\ \E Ops : batch' \in Seq(Orders(Ops)) /\ dispatch' \in Seq(Orders(Ops))
    BY <1>1, <1>2, LooksSame
  <2>3. Types'
    BY <1>1, <1>2, <1>6, <1>7, <2>1, <2>2 DEF Types, Alone
  <2>4. Steady
    BY <1>3, <1>8 DEF Idle, Steady
  <2>5. Onward
    BY <1>2, <1>7, <2>2, <2>4, AloneOn, SameRow DEF Steady
  <2>6. AnswersOn /\ LearnerOn
    BY <1>2, <1>4, <1>8, <2>1 DEF AnswersOn, LearnerOn, Idle
  <2> QED BY <1>2, <2>1, <2>3, <2>4, <2>5, <2>6, SteadyInv
<1>9. CASE Steps(o)
  <2>1. PICK t \in rt.known : Moved(rt', t) /\ Carried(rt', o.sends, t)
    BY <1>3, <1>9 DEF Steps
  <2>2. FlightItems = {} /\ Advancing(o.sends, done)
    BY <1>2, <1>4, <1>7, <1>9 DEF Steps, Advancing
  <2> QED BY <1>6, <2>1, <2>2, CarriedInv
<1> QED BY <1>5, <1>8, <1>9

-----------------------------------------------------------------------------
(* The theorems *)

LEMMA StepInv == ActInv /\ Restoring /\ [Next]_vars => ActInv'
<1> SUFFICES ASSUME ActInv, Restoring, [Next]_vars PROVE ActInv'
  OBVIOUS
<1>1. CASE Solver
  BY <1>1, TakeDispatchesInv, GiveUpInv, RestoreKnownInv, RestoreInv, RestorePreparedInv,
     RestoreAbortedInv, AdvanceInv, SolveInv DEF Solver
<1>2. CASE SolveFails \/ MissDeadlines
  BY <1>2, SolveFailsInv, MissDeadlinesInv
<1>3. CASE Deliver \/ Learner
  BY <1>3, DeliverInv, JudgeInv, AwaitConfidenceInv, PrepareInv, QueueInv, SettledRowInv,
     WithdrawInv, AwaitAbortedInv DEF Learner
<1>4. CASE Hold \/ Rollback
  BY <1>4, ReadRowInv, ReconcileInv, DrainEventsInv, RollbackInv DEF Hold
<1>5. CASE Write \/ WriteReport \/ FailWrite
  BY <1>5, WriteActiveInv, WriteOtherInv, WriteReportInv, FailWriteInv
<1>6. CASE Leave \/ Crash \/ Enter
  BY <1>6, LeaveInv, CrashInv, EnterInv
<1>7. CASE UNCHANGED vars
  <2>1. /\ UNCHANGED <<row, chal, saved, queue, receipt, rt, look, batch, dispatch, learner>>
        /\ Alone
    BY <1>7 DEF vars, durable, worker, solver, learning, hold, session, Alone
  <2>2. LooksOn /\ \E Ops : batch' \in Seq(Orders(Ops)) /\ dispatch' \in Seq(Orders(Ops))
    BY <2>1, LooksSame DEF ActInv
  <2>3. Types'
    BY <2>1, <2>2 DEF ActInv, Types, Alone
  <2>4. Onward /\ Steady
    BY <2>1, <2>2, AloneOn, SameRuntime, SameChallenger, SameRow
  <2>5. QuietQueue /\ AnswersOn /\ LearnerOn
    BY <2>1, QueueSame DEF ActInv, AnswersOn, LearnerOn
  <2> QED BY <2>1, <2>3, <2>4, <2>5, SteadyInv
<1> QED BY <1>1, <1>2, <1>3, <1>4, <1>5, <1>6, <1>7 DEF Next

LEMMA RestoringKept == Restoring /\ [Next]_vars => Restoring'
<1> SUFFICES ASSUME Restoring, [Next]_vars PROVE Restoring'
  OBVIOUS
<1>1. CASE UNCHANGED <<pc, batch>>
  BY <1>1 DEF Restoring
<1>2. CASE pc' # "restoring"
  BY <1>2 DEF Restoring
<1>3. CASE RestorePrepared
  BY <1>2, <1>3 DEF Restoring, RestorePrepared, Unknown, Conclude
<1>4. CASE Solver
  BY <1>1, <1>2, <1>3, <1>4
  DEF Solver, TakeDispatches, GiveUp, RestoreKnown, Restore, RestoreAborted, Advance, Solve,
      Conclude
<1>5. CASE SolveFails \/ MissDeadlines \/ Deliver \/ Learner
  BY <1>1, <1>2, <1>5
  DEF SolveFails, MissDeadlines, Deliver, Learner, LearnerFrame, Judge, AwaitConfidence,
      Prepare, Queue, Refused, RecordPrepared, Withdraw, AwaitAborted, solver
<1>6. CASE Hold \/ Rollback \/ Write \/ WriteReport \/ FailWrite
  BY <1>1, <1>6
  DEF Hold, HoldFrame, ReadRow, Reconcile, DrainEvents, Rollback, Write, WriteReport,
      FailWrite, WorkerFrame, solver
<1>7. CASE Leave \/ Crash \/ Enter
  BY <1>1, <1>2, <1>7 DEF Leave, Crash, Out, Enter, solver
<1>8. CASE UNCHANGED vars
  BY <1>1, <1>8 DEF vars, solver
<1> QED BY <1>4, <1>5, <1>6, <1>7, <1>8 DEF Next

\* In every state the row, what Hold has read of it, the queue, the receipts and the
\* runtime fit together: no two transactions have one candidate, no transaction that
\* was a row was built on the candidate of the row there is, a challenger still open
\* never was a row, and whatever a step may yet install or put back is a pair that
\* may drive (queue_prepared_activation, advance_activation, restore_activation and
\* _compensate_locked of ActivationRuntime, commit_model_activation_phase).
THEOREM ActivationInvariant == Spec => [](ActInv /\ Restoring)
<1>1. Init => ActInv /\ Restoring
  BY InitInv DEF Init, Restoring
<1>2. ActInv /\ Restoring /\ [Next]_vars => (ActInv /\ Restoring)'
  BY StepInv, RestoringKept
<1> QED BY <1>1, <1>2, PTL DEF Spec

LEMMA AuthorityDrives == ActInv => DrivenByAuthority
<1> SUFFICES ASSUME ActInv, Driving
             PROVE  \/ rt.active \in {entered, Authority(row)}
                    \/ /\ rt.active # row.t.cand
                       /\ \E t \in rt.known : t.inc = rt.active
  BY DEF DrivenByAuthority
<1>1. Allowed(rt.active)
  BY DEF ActInv, Session, MayDrive
<1>2. \A t \in rt.known : t.inc # row.t.cand
  BY DEF ActInv, History, Rows, Past, Seen
<1> QED BY <1>1, <1>2 DEF Allowed

\* While a session runs and a pair drives, it is the one that the session began
\* with, the one the durable row gives authority, or one on which a transaction
\* that the runtime knows was built, and then it is not the row's own candidate:
\* no candidate drives before its row is active, whatever is read late, refused,
\* lost, rolled back or left behind by an earlier session (advance_activation,
\* restore_activation, commit_model_activation_phase).
THEOREM DrivenByAuthorityHolds == Spec => []DrivenByAuthority
BY ActivationInvariant, AuthorityDrives, PTL

-----------------------------------------------------------------------------
(* What failed stays down                                                  *)

\* How far activations have come: a candidate's role is one above that of the
\* pair it was built on, and only the activation of a row raises authority.
Level == Larger(Authority(row).role, 0)
Ranked(p) == p.role \in 0..Level

Cands(s) == {s[i].cand : i \in DOMAIN s}
Built(r, p) == \E t \in r.known : t.inc = p
SeenBy(r) == r.known \union Read \union {row.t}
Heir(t) == t.cand.role = t.inc.role + 1 /\ t.inc.role >= 0

\* The rows that were read, or are, active.
ActiveRows == {x \in LookRows \union {row} : x.phase = "active"}

\* The transition whose activation is durable, and which nobody has looked at yet.
Landed(r, word) ==
  IF r.flight.phase = "active" /\ word = "durable" THEN {r.flight.t} ELSE {}

\* The candidates that were ever in authority, as far as anybody remembers.
Proven(r, word) ==
  Cands(evidence) \union Cands(reports) \union Cands(r.events)
    \union {x.t.cand : x \in ActiveRows}
    \union {t.cand : t \in {r.record} \ {NoTxn}}
    \union {t.cand : t \in Landed(r, word)}

Ordered(r) ==
  /\ \A t \in (SeenBy(r) \union {holds, chal.t}) \ {NoTxn} : Heir(t)
  /\ \A t \in SeenBy(r) \ {NoTxn} : Ranked(t.inc)
  /\ r.inert = NoTxn => Ranked(r.active)
  /\ r.active.role >= 0

\* No two candidates that were in authority have one role.
Singular(r, word) ==
  /\ \A p \in Proven(r, word) : Ranked(p)
  /\ \A p, q \in Proven(r, word) : p.role = q.role => p = q

\* While a transition is pending nobody else comes to authority.
Waiting(r) ==
  r.pending # NoTxn =>
    /\ row # NoRow /\ Authority(row) = r.pending.inc /\ r.pending \in r.known
    /\ \A i \in ActiveItems : queue[i].t # row.t
    /\ r.pending.cand.role \notin r.failedRoles

\* What Hold may yet restore did not fail, or something was built on it.
Restorable(r) ==
  /\ \A x \in ActiveRows :
        x.t \notin r.known /\ x.t.cand.role \in r.failedRoles => Built(r, x.t.cand)
  /\ r.known = {} => r.failedRoles = {}

StaysDown(r) == r.authorized /\ r.active.role \in r.failedRoles => Built(r, r.active)

\* A pair installed without output is that of the transition in flight, and did
\* not fail; what can be fallen back from is the transition on record.
Halfway(r) ==
  /\ r.inert # NoTxn =>
        /\ ~r.authorized
        /\ r.terminated \/ /\ r.flight = [phase |-> "active", t |-> r.inert]
                           /\ r.active = r.inert.cand
                           /\ r.inert.cand.role \notin r.failedRoles
  /\ r.authorized /\ r.backup # NoPair => r.record # NoTxn /\ r.record.cand = r.active
  /\ r.record \in r.known \union {NoTxn}

Near(r, word) ==
  Ordered(r) /\ Singular(r, word) /\ Waiting(r) /\ Restorable(r) /\ StaysDown(r)
Fit(r, word) == Near(r, word) /\ Halfway(r)

Notices == [cand : Pair, place : Int]
Evidenced ==
  /\ evidence \in Seq([kind : {"rollback", "fallback"}, cand : Pair])
  /\ reports \in Seq(Notices) /\ rt.events \in Seq(Notices)
  /\ \A i \in DOMAIN reports : reports[i].place \in 0..Len(evidence)
  /\ \A i \in DOMAIN rt.events : rt.events[i].place \in 0..Len(evidence)
  /\ \A i \in DOMAIN batch : batch[i].gone => batch[i].row.t.cand \in Cands(evidence)
  /\ \A i \in DOMAIN dispatch : dispatch[i].gone => dispatch[i].row.t.cand \in Cands(evidence)

Starts ==
  /\ Ranked(entered) /\ (saved # NoPair => Ranked(saved))
  /\ pc = "solve" => rt.inert = NoTxn
  /\ learner \in {"lifecycle", "withdraw"} => holds # NoTxn

DownInv == Fit(rt, receipt["flight"]) /\ Evidenced /\ Starts

LEMMA LevelIs ==
  ASSUME Types
  PROVE  /\ Level \in Nat /\ Authority(row) \in Pair /\ Authority(row).role <= Level
         /\ \A p : Ranked(p) => p.role \in Int
<1>1. row.t \in Txn
  BY DEF Types, RowType
<1>2. Authority(row) \in Pair
  BY <1>1 DEF Authority, Txn
<1>3. Authority(row).role \in Int
  BY <1>2 DEF Pair
<1> QED BY <1>2, <1>3 DEF Level, Larger, Ranked

\* What a runtime loses, or keeps, does not matter but for what it installed.
LEMMA NearSame ==
  ASSUME NEW r, NEW s, NEW v, NEW w, Near(r, v),
         s.active = r.active, s.inert = r.inert, s.known = r.known,
         s.record = r.record, s.failedRoles = r.failedRoles,
         s.pending \in {r.pending, NoTxn}, s.authorized => r.authorized,
         Cands(s.events) \subseteq Proven(r, v),
         Landed(s, w) \subseteq Landed(r, v)
  PROVE  Near(s, w)
<1>1. Ordered(s)
  BY DEF Near, Ordered, SeenBy
<1>2. Proven(s, w) \subseteq Proven(r, v)
  BY DEF Proven
<1>3. Singular(s, w)
  BY <1>2 DEF Near, Singular
<1>4. Waiting(s)
  BY DEF Near, Waiting
<1>5. Restorable(s) /\ StaysDown(s)
  BY DEF Near, Restorable, StaysDown, Built
<1> QED BY <1>1, <1>3, <1>4, <1>5 DEF Near

\* The roles F are of candidates whose rows, if active, were restored.
Spent(F, r, s, v) ==
  \A n \in F : \E p \in Proven(r, v) :
     n = p.role /\ \A x \in ActiveRows : x.t.cand = p => x.t \in s.known

\* A pair on which a known transaction was built may be put back at any time.
LEMMA NearBack ==
  ASSUME Types, NEW r, NEW s, NEW v, NEW w, Near(r, v),
         r.known \subseteq s.known, s.known \subseteq SeenBy(r) \ {NoTxn},
         s.known \in SUBSET Txn,
         NEW u \in s.known, s.active = u.inc,
         s.inert = NoTxn, s.record = NoTxn, s.pending \in {r.pending, NoTxn},
         Cands(s.events) \subseteq Proven(r, v),
         Landed(s, w) \subseteq Landed(r, v),
         NEW F, s.failedRoles = r.failedRoles \union F,
         Spent(F, r, s, v)
  PROVE  Near(s, w)
<1>1. SeenBy(s) = SeenBy(r)
  BY DEF SeenBy
<1>2. u \in SeenBy(r) /\ u # NoTxn
  OBVIOUS
<1>3. Ranked(s.active) /\ s.active.role >= 0
  BY <1>2, LevelIs DEF Near, Ordered, Ranked
<1>4. Ordered(s)
  BY <1>1, <1>3 DEF Near, Ordered
<1>5. Proven(s, w) \subseteq Proven(r, v)
  BY DEF Proven
<1>6. Singular(s, w)
  BY <1>5 DEF Near, Singular
<1>7. Waiting(s)
  <2> SUFFICES ASSUME s.pending # NoTxn
               PROVE  /\ row # NoRow /\ Authority(row) = s.pending.inc
                      /\ s.pending \in s.known
                      /\ \A i \in ActiveItems : queue[i].t # row.t
                      /\ s.pending.cand.role \notin s.failedRoles
    BY DEF Waiting
  <2>1. s.pending = r.pending
    OBVIOUS
  <2>2. /\ row # NoRow /\ Authority(row) = r.pending.inc /\ r.pending \in r.known
        /\ \A i \in ActiveItems : queue[i].t # row.t
        /\ r.pending.cand.role \notin r.failedRoles
    BY <2>1 DEF Near, Waiting
  <2>3. r.pending.cand.role = Authority(row).role + 1 /\ r.pending.inc.role >= 0
    BY <2>1, <2>2 DEF Near, Ordered, SeenBy, Heir
  <2>4. r.pending.cand.role = Level + 1
    BY <2>2, <2>3, LevelIs DEF Level, Larger, Pair
  <2>5. \A n \in F : n \in 0..Level
    BY DEF Near, Singular, Ranked, Spent
  <2> QED BY <2>1, <2>2, <2>4, <2>5, LevelIs
<1>8. Restorable(s)
  <2>1. ASSUME NEW x \in ActiveRows, x.t \notin s.known, x.t.cand.role \in s.failedRoles
        PROVE  Built(s, x.t.cand)
    <3>1. CASE x.t.cand.role \in r.failedRoles
      BY <2>1, <3>1 DEF Near, Restorable, Built
    <3>2. CASE x.t.cand.role \in F
      <4>1. PICK p \in Proven(r, v) :
               x.t.cand.role = p.role /\ \A y \in ActiveRows : y.t.cand = p => y.t \in s.known
        BY <3>2 DEF Spent
      <4>2. x.t.cand \in Proven(r, v)
        BY DEF Proven
      <4>3. x.t.cand = p
        BY <4>1, <4>2 DEF Near, Singular
      <4> QED BY <2>1, <4>1, <4>3
    <3> QED BY <2>1, <3>1, <3>2
  <2> QED BY <2>1 DEF Restorable
<1>9. StaysDown(s)
  BY DEF StaysDown, Built
<1> QED BY <1>4, <1>6, <1>7, <1>8, <1>9 DEF Near

\* An active row that was read is restored.
LEMMA FitRestored ==
  ASSUME Types, NEW r, NEW s, NEW v, NEW w, Near(r, v),
         NEW x \in ActiveRows, x.t # NoTxn, x.t \notin r.known,
         s.known = r.known \union {x.t}, s.active = x.t.cand,
         s.inert = NoTxn, s.record = x.t, s.pending = r.pending,
         Cands(s.events) \subseteq Proven(r, v),
         Landed(s, w) \subseteq Landed(r, v),
         s.failedRoles = r.failedRoles
  PROVE  Fit(s, w)
<1>1. x.t \in SeenBy(r) /\ SeenBy(s) = SeenBy(r)
  BY DEF SeenBy, ActiveRows, Read
<1>2. x.t.cand \in Proven(r, v)
  BY DEF Proven
<1>3. Ranked(s.active) /\ s.active.role >= 0
  BY <1>2, LevelIs DEF Near, Singular, Ranked
<1>4. Ordered(s)
  BY <1>1, <1>3 DEF Near, Ordered
<1>5. Proven(s, w) \subseteq Proven(r, v)
  BY <1>2 DEF Proven
<1>6. Singular(s, w)
  BY <1>5 DEF Near, Singular
<1>7. Waiting(s)
  BY DEF Near, Waiting
<1>8. Restorable(s)
  BY DEF Near, Restorable, Built
<1>9. StaysDown(s)
  BY DEF Near, Restorable, StaysDown, Built
<1>10. Halfway(s)
  BY DEF Halfway
<1> QED BY <1>4, <1>6, <1>7, <1>8, <1>9, <1>10 DEF Near, Fit

\* A transition is handed over.
LEMMA FitTaken ==
  ASSUME Types, NEW r, NEW s, NEW v, NEW w, Fit(r, v),
         NEW t \in Txn, t # NoTxn, t = row.t, row.phase # "active", row # NoRow, NoItem(t),
         t.cand.role \notin r.failedRoles,
         s.known = r.known \union {t}, s.pending = t,
         s.active = r.active, s.inert = r.inert, s.record = r.record,
         s.flight = r.flight, s.backup = r.backup, s.failedRoles = r.failedRoles,
         s.authorized = r.authorized, s.terminated = r.terminated,
         Cands(s.events) \subseteq Proven(r, v),
         Landed(s, w) \subseteq Landed(r, v)
  PROVE  Fit(s, w)
<1>1. SeenBy(s) = SeenBy(r)
  BY DEF SeenBy
<1>2. Ordered(s)
  BY <1>1 DEF Fit, Near, Ordered
<1>3. Proven(s, w) \subseteq Proven(r, v)
  BY DEF Proven
<1>4. Singular(s, w)
  BY <1>3 DEF Fit, Near, Singular
<1>5. Waiting(s)
  BY DEF Waiting, NoItem, Authority
<1>6. Restorable(s)
  BY DEF Fit, Near, Restorable, Built
<1>7. StaysDown(s)
  BY DEF Fit, Near, StaysDown, Built
<1>8. Halfway(s)
  BY DEF Fit, Halfway
<1> QED BY <1>2, <1>4, <1>5, <1>6, <1>7, <1>8 DEF Near, Fit

\* A transition is withdrawn before it is installed.
LEMMA FitWithdrawn ==
  ASSUME Types, NEW r, NEW s, NEW v, NEW w, Fit(r, v),
         r.pending # NoTxn, r.flight.phase # "active",
         s.known = r.known, s.pending = NoTxn,
         s.active = r.active, s.inert = r.inert, s.record = r.record,
         s.flight = r.flight, s.backup = r.backup,
         s.failedRoles = r.failedRoles \union {r.pending.cand.role},
         s.authorized = r.authorized, s.terminated = r.terminated,
         Cands(s.events) \subseteq Proven(r, v)
  PROVE  Fit(s, w)
<1>1. Ordered(s)
  BY DEF Fit, Near, Ordered, SeenBy
<1>2. Landed(s, w) = {}
  BY DEF Landed
<1>3. Proven(s, w) \subseteq Proven(r, v)
  BY <1>2 DEF Proven
<1>4. Singular(s, w)
  BY <1>3 DEF Fit, Near, Singular
<1>5. Waiting(s)
  BY DEF Waiting
<1>6. r.pending.cand.role = Level + 1
  <2>1. r.pending \in r.known /\ Authority(row) = r.pending.inc
    BY DEF Fit, Near, Waiting
  <2>2. r.pending.cand.role = Authority(row).role + 1 /\ r.pending.inc.role >= 0
    BY <2>1 DEF Fit, Near, Ordered, SeenBy, Heir
  <2> QED BY <2>1, <2>2, LevelIs DEF Level, Larger, Pair
<1>7. \A p : Ranked(p) => p.role # r.pending.cand.role
  BY <1>6, LevelIs DEF Ranked
<1>8. Restorable(s)
  <2>1. \A x \in ActiveRows : Ranked(x.t.cand)
    BY DEF Fit, Near, Singular, Proven
  <2>2. r.known # {}
    BY DEF Fit, Near, Waiting
  <2> QED BY <1>7, <2>1, <2>2 DEF Fit, Near, Restorable, Built
<1>9. StaysDown(s)
  <2>1. s.authorized => Ranked(s.active)
    BY DEF Fit, Near, Ordered, Halfway
  <2> QED BY <1>7, <2>1 DEF Fit, Near, StaysDown, Built
<1>10. Halfway(s)
  BY DEF Fit, Halfway
<1> QED BY <1>1, <1>4, <1>5, <1>8, <1>9, <1>10 DEF Near, Fit

\* A pending transition is installed without output.
LEMMA NearInert ==
  ASSUME Types, NEW r, NEW s, NEW v, NEW w, Near(r, v), r.pending # NoTxn,
         s.known = r.known, s.pending = NoTxn,
         s.active = r.pending.cand, s.inert = r.pending, s.record = r.record,
         s.failedRoles = r.failedRoles, ~s.authorized,
         Cands(s.events) \subseteq Proven(r, v),
         Landed(s, w) = {}
  PROVE  Near(s, w) /\ s.inert.cand.role \notin s.failedRoles
<1>1. r.pending \in r.known /\ r.pending.cand.role \notin r.failedRoles
  BY DEF Near, Waiting
<1>2. r.pending.cand.role = r.pending.inc.role + 1 /\ r.pending.inc.role \in 0..Level
  BY <1>1 DEF Near, Ordered, SeenBy, Heir, Ranked
<1>3. Ordered(s)
  BY <1>1, <1>2, LevelIs DEF Near, Ordered, SeenBy
<1>4. Proven(s, w) \subseteq Proven(r, v)
  BY DEF Proven
<1>5. Singular(s, w)
  BY <1>4 DEF Near, Singular
<1>6. Waiting(s) /\ StaysDown(s)
  BY DEF Waiting, StaysDown
<1>7. Restorable(s)
  BY DEF Near, Restorable, Built
<1> QED BY <1>1, <1>3, <1>5, <1>6, <1>7 DEF Near

\* A transition whose activation is durable drives.
LEMMA FitAuthorized ==
  ASSUME Types, NEW r, NEW s, NEW v, NEW w, Fit(r, v),
         r.flight.phase = "active", v = "durable", ~r.terminated,
         r.inert = r.flight.t, r.inert # NoTxn, r.inert \in r.known,
         s.known = r.known, s.pending \in {r.pending, NoTxn},
         s.active = r.active, s.inert = NoTxn, s.record = r.inert,
         s.failedRoles = r.failedRoles,
         Cands(s.events) \subseteq Proven(r, v),
         Landed(s, w) \subseteq Landed(r, v)
  PROVE  Fit(s, w)
<1>1. r.active = r.inert.cand /\ r.inert.cand.role \notin r.failedRoles
  BY DEF Fit, Halfway
<1>2. r.inert.cand \in Proven(r, v)
  BY DEF Proven, Landed
<1>3. Ranked(s.active)
  BY <1>1, <1>2 DEF Fit, Near, Singular
<1>4. Ordered(s)
  BY <1>3 DEF Fit, Near, Ordered, SeenBy
<1>5. Proven(s, w) \subseteq Proven(r, v)
  BY <1>2 DEF Proven
<1>6. Singular(s, w)
  BY <1>5 DEF Fit, Near, Singular
<1>7. Waiting(s)
  BY DEF Fit, Near, Waiting
<1>8. Restorable(s) /\ StaysDown(s)
  BY <1>1 DEF Fit, Near, Restorable, StaysDown, Built
<1>9. Halfway(s)
  BY <1>1 DEF Halfway
<1> QED BY <1>4, <1>6, <1>7, <1>8, <1>9 DEF Near, Fit

-----------------------------------------------------------------------------
(* What a step does around the runtime *)

Like(s, r) ==
  /\ s.active = r.active /\ s.inert = r.inert /\ s.backup = r.backup
  /\ s.record = r.record /\ s.known = r.known /\ s.failedRoles = r.failedRoles
  /\ s.pending = r.pending /\ s.flight = r.flight
  /\ s.authorized = r.authorized /\ s.terminated = r.terminated

\* The row may be aborted and Hold may have read it; evidence was in authority.
Around(r, w) ==
  /\ RowSettled /\ LooksOn
  /\ \A t \in {holds', chal'.t} : t \in {holds, chal.t, NoTxn} \/ t \in SeenBy(r) \/ Heir(t)
  /\ Cands(evidence') \union Cands(reports') \union Cands(rt'.events) \subseteq Proven(r, w)
  /\ r.pending # NoTxn =>
        \A i \in ActiveItems' : \E j \in ActiveItems : queue[j].t = queue'[i].t
  /\ r.flight.phase = "active" /\ receipt'["flight"] = "durable" => w = "durable"

LEMMA FitKept ==
  ASSUME Types, NEW r, NEW w, Fit(r, w), Like(rt', r), Around(r, w)
  PROVE  Fit(rt, receipt["flight"])' /\ Level' = Level
<1>1. /\ row'.t = row.t /\ Authority(row') = Authority(row)
      /\ (row' = NoRow <=> row = NoRow)
      /\ row' # row => row.phase = "prepared" /\ row'.phase = "aborted"
  BY RowSettles DEF Around
<1>2. Level' = Level
  BY <1>1 DEF Level
<1>3. Read' \subseteq Read \union {NoTxn, row.t}
  BY None DEF Around, LooksOn, Read
<1>4. SeenBy(rt)' \subseteq SeenBy(r) \union {NoTxn}
  BY <1>1, <1>3 DEF SeenBy, Like
<1>5. ActiveRows' \subseteq ActiveRows
  BY <1>1, None DEF ActiveRows, Around, LooksOn
<1>6. Landed(rt, receipt["flight"])' \subseteq Landed(r, w)
  BY DEF Landed, Around, Like
<1>7. Proven(rt, receipt["flight"])' \subseteq Proven(r, w)
  BY <1>5, <1>6 DEF Proven, Around, Like
<1>8. Ordered(rt)'
  <2>1. \A t \in (SeenBy(rt)' \union {holds', chal'.t}) \ {NoTxn} : Heir(t)
    BY <1>4 DEF Fit, Near, Ordered, Around
  <2>2. \A t \in SeenBy(rt)' \ {NoTxn} : t.inc.role \in 0..Level'
    BY <1>2, <1>4 DEF Fit, Near, Ordered, Ranked
  <2>3. rt'.inert = NoTxn => rt'.active.role \in 0..Level'
    BY <1>2 DEF Fit, Near, Ordered, Ranked, Like
  <2>4. rt'.active.role >= 0
    BY DEF Fit, Near, Ordered, Like
  <2> QED BY <2>1, <2>2, <2>3, <2>4 DEF Ordered, Ranked, Heir
<1>9. Singular(rt, receipt["flight"])'
  BY <1>2, <1>7 DEF Fit, Near, Singular, Ranked
<1>10. Waiting(rt)'
  <2>1. ASSUME rt'.pending # NoTxn
        PROVE  /\ row' # NoRow /\ Authority(row') = rt'.pending.inc
               /\ rt'.pending \in rt'.known
               /\ \A i \in ActiveItems' : queue'[i].t # row'.t
               /\ rt'.pending.cand.role \notin rt'.failedRoles
    BY <1>1, <2>1 DEF Fit, Near, Waiting, Around, Like
  <2> QED BY <2>1 DEF Waiting
<1>11. Restorable(rt)'
  BY <1>5 DEF Fit, Near, Restorable, Built, Like
<1>12. StaysDown(rt)'
  BY DEF Fit, Near, StaysDown, Built, Like
<1>13. Halfway(rt)'
  BY DEF Fit, Halfway, Like
<1> QED BY <1>2, <1>8, <1>9, <1>10, <1>11, <1>12, <1>13 DEF Near, Fit

LEMMA LikeSelf == ASSUME NEW r PROVE Like(r, r)
BY DEF Like

LEMMA SameSequences ==
  ASSUME Evidenced, UNCHANGED <<evidence, reports>>,
         rt'.events = rt.events,
         \A d : (\E i \in DOMAIN batch' : d = batch'[i]) \/ (\E i \in DOMAIN dispatch' : d = dispatch'[i]) =>
            \/ \E i \in DOMAIN batch : d = batch[i]
            \/ \E i \in DOMAIN dispatch : d = dispatch[i]
            \/ d.gone => d.row.t.cand \in Cands(evidence)
  PROVE  Evidenced'
BY DEF Evidenced, Cands

\* What else a step has to show.
LEMMA DownKept ==
  ASSUME ActInv, DownInv, Types', NEW r, NEW w, Fit(r, w), Like(rt', r),
         RowSettled, LooksOn, QuietQueue, chal'.t = chal.t, UNCHANGED <<entered, holds>>,
         Evidenced',
         Cands(evidence') \union Cands(reports') \union Cands(rt'.events) \subseteq Proven(r, w),
         r.flight.phase = "active" /\ receipt'["flight"] = "durable" => w = "durable",
         saved' = saved \/ Ranked(saved'),
         pc' = "solve" => rt'.inert = NoTxn,
         learner' \in {"lifecycle", "withdraw"} => holds # NoTxn
  PROVE  DownInv'
<1>1. Types
  BY DEF ActInv
<1>2. \A i \in ActiveItems' : \E j \in ActiveItems : queue[j] = queue'[i]
  BY <1>1, QueueOn
<1>3. Around(r, w)
  BY <1>2 DEF Around
<1>4. Fit(rt, receipt["flight"])' /\ Level' = Level
  BY <1>1, <1>3, FitKept
<1>5. Starts'
  BY <1>4 DEF DownInv, Starts, Ranked
<1> QED BY <1>4, <1>5 DEF DownInv

\* Steps that leave what drives, and what drove, as they are.
LEMMA DownStill ==
  ASSUME ActInv, DownInv, Types', Like(rt', rt), RowSettled, LooksOn, QuietQueue, AnswersOn,
         ChallengerOn, Alone, Evidenced',
         Cands(evidence') \union Cands(reports') \union Cands(rt'.events)
           \subseteq Proven(rt, receipt["flight"]),
         saved' = saved \/ Ranked(saved'),
         pc' \in {pc, "top", "dispatching", "restoring"},
         learner' \in {"lifecycle", "withdraw"} => holds # NoTxn
  PROVE  DownInv'
<1>1. rt.flight.phase = "active" /\ receipt'["flight"] = "durable" =>
         receipt["flight"] = "durable"
  BY None DEF AnswersOn
<1>2. pc' = "solve" => rt'.inert = NoTxn
  BY DEF DownInv, Starts, Like
<1>3. PICK r, w : r = rt /\ w = receipt["flight"]
  OBVIOUS
<1>4. Fit(r, w) /\ Like(rt', r)
  BY <1>3 DEF DownInv
<1>5. Cands(evidence') \union Cands(reports') \union Cands(rt'.events) \subseteq Proven(r, w)
  BY <1>3
<1>6. r.flight.phase = "active" /\ receipt'["flight"] = "durable" => w = "durable"
  BY <1>1, <1>3
<1> QED BY <1>2, <1>4, <1>5, <1>6, DownKept DEF Alone, ChallengerOn

\* What happens to the evidence, if nothing does.
LEMMA EvidenceSame ==
  ASSUME Evidenced, UNCHANGED <<evidence, reports>>, rt'.events = rt.events,
         UNCHANGED <<batch, dispatch>>
  PROVE  Evidenced'
BY DEF Evidenced, Cands

LEMMA CandsSame ==
  ASSUME UNCHANGED <<evidence, reports>>, rt'.events = rt.events, NEW w
  PROVE  Cands(evidence') \union Cands(reports') \union Cands(rt'.events) \subseteq Proven(rt, w)
BY DEF Proven

LEMMA SolveDown == ActInv /\ DownInv /\ Solve => DownInv'
<1> SUFFICES ASSUME ActInv, DownInv, Solve PROVE DownInv'
  OBVIOUS
<1>1. /\ UNCHANGED <<row, chal, queue, receipt, rt, look, batch, dispatch, learner, evidence,
                     reports>>
      /\ Alone /\ in /\ pc = "solve" /\ pc' = "top" /\ saved' \in {saved, rt.active}
  BY DEF Solve, worker, learning, hold, session, Alone
<1>2. Types'
  BY SolveInv DEF ActInv
<1>3. LooksOn /\ QuietQueue /\ AnswersOn /\ ChallengerOn /\ RowSettled
  BY <1>1, LooksSame, QueueSame, SameChallenger, SameRow DEF ActInv, AnswersOn
<1>4. Ranked(rt.active)
  BY <1>1 DEF DownInv, Starts, Fit, Near, Ordered
<1>5. Evidenced'
  BY <1>1, EvidenceSame DEF DownInv
<1>6. Cands(evidence') \union Cands(reports') \union Cands(rt'.events)
           \subseteq Proven(rt, receipt["flight"])
  BY <1>1, CandsSame
<1>7. Like(rt', rt)
  BY <1>1, LikeSelf
<1>8. learner' \in {"lifecycle", "withdraw"} => holds # NoTxn
  BY <1>1 DEF DownInv, Starts
<1> QED BY <1>1, <1>2, <1>3, <1>4, <1>5, <1>6, <1>7, <1>8, DownStill

\* Most of these leave the evidence alone, too.
NothingNew ==
  \A d : (\E i \in DOMAIN batch' : d = batch'[i]) \/ (\E i \in DOMAIN dispatch' : d = dispatch'[i]) =>
     \/ \E i \in DOMAIN batch : d = batch[i]
     \/ \E i \in DOMAIN dispatch : d = dispatch[i]
     \/ d.gone => d.row.t.cand \in Cands(evidence)

LEMMA DownSame ==
  ASSUME ActInv, DownInv, Types', UNCHANGED <<rt, evidence, reports, saved>>,
         RowSettled, LooksOn, QuietQueue, AnswersOn, ChallengerOn, Alone, NothingNew,
         pc' \in {pc, "top", "dispatching", "restoring"},
         learner' \in {"lifecycle", "withdraw"} => learner \in {"lifecycle", "withdraw"}
  PROVE  DownInv'
<1>1. Evidenced'
  BY SameSequences DEF DownInv, NothingNew
<1>2. Cands(evidence') \union Cands(reports') \union Cands(rt'.events)
           \subseteq Proven(rt, receipt["flight"])
  BY CandsSame
<1>3. Like(rt', rt)
  BY LikeSelf
<1>4. learner' \in {"lifecycle", "withdraw"} => holds # NoTxn
  BY DEF DownInv, Starts
<1> QED BY <1>1, <1>2, <1>3, <1>4, DownStill

LEMMA NothingSame == UNCHANGED <<batch, dispatch>> => NothingNew
BY DEF NothingNew

LEMMA NothingTail ==
  ASSUME Types, batch # <<>>, batch' = Tail(batch), UNCHANGED dispatch
  PROVE  NothingNew
<1>1. PICK Ops : batch \in Seq(Orders(Ops))
  BY DEF Types
<1>2. \A i \in DOMAIN batch' : i + 1 \in DOMAIN batch /\ batch'[i] = batch[i + 1]
  BY <1>1
<1> QED BY <1>2 DEF NothingNew

LEMMA NothingAppend ==
  ASSUME Types, UNCHANGED batch, NEW d, dispatch' = Append(dispatch, d),
         d.gone => d.row.t.cand \in Cands(evidence)
  PROVE  NothingNew
<1>1. PICK Ops : dispatch \in Seq(Orders(Ops))
  BY DEF Types
<1>2. PICK S : dispatch \in Seq(S) /\ d \in S
  <2>1. Orders(Ops) \subseteq Orders(Ops) \union {d}
    OBVIOUS
  <2>2. dispatch \in Seq(Orders(Ops) \union {d})
    BY <1>1, <2>1, SeqMonotonic
  <2> QED BY <2>2
<1>3. \A i \in DOMAIN dispatch' :
         dispatch'[i] = d \/ (i \in DOMAIN dispatch /\ dispatch'[i] = dispatch[i])
  BY <1>2, AppendProperties
<1> QED BY <1>3 DEF NothingNew

LEMMA TakeDispatchesDown == ActInv /\ DownInv /\ TakeDispatches => DownInv'
<1> SUFFICES ASSUME ActInv, DownInv, TakeDispatches PROVE DownInv'
  OBVIOUS
<1>1. /\ UNCHANGED <<row, chal, saved, queue, receipt, rt, look, learner, evidence, reports>>
      /\ Alone /\ in /\ batch' = dispatch /\ dispatch' = <<>> /\ pc' = "dispatching"
  BY DEF TakeDispatches, durable, worker, learning, hold, session, Alone
<1>2. Types'
  BY TakeDispatchesInv DEF ActInv
<1>3. LooksOn /\ QuietQueue /\ AnswersOn /\ ChallengerOn /\ RowSettled
  BY <1>1, LooksTaken, QueueSame, SameChallenger, SameRow DEF ActInv, AnswersOn
<1>4. NothingNew
  BY <1>1 DEF NothingNew
<1> QED BY <1>1, <1>2, <1>3, <1>4, DownSame

LEMMA RestoreKnownDown == ActInv /\ DownInv /\ RestoreKnown => DownInv'
<1> SUFFICES ASSUME ActInv, DownInv, RestoreKnown PROVE DownInv'
  OBVIOUS
<1>1. /\ UNCHANGED <<row, saved, queue, receipt, rt, look, dispatch, learner, evidence,
                     reports, pc>>
      /\ Alone /\ in /\ batch # <<>> /\ batch' = Tail(batch)
      /\ chal' = chal \/ chal' = Reviewed(chal, rt.active)
  BY DEF RestoreKnown, OutsideRuntime, Synchronize, NotSynchronized, hold, session, Alone
<1>2. Types'
  BY RestoreKnownInv DEF ActInv
<1>3. LooksOn /\ QuietQueue /\ AnswersOn /\ ChallengerOn /\ RowSettled
  BY <1>1, LooksTail, QueueSame, SameChallenger, ReviewedOn, SameRow DEF ActInv, AnswersOn
<1>4. NothingNew
  BY <1>1, NothingTail DEF ActInv
<1> QED BY <1>1, <1>2, <1>3, <1>4, DownSame

LEMMA MissDeadlinesDown == ActInv /\ DownInv /\ MissDeadlines => DownInv'
<1> SUFFICES ASSUME ActInv, DownInv, MissDeadlines PROVE DownInv'
  OBVIOUS
<1> DEFINE d == [op |-> "fallback", row |-> NoRow, gone |-> FALSE]
<1>1. /\ UNCHANGED <<row, chal, saved, queue, receipt, rt, look, batch, learner, evidence,
                     reports, pc>>
      /\ Alone /\ in /\ dispatch' = Append(dispatch, d)
  BY DEF MissDeadlines, durable, worker, learning, hold, session, Alone
<1>2. Types'
  BY MissDeadlinesInv DEF ActInv
<1>3. LooksOn
  <2>1. /\ NoRow \in RowType /\ NoRow \in LookRows \union {NoRow} /\ FALSE \in BOOLEAN
        /\ "fallback" = "restore" => NoRow # NoRow
        /\ Types /\ UNCHANGED batch /\ look' \in {look, NoRow}
    BY <1>1, None DEF ActInv
  <2> QED BY <1>1, <2>1, LooksAppend
<1>4. NothingNew
  <2>1. ~d.gone
    OBVIOUS
  <2> HIDE DEF d
  <2> QED BY <1>1, <2>1, NothingAppend DEF ActInv
<1>5. QuietQueue /\ AnswersOn /\ ChallengerOn /\ RowSettled
  BY <1>1, QueueSame, SameChallenger, SameRow DEF ActInv, AnswersOn
<1> QED BY <1>1, <1>2, <1>3, <1>4, <1>5, DownSame

LEMMA ReadRowDown == ActInv /\ DownInv /\ ReadRow => DownInv'
<1> SUFFICES ASSUME ActInv, DownInv, ReadRow PROVE DownInv'
  OBVIOUS
<1>1. /\ UNCHANGED <<row, chal, saved, queue, receipt, rt, batch, dispatch, learner, evidence,
                     reports, pc>>
      /\ Alone /\ in /\ look' = row
  BY DEF ReadRow, HoldFrame, durable, learning, session, Alone
<1>2. Types'
  BY ReadRowInv DEF ActInv
<1>3. LooksOn /\ QuietQueue /\ AnswersOn /\ ChallengerOn /\ RowSettled
  BY <1>1, LooksRead, QueueSame, SameChallenger, SameRow DEF ActInv, AnswersOn
<1> QED BY <1>1, <1>2, <1>3, NothingSame, DownSame

LEMMA LastIs ==
  ASSUME Evidenced, NEW c, LastOf(c) # "none"
  PROVE  c \in Cands(evidence)
BY DEF LastOf, Cands

LEMMA ReconcileDown == ActInv /\ DownInv /\ Reconcile => DownInv'
<1> SUFFICES ASSUME ActInv, DownInv, Reconcile PROVE DownInv'
  OBVIOUS
<1>1. /\ UNCHANGED <<row, chal, saved, queue, receipt, rt, batch, learner, evidence, reports, pc>>
      /\ Alone /\ in /\ look # NoRow /\ look' = NoRow
  BY DEF Reconcile, HoldFrame, durable, learning, session, Alone
<1>2. \/ UNCHANGED dispatch
      \/ \E o : \E g \in BOOLEAN :
           /\ dispatch' = Append(dispatch, [op |-> o, row |-> look, gone |-> g])
           /\ g => look.t.cand \in Cands(evidence)
  <2> DEFINE life == LastOf(look.t.cand)
  <2>1. \/ UNCHANGED dispatch
        \/ dispatch' = Append(dispatch,
                         [op |-> IF look # seen THEN "restore" ELSE life, row |-> look,
                          gone |-> life # "none"])
    BY DEF Reconcile
  <2>2. (life # "none") \in BOOLEAN /\ ((life # "none") => look.t.cand \in Cands(evidence))
    BY LastIs DEF DownInv
  <2> HIDE DEF life
  <2> QED BY <2>1, <2>2
<1>3. Types'
  BY ReconcileInv DEF ActInv
<1>4. LooksOn /\ NothingNew
  <2>1. CASE UNCHANGED dispatch
    BY <1>1, <2>1, NothingSame DEF LooksOn, LookRows
  <2>2. ASSUME NEW o, NEW g \in BOOLEAN,
               dispatch' = Append(dispatch, [op |-> o, row |-> look, gone |-> g]),
               g => look.t.cand \in Cands(evidence)
        PROVE  LooksOn /\ NothingNew
    <3> DEFINE d == [op |-> o, row |-> look, gone |-> g]
    <3>1. d.gone = g /\ d.row = look
      OBVIOUS
    <3>2. LooksOn
      <4>1. /\ look \in RowType /\ look \in LookRows \union {NoRow}
            /\ o = "restore" => look # NoRow
            /\ Types /\ UNCHANGED batch /\ look' \in {look, NoRow}
        BY <1>1 DEF ActInv, Types, LookRows
      <4> QED BY <2>2, <4>1, LooksAppend
    <3> HIDE DEF d
    <3> QED BY <1>1, <2>2, <3>1, <3>2, NothingAppend DEF ActInv, d
  <2> QED BY <1>2, <2>1, <2>2
<1>5. QuietQueue /\ AnswersOn /\ ChallengerOn /\ RowSettled
  BY <1>1, QueueSame, SameChallenger, SameRow DEF ActInv, AnswersOn
<1> QED BY <1>1, <1>3, <1>4, <1>5, DownSame

LEMMA DrainEventsDown == ActInv /\ DownInv /\ DrainEvents => DownInv'
<1> SUFFICES ASSUME ActInv, DownInv, DrainEvents PROVE DownInv'
  OBVIOUS
<1>1. /\ UNCHANGED <<row, chal, saved, queue, receipt, look, batch, dispatch, learner,
                     evidence, pc>>
      /\ Alone /\ in /\ rt' = [rt EXCEPT !.events = <<>>]
      /\ reports' = reports \/ reports' = reports \o rt.events
  BY DEF DrainEvents, HoldFrame, durable, learning, session, hold, Alone
<1>2. Types'
  BY DrainEventsInv DEF ActInv
<1>3. LooksOn /\ QuietQueue /\ AnswersOn /\ ChallengerOn /\ RowSettled
  BY <1>1, LooksSame, QueueSame, SameChallenger, SameRow DEF ActInv, AnswersOn
<1>4. Like(rt', rt) /\ rt'.events = <<>>
  BY <1>1 DEF ActInv, Types, Runtimes, Like
<1>5. reports \in Seq(Notices) /\ rt.events \in Seq(Notices)
  BY DEF DownInv, Evidenced
<1>6. /\ reports' \in Seq(Notices)
      /\ \A i \in DOMAIN reports' : \/ \E j \in DOMAIN reports : reports'[i] = reports[j]
                                    \/ \E j \in DOMAIN rt.events : reports'[i] = rt.events[j]
  <2>1. CASE reports' = reports
    BY <1>5, <2>1
  <2>2. CASE reports' = reports \o rt.events
    <3>1. /\ reports' \in Seq(Notices) /\ Len(reports') = Len(reports) + Len(rt.events)
          /\ \A i \in 1..Len(reports) + Len(rt.events) :
                reports'[i] = IF i <= Len(reports) THEN reports[i]
                              ELSE rt.events[i - Len(reports)]
      BY <1>5, <2>2, ConcatProperties
    <3>2. /\ DOMAIN reports' = 1..Len(reports) + Len(rt.events)
          /\ DOMAIN reports = 1..Len(reports) /\ DOMAIN rt.events = 1..Len(rt.events)
          /\ Len(reports) \in Nat /\ Len(rt.events) \in Nat
      BY <1>5, <3>1
    <3>3. ASSUME NEW i \in DOMAIN reports'
          PROVE  \/ \E j \in DOMAIN reports : reports'[i] = reports[j]
                 \/ \E j \in DOMAIN rt.events : reports'[i] = rt.events[j]
      <4>1. CASE i <= Len(reports)
        BY <3>1, <3>2, <4>1
      <4>2. CASE i > Len(reports)
        <5>1. i - Len(reports) \in DOMAIN rt.events /\ reports'[i] = rt.events[i - Len(reports)]
          BY <3>1, <3>2, <4>2
        <5> QED BY <5>1
      <4> QED BY <3>2, <4>1, <4>2
    <3> QED BY <3>1, <3>3
  <2> QED BY <1>1, <2>1, <2>2
<1>7. Evidenced'
  BY <1>1, <1>4, <1>6 DEF DownInv, Evidenced, Cands
<1>8. Cands(evidence') \union Cands(reports') \union Cands(rt'.events)
           \subseteq Proven(rt, receipt["flight"])
  <2>1. Cands(reports') \subseteq Cands(reports) \union Cands(rt.events)
    BY <1>6 DEF Cands
  <2>2. Cands(rt'.events) = {}
    BY <1>4 DEF Cands
  <2> QED BY <1>1, <2>1, <2>2 DEF Proven
<1>9. learner' \in {"lifecycle", "withdraw"} => holds # NoTxn
  BY <1>1 DEF DownInv, Starts
<1> QED BY <1>1, <1>2, <1>3, <1>4, <1>7, <1>8, <1>9, DownStill

LEMMA RollbackDown == ActInv /\ DownInv /\ Rollback => DownInv'
<1> SUFFICES ASSUME ActInv, DownInv, Rollback PROVE DownInv'
  OBVIOUS
<1> DEFINE e == [kind |-> "rollback", cand |-> row.t.cand]
<1>1. /\ UNCHANGED <<row, chal, saved, queue, receipt, rt, look, batch, dispatch, learner,
                     reports, pc>>
      /\ Alone /\ row.phase = "active" /\ evidence' = Append(evidence, e)
  BY DEF Rollback, worker, solver, learning, session, hold, Alone
<1>2. Types'
  BY RollbackInv DEF ActInv
<1>3. LooksOn /\ QuietQueue /\ AnswersOn /\ ChallengerOn /\ RowSettled
  BY <1>1, LooksSame, QueueSame, SameChallenger, SameRow DEF ActInv, AnswersOn
<1>4. e.cand = row.t.cand /\ e \in [kind : {"rollback", "fallback"}, cand : Pair]
  BY DEF ActInv, Types, RowType, Txn
<1>5. /\ evidence' \in Seq([kind : {"rollback", "fallback"}, cand : Pair])
      /\ Len(evidence') = Len(evidence) + 1 /\ Len(evidence) \in Nat
      /\ \A i \in DOMAIN evidence : i \in DOMAIN evidence' /\ evidence'[i] = evidence[i]
      /\ \A i \in DOMAIN evidence' :
            evidence'[i] = e \/ (i \in DOMAIN evidence /\ evidence'[i] = evidence[i])
  <2> HIDE DEF e
  <2>1. evidence \in Seq([kind : {"rollback", "fallback"}, cand : Pair])
    BY DEF DownInv, Evidenced
  <2> QED BY <1>1, <1>4, <2>1, AppendProperties
<1> HIDE DEF e
<1>6. Cands(evidence) \subseteq Cands(evidence')
      /\ Cands(evidence') \subseteq Cands(evidence) \union {row.t.cand}
  BY <1>4, <1>5 DEF Cands
<1>7. Evidenced'
  <2>1. reports' \in Seq(Notices) /\ rt'.events \in Seq(Notices)
    BY <1>1 DEF DownInv, Evidenced
  <2>2. /\ \A i \in DOMAIN reports' : reports'[i].place \in 0..Len(evidence')
        /\ \A i \in DOMAIN rt'.events : rt'.events[i].place \in 0..Len(evidence')
    BY <1>1, <1>5 DEF DownInv, Evidenced
  <2>3. /\ \A i \in DOMAIN batch' : batch'[i].gone => batch'[i].row.t.cand \in Cands(evidence')
        /\ \A i \in DOMAIN dispatch' : dispatch'[i].gone =>
               dispatch'[i].row.t.cand \in Cands(evidence')
    BY <1>1, <1>6 DEF DownInv, Evidenced
  <2> QED BY <1>5, <2>1, <2>2, <2>3 DEF Evidenced
<1>8. Cands(evidence') \union Cands(reports') \union Cands(rt'.events)
           \subseteq Proven(rt, receipt["flight"])
  <2>1. row.t.cand \in Proven(rt, receipt["flight"])
    BY <1>1 DEF Proven, ActiveRows
  <2> QED BY <1>1, <1>6, <2>1 DEF Proven
<1>9. Like(rt', rt) /\ (learner' \in {"lifecycle", "withdraw"} => holds # NoTxn)
  BY <1>1, LikeSelf DEF DownInv, Starts
<1> QED BY <1>1, <1>2, <1>3, <1>7, <1>8, <1>9, DownStill

\* t is s, and e.
Grown(t, s, e) ==
  /\ Len(t) = Len(s) + 1
  /\ \A i \in DOMAIN s : \E j \in DOMAIN t : t[j] = s[i]
  /\ \A j \in DOMAIN t : t[j] = e \/ \E i \in DOMAIN s : t[j] = s[i]

LEMMA InsertIs ==
  ASSUME NEW S, NEW s \in Seq(S), NEW n \in 0..Len(s), NEW e \in S
  PROVE  InsertAt(s, n + 1, e) \in Seq(S) /\ Grown(InsertAt(s, n + 1, e), s, e)
<1> DEFINE a == SubSeq(s, 1, n)
           b == SubSeq(s, n + 1, Len(s))
           t == (a \o <<e>>) \o b
<1>1. InsertAt(s, n + 1, e) = t
  <2>1. PICK m : m = n + 1 /\ m - 1 = n
    OBVIOUS
  <2>2. InsertAt(s, m, e) = SubSeq(s, 1, m - 1) \o <<e>> \o SubSeq(s, m, Len(s))
    BY DEF InsertAt
  <2>3. InsertAt(s, m, e) = SubSeq(s, 1, n) \o <<e>> \o SubSeq(s, n + 1, Len(s))
    BY <2>1, <2>2, Zenon
  <2> QED BY <2>1, <2>3, Zenon
<1>2. /\ a \in Seq(S) /\ Len(a) = n /\ \A i \in 1..n : a[i] = s[i]
      /\ b \in Seq(S) /\ Len(b) = Len(s) - n
      /\ \A i \in 1..(Len(s) - n) : b[i] = s[n + i]
  OBVIOUS
<1> HIDE DEF a, b
<1> DEFINE c == a \o <<e>>
<1>3. /\ c \in Seq(S) /\ Len(c) = n + 1
      /\ \A i \in 1..n : c[i] = s[i]
      /\ c[n + 1] = e
  BY <1>2
<1> HIDE DEF c
<1>4. t = c \o b
  BY DEF c
<1> HIDE DEF t
<1>5. /\ t \in Seq(S) /\ Len(t) = Len(s) + 1
      /\ \A i \in 1..n : t[i] = s[i]
      /\ t[n + 1] = e
      /\ \A i \in n + 1 .. Len(s) : t[i + 1] = s[i]
  BY <1>2, <1>3, <1>4
<1>6. DOMAIN t = 1..Len(s) + 1 /\ DOMAIN s = 1..Len(s) /\ Len(s) \in Nat
  BY <1>5
<1>7. ASSUME NEW i \in DOMAIN s PROVE \E j \in DOMAIN t : t[j] = s[i]
  <2>1. CASE i <= n
    BY <1>5, <1>6, <2>1
  <2>2. CASE i > n
    <3>1. i + 1 \in DOMAIN t /\ t[i + 1] = s[i]
      BY <1>5, <1>6, <2>2
    <3> QED BY <3>1
  <2> QED BY <1>6, <2>1, <2>2
<1>8. ASSUME NEW j \in DOMAIN t PROVE t[j] = e \/ \E i \in DOMAIN s : t[j] = s[i]
  <2>1. CASE j <= n
    BY <1>5, <1>6, <2>1
  <2>2. CASE j = n + 1
    BY <1>5, <2>2
  <2>3. CASE j > n + 1
    <3>1. j - 1 \in DOMAIN s /\ t[(j - 1) + 1] = s[j - 1] /\ (j - 1) + 1 = j
      BY <1>5, <1>6, <2>3
    <3> QED BY <3>1
  <2> QED BY <1>6, <2>1, <2>2, <2>3
<1> QED BY <1>1, <1>5, <1>7, <1>8 DEF Grown

LEMMA WriteReportDown == ActInv /\ DownInv /\ WriteReport => DownInv'
<1> SUFFICES ASSUME ActInv, DownInv, WriteReport PROVE DownInv'
  OBVIOUS
<1> DEFINE Kinds == [kind : {"rollback", "fallback"}, cand : Pair]
           n == Head(reports).place
           e == [kind |-> "fallback", cand |-> Head(reports).cand]
<1>1. /\ UNCHANGED <<row, chal, saved, queue, receipt, rt, look, batch, dispatch, learner, pc>>
      /\ Alone /\ reports # <<>> /\ reports' = Tail(reports)
      /\ evidence' = InsertAt(evidence, n + 1, e)
  BY DEF WriteReport, WorkerFrame, solver, learning, session, hold, Alone
<1>2. Types'
  BY WriteReportInv DEF ActInv
<1>3. LooksOn /\ QuietQueue /\ AnswersOn /\ ChallengerOn /\ RowSettled
  BY <1>1, LooksSame, QueueSame, SameChallenger, SameRow DEF ActInv, AnswersOn
<1>4. /\ evidence \in Seq(Kinds) /\ reports \in Seq(Notices) /\ rt.events \in Seq(Notices)
      /\ \A i \in DOMAIN reports : reports[i].place \in 0..Len(evidence)
      /\ \A i \in DOMAIN rt.events : rt.events[i].place \in 0..Len(evidence)
  BY DEF DownInv, Evidenced
<1>5. /\ 1 \in DOMAIN reports /\ Head(reports) = reports[1] /\ Head(reports) \in Notices
      /\ reports' \in Seq(Notices)
      /\ \A i \in DOMAIN reports' : i + 1 \in DOMAIN reports /\ reports'[i] = reports[i + 1]
  BY <1>1, <1>4
<1>6. n \in 0..Len(evidence) /\ e \in Kinds /\ e.cand = reports[1].cand
  BY <1>4, <1>5 DEF Notices
<1> HIDE DEF e, n, Kinds
<1>7. /\ evidence' \in Seq(Kinds) /\ Len(evidence') = Len(evidence) + 1
      /\ \A i \in DOMAIN evidence : \E j \in DOMAIN evidence' : evidence'[j] = evidence[i]
      /\ \A j \in DOMAIN evidence' :
            evidence'[j] = e \/ \E i \in DOMAIN evidence : evidence'[j] = evidence[i]
  <2>1. PICK S, s, m, f : S = Kinds /\ s = evidence /\ m = n /\ f = e
    OBVIOUS
  <2>2. s \in Seq(S) /\ m \in 0..Len(s) /\ f \in S
    BY <1>4, <1>6, <2>1
  <2>3. evidence' = InsertAt(s, m + 1, f)
    BY <1>1, <2>1
  <2>4. evidence' \in Seq(S) /\ Grown(evidence', s, f)
    BY <2>2, <2>3, InsertIs
  <2> QED BY <2>1, <2>4 DEF Grown
<1>8. Cands(evidence) \subseteq Cands(evidence')
      /\ Cands(evidence') \subseteq Cands(evidence) \union {reports[1].cand}
  BY <1>6, <1>7 DEF Cands
<1>9. Evidenced'
  <2>1. reports' \in Seq(Notices) /\ rt'.events \in Seq(Notices)
    BY <1>1, <1>4, <1>5
  <2>2. Len(evidence) \in Nat
    BY <1>4
  <2>3. /\ \A i \in DOMAIN reports' : reports'[i].place \in 0..Len(evidence')
        /\ \A i \in DOMAIN rt'.events : rt'.events[i].place \in 0..Len(evidence')
    BY <1>1, <1>4, <1>5, <1>7, <2>2
  <2>4. /\ \A i \in DOMAIN batch' : batch'[i].gone => batch'[i].row.t.cand \in Cands(evidence')
        /\ \A i \in DOMAIN dispatch' : dispatch'[i].gone =>
               dispatch'[i].row.t.cand \in Cands(evidence')
    BY <1>1, <1>8 DEF DownInv, Evidenced
  <2> QED BY <1>7, <2>1, <2>3, <2>4 DEF Evidenced, Kinds
<1>10. Cands(evidence') \union Cands(reports') \union Cands(rt'.events)
           \subseteq Proven(rt, receipt["flight"])
  <2>1. reports[1].cand \in Cands(reports) /\ Cands(reports') \subseteq Cands(reports)
    BY <1>5 DEF Cands
  <2> QED BY <1>1, <1>8, <2>1 DEF Proven
<1>11. Like(rt', rt) /\ (learner' \in {"lifecycle", "withdraw"} => holds # NoTxn)
  BY <1>1, LikeSelf DEF DownInv, Starts
<1> QED BY <1>1, <1>2, <1>3, <1>9, <1>10, <1>11, DownStill

LEMMA FailWriteDown == ActInv /\ DownInv /\ FailWrite => DownInv'
<1> SUFFICES ASSUME ActInv, DownInv, FailWrite PROVE DownInv'
  OBVIOUS
<1>1. /\ UNCHANGED <<row, chal, saved, rt, look, batch, dispatch, learner, evidence, pc>> /\ Alone
      /\ queue' = <<>> /\ reports' = <<>> /\ receipt' = Told("lost", queue)
  BY DEF FailWrite, WorkerFrame, solver, learning, session, hold, Alone
<1>2. Types'
  BY FailWriteInv DEF ActInv
<1>3. receipt'["flight"] = IF \E i \in DOMAIN queue : queue[i].owner = "flight"
                           THEN "lost" ELSE receipt["flight"]
  BY <1>1 DEF Told, Owners
<1>4. AnswersOn
  BY <1>1, <1>3 DEF ActInv, Session, Queued, FlightItems, AnswersOn
<1>5. LooksOn /\ QuietQueue /\ ChallengerOn /\ RowSettled
  BY <1>1, LooksSame, SameChallenger, SameRow DEF ActInv, QuietQueue
<1>6. Evidenced'
  BY <1>1 DEF DownInv, Evidenced, Cands
<1>7. Cands(evidence') \union Cands(reports') \union Cands(rt'.events)
           \subseteq Proven(rt, receipt["flight"])
  BY <1>1 DEF Proven, Cands
<1>8. Like(rt', rt) /\ (learner' \in {"lifecycle", "withdraw"} => holds # NoTxn)
  BY <1>1, LikeSelf DEF DownInv, Starts
<1> QED BY <1>1, <1>2, <1>4, <1>5, <1>6, <1>7, <1>8, DownStill

LEMMA JudgeDown == ActInv /\ DownInv /\ Judge => DownInv'
<1> SUFFICES ASSUME ActInv, DownInv, Judge PROVE DownInv'
  OBVIOUS
<1>1. PICK phase \in {"retired", "evaluating", "qualified"} :
         /\ chal' = [chal EXCEPT !.phase = phase]
         /\ LET work == Work(IF phase = "qualified" THEN "confident" ELSE "blocked",
                             holds, "learner")
            IN  \E ok \in Answers :
                  /\ Charge(Cost(ok))
                  /\ Send(IF ok THEN <<work>> ELSE <<>>, {})
                  /\ learner' = IF ok THEN "confidence" ELSE "idle"
  BY DEF Judge
<1> DEFINE kind == IF phase = "qualified" THEN "confident" ELSE "blocked"
           work == Work(kind, holds, "learner")
<1>2. PICK ok \in Answers : /\ Send(IF ok THEN <<work>> ELSE <<>>, {})
                            /\ learner' = IF ok THEN "confidence" ELSE "idle"
  BY <1>1
<1>3. /\ UNCHANGED <<row, saved, rt, look, batch, dispatch, evidence, reports, pc>> /\ Alone /\ in
      /\ chal.phase = "evaluating" /\ learner' \in {"confidence", "idle"}
  BY <1>2 DEF Judge, LearnerFrame, solver, hold, session, Alone
<1>4. /\ Types /\ work \in Items /\ <<work>> \in Seq(Items)
      /\ work.kind # "active" /\ work.owner # "flight"
  <2>1. kind \in {"confident", "blocked"} /\ "learner" \in Owners /\ holds \in Txn
    BY DEF Owners, ActInv, Types
  <2>2. Types
    BY DEF ActInv
  <2> HIDE DEF kind
  <2> QED BY <2>1, <2>2, WorkIs
<1> HIDE DEF work, kind
<1>5. QuietQueue /\ receipt'["flight"] = receipt["flight"]
  <2> DEFINE items == IF ok THEN <<work>> ELSE <<>>
  <2>1. items \in Seq(Items) /\ \A j \in DOMAIN items : Harmless(items[j])
    BY <1>4, EmptySeq DEF Harmless
  <2>2. Send(items, {}) /\ "flight" \notin {}
    BY <1>2
  <2> HIDE DEF items
  <2> QED BY <1>4, <2>1, <2>2, SendQuiet
<1>6. Types'
  BY JudgeInv DEF ActInv
<1>7. LooksOn /\ RowSettled /\ AnswersOn
  BY <1>3, <1>5, LooksSame, SameRow DEF ActInv, AnswersOn
<1>8. ChallengerOn
  BY <1>1, <1>3 DEF ActInv, Types, ChalType, ChallengerOn, Open
<1> QED BY <1>3, <1>5, <1>6, <1>7, <1>8, NothingSame, DownSame

LEMMA AwaitConfidenceDown == ActInv /\ DownInv /\ AwaitConfidence => DownInv'
<1> SUFFICES ASSUME ActInv, DownInv, AwaitConfidence PROVE DownInv'
  OBVIOUS
<1>1. /\ UNCHANGED <<row, chal, saved, rt, look, batch, dispatch, evidence, reports, pc>> /\ Alone /\ in
      /\ Forget("learner") /\ learner' \in {"prepare", "idle"}
  BY DEF AwaitConfidence, LearnerFrame, solver, hold, session, Alone
<1>2. Types'
  BY AwaitConfidenceInv DEF ActInv
<1>3. QuietQueue /\ receipt'["flight"] = receipt["flight"]
  BY <1>1, ForgetQuiet DEF ActInv
<1>4. LooksOn /\ AnswersOn /\ ChallengerOn /\ RowSettled
  BY <1>1, <1>3, LooksSame, SameChallenger, SameRow DEF ActInv, AnswersOn
<1> QED BY <1>1, <1>2, <1>3, <1>4, NothingSame, DownSame

LEMMA SettledRowDown ==
  ASSUME ActInv, DownInv, Refused \/ RecordPrepared
  PROVE  DownInv'
<1>1. /\ UNCHANGED <<queue, receipt, saved, rt, look, batch, dispatch, evidence, reports, pc>>
      /\ Alone /\ in
      /\ learner' = "idle" \/ (learner = "lifecycle" /\ learner' = "withdraw")
      /\ AbortRow \/ UNCHANGED <<row, chal>>
  BY DEF Refused, RecordPrepared, LearnerFrame, solver, hold, session, Alone
<1>2. Types'
  BY SettledRowInv DEF ActInv
<1>3. RowSettled /\ ChallengerOn
  BY <1>1, AbortRowOn
<1>4. LooksOn /\ QuietQueue /\ AnswersOn
  BY <1>1, LooksSame, QueueSame DEF ActInv, AnswersOn
<1> QED BY <1>1, <1>2, <1>3, <1>4, NothingSame, DownSame

LEMMA AwaitAbortedDown == ActInv /\ DownInv /\ AwaitAborted => DownInv'
<1> SUFFICES ASSUME ActInv, DownInv, AwaitAborted PROVE DownInv'
  OBVIOUS
<1>1. /\ UNCHANGED <<row, chal, saved, queue, receipt, look, batch, dispatch, evidence,
                     reports, pc>>
      /\ Alone /\ in /\ learner' = "idle"
      /\ UNCHANGED rt \/ rt' = [rt EXCEPT !.abort = NoTxn]
  BY DEF AwaitAborted, LearnerFrame, solver, hold, session, Alone
<1>2. Types'
  BY AwaitAbortedInv DEF ActInv
<1>3. Like(rt', rt) /\ rt'.events = rt.events
  BY <1>1 DEF ActInv, Types, Runtimes, Like
<1>4. LooksOn /\ QuietQueue /\ AnswersOn /\ ChallengerOn /\ RowSettled
  BY <1>1, LooksSame, QueueSame, SameChallenger, SameRow DEF ActInv, AnswersOn
<1>5. Evidenced'
  BY <1>1, <1>3, EvidenceSame DEF DownInv
<1>6. Cands(evidence') \union Cands(reports') \union Cands(rt'.events)
           \subseteq Proven(rt, receipt["flight"])
  BY <1>1, <1>3, CandsSame
<1> QED BY <1>1, <1>2, <1>3, <1>4, <1>5, <1>6, DownStill

LEMMA WriteOtherDown == ActInv /\ DownInv /\ Write /\ Head(queue).kind # "active" => DownInv'
<1> SUFFICES ASSUME ActInv, DownInv, Write, Head(queue).kind # "active" PROVE DownInv'
  OBVIOUS
<1>1. /\ QuietQueue /\ 1 \in DOMAIN queue /\ Head(queue) = queue[1] /\ queue[1] \in Items
      /\ receipt'["flight"] = IF queue[1].owner = "flight" THEN "durable"
                              ELSE receipt["flight"]
      /\ UNCHANGED <<chal, saved, rt, look, batch, dispatch, learner>> /\ Alone
  BY ItemIs
<1>2. UNCHANGED <<evidence, reports, pc>>
  BY DEF Write, WorkerFrame, solver
<1>3. RowSettled
  <2>1. CASE row' = row
    BY <2>1, SameRow
  <2>2. CASE row' # row
    <3>1. row' = [row EXCEPT !.phase = "aborted"] /\ row = [phase |-> "prepared", t |-> Head(queue).t]
      BY <2>2 DEF Write, Writable, Prepared
    <3> QED BY <3>1 DEF RowSettled
  <2> QED BY <2>1, <2>2
<1>4. Types'
  BY WriteOtherInv DEF ActInv
<1>5. LooksOn /\ ChallengerOn
  BY <1>1, LooksSame, SameChallenger DEF ActInv
<1>6. rt.flight.phase = "active" /\ receipt'["flight"] = "durable" =>
         receipt["flight"] = "durable"
  <2> SUFFICES ASSUME rt.flight.phase = "active" PROVE queue[1].owner # "flight"
    BY <1>1
  <2>1. 1 \in FlightItems => queue[1].kind = "active"
    BY DEF ActInv, Session, Queued
  <2> QED BY <1>1, <2>1 DEF FlightItems
<1>7. PICK r, w : r = rt /\ w = receipt["flight"]
  OBVIOUS
<1>8. Evidenced' /\ Cands(evidence') \union Cands(reports') \union Cands(rt'.events) \subseteq Proven(r, w)
  BY <1>1, <1>2, <1>7, EvidenceSame, CandsSame DEF DownInv
<1>9. Fit(r, w) /\ Like(rt', r)
  BY <1>1, <1>7, LikeSelf DEF DownInv
<1>10. /\ pc' = "solve" => rt'.inert = NoTxn
       /\ learner' \in {"lifecycle", "withdraw"} => holds # NoTxn
  BY <1>1, <1>2 DEF DownInv, Starts
<1> QED BY <1>1, <1>3, <1>4, <1>5, <1>6, <1>7, <1>8, <1>9, <1>10, DownKept DEF Alone, ChallengerOn
-----------------------------------------------------------------------------
(* Steps of the runtime.  What it becomes fits the state it is found in.    *)

\* What a runtime that such a step leaves has to be.
Welcome(r, w) ==
  /\ Fit(r, w)
  /\ r.events \in Seq(Notices)
  /\ \A i \in DOMAIN r.events : r.events[i].place \in 0..Len(evidence)
  /\ r.flight.phase = "active" => w = receipt["flight"]

LEMMA DownMoved ==
  ASSUME ActInv, DownInv, Types', NEW w, NEW r, r = rt', Welcome(r, w),
         RowSettled, LooksOn, QuietQueue, AnswersOn, ChallengerOn, Alone,
         r.flight = rt.flight \/ r.flight.phase # "active",
         UNCHANGED <<evidence, reports, saved>>, NothingNew,
         pc' = "solve" => rt'.inert = NoTxn,
         learner' \in {"lifecycle", "withdraw"} => holds # NoTxn
  PROVE  DownInv'
<1>1. Like(rt', r)
  BY DEF Like
<1>2. Evidenced'
  <2>1. rt'.events \in Seq(Notices)
        /\ \A i \in DOMAIN rt'.events : rt'.events[i].place \in 0..Len(evidence')
    BY DEF Welcome
  <2>2. /\ \A i \in DOMAIN batch' : batch'[i].gone => batch'[i].row.t.cand \in Cands(evidence)
        /\ \A i \in DOMAIN dispatch' : dispatch'[i].gone =>
               dispatch'[i].row.t.cand \in Cands(evidence)
    BY DEF NothingNew, DownInv, Evidenced
  <2> QED BY <2>1, <2>2 DEF DownInv, Evidenced, Cands
<1>3. Cands(evidence') \union Cands(reports') \union Cands(rt'.events) \subseteq Proven(r, w)
  BY DEF Proven
<1>4. r.flight.phase = "active" /\ receipt'["flight"] = "durable" => w = "durable"
  BY None DEF Welcome, AnswersOn
<1> QED BY <1>1, <1>2, <1>3, <1>4, DownKept DEF Welcome, Alone, ChallengerOn

LEMMA FitAs ==
  ASSUME NEW r, NEW s, NEW w, Fit(r, w), Like(s, r), s.events = r.events
  PROVE  Fit(s, w)
<1>1. Landed(s, w) = Landed(r, w)
  BY DEF Landed, Like
<1>2. Near(s, w)
  BY <1>1, NearSame DEF Fit, Like, Proven
<1> QED BY <1>2 DEF Fit, Halfway, Like

LEMMA FitTerminated ==
  ASSUME NEW r, NEW ev, r \in Runtimes(ev), NEW w, Near(r, w),
         r.record \in r.known \union {NoTxn}
  PROVE  Fit(Terminated(r), w)
<1> DEFINE s == Terminated(r)
<1>1. /\ s.active = r.active /\ s.inert = r.inert /\ s.known = r.known
      /\ s.record = r.record /\ s.failedRoles = r.failedRoles /\ s.pending = r.pending
      /\ s.flight = r.flight /\ s.events = r.events /\ ~s.authorized /\ s.terminated
  BY DEF Terminated, Runtimes
<1> HIDE DEF s
<1>2. Landed(s, w) = Landed(r, w) /\ Cands(s.events) \subseteq Proven(r, w)
  BY <1>1 DEF Landed, Proven
<1>3. Near(s, w)
  BY <1>1, <1>2, NearSame
<1>4. Fit(s, w)
  BY <1>1, <1>3 DEF Fit, Halfway
<1> QED BY <1>4 DEF s

LEMMA WelcomeNow == DownInv => Welcome(rt, receipt["flight"])
BY DEF DownInv, Evidenced, Welcome

LEMMA WelcomeTerminated ==
  ASSUME NEW r, NEW ev, r \in Runtimes(ev), NEW w, Welcome(r, w)
  PROVE  Welcome(Terminated(r), w)
<1>1. Terminated(r).flight = r.flight /\ Terminated(r).events = r.events
  BY TerminatedIs
<1>2. Near(r, w) /\ r.record \in r.known \union {NoTxn}
  BY DEF Welcome, Fit, Halfway
<1>3. Fit(Terminated(r), w)
  BY <1>2, FitTerminated
<1> QED BY <1>1, <1>3 DEF Welcome

LEMMA QueueDown == ActInv /\ DownInv /\ Queue => DownInv'
<1> SUFFICES ASSUME ActInv, DownInv, Queue PROVE DownInv'
  OBVIOUS
<1>1. /\ UNCHANGED <<row, chal, queue, receipt, saved, look, batch, dispatch, evidence,
                     reports, pc>>
      /\ Alone /\ in /\ learner = "queue"
  BY DEF Queue, LearnerFrame, solver, hold, session, Alone
<1>2. Types'
  BY QueueInv DEF ActInv
<1>3. LooksOn /\ QuietQueue /\ AnswersOn /\ ChallengerOn /\ RowSettled
  BY <1>1, LooksSame, QueueSame, SameChallenger, SameRow DEF ActInv, AnswersOn
<1>4. row.t = holds /\ holds # NoTxn /\ NotYet(holds) /\ NoItem(holds)
  BY <1>1 DEF ActInv, Learning
<1>5. CASE ~Queueable(holds)
  <2>1. UNCHANGED rt /\ learner' = "refused"
    BY <1>5 DEF Queue
  <2> QED BY <1>1, <1>2, <1>3, <2>1, NothingSame, DownSame
<1>6. CASE Queueable(holds)
  <2>1. PICK t, r, s, w : t = holds /\ r = rt /\ s = rt' /\ w = receipt["flight"]
    OBVIOUS
  <2>2. rt' = [rt EXCEPT !.pending = holds, !.known = @ \union {holds}]
    BY <1>6 DEF Queue, Taken
  <2>3. /\ s.known = r.known \union {t} /\ s.pending = t
        /\ s.active = r.active /\ s.inert = r.inert /\ s.record = r.record
        /\ s.flight = r.flight /\ s.backup = r.backup /\ s.failedRoles = r.failedRoles
        /\ s.authorized = r.authorized /\ s.terminated = r.terminated /\ s.events = r.events
    BY <2>1, <2>2 DEF ActInv, Types, Runtimes
  <2>4. t \in Txn /\ t # NoTxn /\ t = row.t /\ NoItem(t) /\ t.cand.role \notin r.failedRoles
    BY <1>4, <1>6, <2>1 DEF ActInv, Types, Queueable
  <2>5. row.phase # "active" /\ row # NoRow
    BY <1>4, None DEF ActInv, Types, RowType, NotYet
  <2>6. Landed(s, w) \subseteq Landed(r, w) /\ Cands(s.events) \subseteq Proven(r, w)
    BY <2>3 DEF Landed, Proven
  <2>7. Fit(r, w)
    BY <2>1 DEF DownInv
  <2>8. Fit(s, w)
    BY <2>3, <2>4, <2>5, <2>6, <2>7, FitTaken DEF ActInv
  <2>9. Welcome(s, w)
    BY <2>1, <2>3, <2>8 DEF Welcome, DownInv, Evidenced
  <2>10. /\ pc' = "solve" => rt'.inert = NoTxn
         /\ learner' \in {"lifecycle", "withdraw"} => holds # NoTxn
         /\ s = rt' /\ s.flight = rt.flight
    BY <1>1, <1>4, <2>1, <2>3 DEF DownInv, Starts
  <2> QED BY <1>1, <1>2, <1>3, <2>9, <2>10, NothingSame, DownMoved
<1> QED BY <1>5, <1>6

LEMMA WithdrawDown == ActInv /\ DownInv /\ Withdraw => DownInv'
<1> SUFFICES ASSUME ActInv, DownInv, Withdraw PROVE DownInv'
  OBVIOUS
<1>1. /\ UNCHANGED <<row, chal, saved, look, batch, dispatch, evidence, reports, pc>> /\ Alone /\ in
      /\ learner' \in {"aborting", "idle"} /\ learner = "withdraw"
  BY DEF Withdraw, LearnerFrame, solver, hold, session, Alone
<1>2. \/ UNCHANGED <<rt, queue, receipt>>
      \/ /\ rt.pending = holds
         /\ rt' = [rt EXCEPT !.pending = NoTxn, !.abort = holds,
                             !.failedRoles = @ \union {holds.cand.role}]
         /\ queue' \in {queue, Append(queue, Work("aborted", holds, "abort"))}
         /\ receipt'["flight"] = receipt["flight"]
  <2>1. CASE rt.pending = holds
    <3>1. PICK ok \in Answers :
             /\ queue' = IF ok THEN Append(queue, Work("aborted", holds, "abort")) ELSE queue
             /\ receipt' = [receipt EXCEPT !["abort"] = IF ok THEN "waiting" ELSE "none"]
      BY <2>1 DEF Withdraw
    <3>2. rt' = [rt EXCEPT !.pending = NoTxn, !.abort = holds,
                           !.failedRoles = @ \union {holds.cand.role}]
      BY <2>1 DEF Withdraw
    <3>3. receipt'["flight"] = receipt["flight"]
      BY <3>1 DEF ActInv, Types, Owners
    <3> QED BY <2>1, <3>1, <3>2, <3>3
  <2>2. CASE rt.pending # holds
    BY <2>2 DEF Withdraw
  <2> QED BY <2>1, <2>2
<1>3. Types'
  BY WithdrawInv DEF ActInv
<1>4. LooksOn /\ ChallengerOn /\ RowSettled
  BY <1>1, LooksSame, SameChallenger, SameRow DEF ActInv
<1>5. AnswersOn
  BY <1>2 DEF AnswersOn
<1>6. QuietQueue
  <2>1. CASE queue' = queue
    BY <2>1, QueueSame DEF ActInv
  <2>2. CASE queue' = Append(queue, Work("aborted", holds, "abort"))
    <3> DEFINE w == Work("aborted", holds, "abort")
    <3>1. w \in Items /\ w.owner = "abort" /\ w.kind = "aborted"
      BY WorkIs DEF ActInv, Types, Owners
    <3>2. queue \in Seq(Items)
      BY DEF ActInv, Types
    <3>3. queue' = Append(queue, w)
      BY <2>2
    <3> HIDE DEF w
    <3>4. \A i \in DOMAIN queue' :
             queue'[i] = w \/ (i + 0 \in DOMAIN queue /\ queue'[i] = queue[i + 0])
      BY <3>1, <3>2, <3>3, AppendProperties
    <3> QED BY <3>1, <3>4 DEF QuietQueue, Harmless
  <2> QED BY <1>2, <2>1, <2>2
<1>7. CASE UNCHANGED <<rt, queue, receipt>>
  BY <1>1, <1>3, <1>4, <1>5, <1>6, <1>7, NothingSame, DownSame
<1>8. CASE /\ rt.pending = holds
           /\ rt' = [rt EXCEPT !.pending = NoTxn, !.abort = holds,
                               !.failedRoles = @ \union {holds.cand.role}]
  <2>1. PICK r, s, w : r = rt /\ s = rt' /\ w = receipt["flight"]
    OBVIOUS
  <2>2. /\ s.known = r.known /\ s.pending = NoTxn
        /\ s.active = r.active /\ s.inert = r.inert /\ s.record = r.record
        /\ s.flight = r.flight /\ s.backup = r.backup
        /\ s.failedRoles = r.failedRoles \union {r.pending.cand.role}
        /\ s.authorized = r.authorized /\ s.terminated = r.terminated /\ s.events = r.events
    BY <1>8, <2>1 DEF ActInv, Types, Runtimes
  <2>3. r.pending # NoTxn /\ r.flight.phase # "active"
    BY <1>1, <1>8, <2>1, None DEF DownInv, Starts, ActInv, Session, Pending
  <2>4. Cands(s.events) \subseteq Proven(r, w) /\ Fit(r, w)
    BY <2>1, <2>2 DEF Proven, DownInv
  <2>5. Fit(s, w)
    BY <2>2, <2>3, <2>4, FitWithdrawn DEF ActInv
  <2>6. Welcome(s, w)
    BY <2>1, <2>2, <2>5 DEF Welcome, DownInv, Evidenced
  <2>7. /\ pc' = "solve" => rt'.inert = NoTxn
        /\ learner' \in {"lifecycle", "withdraw"} => holds # NoTxn
        /\ s = rt' /\ s.flight = rt.flight
    BY <1>1, <2>1, <2>2 DEF DownInv, Starts
  <2> QED BY <1>1, <1>3, <1>4, <1>5, <1>6, <2>6, <2>7, NothingSame, DownMoved
<1> QED BY <1>2, <1>7, <1>8
-----------------------------------------------------------------------------
(* A candidate is given up *)

LEMMA FencedHas ==
  ASSUME NEW r, r \in Runtimes(r.events)
  PROVE  /\ Fenced(r).inert = NoTxn /\ Fenced(r).record = NoTxn
         /\ Fenced(r).terminated = r.terminated
         /\ Fenced(r).failedRoles = r.failedRoles \union {r.active.role}
<1> DEFINE s == Reinstated(r)
<1>1. /\ s.inert = NoTxn /\ s.record = NoTxn /\ s.terminated = r.terminated
      /\ s.failedRoles = r.failedRoles /\ s \in Runtimes(r.events)
  <2>1. s.inert = NoTxn /\ s.record = NoTxn /\ s.terminated = r.terminated
        /\ s.failedRoles = r.failedRoles
    BY DEF Reinstated, Runtimes
  <2>2. s \in Runtimes(r.events)
    BY ReinstatedIs
  <2> QED BY <2>1, <2>2
<1>2. Fenced(r) = [s EXCEPT !.failedRoles = @ \union {r.active.role}]
  BY DEF Fenced
<1> HIDE DEF s
<1> QED BY <1>1, <1>2 DEF Runtimes

\* What went back to its incumbent may take its place at once.
LEMMA WelcomeBack ==
  ASSUME ActInv, DownInv, NEW r, NEW w, r = rt, w = receipt["flight"], NEW s,
         r.authorized, r.backup # NoPair,
         s.flight = r.flight, s.pending = r.pending, s.known = r.known,
         s.active = r.backup, s.backup = NoPair, s.inert = NoTxn, s.record = NoTxn,
         s.failedRoles = r.failedRoles \union {r.active.role},
         s.events \in Seq(Notices), \A i \in DOMAIN s.events : s.events[i].place \in 0..Len(evidence),
         Cands(s.events) \subseteq Cands(r.events) \union {r.active}
  PROVE  Welcome(s, w)
<1>1. Types /\ Fit(r, w)
  BY DEF ActInv, DownInv
<1>2. r.record # NoTxn /\ r.record.cand = r.active /\ r.record \in r.known
  BY <1>1 DEF Fit, Halfway
<1>3. r.active \in Proven(r, w)
  BY <1>2 DEF Proven
<1>4. \A x \in ActiveRows : x.t.cand = r.active => x.t \in r.known
  <2>1. \A x \in ActiveRows : x.t \in Txs
    BY DEF ActiveRows, Txs, Seen, Read
  <2>2. r.record \in Txs
    BY <1>2 DEF Txs, Seen
  <2> QED BY <1>2, <2>1, <2>2 DEF ActInv, History, Ids
<1>5. PICK u \in r.known : u.inc = r.backup
  BY DEF ActInv, Session, BackedUp
<1>6. r.known \subseteq SeenBy(r) \ {NoTxn} /\ r.known \in SUBSET Txn
  BY DEF SeenBy, ActInv, History, Rows, Types, Runtimes
<1>7. Landed(s, w) = Landed(r, w) /\ Cands(s.events) \subseteq Proven(r, w)
  BY <1>3 DEF Landed, Proven
<1>8. Near(s, w)
  <2>0. PICK F : F = {r.active.role}
    OBVIOUS
  <2>1. Spent(F, r, s, w)
    BY <1>3, <1>4, <2>0 DEF Spent
  <2>2. s.failedRoles = r.failedRoles \union F
    BY <2>0
  <2>3. Near(r, w) /\ Landed(s, w) \subseteq Landed(r, w) /\ s.pending \in {r.pending, NoTxn}
    BY <1>1, <1>7 DEF Fit
  <2>4. /\ r.known \subseteq s.known /\ s.known \subseteq SeenBy(r) \ {NoTxn}
        /\ s.known \in SUBSET Txn /\ u \in s.known /\ s.active = u.inc
    BY <1>5, <1>6
  <2> QED BY <1>1, <1>7, <2>1, <2>2, <2>3, <2>4, NearBack
<1>9. Halfway(s)
  BY DEF Halfway
<1> QED BY <1>8, <1>9 DEF Welcome, Fit

LEMMA GaveUpWelcome ==
  ASSUME ActInv, DownInv, NEW o \in RolledBack(rt) \union FellBack(rt)
  PROVE  /\ Welcome(o.rt, receipt["flight"]) /\ o.rt.flight = rt.flight
         /\ o.rt.inert \in {rt.inert, NoTxn}
<1> DEFINE told == [Fenced(rt) EXCEPT !.events =
                      Append(@, [cand |-> rt.active, place |-> Len(evidence)])]
<1>1. \/ o.rt = rt \/ o.rt = Unseeded(rt)
      \/ /\ rt.backup # NoPair /\ rt.authorized
         /\ o.rt = Fenced(rt) \/ o.rt = told \/ o.rt = Terminated(told)
  <2>1. CASE ~CanFallBack(rt)
    <3>1. o = Outcome(rt, <<>>, FALSE, 0)
      BY <2>1 DEF RolledBack, FellBack
    <3> QED BY <3>1 DEF Outcome
  <2>2. CASE CanFallBack(rt) /\ o \in RolledBack(rt)
    <3>1. \/ o = Outcome(Fenced(rt), <<>>, TRUE, 0)
          \/ o = Outcome(Unseeded(rt), <<>>, FALSE, 1)
      BY <2>2 DEF RolledBack
    <3> QED BY <2>2, <3>1 DEF Outcome, CanFallBack
  <2>3. CASE CanFallBack(rt) /\ o \in FellBack(rt)
    <3>1. \/ o = Outcome(Unseeded(rt), <<>>, FALSE, 1)
          \/ \E ok \in Answers :
                o = Outcome(IF ok THEN told ELSE Terminated(told), <<>>, ok, Cost(ok))
      BY <2>3 DEF FellBack
    <3> HIDE DEF told
    <3> QED BY <2>3, <3>1 DEF Outcome, CanFallBack
  <2> QED BY <2>1, <2>2, <2>3
<1> DEFINE f == Fenced(rt)
<1>2. /\ f \in Runtimes(rt.events) /\ f.events = rt.events /\ rt \in Runtimes(rt.events)
      /\ f.flight = rt.flight /\ f.pending = rt.pending /\ f.known = rt.known
      /\ f.active = rt.backup /\ f.backup = NoPair /\ f.inert = NoTxn /\ f.record = NoTxn
      /\ f.failedRoles = rt.failedRoles \union {rt.active.role}
  BY FencedIs, FencedHas DEF ActInv, Types
<1>3. PICK ev : told = [f EXCEPT !.events = ev]
                /\ ev = Append(rt.events, [cand |-> rt.active, place |-> Len(evidence)])
  BY <1>2 DEF Runtimes
<1> HIDE DEF told, f
<1>4. /\ told \in Runtimes(ev) /\ told.events = ev
      /\ told.flight = rt.flight /\ told.pending = rt.pending /\ told.known = rt.known
      /\ told.active = rt.backup /\ told.backup = NoPair /\ told.inert = NoTxn
      /\ told.record = NoTxn /\ told.failedRoles = rt.failedRoles \union {rt.active.role}
  BY <1>2, <1>3 DEF Runtimes
<1>5. /\ rt.events \in Seq(Notices) /\ \A i \in DOMAIN rt.events : rt.events[i].place \in 0..Len(evidence)
  BY DEF DownInv, Evidenced
<1>6. /\ ev \in Seq(Notices) /\ \A i \in DOMAIN ev : ev[i].place \in 0..Len(evidence)
      /\ Cands(ev) \subseteq Cands(rt.events) \union {rt.active}
  <2> DEFINE e == [cand |-> rt.active, place |-> Len(evidence)]
  <2>1. Len(evidence) \in Nat
    BY DEF DownInv, Evidenced
  <2>2. /\ e \in Notices /\ e.cand = rt.active /\ e.place \in 0..Len(evidence)
    BY <2>1 DEF ActInv, Types, Runtimes, Notices
  <2>3. ev = Append(rt.events, e)
    BY <1>3
  <2> HIDE DEF e
  <2>4. /\ ev \in Seq(Notices)
        /\ \A i \in DOMAIN ev : ev[i] = e \/ (i \in DOMAIN rt.events /\ ev[i] = rt.events[i])
    BY <1>5, <2>2, <2>3, AppendProperties
  <2> QED BY <1>5, <2>2, <2>4 DEF Cands
<1>7. PICK r, w : r = rt /\ w = receipt["flight"]
  OBVIOUS
<1>8. CASE o.rt = rt
  BY <1>8, WelcomeNow
<1>9. CASE o.rt = Unseeded(rt)
  <2>1. PICK s : s = Unseeded(rt)
    OBVIOUS
  <2>2. Like(s, r) /\ s.events = r.events
    BY <1>2, <1>7, <2>1 DEF Unseeded, Runtimes, Like
  <2>3. Fit(r, w)
    BY <1>7 DEF DownInv
  <2>4. Fit(s, w)
    BY <2>2, <2>3, FitAs
  <2>5. Welcome(s, w)
    BY <1>5, <1>7, <2>2, <2>4 DEF Welcome
  <2> QED BY <1>7, <1>9, <2>1, <2>2, <2>5 DEF Like
<1>10. CASE /\ rt.backup # NoPair /\ rt.authorized /\ o.rt = f
  <2>1. PICK s : s = f
    OBVIOUS
  <2>2. /\ s.flight = r.flight /\ s.pending = r.pending /\ s.known = r.known
        /\ s.active = r.backup /\ s.backup = NoPair /\ s.inert = NoTxn /\ s.record = NoTxn
        /\ s.failedRoles = r.failedRoles \union {r.active.role} /\ s.events = r.events
        /\ r.authorized /\ r.backup # NoPair
    BY <1>2, <1>7, <1>10, <2>1
  <2>3. Welcome(s, w)
    BY <1>5, <1>7, <2>2, WelcomeBack
  <2> QED BY <1>2, <1>7, <1>10, <2>1, <2>3
<1>11. CASE rt.backup # NoPair /\ rt.authorized /\ (o.rt = told \/ o.rt = Terminated(told))
  <2>1. PICK s : s = told
    OBVIOUS
  <2>2. /\ s.flight = r.flight /\ s.pending = r.pending /\ s.known = r.known
        /\ s.active = r.backup /\ s.backup = NoPair /\ s.inert = NoTxn /\ s.record = NoTxn
        /\ s.failedRoles = r.failedRoles \union {r.active.role} /\ s.events = ev
        /\ r.authorized /\ r.backup # NoPair
    BY <1>4, <1>7, <1>11, <2>1
  <2>3. Welcome(s, w)
    BY <1>6, <1>7, <2>2, WelcomeBack
  <2>4. s \in Runtimes(ev)
    BY <1>4, <2>1
  <2>5. Welcome(Terminated(s), w)
    BY <2>3, <2>4, WelcomeTerminated
  <2>6. Terminated(s).flight = s.flight /\ Terminated(s).inert = s.inert
    BY <2>4 DEF Terminated, Runtimes
  <2> QED BY <1>7, <1>11, <2>1, <2>2, <2>3, <2>5, <2>6
<1> QED BY <1>1, <1>8, <1>9, <1>10, <1>11 DEF f

LEMMA GiveUpDown == ActInv /\ DownInv /\ GiveUp => DownInv'
<1> SUFFICES ASSUME ActInv, DownInv, GiveUp PROVE DownInv'
  OBVIOUS
<1>1. /\ UNCHANGED <<row, saved, queue, receipt, look, dispatch, learner, evidence, reports, pc>>
      /\ Alone /\ in /\ batch # <<>> /\ batch' = Tail(batch) /\ pc = "dispatching"
  BY DEF GiveUp, OutsideRuntime, hold, session, Alone
<1>2. PICK o \in RolledBack(rt) \union FellBack(rt) :
         /\ rt' = o.rt
         /\ chal' = chal \/ chal' = Reviewed(chal, o.rt.active)
  BY DEF GiveUp, Synchronize, NotSynchronized
<1>3. Types'
  BY GiveUpInv DEF ActInv
<1>4. LooksOn /\ QuietQueue /\ AnswersOn /\ ChallengerOn /\ RowSettled
  BY <1>1, <1>2, LooksTail, QueueSame, SameChallenger, ReviewedOn, SameRow DEF ActInv, AnswersOn
<1>5. NothingNew
  BY <1>1, NothingTail DEF ActInv
<1>6. PICK r, w : r = rt' /\ w = receipt["flight"]
  OBVIOUS
<1>7. Welcome(r, w) /\ r.flight = rt.flight
  BY <1>2, <1>6, GaveUpWelcome
<1>8. /\ pc' = "solve" => rt'.inert = NoTxn
      /\ learner' \in {"lifecycle", "withdraw"} => holds # NoTxn
  BY <1>1 DEF DownInv, Starts
<1> QED BY <1>1, <1>3, <1>4, <1>5, <1>6, <1>7, <1>8, DownMoved

LEMMA SolveFailsDown == ActInv /\ DownInv /\ SolveFails => DownInv'
<1> SUFFICES ASSUME ActInv, DownInv, SolveFails PROVE DownInv'
  OBVIOUS
<1>1. /\ UNCHANGED <<row, saved, queue, receipt, look, batch, dispatch, learner, evidence, reports>>
      /\ Alone /\ in /\ pc' = "top"
  BY DEF SolveFails, OutsideRuntime, hold, session, Alone
<1>2. PICK o \in FellBack(rt) :
         /\ rt' = o.rt \/ rt' = Terminated(o.rt)
         /\ chal' = chal \/ chal' = Reviewed(chal, o.rt.active)
  BY DEF SolveFails, Synchronize, NotSynchronized
<1>3. Types'
  BY SolveFailsInv DEF ActInv
<1>4. LooksOn /\ QuietQueue /\ AnswersOn /\ ChallengerOn /\ RowSettled
  BY <1>1, <1>2, LooksSame, QueueSame, SameChallenger, ReviewedOn, SameRow DEF ActInv, AnswersOn
<1>5. PICK r, s, w : r = rt' /\ s = o.rt /\ w = receipt["flight"]
  OBVIOUS
<1>6. Welcome(s, w) /\ s.flight = rt.flight
  BY <1>5, GaveUpWelcome
<1>7. s \in Runtimes(s.events)
  BY <1>5, GaveUp DEF ActInv, Types
<1>8. Welcome(Terminated(s), w) /\ Terminated(s).flight = s.flight
  BY <1>6, <1>7, WelcomeTerminated, TerminatedIs
<1>9. Welcome(r, w) /\ r.flight = rt.flight
  BY <1>2, <1>5, <1>6, <1>8
<1>10. /\ pc' = "solve" => rt'.inert = NoTxn
       /\ learner' \in {"lifecycle", "withdraw"} => holds # NoTxn
  BY <1>1 DEF DownInv, Starts
<1> QED BY <1>1, <1>3, <1>4, <1>5, <1>9, <1>10, NothingSame, DownMoved

-----------------------------------------------------------------------------
(* What Hold has read is restored *)

\* Restoring d leaves the runtime as it was, or terminated, or with the pair
\* that d says.
LEMMA RestoredWelcome ==
  ASSUME ActInv, DownInv, NEW d, d.row \in LookRows, d.row # NoRow, d.row \in RowType,
         d.gone \in BOOLEAN, d.gone => d.row.t.cand \in Cands(evidence),
         NEW phase \in {d.row.phase, "aborted"}, phase = "active" => d.row.t \notin rt.known,
         NEW o, o \in Restored(rt, phase, d.row.t, d.gone) \/ o.rt = Terminated(rt)
  PROVE  Welcome(o.rt, receipt["flight"]) /\ o.rt.flight = rt.flight
<1> DEFINE t == d.row.t
           keeps == phase = "active" /\ ~d.gone
           pair == IF keeps THEN t.cand ELSE t.inc
           r == [rt EXCEPT !.active = pair, !.authorized = TRUE, !.inert = NoTxn,
                           !.backup = IF keeps THEN t.inc ELSE NoPair,
                           !.record = IF keeps THEN t ELSE NoTxn,
                           !.gen = IF d.gone THEN t.cand.role + 1 ELSE pair.role,
                           !.failedRoles = IF d.gone THEN @ \union {t.cand.role} ELSE @,
                           !.known = @ \union {t}]
<1>1. o.rt = r \/ o.rt = Terminated(rt)
  <2>1. o = Outcome(r, <<>>, TRUE, 0) \/ o = Outcome(Terminated(rt), <<>>, FALSE, 1) \/ o.rt = Terminated(rt)
    BY DEF Restored
  <2> HIDE DEF r
  <2> QED BY <2>1 DEF Outcome
<1>2. rt \in Runtimes(rt.events)
  BY DEF ActInv, Types
<1>3. /\ r.active = pair /\ r.inert = NoTxn /\ r.backup = (IF keeps THEN t.inc ELSE NoPair)
      /\ r.record = (IF keeps THEN t ELSE NoTxn) /\ r.known = rt.known \union {t}
      /\ r.failedRoles = (IF d.gone THEN rt.failedRoles \union {t.cand.role} ELSE rt.failedRoles)
      /\ r.flight = rt.flight /\ r.pending = rt.pending /\ r.events = rt.events
  BY <1>2 DEF Runtimes
<1>4. PICK q, s, w : q = rt /\ s = r /\ w = receipt["flight"]
  OBVIOUS
<1> HIDE DEF r
<1>5. CASE o.rt = Terminated(rt)
  <2>1. Welcome(Terminated(q), w) /\ Terminated(q).flight = q.flight
    BY <1>2, <1>4, WelcomeNow, WelcomeTerminated, TerminatedIs
  <2> QED BY <1>4, <1>5, <2>1
<1>6. /\ t \in Txn /\ t # NoTxn /\ t \in SeenBy(q) /\ Types /\ Fit(q, w)
  <2>1. t # NoTxn
    BY DEF ActInv, History, Rows
  <2> QED BY <1>4, <2>1 DEF RowType, SeenBy, Read, ActInv, DownInv
<1>7. /\ Landed(s, w) \subseteq Landed(q, w) /\ Cands(s.events) \subseteq Proven(q, w)
  BY <1>3, <1>4 DEF Landed, Proven
<1>8. Fit(s, w)
  <2>1. CASE keeps
    <3>1. PICK x : x = d.row
      OBVIOUS
    <3>2. x \in ActiveRows /\ x.t # NoTxn /\ x.t \notin q.known
      BY <1>4, <1>6, <2>1, <3>1 DEF ActiveRows
    <3>3. /\ s.known = q.known \union {x.t} /\ s.active = x.t.cand /\ s.inert = NoTxn
          /\ s.record = x.t /\ s.pending = q.pending /\ s.failedRoles = q.failedRoles
      BY <1>3, <1>4, <2>1, <3>1
    <3> QED BY <1>6, <1>7, <3>2, <3>3, FitRestored DEF Fit
  <2>2. CASE ~keeps
    <3>0. PICK F : F = IF d.gone THEN {t.cand.role} ELSE {}
      OBVIOUS
    <3>1. PICK u : u = t
      OBVIOUS
    <3>2. /\ s.known = q.known \union {u} /\ s.active = u.inc /\ s.inert = NoTxn
          /\ s.record = NoTxn /\ s.backup = NoPair /\ s.pending = q.pending
          /\ s.failedRoles = q.failedRoles \union F
      BY <1>3, <1>4, <2>2, <3>0, <3>1
    <3>3. q.known \subseteq SeenBy(q) \ {NoTxn} /\ q.known \in SUBSET Txn
      BY <1>4 DEF SeenBy, ActInv, History, Rows, Types, Runtimes
    <3>4. /\ q.known \subseteq s.known /\ s.known \subseteq SeenBy(q) \ {NoTxn}
          /\ s.known \in SUBSET Txn /\ u \in s.known
      BY <1>6, <3>1, <3>2, <3>3
    <3>5. Spent(F, q, s, w)
      <4>1. CASE ~d.gone
        BY <3>0, <4>1 DEF Spent
      <4>2. CASE d.gone
        <5>1. u.cand \in Proven(q, w) /\ F = {u.cand.role}
          BY <3>0, <3>1, <4>2 DEF Proven
        <5>2. ASSUME NEW x \in ActiveRows, x.t.cand = u.cand PROVE x.t \in s.known
          <6>1. x.t \in Txs /\ u \in Txs
            BY <3>1 DEF ActiveRows, Txs, Seen, Read
          <6>2. x.t = u
            BY <5>2, <6>1 DEF ActInv, History, Ids
          <6> QED BY <3>4, <6>2
        <5> QED BY <5>1, <5>2 DEF Spent
      <4> QED BY <4>1, <4>2
    <3>6. Near(s, w)
      BY <1>6, <1>7, <3>2, <3>4, <3>5, NearBack DEF Fit
    <3>7. Halfway(s)
      BY <3>2 DEF Halfway
    <3> QED BY <3>6, <3>7 DEF Fit
  <2> QED BY <2>1, <2>2
<1>9. CASE o.rt = r
  <2>1. Welcome(s, w)
    BY <1>3, <1>4, <1>8 DEF Welcome, DownInv, Evidenced
  <2> QED BY <1>3, <1>4, <1>9, <2>1
<1> QED BY <1>1, <1>5, <1>9

LEMMA HeadGone ==
  ASSUME Types, Evidenced, batch # <<>>, Head(batch).gone
  PROVE  Head(batch).row.t.cand \in Cands(evidence)
<1>1. PICK Ops : batch \in Seq(Orders(Ops))
  BY DEF Types
<1>2. 1 \in DOMAIN batch /\ Head(batch) = batch[1]
  BY <1>1
<1> QED BY <1>2 DEF Evidenced

LEMMA ConcludeDown ==
  ASSUME ActInv, DownInv, Types', NEW d, d.row \in LookRows, d.row # NoRow, d.row \in RowType,
         d.gone \in BOOLEAN, d.gone => d.row.t.cand \in Cands(evidence),
         NEW phase \in {d.row.phase, "aborted"}, phase = "active" => d.row.t \notin rt.known,
         NEW S, \A o \in S : \/ o \in Restored(rt, phase, d.row.t, d.gone)
                            \/ o.rt = Terminated(rt),
         NEW n, Conclude(S, n), batch # <<>>,
         UNCHANGED <<row, saved, look, dispatch, learner, evidence, reports>>, Alone, in,
         QuietQueue, AnswersOn
  PROVE  DownInv'
<1>1. PICK o \in S : /\ rt' = o.rt
                     /\ chal' = chal \/ chal' = Reviewed(chal, o.rt.active)
  BY DEF Conclude, Synchronize, NotSynchronized
<1>2. batch' = Tail(batch) /\ pc' = "dispatching"
  BY DEF Conclude
<1>3. LooksOn /\ ChallengerOn /\ RowSettled
  BY <1>1, <1>2, LooksTail, SameChallenger, ReviewedOn, SameRow DEF ActInv
<1>4. NothingNew
  BY <1>2, NothingTail DEF ActInv
<1>5. PICK q : q = o
  OBVIOUS
<1>6. q \in Restored(rt, phase, d.row.t, d.gone) \/ q.rt = Terminated(rt)
  BY <1>5
<1>7. Welcome(q.rt, receipt["flight"]) /\ q.rt.flight = rt.flight
  BY <1>6, RestoredWelcome
<1>8. PICK r, w : r = rt' /\ w = receipt["flight"]
  OBVIOUS
<1>9. Welcome(r, w) /\ r.flight = rt.flight
  BY <1>1, <1>5, <1>7, <1>8
<1>10. /\ pc' = "solve" => rt'.inert = NoTxn
       /\ learner' \in {"lifecycle", "withdraw"} => holds # NoTxn
  BY <1>2 DEF DownInv, Starts
<1> QED BY <1>3, <1>4, <1>8, <1>9, <1>10, DownMoved

LEMMA RestoreDown == ActInv /\ DownInv /\ Restore => DownInv'
<1> SUFFICES ASSUME ActInv, DownInv, Restore PROVE DownInv'
  OBVIOUS
<1>1. PICK d : d = Head(batch)
  OBVIOUS
<1>2. /\ UNCHANGED <<row, queue, receipt, saved, learner, look, dispatch, evidence, reports>> /\ Alone /\ in
      /\ batch # <<>> /\ d.op = "restore" /\ d.row.t \notin rt.known
  BY <1>1 DEF Restore, Unknown, OutsideRuntime, hold, session, Alone
<1>3. d.row \in LookRows /\ d.row # NoRow /\ d.row \in RowType /\ d.gone \in BOOLEAN
  BY <1>1, <1>2, HeadIs DEF ActInv
<1>4. d.gone => d.row.t.cand \in Cands(evidence)
  BY <1>1, <1>2, HeadGone DEF ActInv, DownInv
<1>5. PICK S, p : S = Restored(rt, d.row.phase, d.row.t, d.gone) /\ p = d.row.phase
  OBVIOUS
<1>6. Conclude(S, 0) /\ p \in {d.row.phase, "aborted"}
      /\ \A o \in S : o \in Restored(rt, p, d.row.t, d.gone) \/ o.rt = Terminated(rt)
  BY <1>1, <1>5 DEF Restore
<1>7. Types'
  BY RestoreInv DEF ActInv
<1>8. QuietQueue /\ AnswersOn
  BY <1>2, QueueSame DEF ActInv, AnswersOn
<1> QED BY <1>2, <1>3, <1>4, <1>6, <1>7, <1>8, ConcludeDown

LEMMA RestorePreparedDown == ActInv /\ DownInv /\ RestorePrepared => DownInv'
<1> SUFFICES ASSUME ActInv, DownInv, RestorePrepared PROVE DownInv'
  OBVIOUS
<1>1. PICK d, w : d = Head(batch) /\ w = Work("aborted", d.row.t, "restore")
  OBVIOUS
<1>2. PICK S : S = {Outcome(Terminated(rt), <<>>, FALSE, Cost(FALSE))}
  OBVIOUS
<1>3. /\ UNCHANGED <<row, saved, learner, look, dispatch, evidence, reports>> /\ Alone /\ in
      /\ batch # <<>> /\ d.op = "restore"
  BY <1>1 DEF RestorePrepared, Unknown, OutsideRuntime, hold, session, Alone
<1>4. d.row \in LookRows /\ d.row # NoRow /\ d.row \in RowType /\ d.row.t \in Txn
      /\ d.gone \in BOOLEAN
  BY <1>1, <1>3, HeadIs DEF ActInv
<1>5. d.gone => d.row.t.cand \in Cands(evidence)
  BY <1>1, <1>3, HeadGone DEF ActInv, DownInv
<1>6. \/ Send(<<w>>, {}) /\ UNCHANGED <<rt, batch, chal>> /\ pc' = "restoring"
      \/ Conclude(S, 0) /\ UNCHANGED <<queue, receipt>>
  BY <1>1, <1>2 DEF RestorePrepared
<1>7. Types'
  BY RestorePreparedInv DEF ActInv
<1>8. CASE Send(<<w>>, {}) /\ UNCHANGED <<rt, batch, chal>> /\ pc' = "restoring"
  <2>1. PICK items : items = <<w>>
    OBVIOUS
  <2>2. /\ items \in Seq(Items) /\ w.kind = "aborted" /\ w.owner = "restore"
    BY <1>1, <1>4, <2>1, WorkIs DEF Owners
  <2>3. \A j \in DOMAIN items : Harmless(items[j])
    BY <2>1, <2>2 DEF Harmless
  <2>4. Send(items, {}) /\ "flight" \notin {} /\ Types
    BY <1>8, <2>1 DEF ActInv
  <2>5. QuietQueue /\ receipt'["flight"] = receipt["flight"]
    BY <2>2, <2>3, <2>4, SendQuiet
  <2>6. LooksOn /\ AnswersOn /\ ChallengerOn /\ RowSettled
    BY <1>3, <1>8, <2>5, LooksSame, SameChallenger, SameRow DEF ActInv, AnswersOn
  <2> QED BY <1>3, <1>7, <1>8, <2>5, <2>6, NothingSame, DownSame
<1>9. CASE Conclude(S, 0) /\ UNCHANGED <<queue, receipt>>
  <2>1. "aborted" \in {d.row.phase, "aborted"} /\ "aborted" # "active"
        /\ \A o \in S : o \in Restored(rt, "aborted", d.row.t, d.gone) \/ o.rt = Terminated(rt)
    BY <1>2 DEF Outcome
  <2>2. QuietQueue /\ AnswersOn
    BY <1>9, QueueSame DEF ActInv, AnswersOn
  <2> QED BY <1>3, <1>4, <1>5, <1>7, <1>9, <2>1, <2>2, ConcludeDown
<1> QED BY <1>6, <1>8, <1>9

LEMMA RestoreAbortedDown == ActInv /\ Restoring /\ DownInv /\ RestoreAborted => DownInv'
<1> SUFFICES ASSUME ActInv, Restoring, DownInv, RestoreAborted PROVE DownInv'
  OBVIOUS
<1>1. PICK d : d = Head(batch)
  OBVIOUS
<1>2. /\ UNCHANGED <<row, saved, learner, look, dispatch, evidence, reports>> /\ Alone /\ in
      /\ batch # <<>> /\ d.op = "restore" /\ Forget("restore")
  BY <1>1 DEF RestoreAborted, Restoring, OutsideRuntime, hold, session, Alone
<1>3. d.row \in LookRows /\ d.row # NoRow /\ d.row \in RowType /\ d.gone \in BOOLEAN
  BY <1>1, <1>2, HeadIs DEF ActInv
<1>4. d.gone => d.row.t.cand \in Cands(evidence)
  BY <1>1, <1>2, HeadGone DEF ActInv, DownInv
<1>5. PICK A, B : A = Restored(rt, "aborted", d.row.t, d.gone)
                  /\ B = {Outcome(Terminated(rt), <<>>, FALSE, 0)}
  OBVIOUS
<1>6. \E n : Conclude(A, n) \/ Conclude(B, n)
  BY <1>1, <1>5 DEF RestoreAborted
<1>7. PICK n, S : S \in {A, B} /\ Conclude(S, n)
  BY <1>6
<1>8. "aborted" \in {d.row.phase, "aborted"} /\ "aborted" # "active"
      /\ \A o \in S : o \in Restored(rt, "aborted", d.row.t, d.gone) \/ o.rt = Terminated(rt)
  <2>1. CASE S = A
    BY <1>5, <2>1
  <2>2. CASE S = B
    BY <1>5, <2>2 DEF Outcome
  <2> QED BY <1>7, <2>1, <2>2
<1>9. Types'
  BY RestoreAbortedInv DEF ActInv
<1>10. QuietQueue /\ receipt'["flight"] = receipt["flight"]
  BY <1>2, ForgetQuiet DEF ActInv
<1>11. AnswersOn
  BY <1>10 DEF AnswersOn
<1> QED BY <1>2, <1>3, <1>4, <1>7, <1>8, <1>9, <1>10, <1>11, ConcludeDown
-----------------------------------------------------------------------------
(* A transition is taken one step on *)

LEMMA SubmitFit ==
  ASSUME NEW r, NEW ev, r \in Runtimes(ev), NEW t \in Txn, NEW c, NEW v,
         Fit(r, v), r.inert = NoTxn, r.flight = NoFlight,
         NEW o \in SubmitAborted(r, t, c)
  PROVE  Fit(o.rt, v) /\ o.rt.events = ev /\ ~o.result
<1>1. PICK ok \in Answers :
         o = IF ok THEN Outcome([r EXCEPT !.flight = [phase |-> "aborted", t |-> t]],
                                <<Work("aborted", t, "flight")>>, FALSE, c)
             ELSE Outcome(Terminated(r), <<>>, FALSE, c + Cost(ok))
  BY DEF SubmitAborted
<1>2. CASE ok
  <2> DEFINE s == [r EXCEPT !.flight = [phase |-> "aborted", t |-> t]]
  <2>1. o.rt = s /\ ~o.result
    BY <1>1, <1>2 DEF Outcome
  <2>2. /\ s.flight.phase = "aborted" /\ s.events = ev /\ s.active = r.active
        /\ s.inert = r.inert /\ s.backup = r.backup /\ s.record = r.record
        /\ s.known = r.known /\ s.failedRoles = r.failedRoles /\ s.pending = r.pending
        /\ s.authorized = r.authorized /\ s.terminated = r.terminated /\ r.events = ev
    BY DEF Runtimes
  <2> HIDE DEF s
  <2>3. Landed(s, v) = {} /\ Cands(s.events) \subseteq Proven(r, v)
    BY <2>2 DEF Landed, Proven
  <2>4. Near(s, v)
    BY <2>2, <2>3, NearSame DEF Fit
  <2>5. Halfway(s)
    BY <2>2 DEF Fit, Halfway
  <2> QED BY <2>1, <2>2, <2>4, <2>5 DEF Fit
<1>3. CASE ~ok
  <2>1. o.rt = Terminated(r) /\ ~o.result
    BY <1>1, <1>3 DEF Outcome
  <2>2. Terminated(r).events = ev
    BY TerminatedIs DEF Runtimes
  <2>3. Fit(Terminated(r), v)
    BY FitTerminated DEF Fit, Halfway
  <2> QED BY <2>1, <2>2, <2>3
<1> QED BY <1>2, <1>3

LEMMA CompensatedFit ==
  ASSUME ActInv, NEW r, NEW ev, r \in Runtimes(ev), r.flight = NoFlight, r.known = rt.known,
         NEW t \in r.known, NEW c, NEW v, Near(r, v), r.record \in r.known \union {NoTxn},
         r.active = t.cand => r.backup = t.inc,
         r.active # t.cand => Fit(r, v) /\ r.inert = NoTxn,
         NEW o \in Compensated(r, t, c)
  PROVE  Fit(o.rt, v) /\ o.rt.events = ev /\ ~o.result
<1>1. Types /\ t \in Txn /\ t # NoTxn
  BY DEF ActInv, History, Rows, Types, Runtimes
<1>2. CASE r.active # t.cand
  <2>1. o \in SubmitAborted(r, t, c)
    BY <1>2 DEF Compensated
  <2> QED BY <1>1, <1>2, <2>1, SubmitFit
<1>3. CASE r.active = t.cand
  <2> DEFINE s == Reinstated(r)
             u == Unseeded(r)
  <2>1. \/ o = Outcome(Terminated(u), <<>>, FALSE, c + 1)
        \/ o \in SubmitAborted(s, t, c)
        \/ \E ok \in Answers : o = Outcome(Terminated(s), <<>>, FALSE, c + Cost(ok))
    BY <1>3 DEF Compensated
  <2>2. r.events = ev
    BY DEF Runtimes
  <2>3. /\ s \in Runtimes(ev) /\ s.flight = NoFlight /\ s.pending = r.pending
        /\ s.known = r.known /\ s.active = t.inc /\ s.backup = NoPair /\ s.events = ev
    BY <1>3, <2>2, ReinstatedIs
  <2>4. s.inert = NoTxn /\ s.record = NoTxn /\ s.failedRoles = r.failedRoles
    BY DEF Reinstated, Runtimes
  <2>5. /\ u \in Runtimes(ev) /\ u.flight = NoFlight /\ u.pending = r.pending
        /\ u.known = r.known /\ u.active = r.active /\ u.events = ev
    BY <2>2, UnseededIs
  <2>6. u.inert = r.inert /\ u.record = r.record /\ u.failedRoles = r.failedRoles
        /\ u.authorized = r.authorized
    BY DEF Unseeded, Runtimes
  <2> HIDE DEF s, u
  <2>7. /\ Landed(s, v) \subseteq Landed(r, v) /\ Cands(s.events) \subseteq Proven(r, v)
        /\ Landed(u, v) \subseteq Landed(r, v) /\ Cands(u.events) \subseteq Proven(r, v)
    BY <2>2, <2>3, <2>5 DEF Landed, Proven
  <2>8. Fit(s, v)
    <3>1. PICK F : F = {}
      OBVIOUS
    <3>2. Spent(F, r, s, v) /\ s.failedRoles = r.failedRoles \union F
      BY <2>4, <3>1 DEF Spent
    <3>3. /\ r.known \subseteq s.known /\ s.known \subseteq SeenBy(r) \ {NoTxn}
          /\ s.known \in SUBSET Txn /\ t \in s.known
      BY <2>3 DEF SeenBy, ActInv, History, Rows, Types, Runtimes
    <3>4. Near(s, v)
      BY <1>1, <2>3, <2>4, <2>7, <3>2, <3>3, NearBack
    <3>5. Halfway(s)
      BY <2>3, <2>4 DEF Halfway
    <3> QED BY <3>4, <3>5 DEF Fit
  <2>9. Near(u, v)
    BY <2>5, <2>6, <2>7, NearSame
  <2>10. CASE o = Outcome(Terminated(u), <<>>, FALSE, c + 1)
    <3>1. o.rt = Terminated(u) /\ ~o.result
      BY <2>10 DEF Outcome
    <3>2. Terminated(u).events = ev
      BY <2>5, TerminatedIs
    <3>3. Fit(Terminated(u), v)
      BY <2>5, <2>6, <2>9, FitTerminated
    <3> QED BY <3>1, <3>2, <3>3
  <2>11. CASE o \in SubmitAborted(s, t, c)
    BY <1>1, <2>3, <2>4, <2>8, <2>11, SubmitFit
  <2>12. CASE \E ok \in Answers : o = Outcome(Terminated(s), <<>>, FALSE, c + Cost(ok))
    <3>1. o.rt = Terminated(s) /\ ~o.result
      BY <2>12 DEF Outcome
    <3>2. Terminated(s).events = ev
      BY <2>3, TerminatedIs
    <3>3. Fit(Terminated(s), v)
      BY <2>3, <2>8, FitTerminated DEF Fit, Halfway
    <3> QED BY <3>1, <3>2, <3>3
  <2> QED BY <2>1, <2>10, <2>11, <2>12
<1> QED BY <1>2, <1>3

\* What a step of a transition leaves.
Onto(o) ==
  /\ o.rt.events = rt.events /\ (o.result => o.rt.inert = NoTxn)
  /\ \E w : /\ Fit(o.rt, w)
            /\ o.rt.flight = rt.flight /\ rt.flight.phase = "active" => w = receipt["flight"]

LEMMA SettledFit ==
  ASSUME ActInv, DownInv, NEW r, r = Settled, NEW v, v = receipt["flight"]
  PROVE  /\ r \in Runtimes(rt.events) /\ r.events = rt.events /\ r.flight = rt.flight
         /\ r.known = rt.known /\ r.inert = rt.inert /\ r.active = rt.active
         /\ r.backup = rt.backup /\ r.terminated = rt.terminated /\ r.pending = rt.pending
         /\ r.record \in r.known \union {NoTxn} /\ Fit(r, v)
         /\ ~rt.terminated /\ rt.inert # NoTxn =>
               /\ rt.flight = [phase |-> "active", t |-> rt.inert]
               /\ rt.active = rt.inert.cand
<1>1. rt \in Runtimes(rt.events)
  BY DEF ActInv, Types
<1>2. PICK q : q = rt
  OBVIOUS
<1>3. Like(r, q) /\ r.events = q.events /\ r \in Runtimes(rt.events)
  BY <1>1, <1>2, None DEF Settled, Runtimes, Like
<1>4. Fit(q, v)
  BY <1>2 DEF DownInv
<1>5. Fit(r, v)
  BY <1>3, <1>4, FitAs
<1> QED BY <1>2, <1>3, <1>4, <1>5 DEF Like, Fit, Halfway

LEMMA InFlightFit ==
  ASSUME ActInv, DownInv, rt.flight # NoFlight, ~rt.terminated, NEW o \in InFlight(Settled)
  PROVE  Onto(o)
<1>1. PICK r, v, t : r = Settled /\ v = receipt["flight"] /\ t = rt.flight.t
  OBVIOUS
<1>2. PICK ev : ev = rt.events
  OBVIOUS
<1>3. /\ r \in Runtimes(ev) /\ r.events = ev /\ r.flight = rt.flight
      /\ r.known = rt.known /\ r.inert = rt.inert /\ r.active = rt.active
      /\ r.backup = rt.backup /\ r.terminated = rt.terminated /\ r.pending = rt.pending
      /\ r.record \in r.known \union {NoTxn} /\ Fit(r, v)
      /\ rt.inert # NoTxn => /\ rt.flight = [phase |-> "active", t |-> rt.inert]
                             /\ rt.active = rt.inert.cand
  BY <1>1, <1>2, SettledFit
<1> DEFINE landed == [r EXCEPT !.flight = NoFlight]
<1>4. /\ landed \in Runtimes(ev) /\ landed.flight = NoFlight /\ landed.events = ev
      /\ landed.known = r.known /\ landed.active = r.active /\ landed.backup = r.backup
      /\ landed.inert = r.inert /\ landed.record = r.record /\ landed.authorized = r.authorized
      /\ landed.failedRoles = r.failedRoles /\ landed.pending = r.pending
      /\ landed.terminated = r.terminated
  BY <1>3, None DEF Runtimes
<1>5. /\ t \in rt.known /\ t \in Txn /\ t # NoTxn
      /\ rt.flight.phase \in {"active", "aborted"}
      /\ receipt["flight"] \in {"waiting", "durable", "lost"}
  BY <1>1, None DEF ActInv, Types, Runtimes, Flights, Session, Flying, Owners, History, Rows
<1>6. /\ receipt["flight"] = "waiting" => o = Outcome(r, <<>>, FALSE, 0)
      /\ rt.flight.phase = "active" /\ receipt["flight"] = "durable" =>
            o \in Authorized(r, t)
      /\ rt.flight.phase = "active" /\ receipt["flight"] = "lost" =>
            o \in Compensated(landed, t, 0)
      /\ rt.flight.phase = "aborted" /\ receipt["flight"] = "durable" =>
            o = Outcome(landed, <<>>, TRUE, 0)
      /\ rt.flight.phase = "aborted" /\ receipt["flight"] = "lost" =>
            o = Outcome(Terminated(r), <<>>, FALSE, 0)
  <2> HIDE DEF landed
  <2>1. r.flight = rt.flight /\ o \in InFlight(r)
    BY <1>1, <1>3
  <2> QED BY <1>1, <2>1 DEF InFlight, landed
<1> HIDE DEF landed
<1>7. /\ Terminated(r).events = ev /\ Fit(Terminated(r), v)
      /\ Terminated(r).flight = r.flight
  BY <1>3, TerminatedIs, FitTerminated DEF Fit
<1>8. CASE receipt["flight"] = "waiting"
  <2>1. o.rt = r /\ ~o.result
    BY <1>6, <1>8 DEF Outcome
  <2> QED BY <1>1, <1>2, <1>3, <2>1 DEF Onto
<1>9. CASE rt.flight.phase = "active" /\ receipt["flight"] = "durable"
  <2> DEFINE driving == [r EXCEPT !.authorized = TRUE, !.record = t, !.inert = NoTxn,
                                  !.gen = Larger(r.gen, t.cand.role)]
             over == [driving EXCEPT !.flight = NoFlight]
  <2>1. Larger(r.gen, t.cand.role) \in Int
    BY <1>3, <1>5 DEF Runtimes, Txn, Pair, Larger
  <2>2. /\ driving \in Runtimes(ev) /\ driving.flight = r.flight /\ driving.events = ev
        /\ driving.pending = r.pending /\ driving.known = r.known /\ driving.active = r.active
        /\ driving.inert = NoTxn /\ driving.record = t /\ driving.failedRoles = r.failedRoles
    BY <1>3, <1>5, <2>1, None DEF Runtimes
  <2>3. \/ o = Outcome(Terminated(r), <<>>, FALSE, 0)
        \/ r.active = t.cand /\ r.inert = t /\ o = Outcome(over, <<>>, TRUE, 0)
        \/ \E ok \in Answers : /\ o = Outcome(Terminated(driving), <<>>, FALSE, Cost(ok))
                               /\ r.inert = t
    BY <1>6, <1>9 DEF Authorized
  <2> HIDE DEF driving
  <2>4. /\ over \in Runtimes(ev) /\ over.flight = NoFlight /\ over.events = ev
        /\ over.pending = r.pending /\ over.known = r.known /\ over.active = r.active
        /\ over.inert = NoTxn /\ over.record = t /\ over.failedRoles = r.failedRoles
    BY <2>2, None DEF Runtimes
  <2> HIDE DEF over
  <2>5. CASE o = Outcome(Terminated(r), <<>>, FALSE, 0)
    <3>1. o.rt = Terminated(r) /\ ~o.result
      BY <2>5 DEF Outcome
    <3> QED BY <1>1, <1>2, <1>7, <3>1 DEF Onto
  <2>6. ASSUME r.inert = t, NEW s,
               s.pending = r.pending, s.known = r.known, s.active = r.active,
               s.inert = NoTxn, s.record = t, s.failedRoles = r.failedRoles,
               s.events = ev, s.flight \in {r.flight, NoFlight}
        PROVE  Fit(s, v)
    <3>1. r.inert # NoTxn /\ r.inert \in r.known /\ r.flight.t = r.inert
          /\ r.flight.phase = "active" /\ v = "durable" /\ ~r.terminated
      BY <1>1, <1>3, <1>5, <1>9, <2>6
    <3>2. /\ Landed(s, v) \subseteq Landed(r, v) /\ Cands(s.events) \subseteq Proven(r, v)
      BY <1>3, <2>6, None DEF Landed, Proven
    <3>3. s.record = r.inert /\ s.pending \in {r.pending, NoTxn} /\ Types
      BY <2>6 DEF ActInv
    <3> QED BY <1>3, <2>6, <3>1, <3>2, <3>3, FitAuthorized
  <2>7. CASE r.active = t.cand /\ r.inert = t /\ o = Outcome(over, <<>>, TRUE, 0)
    <3>1. o.rt = over
      BY <2>7 DEF Outcome
    <3>2. Fit(over, v)
      BY <2>4, <2>6, <2>7
    <3> QED BY <1>1, <1>2, <2>4, <3>1, <3>2 DEF Onto
  <2>8. CASE \E ok \in Answers : /\ o = Outcome(Terminated(driving), <<>>, FALSE, Cost(ok))
                                 /\ r.inert = t
    <3>1. o.rt = Terminated(driving) /\ ~o.result /\ r.inert = t
      BY <2>8 DEF Outcome
    <3>2. Fit(driving, v)
      BY <2>2, <2>6, <3>1
    <3>3. Terminated(driving).events = ev
      BY <2>2, TerminatedIs
    <3>4. Fit(Terminated(driving), v)
      BY <2>2, <3>2, FitTerminated DEF Fit, Halfway
    <3> QED BY <1>1, <1>2, <3>1, <3>3, <3>4 DEF Onto
  <2> QED BY <2>3, <2>5, <2>7, <2>8
<1>10. Near(landed, v)
  <2>1. Landed(landed, v) = {} /\ Cands(landed.events) \subseteq Proven(r, v)
    BY <1>3, <1>4, None DEF Landed, Proven
  <2>2. Near(landed, v)
    BY <1>3, <1>4, <2>1, NearSame DEF Fit
  <2> QED BY <2>2
<1>11. landed.inert = NoTxn => Fit(landed, v)
  BY <1>3, <1>4, <1>10 DEF Fit, Halfway
<1>12. CASE rt.flight.phase = "active" /\ receipt["flight"] = "lost"
  <2>1. landed.active = t.cand => landed.backup = t.inc
    BY <1>1, <1>3, <1>4, <1>12 DEF ActInv, Session, Flying
  <2>2. landed.active # t.cand => landed.inert = NoTxn
    BY <1>1, <1>3, <1>4
  <2>3. /\ t \in landed.known /\ landed.known = rt.known
        /\ landed.record \in landed.known \union {NoTxn}
    BY <1>3, <1>4, <1>5
  <2>4. PICK q, c : q = landed /\ c = 0
    OBVIOUS
  <2>5. o \in Compensated(q, t, c)
    BY <1>6, <1>12, <2>4
  <2>6. Fit(o.rt, v) /\ o.rt.events = ev /\ ~o.result
    BY <1>4, <1>10, <1>11, <2>1, <2>2, <2>3, <2>4, <2>5, CompensatedFit
  <2> QED BY <1>1, <1>2, <2>6 DEF Onto
<1>13. CASE rt.flight.phase = "aborted" /\ receipt["flight"] = "durable"
  <2>1. o.rt = landed
    BY <1>6, <1>13 DEF Outcome
  <2>2. landed.inert = NoTxn
    BY <1>3, <1>4, <1>13
  <2> QED BY <1>1, <1>2, <1>4, <1>11, <2>1, <2>2 DEF Onto
<1>14. CASE rt.flight.phase = "aborted" /\ receipt["flight"] = "lost"
  <2>1. o.rt = Terminated(r) /\ ~o.result
    BY <1>6, <1>14 DEF Outcome
  <2> QED BY <1>1, <1>2, <1>7, <2>1 DEF Onto
<1> QED BY <1>5, <1>8, <1>9, <1>12, <1>13, <1>14

LEMMA InstalledFit ==
  ASSUME ActInv, DownInv, rt.flight = NoFlight, rt.pending # NoTxn, ~rt.terminated,
         NEW o \in Installed([Settled EXCEPT !.pending = NoTxn], rt.pending)
  PROVE  Onto(o)
<1>1. PICK p, v, t, ev : /\ p = Settled /\ v = receipt["flight"] /\ t = rt.pending
                         /\ ev = rt.events
  OBVIOUS
<1>2. /\ p \in Runtimes(ev) /\ p.events = ev /\ p.flight = NoFlight
      /\ p.known = rt.known /\ p.inert = NoTxn /\ p.active = rt.active
      /\ p.backup = rt.backup /\ ~p.terminated /\ p.pending = t
      /\ p.record \in p.known \union {NoTxn} /\ Fit(p, v)
  BY <1>1, SettledFit, None
<1>3. PICK r : r = [p EXCEPT !.pending = NoTxn]
  OBVIOUS
<1>4. /\ r \in Runtimes(ev) /\ r.events = ev /\ r.flight = NoFlight /\ r.pending = NoTxn
      /\ r.known = p.known /\ r.inert = NoTxn /\ r.active = p.active /\ r.backup = p.backup
      /\ r.record = p.record /\ r.failedRoles = p.failedRoles
      /\ r.authorized = p.authorized /\ ~r.terminated
  BY <1>2, <1>3, None DEF Runtimes
<1>5. Fit(r, v)
  <2>1. Landed(r, v) = {} /\ Cands(r.events) \subseteq Proven(p, v)
    BY <1>2, <1>4, None DEF Landed, Proven
  <2>2. Near(r, v)
    BY <1>2, <1>4, <2>1, NearSame DEF Fit
  <2>3. Halfway(r)
    BY <1>2, <1>4 DEF Fit, Halfway
  <2> QED BY <2>2, <2>3 DEF Fit
<1>6. t \in rt.known /\ t \in Txn /\ rt.active # t.cand /\ t # NoTxn
  BY <1>1 DEF ActInv, Session, Pending, Types, Runtimes
<1> DEFINE s == Inert(r, t)
           in_ == [s EXCEPT !.flight = [phase |-> "active", t |-> t]]
<1>7. \/ \E c : o \in Compensated(r, t, c)
      \/ /\ r.active = t.inc
         /\ \/ o = Outcome(in_, <<Work("active", t, "flight")>>, FALSE, 0)
            \/ \E c : o \in Compensated(s, t, c)
  <2>1. o \in Installed(r, t)
    BY <1>1, <1>3
  <2>2. \/ o \in Compensated(r, t, 1)
        \/ \E ok \in Answers :
              o \in IF ok THEN {Outcome(in_, <<Work("active", t, "flight")>>, FALSE, 0)}
                    ELSE Compensated(s, t, Cost(ok))
        \/ o \in Compensated(r, t, 0)
    BY <2>1 DEF Installed
  <2>3. CASE r.active # t.inc
    BY <2>1, <2>3 DEF Installed
  <2> HIDE DEF s, in_
  <2> QED BY <2>2, <2>3
<1>8. /\ s \in Runtimes(ev) /\ s.flight = NoFlight /\ s.pending = NoTxn /\ s.known = r.known
      /\ s.active = t.cand /\ s.backup = r.active /\ ~s.authorized /\ s.inert = t
      /\ s.events = ev /\ s.record = r.record /\ s.failedRoles = r.failedRoles
  BY <1>4, <1>6 DEF Inert, Runtimes, Txn
<1> HIDE DEF s
<1>9. /\ in_.flight = [phase |-> "active", t |-> t] /\ in_.pending = NoTxn
      /\ in_.known = r.known /\ in_.active = t.cand /\ ~in_.authorized /\ in_.inert = t
      /\ in_.events = ev /\ in_.record = r.record /\ in_.failedRoles = r.failedRoles
  BY <1>8 DEF Runtimes
<1> HIDE DEF in_
<1>10. CASE \E c : o \in Compensated(r, t, c)
  <2>1. PICK c : o \in Compensated(r, t, c)
    BY <1>10
  <2>2. /\ t \in r.known /\ r.known = rt.known /\ Near(r, v)
        /\ r.record \in r.known \union {NoTxn} /\ r.active # t.cand
    BY <1>2, <1>4, <1>5, <1>6 DEF Fit
  <2>3. Fit(o.rt, v) /\ o.rt.events = ev /\ ~o.result
    BY <1>4, <1>5, <2>1, <2>2, CompensatedFit
  <2> QED BY <1>1, <2>3 DEF Onto
<1>11. CASE o = Outcome(in_, <<Work("active", t, "flight")>>, FALSE, 0)
  <2>1. o.rt = in_ /\ ~o.result
    BY <1>11 DEF Outcome
  <2>2. PICK q, w : q = in_ /\ w = "none"
    OBVIOUS
  <2>3. Landed(q, w) = {} /\ Cands(q.events) \subseteq Proven(p, v)
    BY <1>2, <1>9, <2>2 DEF Landed, Proven
  <2>4. /\ q.known = p.known /\ q.pending = NoTxn /\ q.active = p.pending.cand
        /\ q.inert = p.pending /\ q.record = p.record /\ q.failedRoles = p.failedRoles
        /\ ~q.authorized /\ p.pending # NoTxn /\ Types /\ Near(p, v)
    BY <1>2, <1>4, <1>6, <1>9, <2>2 DEF ActInv, Fit
  <2>5. Near(q, w) /\ q.inert.cand.role \notin q.failedRoles
    BY <2>3, <2>4, NearInert
  <2>6. Halfway(q)
    BY <1>2, <1>4, <1>9, <2>2, <2>5 DEF Halfway
  <2>7. q.flight # rt.flight
    BY <1>9, <2>2, None
  <2> QED BY <1>1, <1>9, <2>1, <2>2, <2>5, <2>6, <2>7 DEF Onto, Fit
<1>12. CASE r.active = t.inc /\ \E c : o \in Compensated(s, t, c)
  <2>1. PICK c, q : o \in Compensated(q, t, c) /\ q = s
    BY <1>12
  <2>2. Landed(q, v) = {} /\ Cands(q.events) \subseteq Proven(p, v)
    BY <1>2, <1>8, <2>1, None DEF Landed, Proven
  <2>3. /\ q.known = p.known /\ q.pending = NoTxn /\ q.active = p.pending.cand
        /\ q.inert = p.pending /\ q.record = p.record /\ q.failedRoles = p.failedRoles
        /\ ~q.authorized /\ p.pending # NoTxn /\ Types /\ Near(p, v)
    BY <1>2, <1>4, <1>6, <1>8, <2>1 DEF ActInv, Fit
  <2>4. Near(q, v)
    BY <2>2, <2>3, NearInert
  <2>5. /\ t \in q.known /\ q.known = rt.known /\ q.record \in q.known \union {NoTxn}
        /\ q.active = t.cand /\ q.backup = t.inc /\ q \in Runtimes(ev) /\ q.flight = NoFlight
    BY <1>2, <1>4, <1>6, <1>8, <1>12, <2>1
  <2>6. Fit(o.rt, v) /\ o.rt.events = ev /\ ~o.result
    BY <2>1, <2>4, <2>5, CompensatedFit
  <2> QED BY <1>1, <2>6 DEF Onto
<1> QED BY <1>7, <1>10, <1>11, <1>12

LEMMA AdvancedFit ==
  ASSUME ActInv, DownInv, NEW o \in Advanced(rt)
  PROVE  Onto(o)
<1>1. PICK r, v : r = Settled /\ v = receipt["flight"]
  OBVIOUS
<1>2. /\ r.events = rt.events /\ r.flight = rt.flight /\ r.inert = rt.inert /\ Fit(r, v)
      /\ ~rt.terminated /\ rt.inert # NoTxn =>
               rt.flight = [phase |-> "active", t |-> rt.inert]
  BY <1>1, SettledFit
<1>3. CASE rt.abort # NoTxn /\ receipt["abort"] # "durable"
  <2>1. o.rt = rt /\ ~o.result
    <3>1. o \in Retried(rt)
      BY <1>3 DEF Advanced
    <3>2. \/ o = Outcome(rt, <<>>, FALSE, 0)
          \/ \E ok \in Answers : \E ss : o = Outcome(rt, ss, FALSE, Cost(ok))
      BY <3>1 DEF Retried
    <3> QED BY <3>2 DEF Outcome
  <2>2. PICK q : q = rt
    OBVIOUS
  <2>3. Fit(q, v)
    BY <1>1, <2>2 DEF DownInv
  <2> QED BY <1>1, <2>1, <2>2, <2>3 DEF Onto
<1>4. CASE ~(rt.abort # NoTxn /\ receipt["abort"] # "durable")
  <2>1. /\ rt.terminated => o = Outcome(r, <<>>, FALSE, 0)
        /\ ~rt.terminated /\ rt.flight # NoFlight => o \in InFlight(Settled)
        /\ ~rt.terminated /\ rt.flight = NoFlight /\ rt.pending # NoTxn =>
              o \in Installed([Settled EXCEPT !.pending = NoTxn], rt.pending)
        /\ ~rt.terminated /\ rt.flight = NoFlight /\ rt.pending = NoTxn =>
              o = Outcome(r, <<>>, TRUE, 0)
    <3>1. o \in CASE rt.terminated -> {Outcome(Settled, <<>>, FALSE, 0)}
                  [] ~rt.terminated /\ rt.flight # NoFlight -> InFlight(Settled)
                  [] ~rt.terminated /\ rt.flight = NoFlight /\ rt.pending # NoTxn ->
                        Installed([Settled EXCEPT !.pending = NoTxn], rt.pending)
                  [] OTHER -> {Outcome(Settled, <<>>, TRUE, 0)}
      BY <1>4 DEF Advanced, Settled
    <3> QED BY <1>1, <3>1
  <2>2. CASE rt.terminated
    <3>1. o.rt = r /\ ~o.result
      BY <2>1, <2>2 DEF Outcome
    <3> QED BY <1>1, <1>2, <3>1 DEF Onto
  <2>3. CASE ~rt.terminated /\ rt.flight # NoFlight
    BY <2>1, <2>3, InFlightFit
  <2>4. CASE ~rt.terminated /\ rt.flight = NoFlight /\ rt.pending # NoTxn
    BY <2>1, <2>4, InstalledFit
  <2>5. CASE ~rt.terminated /\ rt.flight = NoFlight /\ rt.pending = NoTxn
    <3>1. o.rt = r
      BY <2>1, <2>5 DEF Outcome
    <3>2. rt.inert = NoTxn
      BY <1>2, <2>5, None
    <3> QED BY <1>1, <1>2, <3>1, <3>2 DEF Onto
  <2> QED BY <2>2, <2>3, <2>4, <2>5
<1> QED BY <1>3, <1>4

LEMMA AdvanceDown == ActInv /\ DownInv /\ Advance => DownInv'
<1> SUFFICES ASSUME ActInv, DownInv, Advance PROVE DownInv'
  OBVIOUS
<1>1. /\ UNCHANGED <<row, saved, learner, look, batch, dispatch, evidence, reports>> /\ Alone /\ in
      /\ Types
  BY DEF Advance, OutsideRuntime, hold, session, Alone, ActInv
<1>2. PICK o \in Advanced(rt) :
         /\ rt' = o.rt
         /\ Send(o.sends, (IF o.rt.flight = NoFlight THEN {"flight"} ELSE {})
                            \union (IF o.rt.abort = NoTxn THEN {"abort"} ELSE {}))
         /\ pc' = IF o.result THEN "solve" ELSE "top"
         /\ chal' = chal \/ chal' = Reviewed(chal, o.rt.active)
  BY DEF Advance, Synchronize, NotSynchronized
<1>3. PICK items, done : /\ items = o.sends /\ Send(items, done)
                         /\ "flight" \in done => o.rt.flight = NoFlight
  <2> DEFINE D == (IF o.rt.flight = NoFlight THEN {"flight"} ELSE {})
                    \union (IF o.rt.abort = NoTxn THEN {"abort"} ELSE {})
  <2>1. Send(o.sends, D)
    BY <1>2
  <2>2. "flight" \in D => o.rt.flight = NoFlight
    OBVIOUS
  <2> HIDE DEF D
  <2> QED BY <2>1, <2>2
<1>4. Onto(o) /\ (Idle(o) \/ Steps(o))
  <2>1. PICK q : q = o
    OBVIOUS
  <2>2. Onto(q) /\ (Idle(q) \/ Steps(q))
    BY <2>1, AdvancedFit, AdvancedIs
  <2> QED BY <2>1, <2>2
<1>5. Types'
  BY AdvanceInv DEF ActInv
<1>6. LooksOn /\ ChallengerOn /\ RowSettled
  BY <1>1, <1>2, LooksSame, SameChallenger, ReviewedOn, SameRow DEF ActInv
<1>7. PICK r, w : /\ r = rt' /\ Fit(r, w)
                  /\ r.flight = rt.flight /\ rt.flight.phase = "active" => w = receipt["flight"]
  BY <1>2, <1>4 DEF Onto
<1>8. r.pending # NoTxn => \A i \in ActiveItems' : \E j \in ActiveItems : queue[j].t = queue'[i].t
  <2>1. CASE Idle(o)
    <3>1. QuietQueue
      BY <1>1, <1>3, <2>1, SendQuiet DEF Idle
    <3>2. \A i \in ActiveItems' : \E j \in ActiveItems : queue[j] = queue'[i]
      BY <1>1, <1>5, <3>1, QueueOn
    <3> QED BY <3>2
  <2>2. CASE Steps(o)
    BY <1>2, <1>7, <2>2 DEF Steps, Moved
  <2> QED BY <1>4, <2>1, <2>2
<1>9. r.flight.phase = "active" /\ receipt'["flight"] = "durable" => w = "durable"
  <2>1. CASE Idle(o)
    <3>1. "flight" \notin done => receipt'["flight"] = receipt["flight"]
      BY <1>1, <1>3, <2>1, SendQuiet DEF Idle
    <3>2. o.rt.flight = rt.flight
      BY <2>1 DEF Idle
    <3> QED BY <1>2, <1>3, <1>7, <3>1, <3>2, None
  <2>2. CASE Steps(o)
    <3> SUFFICES ASSUME r.flight.phase = "active" PROVE receipt'["flight"] = "waiting"
      OBVIOUS
    <3>1. PICK t \in rt.known : Carried(o.rt, o.sends, t)
      BY <2>2 DEF Steps
    <3>2. items = <<Work("active", t, "flight")>>
      BY <1>2, <1>3, <1>7, <3>1, None DEF Carried
    <3>3. t \in Txn /\ "flight" \in Owners
      BY <1>1 DEF Types, Runtimes, Owners
    <3>4. PICK k : k = Work("active", t, "flight") /\ k.owner = "flight" /\ <<k>> \in Seq(Items)
      BY <3>3, WorkIs
    <3>5. items \in Seq(Items) /\ 1 \in DOMAIN items /\ items[1].owner = "flight"
      BY <3>2, <3>4
    <3> QED BY <1>1, <1>3, <3>5, SendIs
  <2> QED BY <1>4, <2>1, <2>2
<1>10. rt'.events = rt.events
  BY <1>2, <1>4 DEF Onto
<1>11. Around(r, w)
  <2>1. Cands(evidence') \union Cands(reports') \union Cands(rt'.events) \subseteq Proven(r, w)
    BY <1>1, <1>7, <1>10 DEF Proven
  <2>2. holds' = holds /\ chal'.t = chal.t
    BY <1>1, <1>6 DEF Alone, ChallengerOn
  <2> QED BY <1>6, <1>8, <1>9, <2>1, <2>2 DEF Around
<1>12. Fit(rt, receipt["flight"])' /\ Level' = Level
  <2>1. Like(rt', r)
    BY <1>7, LikeSelf
  <2> QED BY <1>1, <1>7, <1>11, <2>1, FitKept
<1>13. Evidenced'
  BY <1>1, <1>10, EvidenceSame DEF DownInv
<1>14. Starts'
  <2>1. pc' = "solve" => rt'.inert = NoTxn
    BY <1>2, <1>4 DEF Onto
  <2>2. entered' = entered /\ saved' = saved /\ holds' = holds /\ learner' = learner
    BY <1>1 DEF Alone
  <2> QED BY <1>12, <2>1, <2>2 DEF DownInv, Starts, Ranked
<1> QED BY <1>12, <1>13, <1>14 DEF DownInv
-----------------------------------------------------------------------------
(* Candidates, and what makes a row *)

LEMMA DeliverDown == ActInv /\ DownInv /\ Deliver => DownInv'
<1> SUFFICES ASSUME ActInv, DownInv, Deliver PROVE DownInv'
  OBVIOUS
<1>1. PICK t : /\ t = [inc |-> rt.active, cand |-> [id |-> fits + 1, role |-> learnRole + 1]]
               /\ holds' = t /\ chal' = [phase |-> "evaluating", t |-> t]
  BY DEF Deliver
<1>2. /\ UNCHANGED <<row, saved, look, batch, dispatch, evidence, reports, queue, receipt, rt,
                     learner, entered, pc>>
      /\ learnRole = rt.active.role /\ learner = "idle"
  BY DEF Deliver, LearnerFrame, solver, hold, session
<1>3. Types /\ LooksOn /\ RowSettled
  BY <1>2, LooksSame, SameRow DEF ActInv
<1>4. PICK r, w : r = rt /\ w = receipt["flight"]
  OBVIOUS
<1>5. Heir(t)
  BY <1>1, <1>2 DEF DownInv, Fit, Near, Ordered, Heir
<1>6. Around(r, w)
  <2>1. Cands(evidence') \union Cands(reports') \union Cands(rt'.events) \subseteq Proven(r, w)
    BY <1>2, <1>4 DEF Proven
  <2>2. ActiveItems' = ActiveItems
    BY <1>2 DEF ActiveItems
  <2>3. chal'.t = t
    BY <1>1
  <2> QED BY <1>1, <1>2, <1>3, <1>4, <1>5, <2>1, <2>2, <2>3 DEF Around
<1>7. Fit(rt, receipt["flight"])' /\ Level' = Level
  <2>1. Like(rt', r) /\ Fit(r, w)
    BY <1>2, <1>4, LikeSelf DEF DownInv
  <2> QED BY <1>3, <1>6, <2>1, FitKept
<1>8. Evidenced'
  BY <1>2, EvidenceSame DEF DownInv
<1>9. Starts'
  BY <1>2, <1>7 DEF DownInv, Starts, Ranked
<1> QED BY <1>7, <1>8, <1>9 DEF DownInv

\* The session ends, and what it knew with it.
LEMMA OutDown == ActInv /\ DownInv /\ Types' /\ Out /\ reports' \in {reports, <<>>} => DownInv'
<1> SUFFICES ASSUME ActInv, DownInv, Types', Out, reports' \in {reports, <<>>} PROVE DownInv'
  OBVIOUS
<1>1. /\ UNCHANGED <<row, chal, evidence, saved, entered>> /\ batch' = <<>> /\ dispatch' = <<>>
      /\ look' = NoRow /\ holds' = NoTxn /\ learner' = "idle" /\ pc' = "top"
      /\ rt' = [NewRuntime(Configured) EXCEPT !.authorized = FALSE]
  BY DEF Out, durable
<1>2. PICK r, s, v, w : r = rt /\ s = rt' /\ v = receipt["flight"] /\ w = receipt'["flight"]
  OBVIOUS
<1>3. /\ s.active = Configured /\ s.inert = NoTxn /\ s.known = {} /\ s.record = NoTxn
      /\ s.failedRoles = {} /\ s.pending = NoTxn /\ ~s.authorized /\ s.flight = NoFlight
      /\ s.events = <<>>
  BY <1>1, <1>2 DEF NewRuntime
<1>4. Types /\ Near(r, v)
  BY <1>2 DEF ActInv, DownInv, Fit
<1>5. Level' = Level /\ Level \in Nat
  BY <1>1, <1>4, LevelIs DEF Level
<1>6. LookRows' = {NoRow}
  BY <1>1 DEF LookRows
<1>7. ActiveRows' \subseteq ActiveRows /\ SeenBy(s)' \subseteq SeenBy(r) \union {NoTxn}
  BY <1>1, <1>3, <1>6, None DEF ActiveRows, SeenBy, Read
<1>8. Proven(s, w)' \subseteq Proven(r, v)
  <2>1. Landed(s, w) = {} /\ Cands(s.events) = {}
    BY <1>3, None DEF Landed, Cands
  <2>2. Cands(reports') \subseteq Cands(reports)
    BY DEF Cands
  <2> QED BY <1>1, <1>3, <1>7, <2>1, <2>2 DEF Proven
<1>9. Ordered(s)'
  <2>1. Configured.role = 0
    BY DEF Configured
  <2> QED BY <1>1, <1>3, <1>4, <1>5, <1>7, <2>1 DEF Near, Ordered, Ranked, Heir
<1>10. Singular(s, w)'
  BY <1>4, <1>5, <1>8 DEF Near, Singular, Ranked
<1>11. Waiting(s)' /\ Restorable(s)' /\ StaysDown(s)' /\ Halfway(s)'
  BY <1>3 DEF Waiting, Restorable, StaysDown, Halfway
<1>12. Fit(rt, receipt["flight"])'
  BY <1>2, <1>9, <1>10, <1>11 DEF Fit, Near, Ordered, Singular, Waiting, Restorable, StaysDown,
                                  Halfway
<1>13. Evidenced'
  <2>1. <<>> \in Seq(Notices) /\ DOMAIN <<>> = {}
    BY EmptySeq
  <2>2. rt'.events = <<>> /\ batch' = <<>> /\ dispatch' = <<>> /\ evidence' = evidence
    BY <1>1, <1>2, <1>3
  <2>3. reports' \in Seq(Notices) /\ \A i \in DOMAIN reports' : reports'[i].place \in 0..Len(evidence)
    BY <2>1 DEF DownInv, Evidenced
  <2> QED BY <2>1, <2>2, <2>3 DEF DownInv, Evidenced
<1>14. Starts'
  BY <1>1, <1>5 DEF DownInv, Starts, Ranked
<1> QED BY <1>12, <1>13, <1>14 DEF DownInv

LEMMA LeaveDown == ActInv /\ DownInv /\ Leave => DownInv'
<1> SUFFICES ASSUME ActInv, DownInv, Leave PROVE DownInv'
  OBVIOUS
<1>1. Types' /\ Out /\ reports' = reports
  BY LeaveInv DEF Leave, ActInv
<1> QED BY <1>1, OutDown

LEMMA CrashDown == ActInv /\ DownInv /\ Crash => DownInv'
<1> SUFFICES ASSUME ActInv, DownInv, Crash PROVE DownInv'
  OBVIOUS
<1>1. Types' /\ Out /\ reports' = <<>>
  BY CrashInv DEF Crash, ActInv
<1> QED BY <1>1, OutDown

LEMMA EnterDown == ActInv /\ DownInv /\ Enter => DownInv'
<1> SUFFICES ASSUME ActInv, DownInv, Enter PROVE DownInv'
  OBVIOUS
<1>1. PICK base \in {Configured, saved} \ {NoPair} :
         /\ rt' = NewRuntime(base) /\ entered' = base
         /\ IF base = saved /\ Retirable
            THEN \/ Recovered(base)
                 \/ chal' = [chal EXCEPT !.phase = "retired"] /\ UNCHANGED <<row, holds>>
            ELSE UNCHANGED <<row, chal, holds>>
  BY DEF Enter
<1>2. /\ UNCHANGED <<saved, queue, receipt, learner, look, batch, dispatch, evidence, reports, pc>>
      /\ ~in
  BY DEF Enter, worker, solver, hold
<1>3. /\ row' = row \/ (row.phase = "prepared" /\ row' = [row EXCEPT !.phase = "aborted"])
      /\ chal' = chal \/ chal' = [chal EXCEPT !.phase = "retired"]
      /\ holds' = holds \/ holds' = chal.t
  <2>1. CASE UNCHANGED <<row, chal, holds>>
    BY <2>1
  <2>2. CASE chal' = [chal EXCEPT !.phase = "retired"] /\ UNCHANGED <<row, holds>>
    BY <2>2
  <2>3. CASE Recovered(base)
    BY <2>3 DEF Recovered
  <2> QED BY <1>1, <2>1, <2>2, <2>3
<1>4. Types /\ RowSettled /\ LooksOn /\ chal'.t = chal.t
  BY <1>2, <1>3, LooksSame DEF ActInv, RowSettled, Types, ChalType
<1>5. PICK q, v, r, w : q = rt /\ v = receipt["flight"] /\ r = rt' /\ w = "none"
  OBVIOUS
<1>6. /\ r.active = base /\ r.inert = NoTxn /\ r.known = {} /\ r.record = NoTxn
      /\ r.failedRoles = {} /\ r.pending = NoTxn /\ r.flight = NoFlight
      /\ r.events = <<>> /\ r.backup = NoPair
  BY <1>1, <1>5 DEF NewRuntime
<1>7. Near(q, v)
  BY <1>5 DEF DownInv, Fit
<1>8. Ranked(base) /\ base.role >= 0
  <2>1. Configured.role = 0 /\ Level \in Nat
    BY <1>4, LevelIs DEF Configured
  <2> QED BY <2>1 DEF DownInv, Starts, Ranked
<1>9. Fit(r, w)
  <2>1. SeenBy(r) \subseteq SeenBy(q)
    BY <1>6 DEF SeenBy
  <2>2. Ordered(r)
    BY <1>6, <1>7, <1>8, <2>1 DEF Near, Ordered
  <2>3. Landed(r, w) = {} /\ Cands(r.events) = {}
    BY <1>6, None DEF Landed, Cands
  <2>4. Proven(r, w) \subseteq Proven(q, v)
    BY <1>6, <2>3 DEF Proven
  <2>5. Singular(r, w)
    BY <1>7, <2>4 DEF Near, Singular
  <2>6. Waiting(r) /\ Restorable(r) /\ StaysDown(r) /\ Halfway(r)
    BY <1>6 DEF Waiting, Restorable, StaysDown, Halfway
  <2> QED BY <2>2, <2>5, <2>6 DEF Fit, Near
<1>10. Around(r, w)
  <2>1. Cands(evidence') \union Cands(reports') \union Cands(rt'.events) \subseteq Proven(r, w)
    BY <1>2, <1>5 DEF Proven
  <2> QED BY <1>3, <1>4, <1>6, <2>1, None DEF Around
<1>11. Fit(rt, receipt["flight"])' /\ Level' = Level
  <2>1. Like(rt', r)
    BY <1>5, LikeSelf
  <2> QED BY <1>4, <1>9, <1>10, <2>1, FitKept
<1>12. Evidenced'
  <2>1. <<>> \in Seq(Notices) /\ DOMAIN <<>> = {} /\ rt'.events = <<>>
    BY <1>5, <1>6, EmptySeq
  <2> QED BY <1>2, <2>1 DEF DownInv, Evidenced, Cands
<1>13. Starts'
  <2>1. entered' = base /\ saved' = saved /\ rt'.inert = NoTxn /\ learner' = "idle"
    BY <1>1, <1>2, <1>5, <1>6 DEF ActInv, Outside
  <2> QED BY <1>8, <1>11, <2>1 DEF DownInv, Starts, Ranked
<1> QED BY <1>11, <1>12, <1>13 DEF DownInv

LEMMA InitDown == Init => DownInv
<1> SUFFICES ASSUME Init PROVE DownInv
  OBVIOUS
<1>1. /\ rt.active = Configured /\ rt.inert = NoTxn /\ rt.known = {} /\ rt.record = NoTxn
      /\ rt.failedRoles = {} /\ rt.pending = NoTxn /\ rt.flight = NoFlight
      /\ rt.events = <<>> /\ rt.backup = NoPair
  BY DEF Init, NewRuntime
<1>2. /\ row = NoRow /\ look = NoRow /\ batch = <<>> /\ dispatch = <<>> /\ holds = NoTxn
      /\ chal.t = NoTxn /\ evidence = <<>> /\ reports = <<>> /\ saved = NoPair
      /\ entered = Configured /\ pc = "top" /\ learner = "idle"
  BY DEF Init
<1>3. Configured.role = 0
  BY DEF Configured
<1>4. Types
  BY InitInv DEF ActInv
<1>5. Ranked(Configured)
  BY <1>3, <1>4, LevelIs DEF Ranked
<1>6. SeenBy(rt) \union {holds, chal.t} \subseteq {NoTxn} /\ ActiveRows = {}
  BY <1>1, <1>2, None DEF SeenBy, Read, LookRows, ActiveRows
<1>7. Landed(rt, receipt["flight"]) = {} /\ \A s : s = <<>> => Cands(s) = {}
  BY <1>1, None DEF Landed, Cands
<1>8. Proven(rt, receipt["flight"]) = {}
  BY <1>1, <1>2, <1>6, <1>7 DEF Proven
<1>9. Fit(rt, receipt["flight"])
  BY <1>1, <1>3, <1>5, <1>6, <1>8
     DEF Fit, Near, Ordered, Singular, Waiting, Restorable, StaysDown, Halfway
<1>10. Evidenced
  <2>1. \A S : <<>> \in Seq(S) /\ DOMAIN <<>> = {}
    BY EmptySeq
  <2> QED BY <1>1, <1>2, <2>1 DEF Evidenced
<1>11. Starts
  BY <1>1, <1>2, <1>5 DEF Starts
<1> QED BY <1>9, <1>10, <1>11 DEF DownInv

LEMMA StutterDown == ActInv /\ DownInv /\ UNCHANGED vars => DownInv'
<1> SUFFICES ASSUME ActInv, DownInv, UNCHANGED vars PROVE DownInv'
  OBVIOUS
<1>1. /\ UNCHANGED <<row, chal, saved, queue, receipt, rt, look, batch, dispatch, learner,
                     evidence, reports, pc, fits, holds, in, entered>>
  BY DEF vars, durable, worker, solver, learning, hold, session
<1>2. Types'
  BY <1>1 DEF ActInv, Types
<1>3. LooksOn /\ QuietQueue /\ AnswersOn /\ ChallengerOn /\ RowSettled /\ Alone
  BY <1>1, LooksSame, QueueSame, SameChallenger, SameRow DEF ActInv, AnswersOn, Alone
<1> QED BY <1>1, <1>2, <1>3, NothingSame, DownSame

\* Authority rises.
LEMMA RankedStays ==
  ASSUME Level \in Nat, Level' \in Nat, Level <= Level', NEW p, Ranked(p)
  PROVE  Ranked(p)'
BY DEF Ranked

LEMMA StartsRisen ==
  ASSUME DownInv, Types, Types', Level <= Level', UNCHANGED <<rt, pc, entered, saved, holds>>,
         learner' \in {"lifecycle", "withdraw"} => learner \in {"lifecycle", "withdraw"}
  PROVE  Starts'
<1>1. Level \in Nat /\ Level' \in Nat
  <2>1. Authority(row)' \in Pair
    BY DEF Types, RowType, Txn, Authority
  <2>2. Level' \in Nat
    BY <2>1 DEF Level, Larger, Pair
  <2> QED BY <2>2, LevelIs
<1>2. PICK p, q : p = entered /\ q = saved
  OBVIOUS
<1>3. Ranked(p)' /\ (q # NoPair => Ranked(q)')
  BY <1>1, <1>2, RankedStays DEF DownInv, Starts
<1> QED BY <1>2, <1>3 DEF DownInv, Starts, Ranked

\* A row is prepared, or made active.
LEMMA RowDown ==
  ASSUME ActInv, DownInv, Types', Level < Level' \/ Level = Level',
         UNCHANGED <<rt, look, batch, dispatch, evidence, reports, pc, entered, saved, holds>>,
         chal'.t = chal.t, row'.t \in {row.t, holds}, row'.t # NoTxn,
         row'.t.inc.role \in 0..Level',
         learner' \in {"lifecycle", "withdraw"} => learner \in {"lifecycle", "withdraw"},
         NEW r, r = rt, NEW v, v = receipt["flight"], NEW w, w = receipt'["flight"],
         NEW P, P \subseteq {row'.t.cand}, Proven(r, w)' \subseteq Proven(r, v) \union P,
         P # {} => row'.t.cand.role = Level' /\ Level < Level',
         Waiting(r)', Restorable(r)'
  PROVE  DownInv'
<1>1. Types /\ Fit(r, v)
  BY DEF ActInv, DownInv
<1>2. /\ Level \in Nat /\ Level' \in Nat /\ Level <= Level'
  <2>1. Authority(row)' \in Pair
    BY DEF Types, RowType, Txn, Authority
  <2>2. Level' \in Nat
    BY <2>1 DEF Level, Larger, Pair
  <2> QED BY <1>1, <2>2, LevelIs
<1>3. LookRows' = LookRows /\ Read' = Read
  BY DEF LookRows, Read
<1>4. Ordered(r)'
  <2>1. \A t \in (SeenBy(r) \union {holds, chal.t}) \ {NoTxn} : Heir(t)
    BY <1>1 DEF Fit, Near, Ordered
  <2>2. \A t \in SeenBy(r)' \ {NoTxn} : t \in SeenBy(r) \/ t = row'.t
    BY <1>3 DEF SeenBy
  <2>3. Heir(row'.t)
    BY <2>1 DEF SeenBy
  <2>4. \A t \in (SeenBy(r)' \union {holds', chal'.t}) \ {NoTxn} : Heir(t)
    BY <2>1, <2>2, <2>3
  <2>5. ASSUME NEW t \in SeenBy(r)' \ {NoTxn} PROVE t.inc.role \in 0..Level'
    <3>1. CASE t = row'.t
      BY <3>1
    <3>2. CASE t \in SeenBy(r)
      <4>1. Ranked(t.inc)
        BY <1>1, <3>2 DEF Fit, Near, Ordered
      <4> QED BY <1>2, <4>1 DEF Ranked
    <3> QED BY <2>2, <3>1, <3>2
  <2>6. r.inert = NoTxn => r.active.role \in 0..Level'
    BY <1>1, <1>2 DEF Fit, Near, Ordered, Ranked
  <2>7. r.active.role >= 0
    BY <1>1 DEF Fit, Near, Ordered
  <2> QED BY <2>4, <2>5, <2>6, <2>7 DEF Ordered, Ranked, Heir
<1>5. Singular(r, w)'
  <2>1. \A p \in Proven(r, v) : p.role \in 0..Level
    BY <1>1 DEF Fit, Near, Singular, Ranked
  <2>2. \A p, q \in Proven(r, v) : p.role = q.role => p = q
    BY <1>1 DEF Fit, Near, Singular
  <2>3. \A p \in P : p = row'.t.cand /\ p.role = Level' /\ Level < Level'
    BY Zenon
  <2>4. \A p \in Proven(r, w)' : p.role \in 0..Level'
    BY <1>2, <2>1, <2>3
  <2>5. ASSUME NEW p \in Proven(r, w)', NEW q \in Proven(r, w)', p.role = q.role PROVE p = q
    <3>1. CASE p \in P /\ q \in P
      BY <2>3, <3>1
    <3>2. CASE p \in Proven(r, v) /\ q \in P
      BY <1>2, <2>1, <2>3, <2>5, <3>2
    <3>3. CASE p \in P /\ q \in Proven(r, v)
      BY <1>2, <2>1, <2>3, <2>5, <3>3
    <3>4. CASE p \in Proven(r, v) /\ q \in Proven(r, v)
      BY <2>2, <2>5, <3>4
    <3> QED BY <3>1, <3>2, <3>3, <3>4
  <2> QED BY <2>4, <2>5 DEF Singular, Ranked
<1>6. StaysDown(r)' /\ Halfway(r)'
  BY <1>1 DEF Fit, Near, StaysDown, Halfway, Built
<1>7. Fit(r, w)'
  BY <1>4, <1>5, <1>6 DEF Fit, Near
<1>8. Fit(rt, receipt["flight"])'
  <2>1. r = rt' /\ w = receipt'["flight"]
    OBVIOUS
  <2> QED BY <1>7, <2>1 DEF Fit, Near, Ordered, Singular, Waiting, Restorable, StaysDown, Halfway
<1>9. Evidenced'
  BY EvidenceSame DEF DownInv
<1>10. Starts'
  BY <1>1, <1>2, StartsRisen
<1> QED BY <1>8, <1>9, <1>10 DEF DownInv

LEMMA PrepareDown == ActInv /\ DownInv /\ Prepare => DownInv'
<1> SUFFICES ASSUME ActInv, DownInv, Prepare PROVE DownInv'
  OBVIOUS
<1>1. /\ UNCHANGED <<saved, queue, receipt, rt, look, batch, dispatch, evidence, reports, pc>>
      /\ Alone /\ in
  BY DEF Prepare, LearnerFrame, solver, hold, session, Alone
<1>2. Types' /\ Types
  BY PrepareInv DEF ActInv
<1>3. CASE ~Preparable
  <2>1. UNCHANGED <<row, chal>> /\ learner' = "idle"
    BY <1>3 DEF Prepare
  <2>2. LooksOn /\ QuietQueue /\ AnswersOn /\ ChallengerOn /\ RowSettled
    BY <1>1, <2>1, LooksSame, QueueSame, SameChallenger, SameRow DEF ActInv, AnswersOn
  <2> QED BY <1>1, <1>2, <2>1, <2>2, NothingSame, DownSame
<1>4. CASE Preparable
  <2>1. /\ row' = [phase |-> "prepared", t |-> holds] /\ chal' = [chal EXCEPT !.phase = "activating"]
        /\ learner' = "queue"
    BY <1>4 DEF Prepare
  <2>2. /\ chal.phase \in Open /\ chal.t = holds /\ row.phase # "prepared"
        /\ row.phase # "none" => Authority(row) = holds.inc
    BY <1>4 DEF Preparable, Open
  <2>3. holds # NoTxn /\ NoItem(holds) /\ holds \in Txn
    BY <1>2, <2>2 DEF ActInv, History, Fresh, Types
  <2>4. Heir(holds) /\ holds.inc.role \in Int
    BY <1>2, <2>3 DEF DownInv, Fit, Near, Ordered, Txn, Pair, Types
  <2>5. /\ row'.t = holds /\ row'.phase = "prepared" /\ Authority(row') = holds.inc
        /\ chal'.t = chal.t /\ row' # NoRow
    BY <1>2, <2>1, <2>3, None DEF Authority, Types, ChalType
  <2>6. Level' = holds.inc.role
    BY <2>4, <2>5 DEF Level, Larger, Heir
  <2>7. row = NoRow \/ Authority(row) = holds.inc
    BY <2>2 DEF ActInv, History, Rows
  <2>8. Level < Level' \/ Level = Level'
    <3>1. CASE row = NoRow
      <4>1. Authority(row).role = -1
        BY <3>1 DEF Authority, NoRow, NoTxn, NoPair
      <4>2. Level = 0
        BY <4>1 DEF Level, Larger
      <4> QED BY <2>4, <2>6, <4>2 DEF Heir
    <3>2. CASE Authority(row) = holds.inc
      BY <2>4, <2>6, <3>2 DEF Level, Larger, Heir
    <3> QED BY <2>7, <3>1, <3>2
  <2>9. PICK r, v, w, P : r = rt /\ v = receipt["flight"] /\ w = receipt'["flight"] /\ P = {}
    OBVIOUS
  <2>10. LookRows' = LookRows /\ ActiveItems' = ActiveItems
    BY <1>1 DEF LookRows, ActiveItems
  <2>11. ActiveRows' \subseteq ActiveRows
    BY <2>5, <2>10 DEF ActiveRows
  <2>12. Proven(r, w)' \subseteq Proven(r, v) \union P
    BY <1>1, <2>9, <2>11 DEF Proven, Landed
  <2>13. Waiting(r)'
    <3> SUFFICES ASSUME r.pending # NoTxn
                 PROVE  /\ row' # NoRow /\ Authority(row') = r.pending.inc
                        /\ r.pending \in r.known
                        /\ \A i \in ActiveItems' : queue'[i].t # row'.t
                        /\ r.pending.cand.role \notin r.failedRoles
      BY DEF Waiting
    <3>1. /\ row # NoRow /\ Authority(row) = r.pending.inc /\ r.pending \in r.known
          /\ r.pending.cand.role \notin r.failedRoles
      BY <2>9 DEF DownInv, Fit, Near, Waiting
    <3> QED BY <1>1, <2>3, <2>5, <2>7, <2>10, <3>1 DEF NoItem
  <2>14. Restorable(r)'
    BY <2>9, <2>11 DEF DownInv, Fit, Near, Restorable, Built
  <2>15. /\ row'.t \in {row.t, holds} /\ row'.t # NoTxn /\ row'.t.inc.role \in 0..Level'
         /\ P \subseteq {row'.t.cand} /\ P = {}
         /\ learner' \notin {"lifecycle", "withdraw"}
    BY <2>1, <2>3, <2>4, <2>5, <2>6, <2>9 DEF Heir
  <2> QED BY <1>1, <1>2, <2>5, <2>8, <2>9, <2>12, <2>13, <2>14, <2>15, RowDown DEF Alone
<1> QED BY <1>3, <1>4

LEMMA WriteActiveDown == ActInv /\ DownInv /\ Write /\ Head(queue).kind = "active" => DownInv'
<1> SUFFICES ASSUME ActInv, DownInv, Write, Head(queue).kind = "active" PROVE DownInv'
  OBVIOUS
<1>1. /\ 1 \in DOMAIN queue /\ Head(queue) = queue[1] /\ queue[1] \in Items
      /\ receipt'["flight"] = IF queue[1].owner = "flight" THEN "durable"
                              ELSE receipt["flight"]
      /\ UNCHANGED <<chal, saved, rt, look, batch, dispatch, learner>> /\ Alone
  BY ItemIs
<1>2. UNCHANGED <<evidence, reports, pc>>
  BY DEF Write, WorkerFrame, solver
<1>3. Types /\ Types'
  BY WriteActiveInv DEF ActInv
<1>4. PICK t : t = queue[1].t
  OBVIOUS
<1>5. row = [phase |-> "prepared", t |-> t] /\ row' = [row EXCEPT !.phase = "active"]
  <2>1. Writable(Head(queue)) /\ row' = [row EXCEPT !.phase = Head(queue).kind]
    BY DEF Write
  <2> QED BY <1>1, <1>4, <2>1 DEF Writable, Prepared
<1>6. row.t = t /\ row'.t = t /\ row'.phase = "active" /\ Authority(row) = t.inc
      /\ Authority(row') = t.cand
  BY <1>5 DEF Authority
<1>7. t \in Txn /\ t # NoTxn /\ Heir(t)
  <2>1. t \in Txn /\ t # NoTxn
    BY <1>3, <1>5, <1>6, None DEF Types, RowType, ActInv, History, Rows
  <2> QED BY <1>6, <2>1 DEF DownInv, Fit, Near, Ordered, SeenBy
<1>8. t.inc.role \in Nat /\ t.cand.role = t.inc.role + 1
  BY <1>7 DEF Heir, Txn, Pair
<1>9. Level = t.inc.role /\ Level' = t.inc.role + 1 /\ Level < Level'
  BY <1>6, <1>8 DEF Level, Larger
<1>10. PICK r, v, w, P : /\ r = rt /\ v = receipt["flight"] /\ w = receipt'["flight"]
                         /\ P = {t.cand}
  OBVIOUS
<1>11. LookRows' = LookRows /\ 1 \in ActiveItems
  BY <1>1 DEF LookRows, ActiveItems
<1>12. ActiveRows' \subseteq ActiveRows \union {row'}
  BY <1>11 DEF ActiveRows
<1>13. {u.cand : u \in Landed(r, w)} \subseteq {u.cand : u \in Landed(r, v)} \union P
  <2>1. CASE queue[1].owner = "flight"
    <3>1. rt.flight.t = t
      BY <1>1, <1>4, <2>1 DEF ActInv, Session, Queued, FlightItems
    <3> QED BY <1>10, <3>1 DEF Landed
  <2>2. CASE queue[1].owner # "flight"
    BY <1>1, <1>10, <2>2
  <2> QED BY <2>1, <2>2
<1>14. Proven(r, w)' \subseteq Proven(r, v) \union P
  BY <1>2, <1>6, <1>10, <1>12, <1>13 DEF Proven, Landed
<1>15. Waiting(r)'
  <2>1. r.pending = NoTxn
    BY <1>4, <1>6, <1>10, <1>11 DEF DownInv, Fit, Near, Waiting
  <2> QED BY <2>1 DEF Waiting
<1>16. Restorable(r)'
  <2>1. Restorable(r)
    BY <1>10 DEF DownInv, Fit, Near
  <2>2. t \in r.known \/ r.known = {}
    <3>1. CASE in
      <4>1. queue[1].t \in rt.known \/ Untouched
        BY <1>4, <1>5, <1>11, <3>1 DEF ActInv, Session, Left
      <4> QED BY <1>4, <1>10, <4>1 DEF Untouched
    <3>2. CASE ~in
      <4>1. rt.known = {}
        BY <3>2 DEF ActInv, Outside, NewRuntime
      <4> QED BY <1>10, <4>1
    <3> QED BY <3>1, <3>2
  <2> QED BY <1>6, <1>12, <2>1, <2>2 DEF Restorable, Built
<1>17. /\ row'.t \in {row.t, holds} /\ row'.t # NoTxn /\ row'.t.inc.role \in 0..Level'
       /\ P \subseteq {row'.t.cand} /\ row'.t.cand.role = Level' /\ chal'.t = chal.t
  BY <1>1, <1>6, <1>7, <1>8, <1>9, <1>10
<1> QED BY <1>1, <1>2, <1>3, <1>9, <1>10, <1>14, <1>15, <1>16, <1>17, RowDown DEF Alone

LEMMA StepDown == ActInv /\ Restoring /\ DownInv /\ [Next]_vars => DownInv'
<1> SUFFICES ASSUME ActInv, Restoring, DownInv, [Next]_vars PROVE DownInv'
  OBVIOUS
<1>1. CASE Solver
  BY <1>1, TakeDispatchesDown, GiveUpDown, RestoreKnownDown, RestoreDown, RestorePreparedDown,
     RestoreAbortedDown, AdvanceDown, SolveDown DEF Solver
<1>2. CASE SolveFails \/ MissDeadlines
  BY <1>2, SolveFailsDown, MissDeadlinesDown
<1>3. CASE Deliver \/ Learner
  BY <1>3, DeliverDown, JudgeDown, AwaitConfidenceDown, PrepareDown, QueueDown,
     SettledRowDown, WithdrawDown, AwaitAbortedDown DEF Learner
<1>4. CASE Hold \/ Rollback
  BY <1>4, ReadRowDown, ReconcileDown, DrainEventsDown, RollbackDown DEF Hold
<1>5. CASE Write \/ WriteReport \/ FailWrite
  BY <1>5, WriteActiveDown, WriteOtherDown, WriteReportDown, FailWriteDown
<1>6. CASE Leave \/ Crash \/ Enter
  BY <1>6, LeaveDown, CrashDown, EnterDown
<1>7. CASE UNCHANGED vars
  BY <1>7, StutterDown
<1> QED BY <1>1, <1>2, <1>3, <1>4, <1>5, <1>6, <1>7 DEF Next

\* No two candidates that were ever in authority share a role generation, a
\* candidate's is one above that of the pair it was built on, evidence is only
\* about candidates that were in authority, and what Hold may yet restore did not
\* fail in this session unless something was built on it (_failed_role_generations
\* of ActivationRuntime, prepare_model_challenger_activation,
\* commit_model_activation_phase, commit_model_rollback, restore_activation).
THEOREM RolesInvariant == Spec => []DownInv
<1>1. Init => DownInv
  BY InitDown
<1>2. ActInv /\ Restoring /\ DownInv /\ [Next]_vars => DownInv'
  BY StepDown
<1> QED BY <1>1, <1>2, ActivationInvariant, PTL DEF Spec

LEMMA DownStays == DownInv => FailedStaysDown
BY DEF DownInv, Fit, Near, StaysDown, Built, FailedStaysDown, Driving

\* A pair whose role generation is fenced as failed in this session drives only as
\* the incumbent of a transaction the runtime knows: however the failure, the
\* durable row, Hold's reading of both and the sessions interleave, neither a
\* restore nor an activation brings it back by itself (rollback_activation,
\* abort_prepared_activation, restore_activation, queue_prepared_activation).
THEOREM FailedStaysDownHolds == Spec => []FailedStaysDown
BY RolesInvariant, DownStays, PTL
=============================================================================
