------------------------- MODULE CookTimer_proofs --------------------------
(***************************************************************************)
(* That the cook timer of CookTimer is a stopwatch, and that what sets it  *)
(* running is asked for after the clock was last lost: for all durations,  *)
(* every tolerance, and any number of requests, suspends, deaths and boots.*)
(***************************************************************************)
EXTENDS CookTimerProperties, Selection_proofs

Entries == Entry(TimerIntents \cup Asked)
Waiting == ToSet(queue)

Types ==
  /\ mono \in Nat /\ susp \in Nat /\ boot \in Nat \ {0} /\ gen \in Nat
  /\ pc \in Pcs /\ last \in Stamp
  /\ timer \in Timer /\ WellFormed(timer)
  /\ kept.timer \in Timer /\ WellFormed(kept.timer)
  /\ queue \in Seq(Entries) /\ Once(queue, Entries)
  /\ requests \in 0 .. MaxRequests
  /\ sent \in [0 .. MaxRequests -> Nat]

\* The admitted stamp was read from the clocks as they are, in this generation; in a
\* process that runs it is missing only at the top of a tick.
Admitted ==
  /\ last # NoStamp =>
       /\ Known /\ pc \notin {"down", "boot"}
       /\ last.boot = boot /\ last.runtime = gen
       /\ last.mono <= mono /\ last.susp <= susp
  /\ last = NoStamp => pc \in {"tick", "down", "boot"}

\* A running timer was checkpointed under the admitted clock, unless the process
\* that did so is gone; what a reset holds does not run.
Checkpointed ==
  /\ timer.state = "running" =>
       /\ timer.checkpoint.boot # 0
       /\ pc # "down" =>
            /\ last # NoStamp
            /\ timer.checkpoint.boot = boot /\ timer.checkpoint.runtime = gen
            /\ timer.checkpoint.mono <= last.mono /\ timer.checkpoint.susp <= last.susp
  /\ kept.timer.state # "running"
  /\ pc = "reset" => kept.timer = timer
  /\ pc \in {"restore", "boot"} => timer = DefaultTimer
  /\ pc \notin {"reset", "restore", "boot"} => kept.timer = DefaultTimer

\* Nothing has been told of a timer before it expired, and nothing of a timer that is
\* still asked for.  The timer nobody asked for never runs.
Untold(t) ==
  /\ t.id <= requests
  /\ t.id = 0 => /\ t.state \in {"stopped", "interrupted"}
                 /\ t.state = "interrupted" => t.remaining = Unknown
  /\ t.state # "expired" => sent[t.id] = 0
Telling ==
  /\ sent[0] = 0
  /\ Untold(timer) /\ Untold(kept.timer)
  /\ pc \in {"send", "tell"} => timer.state = "expired" /\ sent[timer.id] = 0
  /\ \A c \in Waiting :
       c.n \in 1 .. requests /\ sent[c.n] = 0 /\ c.n # timer.id /\ c.n # kept.timer.id
  /\ \A c, d \in Waiting : c.n = d.n => c = d
  /\ \A n \in 0 .. MaxRequests : n > requests => sent[n] = 0

WatchInv == Types /\ Admitted /\ Checkpointed /\ Telling

\* What is queued for the generation that lives was asked for under it.
Addressed ==
  /\ cut \in 0 .. requests
  /\ heartbeat \in Stamp /\ heartbeat.runtime <= gen
  /\ handler \in [serving : BOOLEAN, target : Nat, mayStart : BOOLEAN]
  /\ handler.target <= gen
  /\ \A c \in Waiting : c.target <= gen /\ (c.target = gen => c.n > cut)
ArmedInv == Addressed /\ ArmedAfterLoss

-----------------------------------------------------------------------------
(* What the operators make of a timer.                                     *)

\* A timer that was left alone, checkpointed, stopped counting or expired.
Moved(t, u) ==
  /\ u \in Timer /\ WellFormed(u) /\ u.id = t.id
  /\ t.state # "running" => u = t
  /\ t.state = "running" => u.state # "stopped"

LEMMA AgeType ==
  ASSUME NEW s \in Stamp, NEW l \in Stamp
  PROVE  Age(s, l) \in Nat \cup {Unknown}
BY DEF Age, Stamp, Unknown

LEMMA RemainingType ==
  ASSUME NEW t \in Timer, NEW l \in Stamp
  PROVE  Remaining(t, l) \in Nat \cup {Unknown}
<1>1. t.checkpoint \in Stamp /\ t.remaining \in Nat \cup {Unknown}
  BY DEF Timer
<1>2. Age(t.checkpoint, l) \in Nat \cup {Unknown}
  BY <1>1, AgeType
<1>3. CASE t.state # "running"
  <2>1. Remaining(t, l) \in {0, t.remaining}
    BY <1>3 DEF Remaining, Timer, States
  <2> QED BY <1>1, <2>1
<1>4. CASE t.state = "running"
  <2> DEFINE age == Age(t.checkpoint, l)
  <2>1. Remaining(t, l) = IF age = Unknown THEN Unknown ELSE Positive(t.remaining - age)
    BY <1>4 DEF Remaining
  <2> HIDE DEF age
  <2> QED BY <1>1, <2>1, <1>2 DEF Positive, Unknown, age
<1> QED BY <1>3, <1>4

LEMMA InterruptedType ==
  ASSUME NEW t \in Timer, t.state = "running", WellFormed(t)
  PROVE  /\ Interrupted(t) \in Timer /\ WellFormed(Interrupted(t))
         /\ Interrupted(t).id = t.id /\ Interrupted(t).state = "interrupted"
         /\ Interrupted(t).remaining = t.remaining
<1>1. NoStamp \in Stamp
  BY DEF NoStamp, Stamp
<1> QED BY <1>1 DEF Interrupted, Timer, WellFormed, States

LEMMA Interrupts ==
  ASSUME NEW t \in Timer, WellFormed(t)
  PROVE  Moved(t, InterruptTimer(t)) /\ InterruptTimer(t).state # "running"
BY InterruptedType DEF Moved, InterruptTimer

LEMMA Pauses ==
  ASSUME NEW t \in Timer, WellFormed(t), NEW l \in Stamp
  PROVE  Moved(t, PauseTimer(t, l)) /\ PauseTimer(t, l).state # "running"
<1>0. CASE t.state # "running"
  <2>1. PauseTimer(t, l) = t
    BY <1>0, Zenon DEF PauseTimer
  <2> QED BY <1>0, <2>1 DEF Moved
<1>1. CASE t.state = "running" /\ Remaining(t, l) = Unknown
  <2>1. PauseTimer(t, l) = Interrupted(t)
    BY <1>1, Zenon DEF PauseTimer
  <2> QED BY <1>1, <2>1, InterruptedType DEF Moved
<1>2. CASE t.state = "running" /\ Remaining(t, l) # Unknown
  <2> DEFINE r == Remaining(t, l)
             u == [t EXCEPT !.state = "paused", !.checkpoint = NoStamp, !.remaining = r]
  <2>1. r \in Nat /\ NoStamp \in Stamp
    BY <1>2, RemainingType DEF NoStamp, Stamp
  <2>2. PauseTimer(t, l) = u
    BY <1>2 DEF PauseTimer
  <2> HIDE DEF r
  <2>3. Moved(t, u) /\ u.state = "paused"
    BY <1>2, <2>1 DEF Moved, Timer, WellFormed, States, Unknown
  <2> QED BY <2>2, <2>3
<1> QED BY <1>0, <1>1, <1>2

LEMMA Checkpoints ==
  ASSUME NEW t \in Timer, WellFormed(t), NEW l \in Stamp, l # NoStamp
  PROVE  /\ Moved(t, CheckpointTimer(t, l))
         /\ CheckpointTimer(t, l).state = "running" => CheckpointTimer(t, l).checkpoint = l
<1>0. CASE t.state # "running"
  <2>1. CheckpointTimer(t, l) = t
    BY <1>0, Zenon DEF CheckpointTimer
  <2> QED BY <1>0, <2>1 DEF Moved
<1>1. CASE t.state = "running" /\ Remaining(t, l) = Unknown
  <2>1. CheckpointTimer(t, l) = Interrupted(t)
    BY <1>1, Zenon DEF CheckpointTimer
  <2> QED BY <1>1, <2>1, InterruptedType DEF Moved
<1>2. CASE t.state = "running" /\ Remaining(t, l) # Unknown
  <2> DEFINE r == Remaining(t, l)
             u == [t EXCEPT !.remaining = r, !.checkpoint = l]
  <2>1. r \in Nat
    BY <1>2, RemainingType
  <2>2. CheckpointTimer(t, l) = u
    BY <1>2 DEF CheckpointTimer
  <2> HIDE DEF r
  <2>3. /\ u \in Timer /\ u.id = t.id /\ u.state = "running"
        /\ u.checkpoint = l /\ u.remaining = r /\ r # Unknown
    <3>1. u \in Timer
      BY <2>1 DEF Timer
    <3>2. t \in [id : Nat, state : States, remaining : Nat \cup {Unknown}, checkpoint : Stamp]
      BY DEF Timer
    <3>3. u.id = t.id /\ u.state = t.state /\ u.checkpoint = l /\ u.remaining = r
      BY <3>2
    <3> QED BY <1>2, <2>1, <3>1, <3>3 DEF Unknown
  <2> HIDE DEF u
  <2>4. Moved(t, u)
    BY <1>2, <2>3 DEF Moved, WellFormed
  <2> QED BY <2>2, <2>3, <2>4
<1> QED BY <1>0, <1>1, <1>2

LEMMA Starts ==
  ASSUME NEW id \in Nat, NEW d \in Nat, NEW l \in Stamp, l # NoStamp
  PROVE  /\ StartTimer(id, d, l) \in Timer /\ WellFormed(StartTimer(id, d, l))
         /\ StartTimer(id, d, l).id = id /\ StartTimer(id, d, l).state = "running"
         /\ StartTimer(id, d, l).checkpoint = l /\ StartTimer(id, d, l).remaining = d
BY DEF StartTimer, Timer, WellFormed, States, Unknown

LEMMA TheDefault ==
  /\ DefaultTimer \in Timer /\ WellFormed(DefaultTimer) /\ DefaultTimer.id = 0
  /\ DefaultTimer.state = "stopped" /\ NoStamp \in Stamp /\ DefaultTimer.remaining = 0
BY DEF DefaultTimer, Timer, WellFormed, States, Stamp, NoStamp

LEMMA IntentKinds ==
  ASSUME NEW c \in Entries
  PROVE  /\ c.n \in Nat /\ c.target \in Nat
         /\ c.intent \in Asked => c.intent.op = "mode"
         /\ c.intent \notin Asked =>
              c.intent.op \in {"clear", "pause", "start_or_resume", "start_with_options"}
         /\ c.intent.op \in {"start_or_resume", "start_with_options"}
              => c.intent.seconds \in Durations
BY DEF Entries, Entry, TimerIntents, StartIntents, Asked

-----------------------------------------------------------------------------
(* The timer that is watched.                                              *)

LEMMA WatchInit == Init => WatchInv
<1> SUFFICES ASSUME Init PROVE WatchInv
  OBVIOUS
<1>1. timer \in Timer /\ WellFormed(timer) /\ timer.state # "running" /\ timer.id = 0
      /\ timer.state # "expired" /\ (timer.state = "interrupted" => timer.remaining = Unknown)
      /\ timer.state \in {"stopped", "interrupted"}
  <2>1. LegacyTimer \in Timer /\ WellFormed(LegacyTimer) /\ LegacyTimer.id = 0
        /\ LegacyTimer.state = "interrupted" /\ LegacyTimer.remaining = Unknown
    BY DEF LegacyTimer, DefaultTimer, Timer, WellFormed, States, Stamp, NoStamp
  <2> QED BY <2>1, TheDefault DEF Init
<1>2. kept.timer = DefaultTimer /\ ToSet(queue) = {} /\ queue \in Seq(Entries)
      /\ Once(queue, Entries)
  BY DEF Init, Nothing, ToSet, Once
<1>3. 0 \in 0 .. MaxRequests
  BY ClockAssumption
<1>4. Types
  BY <1>1, <1>2, <1>3, TheDefault DEF Init, Types, Pcs
<1>5. Admitted /\ Checkpointed
  BY <1>1, <1>2, TheDefault DEF Init, Admitted, Checkpointed
<1>6. Telling
  BY <1>1, <1>2, <1>3, TheDefault DEF Init, Telling, Untold, Waiting
<1> QED BY <1>4, <1>5, <1>6 DEF WatchInv

\* A timer that comes from those there are.
Heir(u) == u = DefaultTimer \/ u = kept.timer \/ Moved(timer, u)

LEMMA HeirUntold ==
  ASSUME WatchInv, NEW u, Heir(u)
  PROVE  /\ u \in Timer /\ WellFormed(u) /\ Untold(u)
         /\ \A c \in Waiting : c.n # u.id
<1>1. CASE u = DefaultTimer
  BY <1>1, TheDefault DEF WatchInv, Types, Telling, Untold
<1>2. CASE u = kept.timer
  BY <1>2 DEF WatchInv, Types, Telling
<1>3. CASE Moved(timer, u)
  BY <1>3 DEF WatchInv, Types, Telling, Untold, Moved
<1> QED BY <1>1, <1>2, <1>3 DEF Heir

\* Nothing is told and nothing asked for.
LEMMA Steady ==
  ASSUME WatchInv, UNCHANGED <<requests, sent>>,
         queue' \in Seq(Entries), Once(queue', Entries), Waiting' \subseteq Waiting,
         Heir(timer'), Heir(kept'.timer),
         pc' \in {"send", "tell"} =>
           \/ pc' = pc /\ timer' = timer
           \/ timer.state = "running" /\ timer'.state = "expired" /\ timer'.id = timer.id
  PROVE  /\ Telling'
         /\ timer' \in Timer /\ WellFormed(timer')
         /\ kept'.timer \in Timer /\ WellFormed(kept'.timer)
         /\ requests' \in 0 .. MaxRequests
         /\ sent' \in [0 .. MaxRequests -> Nat]
<1>1. /\ timer' \in Timer /\ WellFormed(timer') /\ Untold(timer')
      /\ \A c \in Waiting : c.n # timer'.id
  BY HeirUntold
<1>2. /\ kept'.timer \in Timer /\ WellFormed(kept'.timer) /\ Untold(kept'.timer)
      /\ \A c \in Waiting : c.n # kept'.timer.id
  BY HeirUntold
<1>3. Telling'
  BY <1>1, <1>2 DEF WatchInv, Telling, Untold
<1> QED BY <1>1, <1>2, <1>3 DEF WatchInv, Types

\* A step of the loops between two readings of the clock.
LEMMA Working ==
  ASSUME WatchInv, UNCHANGED <<mono, susp, boot, gen, last, requests, sent>>,
         last # NoStamp, pc' \in OuterPcs \cup CyclePcs,
         queue' \in {queue, <<>>}, Heir(timer'), Heir(kept'.timer),
         timer'.state = "running" =>
           timer'.checkpoint = last
             \/ (timer.state = "running" /\ pc # "down" /\ timer'.checkpoint = timer.checkpoint),
         kept'.timer.state # "running",
         pc' = "reset" => kept'.timer = timer',
         pc' = "restore" => timer' = DefaultTimer,
         pc' \notin {"reset", "restore"} => kept'.timer = DefaultTimer,
         pc' \in {"send", "tell"} =>
           \/ pc' = pc /\ timer' = timer
           \/ timer.state = "running" /\ timer'.state = "expired" /\ timer'.id = timer.id
  PROVE  WatchInv'
<1>1. queue' \in Seq(Entries) /\ Once(queue', Entries) /\ Waiting' \subseteq Waiting
  <2>1. CASE queue' = queue
    BY <2>1 DEF WatchInv, Types, Waiting
  <2>2. CASE queue' = <<>>
    BY <2>2 DEF Waiting, ToSet, Once
  <2> QED BY <2>1, <2>2
<1>2. /\ Telling'
      /\ timer' \in Timer /\ WellFormed(timer')
      /\ kept'.timer \in Timer /\ WellFormed(kept'.timer)
      /\ requests' \in 0 .. MaxRequests
      /\ sent' \in [0 .. MaxRequests -> Nat]
  BY <1>1, Steady
<1>3. /\ last \in Stamp /\ boot # 0 /\ last.boot = boot /\ last.runtime = gen
      /\ last.mono \in Nat /\ last.susp \in Nat
  BY DEF WatchInv, Types, Admitted, Stamp
<1>4. Types'
  BY <1>1, <1>2 DEF WatchInv, Types, Pcs
<1>5. Admitted'
  BY DEF WatchInv, Admitted, OuterPcs, CyclePcs
<1>6. Checkpointed'
  BY <1>3 DEF WatchInv, Checkpointed, OuterPcs, CyclePcs
<1> QED BY <1>2, <1>4, <1>5, <1>6 DEF WatchInv

LEMMA Heirs ==
  ASSUME WatchInv
  PROVE  Heir(timer) /\ Heir(kept.timer) /\ Heir(DefaultTimer)
BY DEF WatchInv, Types, Heir, Moved

LEMMA CheckpointWatch ==
  ASSUME WatchInv, Checkpoint
  PROVE  WatchInv'
<1>1. /\ UNCHANGED <<mono, susp, boot, gen, last, queue, kept, requests, sent>>
      /\ pc = "drain" /\ pc' = "notify" /\ timer' = CheckpointTimer(timer, last)
  BY DEF Checkpoint, clocks, memory, outside
<1>2. last # NoStamp /\ last \in Stamp /\ timer \in Timer /\ WellFormed(timer)
  BY <1>1 DEF WatchInv, Types, Admitted
<1>3. Moved(timer, timer') /\ (timer'.state = "running" => timer'.checkpoint = last)
  BY <1>1, <1>2, Checkpoints
<1>4. kept.timer = DefaultTimer
  BY <1>1 DEF WatchInv, Checkpointed
<1>5. Heir(timer') /\ Heir(kept'.timer)
  BY <1>1, <1>3, Heirs DEF Heir
<1> QED BY <1>1, <1>2, <1>3, <1>4, <1>5, TheDefault, Working DEF OuterPcs

LEMMA NotifyWatch ==
  ASSUME WatchInv, NEW told, NEW quiet, Notify(told, quiet), pc \in {"notify", "check"},
         told \in {"send", "tell"}, quiet \in {"dispatch", "publish"}
  PROVE  WatchInv'
<1>1. /\ UNCHANGED <<mono, susp, boot, gen, last, queue, kept, requests, sent>>
      /\ \/ timer' = timer /\ pc' = quiet
         \/ timer.state = "running" /\ Expires(timer, last) /\ pc' = told
               /\ timer' = ExpireTimer(timer, last)
  BY DEF Notify, clocks, memory, outside, record, Expires
<1>2. last # NoStamp /\ last \in Stamp /\ timer \in Timer /\ WellFormed(timer)
  BY DEF WatchInv, Types, Admitted
<1>3. kept.timer = DefaultTimer
  BY DEF WatchInv, Checkpointed
<1>4. CASE timer' = timer /\ pc' = quiet
  BY <1>1, <1>2, <1>3, <1>4, Heirs, TheDefault, Working DEF OuterPcs, CyclePcs
<1>5. CASE timer.state = "running" /\ Expires(timer, last) /\ pc' = told
            /\ timer' = ExpireTimer(timer, last)
  <2>1. Moved(timer, timer') /\ timer'.state = "expired"
    BY <1>2, <1>5, TheDefault
       DEF ExpireTimer, Moved, Timer, WellFormed, States, Unknown
  <2>2. Heir(timer') /\ Heir(kept'.timer) /\ timer'.id = timer.id
    BY <1>1, <2>1, Heirs DEF Heir, Moved
  <2> QED BY <1>1, <1>2, <1>3, <1>5, <2>1, <2>2, TheDefault, Working DEF OuterPcs, CyclePcs
<1> QED BY <1>1, <1>4, <1>5

LEMMA DispatchTerminalWatch ==
  ASSUME WatchInv, DispatchTerminal
  PROVE  WatchInv'
<1>1. /\ UNCHANGED <<mono, susp, boot, gen, last, queue, requests, sent>>
      /\ pc = "dispatch" /\ pc' = "reset" /\ kept'.timer = timer'
      /\ timer' = InterruptTimer(timer) \/ timer' = PauseTimer(timer, last)
  BY DEF DispatchTerminal, clocks, outside
<1>2. last # NoStamp /\ last \in Stamp /\ timer \in Timer /\ WellFormed(timer)
  BY <1>1 DEF WatchInv, Types, Admitted
<1>3. Moved(timer, timer') /\ timer'.state # "running"
  BY <1>1, <1>2, Interrupts, Pauses
<1>4. Heir(timer') /\ Heir(kept'.timer)
  BY <1>1, <1>3 DEF Heir
<1> QED BY <1>1, <1>2, <1>3, <1>4, Working DEF OuterPcs

LEMMA ResetWatch ==
  ASSUME WatchInv, Reset
  PROVE  WatchInv'
<1>1. /\ UNCHANGED <<mono, susp, boot, gen, last, kept, requests, sent>>
      /\ pc = "reset" /\ pc' = "restore" /\ timer' = DefaultTimer /\ queue' = <<>>
  BY DEF Reset, Flushed, clocks, memory, outside
<1>2. last # NoStamp /\ kept.timer.state # "running"
  BY <1>1 DEF WatchInv, Admitted, Checkpointed
<1> QED BY <1>1, <1>2, Heirs, TheDefault, Working DEF OuterPcs

LEMMA RestoreWatch ==
  ASSUME WatchInv, Restore
  PROVE  WatchInv'
<1>1. /\ UNCHANGED <<mono, susp, boot, gen, last, queue, requests, sent>>
      /\ pc = "restore" /\ pc' = "tick" /\ timer' = kept.timer
      /\ kept'.timer = DefaultTimer
  BY DEF Restore, Restored, clocks, outside, Nothing
<1>2. last # NoStamp /\ kept.timer.state # "running"
  BY <1>1 DEF WatchInv, Admitted, Checkpointed
<1> QED BY <1>1, <1>2, Heirs, TheDefault, Working DEF OuterPcs

\* Steps that leave the timer alone, or stop it.
LEMMA QuietWatch ==
  ASSUME WatchInv, NoDispatch \/ DispatchCycle \/ Applied \/ Natural \/ FinishRecord
  PROVE  WatchInv'
<1>1. /\ UNCHANGED <<mono, susp, boot, gen, last, queue, kept, requests, sent>>
      /\ pc \in {"dispatch", "apply", "natural", "ended"}
      /\ pc' \in {"tick", "loop", "finish", "sense", "natural"}
      /\ timer' = timer \/ timer' = PauseTimer(timer, last)
  BY DEF NoDispatch, DispatchCycle, Applied, Natural, FinishRecord, clocks, outside,
     record, memory
<1>2. /\ last # NoStamp /\ last \in Stamp /\ timer \in Timer /\ WellFormed(timer)
      /\ kept.timer = DefaultTimer
  BY <1>1 DEF WatchInv, Types, Admitted, Checkpointed
<1>3. Heir(timer') /\ Heir(kept'.timer)
  BY <1>1, <1>2, Heirs, Pauses DEF Heir
<1>4. timer'.state = "running" => timer' = timer
  BY <1>1, <1>2, Pauses
<1> QED BY <1>1, <1>2, <1>3, <1>4, TheDefault, Working DEF OuterPcs, CyclePcs

LEMMA PublishWatch ==
  ASSUME WatchInv, Publish
  PROVE  WatchInv'
<1>1. /\ UNCHANGED <<mono, susp, boot, gen, last, queue, kept, requests, sent>>
      /\ pc = "publish" /\ pc' \in {"loop", "finish"}
      /\ timer' = timer \/ timer' = CheckpointTimer(timer, last)
  BY DEF Publish, clocks, outside
<1>2. /\ last # NoStamp /\ last \in Stamp /\ timer \in Timer /\ WellFormed(timer)
      /\ kept.timer = DefaultTimer
  BY <1>1 DEF WatchInv, Types, Admitted, Checkpointed
<1>3. Heir(timer') /\ Heir(kept'.timer)
  BY <1>1, <1>2, Heirs, Checkpoints DEF Heir
<1>4. timer'.state = "running" => timer' = timer \/ timer'.checkpoint = last
  BY <1>1, <1>2, Checkpoints
<1> QED BY <1>1, <1>2, <1>3, <1>4, TheDefault, Working DEF CyclePcs

\* Reading the clock: the stamp is of now, and the timer was checkpointed before.
LEMMA AdmitWatch ==
  ASSUME WatchInv, NEW to, Admit(to), ~ Lost, pc \in {"tick", "loop", "sense", "finish"},
         to \in {"drain", "apply", "check", "ended"}
  PROVE  WatchInv'
<1>1. /\ UNCHANGED <<mono, susp, boot, gen, timer, queue, kept, requests, sent>>
      /\ last' = Here /\ pc' = to
  BY DEF Admit, clocks, record, memory, web
<1>2. /\ Here \in Stamp /\ Here.boot = boot /\ Here.runtime = gen
      /\ Here.mono = mono /\ Here.susp = susp /\ Here # NoStamp
  BY DEF Here, Stamp, WatchInv, Types, NoStamp
<1>3. Known
  BY <1>2 DEF Lost, ContinuityLost, Age
<1>4. Telling' /\ kept.timer = DefaultTimer
  BY <1>1 DEF WatchInv, Telling, Untold, Waiting, Checkpointed
<1>5. Types'
  BY <1>1, <1>2 DEF WatchInv, Types, Pcs, OuterPcs, CyclePcs
<1>6. Admitted'
  BY <1>1, <1>2, <1>3 DEF WatchInv, Types, Admitted
<1>7. Checkpointed'
  <2>1. timer.state = "running" =>
          /\ timer.checkpoint.boot = boot /\ timer.checkpoint.runtime = gen
          /\ timer.checkpoint.mono <= mono /\ timer.checkpoint.susp <= susp
    <3>1. timer.checkpoint.mono \in Nat /\ timer.checkpoint.susp \in Nat
      BY DEF WatchInv, Types, Timer, Stamp
    <3>2. last.mono \in Nat /\ last.susp \in Nat /\ mono \in Nat /\ susp \in Nat
      BY DEF WatchInv, Types, Stamp
    <3> QED BY <3>1, <3>2 DEF WatchInv, Admitted, Checkpointed
  <2> QED BY <1>1, <1>2, <2>1 DEF WatchInv, Checkpointed
<1> QED BY <1>4, <1>5, <1>6, <1>7 DEF WatchInv

\* Losing the clock: the timer is interrupted, and what is queued is dropped.
LEMMA RetireWatch ==
  ASSUME WatchInv, Retire, last' = NoStamp, pc' = "tick",
         pc \in {"tick", "loop", "sense", "finish"}
  PROVE  WatchInv'
<1>1. /\ UNCHANGED <<mono, susp, boot, kept, requests, sent>>
      /\ gen' = gen + 1 /\ queue' = <<>> /\ timer' = InterruptTimer(timer)
  BY DEF Retire, RestoreTimer, clocks, web
<1>2. timer \in Timer /\ WellFormed(timer) /\ kept.timer = DefaultTimer
  BY DEF WatchInv, Types, Checkpointed
<1>3. Moved(timer, timer') /\ timer'.state # "running"
  BY <1>1, <1>2, Interrupts
<1>4. queue' \in Seq(Entries) /\ Once(queue', Entries) /\ Waiting' \subseteq Waiting
  BY <1>1 DEF Waiting, ToSet, Once
<1>5. Heir(timer') /\ Heir(kept'.timer)
  BY <1>1, <1>3, Heirs DEF Heir
<1>6. /\ Telling'
      /\ timer' \in Timer /\ WellFormed(timer')
      /\ kept'.timer \in Timer /\ WellFormed(kept'.timer)
      /\ requests' \in 0 .. MaxRequests /\ sent' \in [0 .. MaxRequests -> Nat]
  BY <1>1, <1>4, <1>5, Steady
<1>7. Types'
  BY <1>1, <1>4, <1>6, TheDefault DEF WatchInv, Types, Pcs, OuterPcs
<1>8. Admitted' /\ Checkpointed'
  BY <1>1, <1>2, <1>3, TheDefault DEF Admitted, Checkpointed
<1> QED BY <1>6, <1>7, <1>8 DEF WatchInv

\* The expiry is told of once: nothing else has the timer's number.
LEMMA TellWatch ==
  ASSUME WatchInv, NEW to, Tell(to), pc \in {"send", "tell"}, to \in {"dispatch", "publish"}
  PROVE  WatchInv'
<1>1. /\ UNCHANGED <<mono, susp, boot, gen, last, timer, kept, queue, requests>>
      /\ pc' = to /\ sent' = [sent EXCEPT ![timer.id] = @ + 1]
  BY DEF Tell, clocks, record, memory, web
<1>2. /\ timer.state = "expired" /\ timer.id \in Nat /\ timer.id # 0
      /\ timer.id \in 0 .. MaxRequests /\ timer.id <= requests /\ requests \in 0 .. MaxRequests
      /\ kept.timer = DefaultTimer /\ kept.timer.id = 0
      /\ sent \in [0 .. MaxRequests -> Nat]
  BY TheDefault, ClockAssumption DEF WatchInv, Types, Telling, Untold, Checkpointed, Timer
<1>3. /\ sent' \in [0 .. MaxRequests -> Nat]
      /\ \A n \in 0 .. MaxRequests : n # timer.id => sent'[n] = sent[n]
  BY <1>1, <1>2
<1>4. Types'
  BY <1>1, <1>3 DEF WatchInv, Types, Pcs, OuterPcs, CyclePcs
<1>5. Admitted' /\ Checkpointed'
  BY <1>1 DEF WatchInv, Admitted, Checkpointed
<1>6. Telling'
  <2>1. sent'[0] = 0 /\ Untold(timer)' /\ Untold(kept.timer)'
    BY <1>1, <1>2, <1>3, TheDefault, ClockAssumption DEF WatchInv, Telling, Untold
  <2>2. ASSUME NEW c \in Waiting PROVE sent'[c.n] = 0
    <3>1. c.n \in 1 .. requests /\ sent[c.n] = 0 /\ c.n # timer.id
      BY DEF WatchInv, Telling
    <3>2. c.n \in 0 .. MaxRequests
      BY <1>2, <3>1, ClockAssumption
    <3> QED BY <1>3, <3>1, <3>2
  <2>3. \A n \in 0 .. MaxRequests : n > requests => sent'[n] = 0
    BY <1>2, <1>3 DEF WatchInv, Telling
  <2> QED BY <1>1, <2>1, <2>2, <2>3 DEF WatchInv, Telling, Waiting
<1> QED BY <1>4, <1>5, <1>6 DEF WatchInv

LEMMA EnqueueWatch ==
  ASSUME WatchInv, NEW intent \in TimerIntents \cup Asked, NEW target \in Nat,
         Enqueue(intent, target)
  PROVE  WatchInv' /\ Waiting' = Waiting \union
                        {[n |-> requests + 1, intent |-> intent, target |-> target]}
<1> DEFINE c == [n |-> requests + 1, intent |-> intent, target |-> target]
<1>1. /\ UNCHANGED <<mono, susp, boot, gen, pc, last, timer, kept, sent>>
      /\ queue' = Append(queue, c) /\ requests' = requests + 1 /\ requests < MaxRequests
  BY DEF Enqueue, clocks, record, memory
<1>2. requests \in Nat /\ requests' \in 1 .. MaxRequests /\ requests' \in 0 .. MaxRequests
  BY <1>1, ClockAssumption DEF WatchInv, Types
<1>3. c \in Entries /\ c.n = requests'
  BY <1>1, <1>2 DEF Entries, Entry
<1> HIDE DEF c
<1>4. queue \in Seq(Entries) /\ Once(queue, Entries) /\ c \notin ToSet(queue)
  BY <1>1, <1>2, <1>3 DEF WatchInv, Types, Telling, Waiting
<1>5. queue' \in Seq(Entries) /\ Once(queue', Entries) /\ Waiting' = Waiting \union {c}
  BY <1>1, <1>3, <1>4, OnceAppend DEF Waiting
<1>6. Types'
  BY <1>1, <1>2, <1>5 DEF WatchInv, Types
<1>7. Admitted' /\ Checkpointed'
  BY <1>1 DEF WatchInv, Admitted, Checkpointed
<1>8. Telling'
  <2>1. Untold(timer)' /\ Untold(kept.timer)' /\ timer.id < requests' /\ kept.timer.id < requests'
    BY <1>1, <1>2 DEF WatchInv, Types, Telling, Untold, Timer
  <2>2. sent[requests'] = 0
    BY <1>1, <1>2 DEF WatchInv, Telling
  <2>3. \A d \in Waiting : d.n \in 1 .. requests
    BY DEF WatchInv, Telling
  <2>4. /\ sent'[0] = 0
        /\ pc' \in {"send", "tell"} => timer'.state = "expired" /\ sent'[timer'.id] = 0
        /\ \A n \in 0 .. MaxRequests : n > requests' => sent'[n] = 0
    BY <1>1, <1>2 DEF WatchInv, Telling
  <2>5. \A d \in Waiting' :
          d.n \in 1 .. requests' /\ sent'[d.n] = 0 /\ d.n # timer'.id /\ d.n # kept'.timer.id
    BY <1>1, <1>2, <1>3, <1>5, <2>1, <2>2 DEF WatchInv, Telling
  <2>6. \A d, e \in Waiting' : d.n = e.n => d = e
    BY <1>1, <1>2, <1>3, <1>5, <2>3 DEF WatchInv, Telling
  <2> QED BY <2>1, <2>4, <2>5, <2>6 DEF Telling
<1> QED BY <1>5, <1>6, <1>7, <1>8 DEF WatchInv, c

\* What an intent makes of the timer; one that changes it is addressed to the
\* generation that lives.
Resumed == CanResume(timer) /\ timer' = StartTimer(timer.id, timer.remaining, last)
Started(c) ==
  /\ timer.state # "paused" /\ ~ CanResume(timer)
  /\ \E d \in Durations : timer' = StartTimer(c.n, d, last)

LEMMA Intents ==
  ASSUME WatchInv, ApplyHead
  PROVE  /\ UNCHANGED <<mono, susp, boot, gen, pc, last, kept, requests, sent, heartbeat,
                        handler, cut>>
         /\ pc \in {"drain", "apply", "natural"} /\ last # NoStamp /\ last \in Stamp
         /\ queue # <<>> /\ queue' = Tail(queue) /\ Head(queue) \in Entries
         /\ \/ timer' = timer \/ timer' = DefaultTimer \/ timer' = PauseTimer(timer, last)
            \/ Resumed \/ Started(Head(queue))
         /\ timer' = timer \/ Head(queue).target = gen
         /\ armedBy' = IF timer'.state = "running" /\ timer' # timer
                         THEN Head(queue).n ELSE armedBy
<1> DEFINE c == Head(queue)
<1>1. /\ UNCHANGED <<mono, susp, boot, gen, pc, last, kept, requests, sent, heartbeat,
                      handler, cut>>
      /\ pc \in {"drain", "apply", "natural"}
      /\ queue # <<>> /\ queue' = Tail(queue)
      /\ armedBy' = IF timer'.state = "running" /\ timer' # timer
                       THEN c.n ELSE armedBy
  BY DEF ApplyHead, clocks, memory, web
<1>2. last # NoStamp /\ last \in Stamp /\ last.runtime = gen
  BY <1>1 DEF WatchInv, Types, Admitted
<1>3. c \in Entries
  BY <1>1 DEF WatchInv, Types
<1>4. CASE ~ Accepts(c)
  <2>1. timer' = timer
    BY <1>4 DEF ApplyHead, record
  <2> QED BY <1>1, <1>2, <1>3, <2>1
<1>5. CASE Accepts(c) /\ c.intent \in Asked
  <2>1. timer' = timer
    BY <1>5 DEF ApplyHead, ApplyMode
  <2> QED BY <1>1, <1>2, <1>3, <2>1
<1>6. CASE Accepts(c) /\ c.intent \notin Asked
  <2>1. ApplyTimer(c.intent, c.n) /\ c.target = gen
    BY <1>2, <1>6 DEF ApplyHead, Accepts
  <2>2. /\ c.intent.op \in {"clear", "pause", "start_or_resume", "start_with_options"}
        /\ c.intent.op \in {"start_or_resume", "start_with_options"}
             => c.intent.seconds \in Durations
    BY <1>3, <1>6, IntentKinds
  <2>3. c.intent.op = "start_or_resume" /\ timer.state \in {"paused", "interrupted"}
          => CanResume(timer)
    BY <1>6 DEF Accepts
  <2>4. c.intent.op = "start_with_options" => MayStart(timer)
    BY <1>6 DEF Accepts
  <2> HIDE DEF c
  <2>5. CASE c.intent.op = "clear"
    BY <1>1, <1>2, <1>3, <2>1, <2>5 DEF ApplyTimer, c
  <2>6. CASE c.intent.op = "pause"
    BY <1>1, <1>2, <1>3, <2>1, <2>6 DEF ApplyTimer, c
  <2>7. CASE c.intent.op = "start_or_resume"
    <3>1. timer' = IF timer.state \in {"paused", "interrupted"}
                     THEN StartTimer(timer.id, timer.remaining, last)
                     ELSE StartTimer(c.n, c.intent.seconds, last)
      BY <2>1, <2>7 DEF ApplyTimer, ResumeTimer
    <3>2. Resumed \/ Started(c)
      BY <2>2, <2>3, <2>7, <3>1 DEF Resumed, Started, CanResume
    <3> QED BY <1>1, <1>2, <1>3, <2>1, <3>2 DEF c
  <2>8. CASE c.intent.op = "start_with_options"
    <3>1. timer' = StartTimer(c.n, c.intent.seconds, last)
      BY <2>1, <2>8 DEF ApplyTimer
    <3>2. Started(c)
      BY <2>2, <2>4, <2>8, <3>1 DEF Started, CanResume, MayStart
    <3> QED BY <1>1, <1>2, <1>3, <2>1, <3>2 DEF c
  <2> QED BY <2>2, <2>5, <2>6, <2>7, <2>8
<1> QED BY <1>4, <1>5, <1>6

LEMMA ApplyHeadWatch ==
  ASSUME WatchInv, ApplyHead
  PROVE  WatchInv'
<1> DEFINE c == Head(queue)
<1>1. /\ UNCHANGED <<mono, susp, boot, gen, pc, last, kept, requests, sent>>
      /\ pc \in {"drain", "apply", "natural"} /\ last # NoStamp /\ last \in Stamp
      /\ queue # <<>> /\ queue' = Tail(queue) /\ c \in Entries
      /\ \/ timer' = timer \/ timer' = DefaultTimer \/ timer' = PauseTimer(timer, last)
         \/ Resumed \/ Started(c)
  BY Intents
<1>2. /\ timer \in Timer /\ WellFormed(timer) /\ kept.timer = DefaultTimer
      /\ queue \in Seq(Entries) /\ Once(queue, Entries)
  BY <1>1 DEF WatchInv, Types, Checkpointed
<1>3. /\ queue' \in Seq(Entries) /\ Once(queue', Entries)
      /\ Waiting = Waiting' \union {c} /\ c \notin Waiting'
  BY <1>1, <1>2, OnceTail DEF Waiting
<1>4. CASE timer' = timer \/ timer' = DefaultTimer \/ timer' = PauseTimer(timer, last)
  <2>1. /\ Heir(timer') /\ Heir(kept'.timer)
        /\ timer'.state = "running" => timer' = timer
    BY <1>1, <1>2, <1>4, Heirs, Pauses, TheDefault DEF Heir
  <2>2. /\ Telling'
        /\ timer' \in Timer /\ WellFormed(timer')
        /\ kept'.timer \in Timer /\ WellFormed(kept'.timer)
        /\ requests' \in 0 .. MaxRequests /\ sent' \in [0 .. MaxRequests -> Nat]
    BY <1>1, <1>3, <2>1, Steady
  <2>3. Types' /\ Admitted'
    BY <1>1, <1>3, <2>2 DEF WatchInv, Types, Admitted
  <2>4. Checkpointed'
    BY <1>1, <1>2, <2>1 DEF WatchInv, Checkpointed
  <2> QED BY <2>2, <2>3, <2>4 DEF WatchInv
<1>5. CASE Resumed \/ Started(c)
  <2>1. c.n \in 1 .. requests /\ sent[c.n] = 0 /\ \A d \in Waiting' : d.n # c.n
    BY <1>3 DEF WatchInv, Telling
  <2>2. timer.id <= requests /\ \A d \in Waiting' : d.n # timer.id
    BY <1>3 DEF WatchInv, Telling, Untold
  <2>3. CanResume(timer) => timer.id # 0 /\ timer.remaining \in Nat /\ sent[timer.id] = 0
    BY <1>2 DEF CanResume, WatchInv, Telling, Untold, Timer
  <2>4. PICK id \in Nat, d \in Nat :
          /\ timer' = StartTimer(id, d, last)
          /\ id # 0 /\ id <= requests /\ sent[id] = 0 /\ \A x \in Waiting' : x.n # id
    <3>1. CASE Resumed
      <4>1. timer.id \in Nat
        BY <1>2 DEF Timer
      <4> QED BY <3>1, <4>1, <2>2, <2>3 DEF Resumed
    <3>2. CASE Started(c)
      <4>1. c.n \in Nat /\ c.n # 0 /\ c.n <= requests
        BY <2>1 DEF WatchInv, Types
      <4> QED BY <3>2, <4>1, <2>1, TimerAssumption DEF Started
    <3> QED BY <1>5, <3>1, <3>2
  <2>5. /\ timer' \in Timer /\ WellFormed(timer') /\ timer'.id = id
        /\ timer'.state = "running" /\ timer'.checkpoint = last
    BY <1>1, <2>4, Starts
  <2>6. Types' /\ Admitted'
    BY <1>1, <1>2, <1>3, <2>5 DEF WatchInv, Types, Admitted
  <2>7. Checkpointed'
    <3>1. /\ last.boot = boot /\ last.runtime = gen /\ boot # 0
          /\ last.mono <= last.mono /\ last.susp <= last.susp
      BY <1>1 DEF WatchInv, Types, Admitted, Stamp
    <3> QED BY <1>1, <1>2, <2>5, <3>1 DEF WatchInv, Checkpointed
  <2>8. Telling'
    <3>1. Untold(timer)' /\ Untold(kept.timer)'
      BY <1>1, <2>4, <2>5 DEF WatchInv, Telling, Untold
    <3>2. \A x \in Waiting' : x.n \in 1 .. requests /\ sent[x.n] = 0 /\ x.n # timer'.id
                                  /\ x.n # kept.timer.id
      BY <1>3, <2>4, <2>5 DEF WatchInv, Telling
    <3>3. \A x, y \in Waiting' : x.n = y.n => x = y
      BY <1>3 DEF WatchInv, Telling
    <3> QED BY <1>1, <3>1, <3>2, <3>3 DEF WatchInv, Telling
  <2> QED BY <2>6, <2>7, <2>8 DEF WatchInv
<1> QED BY <1>1, <1>4, <1>5

\* The outside world: time passes, a request is read.
LEMMA OutsideWatch ==
  ASSUME WatchInv, Advance \/ Suspend \/ ReadRecord
  PROVE  WatchInv'
<1>1. /\ UNCHANGED <<boot, gen, pc, last, timer, kept, queue, requests, sent>>
      /\ mono' \in {mono, mono + 1} /\ susp' \in {susp, susp + 1}
  BY DEF Advance, Suspend, ReadRecord, clocks, record, memory, outside
<1>2. mono \in Nat /\ susp \in Nat /\ last.mono \in Nat /\ last.susp \in Nat
  BY DEF WatchInv, Types, Stamp
<1>3. Types' /\ Admitted'
  BY <1>1, <1>2 DEF WatchInv, Types, Admitted
<1>4. Checkpointed' /\ Telling'
  BY <1>1 DEF WatchInv, Checkpointed, Telling, Untold, Waiting
<1> QED BY <1>3, <1>4 DEF WatchInv

\* The process is gone; what its exit made of the timer is stored.
LEMMA DeathWatch ==
  ASSUME WatchInv, Exit \/ Kill \/ PowerLoss
  PROVE  WatchInv'
<1>1. /\ UNCHANGED <<gen, queue, requests, sent>>
      /\ boot' \in {boot, boot + 1} /\ mono' \in {0, mono} /\ susp' \in {0, susp}
      /\ pc' = "down" /\ last' = NoStamp /\ kept'.timer = DefaultTimer
      /\ \/ timer' = timer \/ timer' = InterruptTimer(timer)
         \/ timer' = PauseTimer(timer, last)
  BY DEF Exit, Kill, PowerLoss, Dead, Nothing, clocks, record, web
<1>2. timer \in Timer /\ WellFormed(timer) /\ last \in Stamp
  BY DEF WatchInv, Types
<1>3. Heir(timer') /\ Heir(kept'.timer) /\ (timer'.state = "running" => timer' = timer)
  BY <1>1, <1>2, Heirs, Interrupts, Pauses DEF Heir
<1>4. queue' \in Seq(Entries) /\ Once(queue', Entries) /\ Waiting' \subseteq Waiting
  BY <1>1 DEF WatchInv, Types, Waiting
<1>5. /\ Telling'
      /\ timer' \in Timer /\ WellFormed(timer')
      /\ kept'.timer \in Timer /\ WellFormed(kept'.timer)
      /\ requests' \in 0 .. MaxRequests /\ sent' \in [0 .. MaxRequests -> Nat]
  BY <1>1, <1>3, <1>4, Steady
<1>6. Types' /\ Admitted'
  BY <1>1, <1>4, <1>5, TheDefault DEF WatchInv, Types, Admitted, Pcs
<1>7. Checkpointed'
  BY <1>1, <1>3, TheDefault DEF WatchInv, Checkpointed
<1> QED BY <1>5, <1>6, <1>7 DEF WatchInv

LEMMA BootWatch ==
  ASSUME WatchInv, Boot
  PROVE  WatchInv'
<1>1. /\ UNCHANGED <<mono, susp, boot, last, requests, sent>>
      /\ pc = "down" /\ pc' = "boot" /\ gen' = gen + 1
      /\ timer' = DefaultTimer /\ kept'.timer = InterruptTimer(timer)
      /\ queue' = Those(queue, Entry(TimerIntents))
  BY DEF Boot, Flushed, RestoreTimer, clocks, web
<1>2. /\ timer \in Timer /\ WellFormed(timer) /\ last = NoStamp
      /\ queue \in Seq(Entries) /\ Once(queue, Entries)
  BY <1>1 DEF WatchInv, Types, Admitted
<1>3. Heir(timer') /\ Heir(kept'.timer) /\ kept'.timer.state # "running"
  BY <1>1, <1>2, Heirs, Interrupts DEF Heir
<1>4. queue' \in Seq(Entries) /\ Once(queue', Entries) /\ Waiting' \subseteq Waiting
  BY <1>1, <1>2, ThoseType, OnceThose DEF Waiting
<1>5. /\ Telling'
      /\ timer' \in Timer /\ WellFormed(timer')
      /\ kept'.timer \in Timer /\ WellFormed(kept'.timer)
      /\ requests' \in 0 .. MaxRequests /\ sent' \in [0 .. MaxRequests -> Nat]
  BY <1>1, <1>3, <1>4, Steady
<1>6. Types' /\ Admitted'
  BY <1>1, <1>2, <1>4, <1>5 DEF WatchInv, Types, Admitted, Pcs
<1>7. Checkpointed'
  BY <1>1, <1>3, TheDefault DEF Checkpointed
<1> QED BY <1>5, <1>6, <1>7 DEF WatchInv

LEMMA BootRestoreWatch ==
  ASSUME WatchInv, BootRestore
  PROVE  WatchInv'
<1>1. /\ UNCHANGED <<mono, susp, boot, gen, last, queue, requests, sent>>
      /\ pc = "boot" /\ pc' = "tick" /\ timer' = kept.timer
      /\ kept'.timer = DefaultTimer
  BY DEF BootRestore, Restored, clocks, outside, Nothing
<1>2. last = NoStamp /\ kept.timer.state # "running"
  BY <1>1 DEF WatchInv, Admitted, Checkpointed
<1>3. queue' \in Seq(Entries) /\ Once(queue', Entries) /\ Waiting' \subseteq Waiting
  BY <1>1 DEF WatchInv, Types, Waiting
<1>4. Heir(timer') /\ Heir(kept'.timer)
  BY <1>1, Heirs
<1>5. /\ Telling'
      /\ timer' \in Timer /\ WellFormed(timer')
      /\ kept'.timer \in Timer /\ WellFormed(kept'.timer)
      /\ requests' \in 0 .. MaxRequests /\ sent' \in [0 .. MaxRequests -> Nat]
  BY <1>1, <1>3, <1>4, Steady
<1>6. Types' /\ Admitted'
  BY <1>1, <1>2, <1>3, <1>5 DEF WatchInv, Types, Admitted, Pcs, OuterPcs
<1>7. Checkpointed'
  BY <1>1, <1>2, TheDefault DEF Checkpointed
<1> QED BY <1>5, <1>6, <1>7 DEF WatchInv

LEMMA WatchNext ==
  ASSUME WatchInv, Addressed, [Next]_vars
  PROVE  WatchInv'
<1>1. CASE Tick
  <2>1. CASE AdmitTick
    <3>1. (Admit("drain") /\ ~ Lost) \/ (Retire /\ last' = NoStamp /\ pc' = "tick")
      BY <2>1, Zenon DEF AdmitTick
    <3>2. pc = "tick"
      BY <2>1 DEF AdmitTick
    <3> QED BY <3>1, <3>2, AdmitWatch, RetireWatch
  <2>2. CASE TickNotifies
    BY <2>2, NotifyWatch, TellWatch DEF TickNotifies
  <2> QED BY <1>1, <2>1, <2>2, CheckpointWatch, QuietWatch, DispatchTerminalWatch, ResetWatch,
             RestoreWatch DEF Tick
<1>2. CASE Cycle
  <2>1. CASE AdmitLoop \/ AdmitSense \/ Finish
    <3>1. \/ ~ Lost /\ \E to \in {"apply", "check", "ended"} : Admit(to)
          \/ Retire /\ last' = NoStamp /\ pc' = "tick"
      BY <2>1 DEF AdmitLoop, AdmitSense, Finish, CycleLost
    <3>2. pc \in {"loop", "sense", "finish"}
      BY <2>1 DEF AdmitLoop, AdmitSense, Finish
    <3> QED BY <3>1, <3>2, AdmitWatch, RetireWatch
  <2>2. CASE CycleNotifies
    BY <2>2, NotifyWatch, TellWatch DEF CycleNotifies
  <2> QED BY <1>2, <2>1, <2>2, QuietWatch, PublishWatch DEF Cycle
<1>3. CASE ApplyHead \/ Restart
  BY <1>3, ApplyHeadWatch, BootWatch, BootRestoreWatch DEF Restart
<1>4. CASE AskTimer \/ AskMode
  <2>1. \E intent \in TimerIntents \cup Asked, target \in {0, handler.target} :
           Enqueue(intent, target)
    BY <1>4 DEF AskTimer, AskMode
  <2> QED BY <2>1, EnqueueWatch DEF Addressed
<1>5. CASE Environment /\ ~ (AskTimer \/ AskMode)
  BY <1>5, OutsideWatch, DeathWatch DEF Environment
<1>6. CASE UNCHANGED vars
  BY <1>6 DEF vars, WatchInv, Types, Admitted, Checkpointed, Telling, Untold, Waiting
<1> QED BY <1>1, <1>2, <1>3, <1>4, <1>5, <1>6 DEF Next, Control
-----------------------------------------------------------------------------
(* The request that set the timer running.                                 *)

LEMMA ArmedInit == Init => ArmedInv
<1> SUFFICES ASSUME Init PROVE ArmedInv
  OBVIOUS
<1>1. LegacyTimer.state # "running"
  BY DEF LegacyTimer, DefaultTimer
<1>5. timer.state # "running" /\ Waiting = {}
  BY <1>1, TheDefault DEF Init, Waiting, ToSet
<1>2. heartbeat \in Stamp /\ heartbeat.runtime = 0
  BY TheDefault DEF Init, NoStamp
<1>3. handler \in [serving : BOOLEAN, target : Nat, mayStart : BOOLEAN] /\ handler.target = 0
  BY DEF Init, Idle
<1>4. cut = 0 /\ requests = 0 /\ gen = 0
  BY DEF Init
<1> QED BY <1>2, <1>3, <1>4, <1>5 DEF ArmedInv, Addressed, ArmedAfterLoss

\* A step that neither loses the clock nor sets the timer running.
LEMMA StillArmed ==
  ASSUME WatchInv, ArmedInv, UNCHANGED <<gen, requests, armedBy, cut>>,
         heartbeat' \in {heartbeat, Here},
         handler' = handler \/ handler' = Idle
           \/ \E b \in BOOLEAN :
                handler' = [serving |-> TRUE, target |-> heartbeat.runtime, mayStart |-> b],
         Waiting' \subseteq Waiting,
         timer'.state = "running" /\ pc' \notin {"down", "boot"} =>
           timer.state = "running" /\ pc \notin {"down", "boot"}
  PROVE  ArmedInv'
<1>1. Here \in Stamp /\ Here.runtime = gen
  BY DEF Here, Stamp, WatchInv, Types
<1>2. gen \in Nat /\ requests \in Nat
  BY ClockAssumption DEF WatchInv, Types
<1>3. heartbeat' \in Stamp /\ heartbeat'.runtime <= gen
  BY <1>1, <1>2 DEF ArmedInv, Addressed
<1>4. heartbeat.runtime \in Nat
  BY DEF ArmedInv, Addressed, Stamp
<1>5. /\ handler' \in [serving : BOOLEAN, target : Nat, mayStart : BOOLEAN]
      /\ handler'.target <= gen
  <2>1. CASE handler' = handler
    BY <2>1 DEF ArmedInv, Addressed
  <2>2. CASE handler' = Idle
    BY <1>2, <2>2 DEF Idle
  <2>3. CASE \E b \in BOOLEAN :
               handler' = [serving |-> TRUE, target |-> heartbeat.runtime, mayStart |-> b]
    BY <1>4, <2>3 DEF ArmedInv, Addressed
  <2> QED BY <2>1, <2>2, <2>3
<1>6. Addressed'
  BY <1>2, <1>3, <1>5 DEF ArmedInv, Addressed
<1>7. ArmedAfterLoss'
  BY DEF ArmedInv, ArmedAfterLoss
<1> QED BY <1>6, <1>7 DEF ArmedInv

\* A step that loses the clock: whatever is still queued is for another generation.
LEMMA LossArmed ==
  ASSUME WatchInv, ArmedInv, gen' = gen + 1, cut' = requests, Waiting' \subseteq Waiting,
         UNCHANGED <<requests, heartbeat, handler>>,
         timer'.state # "running" \/ pc' \in {"down", "boot"}
  PROVE  ArmedInv'
<1>1. gen \in Nat /\ requests \in Nat
  BY ClockAssumption DEF WatchInv, Types
<1>2. \A c \in Waiting : c.target <= gen /\ c.target \in Nat
  <2>1. \A c \in Waiting : c \in Entries
    BY DEF WatchInv, Types, Waiting, ToSet
  <2> QED BY <2>1, IntentKinds DEF ArmedInv, Addressed
<1>3. heartbeat.runtime \in Nat /\ handler.target \in Nat
  BY DEF ArmedInv, Addressed, Stamp
<1>4. Addressed'
  BY <1>1, <1>2, <1>3 DEF ArmedInv, Addressed
<1> QED BY <1>4 DEF ArmedInv, ArmedAfterLoss

LEMMA EnqueueArmed ==
  ASSUME WatchInv, ArmedInv, NEW intent \in TimerIntents \cup Asked,
         NEW target \in {0, handler.target}, Enqueue(intent, target),
         handler' \in {handler, Idle}
  PROVE  ArmedInv'
<1>1. /\ UNCHANGED <<gen, pc, timer, heartbeat, armedBy, cut>>
      /\ requests' = requests + 1
  BY DEF Enqueue, clocks, record, memory, history
<1>2. gen \in Nat /\ requests \in Nat /\ handler.target \in Nat /\ handler.target <= gen
  BY ClockAssumption DEF WatchInv, Types, ArmedInv, Addressed
<1>3. target \in Nat /\ target <= gen
  BY <1>2
<1> DEFINE c == [n |-> requests + 1, intent |-> intent, target |-> target]
<1>4. Waiting' = Waiting \union {c}
  BY <1>3, EnqueueWatch
<1>5. c.target <= gen /\ c.n > cut /\ cut \in 0 .. requests'
  BY <1>1, <1>2, <1>3 DEF ArmedInv, Addressed
<1> HIDE DEF c
<1>6. /\ handler' \in [serving : BOOLEAN, target : Nat, mayStart : BOOLEAN]
      /\ handler'.target <= gen
  <2>1. Idle \in [serving : BOOLEAN, target : Nat, mayStart : BOOLEAN] /\ Idle.target = 0
    BY DEF Idle
  <2> QED BY <1>2, <2>1 DEF ArmedInv, Addressed
<1>7. Addressed'
  BY <1>1, <1>2, <1>4, <1>5, <1>6 DEF ArmedInv, Addressed
<1> QED BY <1>1, <1>7 DEF ArmedInv, ArmedAfterLoss

LEMMA ApplyHeadArmed ==
  ASSUME WatchInv, ArmedInv, ApplyHead
  PROVE  ArmedInv'
<1> DEFINE c == Head(queue)
<1>1. /\ UNCHANGED <<gen, pc, requests, heartbeat, handler, cut>>
      /\ queue # <<>> /\ queue' = Tail(queue)
      /\ timer' = timer \/ c.target = gen
      /\ armedBy' = IF timer'.state = "running" /\ timer' # timer THEN c.n ELSE armedBy
  BY Intents
<1>2. queue \in Seq(Entries) /\ Once(queue, Entries)
  BY DEF WatchInv, Types
<1>3. Waiting = Waiting' \union {c}
  BY <1>1, <1>2, OnceTail DEF Waiting
<1>4. timer' # timer => c.n > cut
  BY <1>1, <1>3 DEF ArmedInv, Addressed
<1> HIDE DEF c
<1>5. Addressed'
  BY <1>1, <1>3 DEF ArmedInv, Addressed
<1>6. ArmedAfterLoss'
  BY <1>1, <1>4 DEF ArmedInv, ArmedAfterLoss
<1> QED BY <1>5, <1>6 DEF ArmedInv

\* What the loops do to the timer keeps a timer at rest at rest.
LEMMA RestsOn ==
  ASSUME WatchInv,
         \/ timer' \in {timer, DefaultTimer, kept.timer, CheckpointTimer(timer, last),
                        PauseTimer(timer, last), InterruptTimer(timer)}
         \/ timer' = ExpireTimer(timer, last) /\ Expires(timer, last),
         timer' = CheckpointTimer(timer, last) => last # NoStamp
  PROVE  timer'.state = "running" => timer.state = "running"
<1>1. timer \in Timer /\ WellFormed(timer) /\ last \in Stamp /\ kept.timer.state # "running"
  BY DEF WatchInv, Types, Checkpointed
<1>2. timer' = CheckpointTimer(timer, last) => Moved(timer, timer')
  BY <1>1, Checkpoints
<1>3. timer' = PauseTimer(timer, last) => Moved(timer, timer')
  BY <1>1, Pauses
<1>4. timer' = InterruptTimer(timer) => Moved(timer, timer')
  BY <1>1, Interrupts
<1>5. Expires(timer, last) => timer.state = "running"
  BY DEF Expires
<1> QED BY <1>1, <1>2, <1>3, <1>4, <1>5, TheDefault DEF Moved

\* Every reading of the clock admits it or loses it.
Reads(to) == ~ Lost /\ Admit(to) /\ heartbeat' \in {heartbeat, Here}
Loses == Retire /\ last' = NoStamp /\ pc' = "tick"

LEMMA ReadsOrLoses ==
  ASSUME AdmitTick \/ AdmitLoop \/ AdmitSense \/ Finish
  PROVE  /\ pc \in {"tick", "loop", "sense", "finish"}
         /\ Loses \/ \E to \in {"drain", "apply", "check", "ended"} : Reads(to)
<1>1. Beat => heartbeat' \in {heartbeat, Here}
  BY DEF Beat
<1>2. CASE AdmitTick
  <2>1. pc = "tick" /\ (Loses \/ Reads("drain"))
    BY <1>1, <1>2, Zenon DEF AdmitTick, Loses, Reads
  <2> QED BY <2>1
<1>3. CASE AdmitLoop
  <2>1. pc = "loop" /\ (Loses \/ Reads("apply"))
    BY <1>1, <1>3, Zenon DEF AdmitLoop, CycleLost, Loses, Reads
  <2> QED BY <2>1
<1>4. CASE AdmitSense
  <2>1. pc = "sense" /\ (Loses \/ Reads("check"))
    BY <1>4, Zenon DEF AdmitSense, CycleLost, Loses, Reads
  <2> QED BY <2>1
<1>5. CASE Finish
  <2>1. pc = "finish" /\ (Loses \/ Reads("ended"))
    BY <1>5, Zenon DEF Finish, CycleLost, Loses, Reads
  <2> QED BY <2>1
<1> QED BY <1>2, <1>3, <1>4, <1>5

LEMMA ReadingArmed ==
  ASSUME WatchInv, ArmedInv, AdmitTick \/ AdmitLoop \/ AdmitSense \/ Finish
  PROVE  ArmedInv'
<1>1. pc \in {"tick", "loop", "sense", "finish"}
  BY ReadsOrLoses
<1>2. CASE Loses
  <2>1. /\ gen' = gen + 1 /\ cut' = requests /\ Waiting' = {}
        /\ UNCHANGED <<requests, heartbeat, handler>> /\ timer' = InterruptTimer(timer)
    BY <1>2 DEF Loses, Retire, RestoreTimer, web, Waiting, ToSet
  <2>2. timer'.state # "running"
    BY <2>1, Interrupts DEF WatchInv, Types
  <2> QED BY <2>1, <2>2, LossArmed
<1>3. CASE \E to \in {"drain", "apply", "check", "ended"} : Reads(to)
  <2>1. /\ UNCHANGED <<gen, timer, queue, handler, requests, armedBy, cut>>
        /\ heartbeat' \in {heartbeat, Here}
    BY <1>3 DEF Reads, Admit, record, web, history
  <2> QED BY <1>1, <2>1, StillArmed DEF Waiting
<1> QED BY <1>2, <1>3, ReadsOrLoses

\* What the loops do in between.
Works == \/ Checkpoint \/ TickNotifies \/ NoDispatch \/ DispatchTerminal \/ DispatchCycle
         \/ Reset \/ Restore \/ Applied \/ CycleNotifies \/ Publish \/ FinishRecord \/ Natural

LEMMA WorksArmed ==
  ASSUME WatchInv, ArmedInv, Works
  PROVE  ArmedInv'
<1>1. /\ UNCHANGED <<gen, heartbeat, handler, requests, armedBy, cut>>
      /\ queue' \in {queue, <<>>} /\ pc \notin {"down", "boot", "tick"}
      /\ \/ timer' \in {timer, DefaultTimer, kept.timer, CheckpointTimer(timer, last),
                         PauseTimer(timer, last), InterruptTimer(timer)}
         \/ timer' = ExpireTimer(timer, last) /\ Expires(timer, last)
  <2>1. CASE NoDispatch \/ DispatchTerminal \/ DispatchCycle \/ Checkpoint
    BY <2>1 DEF NoDispatch, DispatchTerminal, DispatchCycle, Checkpoint, outside, record,
       memory
  <2>2. CASE Reset \/ Restore
    BY <2>2 DEF Reset, Flushed, Restore, Restored, outside, memory
  <2>3. CASE Applied \/ Publish \/ FinishRecord \/ Natural
    BY <2>3 DEF Applied, Publish, FinishRecord, Natural, outside, record, memory
  <2>4. CASE TickNotifies \/ CycleNotifies
    <3>1. ASSUME NEW told, NEW quiet, Notify(told, quiet)
          PROVE  /\ UNCHANGED <<gen, heartbeat, handler, requests, armedBy, cut, queue>>
                 /\ \/ timer' = timer
                    \/ timer' = ExpireTimer(timer, last) /\ Expires(timer, last)
      BY <3>1 DEF Notify, outside, record, memory
    <3>2. ASSUME NEW to, Tell(to)
          PROVE  UNCHANGED <<gen, heartbeat, handler, requests, armedBy, cut, queue, timer>>
      BY <3>2 DEF Tell, web, history, record
    <3> QED BY <2>4, <3>1, <3>2 DEF TickNotifies, CycleNotifies
  <2> QED BY <2>1, <2>2, <2>3, <2>4 DEF Works
<1>2. last # NoStamp
  BY <1>1 DEF WatchInv, Admitted
<1>3. timer'.state = "running" => timer.state = "running"
  BY <1>1, <1>2, RestsOn
<1>4. Waiting' \subseteq Waiting
  BY <1>1 DEF Waiting, ToSet
<1> QED BY <1>1, <1>3, <1>4, StillArmed

LEMMA OutsideArmed ==
  ASSUME WatchInv, ArmedInv, Advance \/ Suspend \/ ReadRecord \/ Exit \/ Kill \/ PowerLoss
  PROVE  ArmedInv'
<1>1. CASE Advance \/ Suspend \/ ReadRecord
  <2>1. /\ UNCHANGED <<gen, pc, timer, queue, heartbeat, requests, armedBy, cut>>
        /\ \/ handler' = handler
           \/ handler' = [serving |-> TRUE, target |-> heartbeat.runtime,
                           mayStart |-> MayStart(timer)]
    BY <1>1 DEF Advance, Suspend, ReadRecord, record, outside, history
  <2>2. MayStart(timer) \in BOOLEAN
    BY DEF MayStart
  <2> QED BY <2>1, <2>2, StillArmed DEF Waiting
<1>2. CASE Exit \/ Kill \/ PowerLoss
  <2>1. /\ UNCHANGED <<gen, queue, heartbeat, requests, armedBy, cut>>
        /\ handler' \in {handler, Idle} /\ pc' = "down"
    BY <1>2 DEF Exit, Kill, PowerLoss, Dead, web, history
  <2> QED BY <2>1, StillArmed DEF Waiting
<1> QED BY <1>1, <1>2

LEMMA RestartArmed ==
  ASSUME WatchInv, ArmedInv, Restart
  PROVE  ArmedInv'
<1>1. CASE Boot
  <2>1. /\ gen' = gen + 1 /\ cut' = requests /\ pc' = "boot"
        /\ UNCHANGED <<requests, heartbeat, handler>>
        /\ queue' = Those(queue, Entry(TimerIntents))
    BY <1>1 DEF Boot, web
  <2>2. Waiting' \subseteq Waiting
    BY <2>1, ThoseType, OnceThose DEF Waiting, WatchInv, Types
  <2> QED BY <2>1, <2>2, LossArmed
<1>2. CASE BootRestore
  <2>1. /\ UNCHANGED <<gen, queue, heartbeat, handler, requests, armedBy, cut>>
        /\ timer' = kept.timer
    BY <1>2 DEF BootRestore, Restored, outside
  <2>2. timer'.state # "running"
    BY <2>1 DEF WatchInv, Checkpointed
  <2> QED BY <2>1, <2>2, StillArmed DEF Waiting
<1> QED BY <1>1, <1>2 DEF Restart

LEMMA ArmedNext ==
  ASSUME WatchInv, ArmedInv, [Next]_vars
  PROVE  ArmedInv'
<1>1. CASE Tick \/ Cycle
  BY <1>1, ReadingArmed, WorksArmed, Zenon DEF Tick, Cycle, Works
<1>2. CASE AskTimer \/ AskMode
  <2>1. /\ handler' \in {handler, Idle}
        /\ \E intent \in TimerIntents \cup Asked, target \in {0, handler.target} :
             Enqueue(intent, target)
    BY <1>2 DEF AskTimer, AskMode
  <2> QED BY <2>1, EnqueueArmed
<1>3. CASE UNCHANGED vars
  BY <1>3 DEF vars, ArmedInv, Addressed, ArmedAfterLoss, Waiting
<1> QED BY <1>1, <1>2, <1>3, ApplyHeadArmed, OutsideArmed, RestartArmed
        DEF Next, Control, Environment

\* A running timer was set running by a request sent after the clock was last lost.
THEOREM TimerArmedAfterLoss == Spec => []ArmedAfterLoss
<1>1. Init => WatchInv /\ ArmedInv
  BY WatchInit, ArmedInit
<1>2. WatchInv /\ ArmedInv /\ [Next]_vars => (WatchInv /\ ArmedInv)'
  BY WatchNext, ArmedNext DEF ArmedInv
<1>3. ArmedInv => ArmedAfterLoss
  BY DEF ArmedInv
<1> QED BY <1>1, <1>2, <1>3, PTL DEF Spec

-----------------------------------------------------------------------------
(* What the timer answers, from what is stored and the admitted stamp.     *)

Counting(t, l) == t.state = "running" /\ Age(t.checkpoint, l) # Unknown
Phase(t, l) ==
  IF t.state = "running" /\ ~ Counting(t, l) THEN "interrupted" ELSE t.state
Owed(t, l) ==
  IF Counting(t, l) THEN Positive(t.remaining - Age(t.checkpoint, l)) ELSE t.remaining

LEMMA TimerFields ==
  ASSUME NEW t \in Timer
  PROVE  /\ t.id \in Nat /\ t.state \in States /\ t.checkpoint \in Stamp
         /\ t.remaining \in Nat \cup {Unknown}
BY DEF Timer

LEMMA InterruptedFields ==
  ASSUME NEW t \in Timer
  PROVE  /\ Interrupted(t).id = t.id /\ Interrupted(t).state = "interrupted"
         /\ Interrupted(t).remaining = t.remaining
BY DEF Interrupted, Timer

LEMMA OwedIsRemaining ==
  ASSUME NEW t \in Timer, WellFormed(t), NEW l \in Stamp
  PROVE  Remaining(t, l) = IF t.state = "running" /\ ~ Counting(t, l) THEN Unknown ELSE Owed(t, l)
<1>1. CASE t.state \in {"stopped", "expired"}
  <2>1. Remaining(t, l) = 0
    BY <1>1, Zenon DEF Remaining
  <2> QED BY <1>1, <2>1 DEF Owed, Counting, WellFormed
<1>2. CASE t.state \in {"paused", "interrupted"}
  <2>1. Remaining(t, l) = t.remaining
    BY <1>2 DEF Remaining
  <2> QED BY <1>2, <2>1 DEF Owed, Counting
<1>3. CASE t.state = "running"
  <2>1. Remaining(t, l) = IF Age(t.checkpoint, l) = Unknown THEN Unknown
                           ELSE Positive(t.remaining - Age(t.checkpoint, l))
    BY <1>3 DEF Remaining
  <2> QED BY <1>3, <2>1, Zenon DEF Owed, Counting
<1> QED BY <1>1, <1>2, <1>3, TimerFields DEF States

LEMMA OwedType ==
  ASSUME NEW t \in Timer, WellFormed(t), NEW l \in Stamp
  PROVE  /\ Owed(t, l) \in Nat \cup {Unknown}
         /\ t.state = "running" => Owed(t, l) \in Nat /\ t.remaining \in Nat
                                     /\ Owed(t, l) <= t.remaining
<1>1. t.checkpoint \in Stamp /\ t.remaining \in Nat \cup {Unknown}
  BY TimerFields
<1>2. Age(t.checkpoint, l) \in Nat \cup {Unknown}
  BY <1>1, AgeType
<1>3. t.state = "running" => t.remaining \in Nat
  BY <1>1 DEF WellFormed
<1>4. CASE Counting(t, l)
  <2> DEFINE age == Age(t.checkpoint, l)
  <2>1. age \in Nat /\ t.state = "running"
    BY <1>2, <1>4 DEF Counting
  <2>2. Owed(t, l) = Positive(t.remaining - age)
    BY <1>4 DEF Owed
  <2> HIDE DEF age
  <2> QED BY <1>3, <2>1, <2>2 DEF Positive
<1>5. CASE ~ Counting(t, l)
  <2>1. Owed(t, l) = t.remaining
    BY <1>5 DEF Owed
  <2> QED BY <1>1, <1>3, <2>1
<1> QED BY <1>4, <1>5

\* The answer of one timer under one stamp.
LEMMA AnswerShown ==
  ASSUME NEW t \in Timer, WellFormed(t), NEW l \in Stamp,
         NEW u, u = IF t.state = "running" /\ Age(t.checkpoint, l) = Unknown
                      THEN Interrupted(t) ELSE t
  PROVE  u.state = Phase(t, l) /\ Remaining(u, l) = Owed(t, l) /\ u.id = t.id
<1>1. CASE t.state = "running" /\ Age(t.checkpoint, l) = Unknown
  <2>1. u = Interrupted(t) /\ Interrupted(t) \in Timer /\ WellFormed(Interrupted(t))
    BY <1>1, InterruptedType
  <2>2. u.state = "interrupted" /\ u.remaining = t.remaining /\ u.id = t.id
    BY <2>1, InterruptedFields
  <2>3. Remaining(u, l) = u.remaining
    BY <2>1, <2>2, OwedIsRemaining DEF Owed, Counting
  <2> QED BY <1>1, <2>2, <2>3 DEF Phase, Owed, Counting
<1>2. CASE ~ (t.state = "running" /\ Age(t.checkpoint, l) = Unknown)
  BY <1>2, OwedIsRemaining DEF Phase, Counting
<1> QED BY <1>1, <1>2

\* The timer that is held, and what is shown of it.
LEMMA Shown ==
  ASSUME WatchInv
  PROVE  /\ Held \in Timer /\ WellFormed(Held) /\ last \in Stamp /\ last.mono \in Nat
         /\ Answered.state = Phase(Held, last)
         /\ Remaining(Answered, last) = Owed(Held, last)
         /\ Answered.id = Held.id
<1>1. Held \in Timer /\ WellFormed(Held) /\ last \in Stamp
  BY DEF Held, WatchInv, Types
<1>2. last.mono \in Nat
  BY <1>1 DEF Stamp
<1> QED BY <1>1, <1>2, AnswerShown, Zenon DEF Answered

\* Stopping the count, whatever stops it, and whatever clock is next.
LEMMA HaltShown ==
  ASSUME NEW t \in Timer, WellFormed(t), NEW l \in Stamp,
         NEW u \in {t, InterruptTimer(t), PauseTimer(t, l)}, NEW m \in Stamp,
         u = t /\ t.state = "running" => Age(t.checkpoint, m) = Unknown
  PROVE  /\ u.id = t.id
         /\ \/ Phase(t, l) # "running" /\ Phase(u, m) = Phase(t, l) /\ Owed(u, m) = Owed(t, l)
            \/ Phase(t, l) = "running" /\ Phase(u, m) = "interrupted" /\ Owed(u, m) >= Owed(t, l)
            \/ Phase(t, l) = "running" /\ Phase(u, m) = "paused" /\ Owed(u, m) = Owed(t, l)
<1>1. CASE t.state # "running"
  <2>1. u = t
    BY <1>1, Zenon DEF InterruptTimer, PauseTimer
  <2> QED BY <1>1, <2>1 DEF Phase, Owed, Counting
<1>2. CASE t.state = "running" /\ (u = t \/ u = Interrupted(t))
  <2>1. u.id = t.id /\ Phase(u, m) = "interrupted" /\ Owed(u, m) = t.remaining
    BY <1>2, InterruptedFields DEF Phase, Owed, Counting
  <2>2. Owed(t, l) <= t.remaining
    BY <1>2, OwedType
  <2>3. Phase(t, l) = "running" \/ (Phase(t, l) = "interrupted" /\ Owed(t, l) = t.remaining)
    BY <1>2 DEF Phase, Owed
  <2>4. t.remaining \in Nat /\ Owed(t, l) \in Nat
    BY <1>2, OwedType
  <2> QED BY <2>1, <2>2, <2>3, <2>4
<1>3. CASE t.state = "running" /\ u # t /\ u # Interrupted(t)
  <2>1. Remaining(t, l) # Unknown
    BY <1>3, Zenon DEF InterruptTimer, PauseTimer
  <2>2. Counting(t, l) /\ Remaining(t, l) = Owed(t, l)
    BY <1>3, <2>1, OwedIsRemaining
  <2>3. u = [t EXCEPT !.state = "paused", !.checkpoint = NoStamp,
                      !.remaining = Remaining(t, l)]
    BY <1>3, <2>1, Zenon DEF InterruptTimer, PauseTimer
  <2>4. t \in [id : Nat, state : States, remaining : Nat \cup {Unknown}, checkpoint : Stamp]
    BY DEF Timer
  <2>5. u.state = "paused" /\ u.remaining = Owed(t, l) /\ u.id = t.id
    BY <2>2, <2>3, <2>4
  <2> QED BY <1>3, <2>2, <2>5 DEF Phase, Owed, Counting
<1> QED BY <1>1, <1>2, <1>3, Zenon DEF InterruptTimer, PauseTimer

\* A checkpoint is not seen.
LEMMA CheckpointShown ==
  ASSUME NEW t \in Timer, WellFormed(t), NEW l \in Stamp, l # NoStamp, Known,
         NEW u, u = CheckpointTimer(t, l)
  PROVE  u.id = t.id /\ Phase(u, l) = Phase(t, l) /\ Owed(u, l) = Owed(t, l)
<1>1. CASE t.state # "running"
  <2>1. u = t
    BY <1>1, Zenon DEF CheckpointTimer
  <2> QED BY <2>1
<1>2. CASE t.state = "running" /\ ~ Counting(t, l)
  <2>1. Remaining(t, l) = Unknown
    BY <1>2, OwedIsRemaining
  <2>2. u = Interrupted(t)
    BY <1>2, <2>1, Zenon DEF CheckpointTimer
  <2> QED BY <1>2, <2>2, InterruptedFields DEF Phase, Owed, Counting
<1>3. CASE Counting(t, l)
  <2>1. t.state = "running" /\ Owed(t, l) \in Nat /\ Remaining(t, l) = Owed(t, l)
    BY <1>3, OwedType, OwedIsRemaining DEF Counting
  <2>2. u = [t EXCEPT !.remaining = Remaining(t, l), !.checkpoint = l]
    <3>1. Remaining(t, l) # Unknown
      BY <2>1 DEF Unknown
    <3> QED BY <2>1, <3>1, Zenon DEF CheckpointTimer
  <2>3. t \in [id : Nat, state : States, remaining : Nat \cup {Unknown}, checkpoint : Stamp]
    BY DEF Timer
  <2>4. u.state = "running" /\ u.remaining = Owed(t, l) /\ u.id = t.id /\ u.checkpoint = l
    BY <2>1, <2>2, <2>3
  <2>5. Age(l, l) = 0
    BY TimerAssumption DEF Age, Stamp
  <2> QED BY <1>3, <2>1, <2>4, <2>5 DEF Phase, Owed, Counting, Unknown, Positive
<1> QED BY <1>1, <1>2, <1>3 DEF Counting

\* A count that begins under the admitted stamp.
LEMMA StartShown ==
  ASSUME NEW id \in Nat, NEW d \in Nat, NEW l \in Stamp, l # NoStamp, Known,
         NEW u, u = StartTimer(id, d, l)
  PROVE  u.id = id /\ Phase(u, l) = "running" /\ Owed(u, l) = d
<1>1. u.id = id /\ u.state = "running" /\ u.checkpoint = l /\ u.remaining = d
  BY Starts
<1>2. Age(l, l) = 0
  BY TimerAssumption DEF Age, Stamp
<1> QED BY <1>1, <1>2 DEF Phase, Owed, Counting, Unknown, Positive

\* The clock moves on from l to m, which can be compared with it; the timer was
\* checkpointed at s before either.
LEMMA AdmitShown ==
  ASSUME NEW t \in Timer, WellFormed(t), NEW l \in Stamp, NEW m \in Stamp, Known,
         t.state = "running" =>
           /\ t.checkpoint.boot = l.boot /\ t.checkpoint.runtime = l.runtime
           /\ l.boot = m.boot /\ l.runtime = m.runtime
           /\ t.checkpoint.mono <= l.mono /\ l.mono <= m.mono /\ l.susp <= m.susp
  PROVE  \/ /\ Phase(t, m) = Phase(t, l)
            /\ Owed(t, m) = IF Phase(t, l) = "running"
                              THEN Positive(Owed(t, l) - (m.mono - l.mono)) ELSE Owed(t, l)
         \/ /\ Phase(t, l) = "running" /\ Phase(t, m) = "interrupted"
            /\ Owed(t, m) >= Owed(t, l)
<1>1. CASE t.state # "running"
  BY <1>1 DEF Phase, Owed, Counting
<1>2. CASE t.state = "running"
  <2> DEFINE s == t.checkpoint
             r == t.remaining
  <2>1. s \in Stamp /\ r \in Nat
    BY <1>2, OwedType, TimerFields
  <2>2. /\ s.boot = l.boot /\ s.runtime = l.runtime /\ l.boot = m.boot /\ l.runtime = m.runtime
        /\ s.mono <= l.mono /\ l.mono <= m.mono /\ l.susp <= m.susp
    BY <1>2
  <2>3. /\ Phase(t, l) = (IF Age(s, l) = Unknown THEN "interrupted" ELSE "running")
        /\ Phase(t, m) = (IF Age(s, m) = Unknown THEN "interrupted" ELSE "running")
        /\ Owed(t, l) = (IF Age(s, l) = Unknown THEN r ELSE Positive(r - Age(s, l)))
        /\ Owed(t, m) = (IF Age(s, m) = Unknown THEN r ELSE Positive(r - Age(s, m)))
    BY <1>2, Zenon DEF Phase, Owed, Counting
  <2> HIDE DEF s, r
  <2>4. /\ {s.mono, s.susp, l.mono, l.susp, m.mono, m.susp} \subseteq Nat
        /\ Discontinuity \in Nat
    BY <2>1, TimerAssumption DEF Stamp
  <2>5. Age(s, l) = IF l.susp - s.susp <= Discontinuity THEN l.mono - s.mono ELSE Unknown
    BY <2>2, <2>4 DEF Age
  <2>6. Age(s, m) = IF m.susp - s.susp <= Discontinuity THEN m.mono - s.mono ELSE Unknown
    BY <2>2, <2>4 DEF Age
  <2>7. CASE m.susp - s.susp <= Discontinuity
    <3>1. l.susp - s.susp <= Discontinuity
      BY <2>2, <2>4, <2>7
    <3>2. Age(s, l) = l.mono - s.mono /\ Age(s, m) = m.mono - s.mono
      BY <2>5, <2>6, <2>7, <3>1
    <3>3. Age(s, l) # Unknown /\ Age(s, m) # Unknown
      BY <2>2, <2>4, <3>2 DEF Unknown
    <3>4. Positive(r - (m.mono - s.mono))
            = Positive(Positive(r - (l.mono - s.mono)) - (m.mono - l.mono))
      BY <2>1, <2>2, <2>4 DEF Positive
    <3> QED BY <2>3, <3>2, <3>3, <3>4
  <2>8. CASE ~ (m.susp - s.susp <= Discontinuity)
    <3>1. Age(s, m) = Unknown
      BY <2>6, <2>8
    <3>2. CASE Age(s, l) = Unknown
      BY <2>3, <3>1, <3>2
    <3>3. CASE Age(s, l) # Unknown
      <4>1. Age(s, l) \in Nat
        BY <2>1, <3>3, AgeType
      <4>2. Positive(r - Age(s, l)) <= r
        BY <2>1, <4>1 DEF Positive
      <4> QED BY <2>3, <3>1, <3>3, <4>2
    <3> QED BY <3>2, <3>3
  <2> QED BY <2>7, <2>8
<1> QED BY <1>1, <1>2

-----------------------------------------------------------------------------
(* The refinement, step by step.                                           *)

\* What is shown before a step and after it.
LEMMA StepShown ==
  ASSUME WatchInv, WatchInv'
  PROVE  /\ Answered.state = Phase(Held, last) /\ Answered'.state = Phase(Held', last')
         /\ Remaining(Answered, last) = Owed(Held, last)
         /\ Remaining(Answered', last') = Owed(Held', last')
         /\ Answered.id = Held.id /\ Answered'.id = Held'.id
         /\ Held \in Timer /\ WellFormed(Held) /\ last \in Stamp /\ last.mono \in Nat
         /\ Held' \in Timer /\ WellFormed(Held') /\ last' \in Stamp /\ last'.mono \in Nat
<1>1. Held' \in Timer /\ WellFormed(Held') /\ last' \in Stamp
  BY DEF Held, WatchInv, Types
<1>2. last'.mono \in Nat
  BY <1>1 DEF Stamp
<1>3. /\ Answered'.state = Phase(Held', last') /\ Answered'.id = Held'.id
      /\ Remaining(Answered', last') = Owed(Held', last')
  BY <1>1, AnswerShown, Zenon DEF Answered
<1> QED BY <1>1, <1>2, <1>3, Shown

LEMMA StutterShown ==
  ASSUME WatchInv, WatchInv', Held'.id = Held.id, UNCHANGED <<last, sent>>,
         Phase(Held', last) = Phase(Held, last), Owed(Held', last) = Owed(Held, last)
  PROVE  UNCHANGED Watch!vars
<1>1. /\ Answered'.state = Answered.state /\ Answered'.id = Answered.id
      /\ Remaining(Answered', last') = Remaining(Answered, last)
  BY StepShown
<1> QED BY <1>1 DEF Watch!vars

LEMMA HaltStep ==
  ASSUME WatchInv, WatchInv', Held' \in {Held, InterruptTimer(Held), PauseTimer(Held, last)},
         UNCHANGED sent,
         Held' = Held /\ Held.state = "running" => Age(Held.checkpoint, last') = Unknown
  PROVE  Watch!Interrupt \/ Watch!Pause \/ Watch!LoseClock
<1>1. last'.mono \in Nat /\ sent'[Answered'.id] = sent[Answered.id]
  BY StepShown, HaltShown
<1>2. \/ /\ Answered.state # "running" /\ Answered'.state = Answered.state
         /\ Remaining(Answered', last') = Remaining(Answered, last)
      \/ /\ Answered.state = "running" /\ Answered'.state = "interrupted"
         /\ Remaining(Answered', last') >= Remaining(Answered, last)
      \/ /\ Answered.state = "running" /\ Answered'.state = "paused"
         /\ Remaining(Answered', last') = Remaining(Answered, last)
  BY StepShown, HaltShown
<1> QED BY <1>1, <1>2 DEF Watch!Interrupt, Watch!Pause, Watch!LoseClock

LEMMA ClearStep ==
  ASSUME WatchInv, WatchInv', Held' = DefaultTimer, UNCHANGED sent
  PROVE  Watch!Clear
<1>1. Phase(DefaultTimer, last') = "stopped" /\ Owed(DefaultTimer, last') = 0
  BY TheDefault DEF Phase, Owed, Counting
<1>2. Answered'.state = "stopped" /\ Remaining(Answered', last') = 0 /\ last'.mono \in Nat
      /\ Answered'.id = 0
  BY <1>1, StepShown, TheDefault
<1>3. sent'[0] = 0
  BY DEF WatchInv, Telling
<1> QED BY <1>2, <1>3 DEF Watch!Clear

LEMMA WatchStarts == Init => Watch!Init
<1> SUFFICES ASSUME Init PROVE Watch!Init
  OBVIOUS
<1>1. WatchInv
  BY WatchInit
<1>2. Held = timer /\ last.mono = 0
  BY DEF Init, Held, NoStamp
<1>3. /\ Answered.state = Phase(timer, last) /\ Remaining(Answered, last) = Owed(timer, last)
      /\ Answered.id = timer.id
  BY <1>1, <1>2, Shown
<1>4. \/ timer.state = "stopped" /\ timer.remaining = 0 /\ timer.id = 0
      \/ timer.state = "interrupted" /\ timer.remaining = Unknown /\ timer.id = 0
  <2>1. LegacyTimer.state = "interrupted" /\ LegacyTimer.remaining = Unknown
        /\ LegacyTimer.id = 0
    BY DEF LegacyTimer, DefaultTimer
  <2> QED BY <2>1, TheDefault DEF Init
<1>5. Phase(timer, last) = timer.state /\ Owed(timer, last) = timer.remaining
  BY <1>4 DEF Phase, Owed, Counting
<1>6. sent[0] = 0
  BY <1>1 DEF WatchInv, Telling
<1> QED BY <1>2, <1>3, <1>4, <1>5, <1>6 DEF Watch!Init, Watch!Unknown, Unknown

LEMMA ReadStep ==
  ASSUME WatchInv, WatchInv', NEW to, Admit(to), ~ Lost,
         to \in {"drain", "apply", "check", "ended"}, pc \in {"tick", "loop", "sense", "finish"}
  PROVE  Watch!Run \/ Watch!Interrupt
<1>1. UNCHANGED <<timer, sent, boot, gen>> /\ last' = Here /\ pc' = to /\ Held = timer /\ Held' = timer
  BY DEF Admit, clocks, record, Held
<1>2. /\ Here \in Stamp /\ Here.boot = boot /\ Here.runtime = gen
      /\ Here.mono = mono /\ Here.susp = susp /\ Here # NoStamp
  BY DEF Here, Stamp, WatchInv, Types, NoStamp
<1>3. Known
  BY <1>2 DEF Lost, ContinuityLost, Age
<1>4. last.mono \in Nat /\ Here.mono \in Nat /\ last.mono <= Here.mono
  BY <1>2 DEF WatchInv, Types, Admitted, Stamp, NoStamp
<1>5. timer.state = "running" =>
        /\ timer.checkpoint.boot = last.boot /\ timer.checkpoint.runtime = last.runtime
        /\ last.boot = Here.boot /\ last.runtime = Here.runtime
        /\ timer.checkpoint.mono <= last.mono /\ last.mono <= Here.mono
        /\ last.susp <= Here.susp
  BY <1>2 DEF WatchInv, Admitted, Checkpointed
<1>6. timer \in Timer /\ WellFormed(timer) /\ last \in Stamp
  BY DEF WatchInv, Types
<1>7. \/ /\ Phase(timer, Here) = Phase(timer, last)
         /\ Owed(timer, Here) = IF Phase(timer, last) = "running"
              THEN Positive(Owed(timer, last) - (Here.mono - last.mono)) ELSE Owed(timer, last)
      \/ /\ Phase(timer, last) = "running" /\ Phase(timer, Here) = "interrupted"
         /\ Owed(timer, Here) >= Owed(timer, last)
  BY <1>2, <1>3, <1>5, <1>6, AdmitShown
<1>8. /\ Answered.state = Phase(timer, last) /\ Answered'.state = Phase(timer, Here)
      /\ Remaining(Answered, last) = Owed(timer, last)
      /\ Remaining(Answered', last') = Owed(timer, Here)
      /\ Answered.id = timer.id /\ Answered'.id = timer.id
  BY <1>1, StepShown
<1>9. sent'[Answered'.id] = sent[Answered.id]
  BY <1>1, <1>8
<1>10. CASE Phase(timer, Here) = Phase(timer, last)
            /\ Owed(timer, Here) = IF Phase(timer, last) = "running"
                 THEN Positive(Owed(timer, last) - (Here.mono - last.mono)) ELSE Owed(timer, last)
  <2> DEFINE d == Here.mono - last.mono
             o == Owed(timer, last)
  <2>1. Phase(timer, last) = "running" => timer.state = "running"
    BY DEF Phase
  <2>2. Phase(timer, last) = "running" => o \in Nat
    BY <1>6, <2>1, OwedType
  <2>3. d \in Nat
    BY <1>4
  <2>4. Phase(timer, last) = "running" => Positive(o - d) = IF o > d THEN o - d ELSE 0
    BY <2>2, <2>3 DEF Positive
  <2>5. Remaining(Answered', last') =
          IF Answered.state = "running" THEN IF o > d THEN o - d ELSE 0 ELSE o
    BY <1>8, <1>10, <2>4
  <2>6. last'.mono - last.mono = d /\ o = Remaining(Answered, last) /\ last'.mono >= last.mono
    BY <1>1, <1>4, <1>8
  <2> HIDE DEF d, o
  <2>7. Watch!Run
    BY <1>8, <1>9, <1>10, <2>5, <2>6 DEF Watch!Run, Watch!Less
  <2> QED BY <2>7
<1>11. CASE Phase(timer, last) = "running" /\ Phase(timer, Here) = "interrupted"
             /\ Owed(timer, Here) >= Owed(timer, last)
  BY <1>1, <1>4, <1>8, <1>9, <1>11 DEF Watch!Interrupt
<1> QED BY <1>7, <1>10, <1>11

LEMMA LoseStep ==
  ASSUME WatchInv, WatchInv', Loses, pc \in {"tick", "loop", "sense", "finish"}
  PROVE  Watch!Interrupt \/ Watch!Pause \/ Watch!LoseClock
<1>1. Held = timer /\ Held' = InterruptTimer(Held) /\ UNCHANGED sent /\ last' = NoStamp
  BY DEF Loses, Retire, RestoreTimer, Held
<1>2. Held \in Timer /\ WellFormed(Held)
  BY Shown
<1>3. Held' = Held => Held.state # "running"
  BY <1>1, <1>2, Interrupts
<1> QED BY <1>1, <1>3, HaltStep

LEMMA DeathStep ==
  ASSUME WatchInv, WatchInv', Exit \/ Kill \/ PowerLoss
  PROVE  Watch!Interrupt \/ Watch!Pause \/ Watch!LoseClock \/ Watch!Clear
<1>1. /\ UNCHANGED sent /\ pc' = "down" /\ last' = NoStamp
      /\ timer' \in {timer, InterruptTimer(timer), PauseTimer(timer, last)}
  BY DEF Exit, Kill, PowerLoss, Dead, record
<1>2. timer \in Timer /\ WellFormed(timer) /\ last \in Stamp
  BY DEF WatchInv, Types
<1>3. CASE pc \in {"restore", "boot"}
  <2>1. timer = DefaultTimer
    BY <1>3 DEF WatchInv, Checkpointed
  <2>2. timer' = DefaultTimer
    BY <1>1, <2>1, TheDefault, Zenon DEF InterruptTimer, PauseTimer
  <2> QED BY <1>1, <2>2, ClearStep DEF Held
<1>4. CASE pc \notin {"restore", "boot"}
  <2>1. Held = timer /\ Held' = timer'
    BY <1>1, <1>4 DEF Held
  <2>2. timer.state = "running" => timer.checkpoint.boot # 0
    BY DEF WatchInv, Checkpointed
  <2>3. timer.state = "running" => Age(timer.checkpoint, last') = Unknown
    BY <1>1, <2>2 DEF Age, NoStamp
  <2> QED BY <1>1, <2>1, <2>3, HaltStep
<1> QED BY <1>3, <1>4

LEMMA ApplyHeadStep ==
  ASSUME WatchInv, WatchInv', ApplyHead
  PROVE  [Watch!Next]_(Watch!vars)
<1> DEFINE c == Head(queue)
<1>1. /\ UNCHANGED <<pc, last, sent>> /\ pc \in {"drain", "apply", "natural"}
      /\ last # NoStamp /\ queue # <<>> /\ c \in Entries
      /\ \/ timer' = timer \/ timer' = DefaultTimer \/ timer' = PauseTimer(timer, last)
         \/ Resumed \/ Started(c)
  BY Intents
<1>2. /\ Held = timer /\ Held' = timer' /\ timer \in Timer /\ WellFormed(timer)
      /\ last \in Stamp /\ Known
  BY <1>1 DEF Held, WatchInv, Types, Admitted
<1>3. /\ Answered.state = Phase(timer, last) /\ Remaining(Answered, last) = Owed(timer, last)
      /\ Answered'.state = Phase(timer', last) /\ Remaining(Answered', last') = Owed(timer', last)
      /\ Answered.id = timer.id /\ Answered'.id = timer'.id
  BY <1>1, <1>2, StepShown
<1>4. CASE timer' = timer
  BY <1>1, <1>2, <1>4, StutterShown
<1>5. CASE timer' = DefaultTimer
  BY <1>1, <1>2, <1>5, ClearStep DEF Watch!Next
<1>6. CASE timer' = PauseTimer(timer, last) /\ timer' # timer
  BY <1>1, <1>2, <1>6, HaltStep DEF Watch!Next
<1>7. CASE Resumed
  <2>1. /\ timer.state \in {"paused", "interrupted"} /\ timer.remaining # Unknown
        /\ timer' = StartTimer(timer.id, timer.remaining, last)
    BY <1>7 DEF Resumed, CanResume
  <2>2. timer.remaining \in Nat /\ timer.id \in Nat
    BY <1>2, <2>1, TimerFields
  <2>3. timer'.id = timer.id /\ Phase(timer', last) = "running"
        /\ Owed(timer', last) = timer.remaining
    BY <1>1, <1>2, <2>1, <2>2, StartShown
  <2>4. Phase(timer, last) = timer.state /\ Owed(timer, last) = timer.remaining
    BY <2>1 DEF Phase, Owed, Counting
  <2>5. Watch!Resume
    BY <1>1, <1>3, <2>1, <2>2, <2>3, <2>4 DEF Watch!Resume, Watch!Unknown, Unknown
  <2> QED BY <2>5 DEF Watch!Next
<1>8. CASE Started(c)
  <2>1. PICK d \in Durations : timer' = StartTimer(c.n, d, last)
    BY <1>8 DEF Started
  <2>2. c.n \in Nat /\ d \in Nat
    BY <1>1, TimerAssumption, IntentKinds
  <2>3. timer'.id = c.n /\ Phase(timer', last) = "running" /\ Owed(timer', last) = d
    BY <1>1, <1>2, <2>1, <2>2, StartShown
  <2>4. Phase(timer, last) # "paused"
    BY <1>8 DEF Phase, Started
  <2>5. sent[c.n] = 0
    <3>1. queue \in Seq(Entries) /\ c \in Waiting
      BY <1>1 DEF WatchInv, Types, Waiting, ToSet
    <3> QED BY <3>1 DEF WatchInv, Telling
  <2> HIDE DEF c
  <2>6. Watch!Start
    BY <1>1, <1>3, <2>3, <2>4, <2>5 DEF Watch!Start
  <2> QED BY <2>6 DEF Watch!Next
<1> QED BY <1>1, <1>4, <1>5, <1>6, <1>7, <1>8

LEMMA CheckpointStep ==
  ASSUME WatchInv, WatchInv', Checkpoint \/ Publish
  PROVE  UNCHANGED Watch!vars
<1>1. /\ UNCHANGED <<last, sent>> /\ pc \in {"drain", "publish"}
      /\ pc' \in {"notify", "loop", "finish"}
      /\ timer' = timer \/ timer' = CheckpointTimer(timer, last)
  BY DEF Checkpoint, Publish, outside
<1>2. /\ Held = timer /\ Held' = timer' /\ timer \in Timer /\ WellFormed(timer)
      /\ last \in Stamp /\ last # NoStamp /\ Known
  BY <1>1 DEF Held, WatchInv, Types, Admitted
<1>3. CASE timer' = CheckpointTimer(timer, last)
  BY <1>1, <1>2, <1>3, CheckpointShown, StutterShown
<1>4. CASE timer' = timer
  BY <1>1, <1>2, <1>4, StutterShown
<1> QED BY <1>1, <1>3, <1>4

LEMMA NotifyStep ==
  ASSUME WatchInv, WatchInv', NEW told, NEW quiet, Notify(told, quiet),
         pc \in {"notify", "check"}, told \in {"send", "tell"}, quiet \in {"dispatch", "publish"}
  PROVE  Watch!Expire \/ UNCHANGED Watch!vars
<1>1. /\ UNCHANGED <<last, sent>> /\ pc' \in {told, quiet}
      /\ \/ timer' = timer
         \/ Expires(timer, last) /\ timer' = ExpireTimer(timer, last)
  BY DEF Notify, memory, outside, record
<1>2. /\ Held = timer /\ Held' = timer' /\ timer \in Timer /\ WellFormed(timer)
      /\ last \in Stamp
  BY <1>1 DEF Held, WatchInv, Types
<1>3. CASE timer' = timer
  BY <1>1, <1>2, <1>3, StutterShown
<1>4. CASE Expires(timer, last) /\ timer' = ExpireTimer(timer, last)
  <2>1. timer.state = "running" /\ Remaining(timer, last) = 0
    BY <1>4 DEF Expires
  <2>2. Counting(timer, last) /\ Owed(timer, last) = 0
    BY <1>2, <2>1, OwedIsRemaining DEF Unknown
  <2>3. timer'.state = "expired" /\ timer'.remaining = 0 /\ timer'.id = timer.id
    BY <1>2, <1>4 DEF ExpireTimer, Timer
  <2>4. /\ Phase(timer, last) = "running"
        /\ Phase(timer', last) = "expired" /\ Owed(timer', last) = 0
    BY <2>1, <2>2, <2>3 DEF Phase, Owed, Counting
  <2> QED BY <1>1, <1>2, <2>2, <2>3, <2>4, StepShown DEF Watch!Expire
<1> QED BY <1>1, <1>3, <1>4

LEMMA TellStep ==
  ASSUME WatchInv, WatchInv', NEW to, Tell(to), pc \in {"send", "tell"},
         to \in {"dispatch", "publish"}
  PROVE  Watch!Tell
<1>1. /\ UNCHANGED <<last, timer>> /\ pc' = to
      /\ sent' = [sent EXCEPT ![timer.id] = @ + 1]
  BY DEF Tell, record
<1>2. /\ Held = timer /\ Held' = timer /\ timer.state = "expired" /\ sent[timer.id] = 0
      /\ timer.id \in 0 .. MaxRequests /\ sent \in [0 .. MaxRequests -> Nat]
  <2>1. Held = timer /\ Held' = timer
    BY <1>1 DEF Held
  <2>2. timer.state = "expired" /\ sent[timer.id] = 0 /\ timer.id <= requests
    BY DEF WatchInv, Telling, Untold
  <2>3. timer.id \in Nat /\ requests \in 0 .. MaxRequests /\ MaxRequests \in Nat
        /\ sent \in [0 .. MaxRequests -> Nat]
    BY TimerFields, ClockAssumption DEF WatchInv, Types
  <2>4. timer.id \in 0 .. MaxRequests
    BY <2>2, <2>3
  <2> QED BY <2>1, <2>2, <2>3, <2>4
<1>3. Phase(timer, last) = "expired"
  BY <1>2 DEF Phase
<1>4. sent'[timer.id] = 1
  BY <1>1, <1>2
<1> QED BY <1>1, <1>2, <1>3, <1>4, StepShown DEF Watch!Tell

LEMMA StopStep ==
  ASSUME WatchInv, WatchInv', DispatchTerminal \/ FinishRecord
  PROVE  Watch!Interrupt \/ Watch!Pause \/ Watch!LoseClock \/ UNCHANGED Watch!vars
<1>1. /\ UNCHANGED <<last, sent>> /\ pc \in {"dispatch", "ended"} /\ pc' \in {"reset", "natural"}
      /\ timer' \in {timer, InterruptTimer(timer), PauseTimer(timer, last)}
  BY DEF DispatchTerminal, FinishRecord, outside
<1>2. Held = timer /\ Held' = timer'
  BY <1>1 DEF Held
<1> QED BY <1>1, <1>2, HaltStep, StutterShown

\* The steps that nobody who watches the timer sees.
LEMMA UnseenStep ==
  ASSUME WatchInv, WatchInv',
         \/ NoDispatch \/ DispatchCycle \/ Applied \/ Natural \/ Reset \/ Restore \/ Restart
         \/ Advance \/ Suspend \/ ReadRecord \/ AskTimer \/ AskMode \/ UNCHANGED vars
  PROVE  UNCHANGED Watch!vars
<1>1. CASE NoDispatch \/ DispatchCycle \/ Applied \/ Natural
  <2>1. /\ UNCHANGED <<timer, last, sent>> /\ pc \notin {"restore", "boot"}
        /\ pc' \notin {"restore", "boot"}
    BY <1>1 DEF NoDispatch, DispatchCycle, Applied, Natural, outside, record
  <2> QED BY <2>1, StutterShown DEF Held
<1>2. CASE Reset
  <2>1. UNCHANGED <<kept, last, sent>> /\ pc = "reset" /\ pc' = "restore"
    BY <1>2 DEF Reset, memory, outside
  <2>2. kept.timer = timer
    BY <2>1 DEF WatchInv, Checkpointed
  <2> QED BY <2>1, <2>2, StutterShown DEF Held
<1>3. CASE Restore \/ BootRestore
  <2>1. /\ UNCHANGED <<last, sent>> /\ pc \in {"restore", "boot"} /\ pc' = "tick"
        /\ timer' = kept.timer
    BY <1>3 DEF Restore, BootRestore, Restored, outside
  <2> QED BY <2>1, StutterShown DEF Held
<1>4. CASE Boot
  <2>1. /\ UNCHANGED <<last, sent>> /\ pc = "down" /\ pc' = "boot"
        /\ kept'.timer = InterruptTimer(timer)
    BY <1>4 DEF Boot, RestoreTimer
  <2>2. /\ Held = timer /\ Held' = InterruptTimer(timer) /\ last = NoStamp
        /\ timer \in Timer /\ WellFormed(timer) /\ last \in Stamp
    BY <2>1 DEF Held, WatchInv, Types, Admitted
  <2>3. timer.state = "running" => timer.checkpoint.boot # 0
    BY DEF WatchInv, Checkpointed
  <2>4. timer.state = "running" => ~ Counting(timer, last)
    BY <2>2, <2>3 DEF Counting, Age, NoStamp
  <2>5. CASE timer.state = "running"
    <3>1. Held' = Interrupted(timer)
      BY <2>2, <2>5 DEF InterruptTimer
    <3> QED BY <2>1, <2>2, <2>4, <2>5, <3>1, InterruptedFields, StutterShown
           DEF Phase, Owed, Counting
  <2>6. CASE timer.state # "running"
    BY <2>1, <2>2, <2>6, StutterShown DEF InterruptTimer
  <2> QED BY <2>5, <2>6
<1>5. CASE \/ Advance \/ Suspend \/ ReadRecord \/ AskTimer \/ AskMode \/ UNCHANGED vars
  <2>1. UNCHANGED <<timer, kept, pc, last, sent>>
    BY <1>5 DEF Advance, Suspend, ReadRecord, AskTimer, AskMode, Enqueue, vars, record, memory,
       outside
  <2> QED BY <2>1, StutterShown DEF Held
<1> QED BY <1>1, <1>2, <1>3, <1>4, <1>5 DEF Restart

LEMMA WatchSteps ==
  ASSUME WatchInv, WatchInv', [Next]_vars
  PROVE  [Watch!Next]_(Watch!vars)
<1>1. CASE AdmitTick \/ AdmitLoop \/ AdmitSense \/ Finish
  <2>1. /\ pc \in {"tick", "loop", "sense", "finish"}
        /\ Loses \/ \E to \in {"drain", "apply", "check", "ended"} : Reads(to)
    BY <1>1, ReadsOrLoses
  <2>2. CASE Loses
    BY <2>1, <2>2, LoseStep DEF Watch!Next
  <2>3. ASSUME NEW to \in {"drain", "apply", "check", "ended"}, Reads(to)
        PROVE  Watch!Next
    BY <2>1, <2>3, ReadStep DEF Reads, Watch!Next
  <2> QED BY <2>1, <2>2, <2>3
<1>2. CASE TickNotifies \/ CycleNotifies
  BY <1>2, NotifyStep, TellStep DEF TickNotifies, CycleNotifies, Watch!Next
<1>3. CASE Checkpoint \/ Publish
  BY <1>3, CheckpointStep
<1>4. CASE DispatchTerminal \/ FinishRecord
  BY <1>4, StopStep DEF Watch!Next
<1>5. CASE Exit \/ Kill \/ PowerLoss
  BY <1>5, DeathStep DEF Watch!Next
<1>6. CASE \/ NoDispatch \/ DispatchCycle \/ Applied \/ Natural \/ Reset \/ Restore \/ Restart
           \/ Advance \/ Suspend \/ ReadRecord \/ AskTimer \/ AskMode \/ UNCHANGED vars
  BY <1>6, UnseenStep
<1> QED BY <1>1, <1>2, <1>3, <1>4, <1>5, <1>6, ApplyHeadStep
        DEF Next, Control, Tick, Cycle, Environment

\* Drains, checkpoints, pauses, interruptions, resets, deaths and restarts add up to
\* a stopwatch.
THEOREM TimerIsStopwatch == Spec => IsStopwatch
<1>1. Init => WatchInv /\ ArmedInv /\ Watch!Init
  BY WatchInit, ArmedInit, WatchStarts
<1>2. WatchInv /\ ArmedInv /\ [Next]_vars
        => (WatchInv /\ ArmedInv)' /\ [Watch!Next]_(Watch!vars)
  BY WatchNext, ArmedNext, WatchSteps DEF ArmedInv
<1> QED BY <1>1, <1>2, PTL DEF Spec, IsStopwatch, Watch!Spec
=============================================================================
