------------------------- MODULE FramedPulse_proofs -------------------------
(***************************************************************************)
(* The invariant of Hold's framed pulses, for every length of frame and    *)
(* pulse, and what follows from it.                                        *)
(*                                                                         *)
(* The scheduler's arithmetic comes first (what a frame is given, what is  *)
(* left of its credit), then what advancing, cutting and forgetting pulses *)
(* make of them, then a step's view of the world, then one lemma a step.   *)
(* After that, in the same order, what each of these tells of the auger:   *)
(* its running time adds up from one report to the next.                   *)
(***************************************************************************)
EXTENDS FramedPulseProperties, FiniteSetTheorems, TLAPS

\* Whole pulses are no more than the time they are taken from, and less than
\* one pulse less; a frame is whole pulses.
LEMMA WholePulses ==
  ASSUME NEW n \in Nat
  PROVE  /\ (n \div PulseTime) * PulseTime \in 0..n
         /\ n - (n \div PulseTime) * PulseTime \in 0..PulseTime - 1
<1>1. /\ n \div PulseTime \in Nat
      /\ n % PulseTime \in 0..PulseTime - 1
      /\ n = PulseTime * (n \div PulseTime) + (n % PulseTime)
  BY TimingAssumption
<1> QED BY <1>1, TimingAssumption

LEMMA FrameOfPulses == (FrameTime \div PulseTime) * PulseTime = FrameTime
<1>1. /\ FrameTime \div PulseTime \in Nat
      /\ FrameTime = PulseTime * (FrameTime \div PulseTime) + (FrameTime % PulseTime)
  BY TimingAssumption
<1> QED BY <1>1, TimingAssumption

Schedulers ==
  [start : Nat \cup {Never}, at : Int, on : BOOLEAN, request : Int,
   credit : 0..PulseTime - 1, scheduled : Int, frameOn : Int, total : Int]

\* A scheduler whose frame has not been taken beyond t.
Within(s, t) ==
  /\ s \in Schedulers
  /\ IF Idle(s) THEN s.credit = 0 ELSE s.start <= s.at /\ s.at <= t

\* A frame begins with a credit of less than a pulse if the last one ended so.
LEMMA BeginFrameCredit ==
  ASSUME NEW s \in Schedulers, NEW request \in 0..FrameTime, NEW start \in Nat,
         NEW on \in BOOLEAN
  PROVE  LET b == BeginFrame(s, request, start, on)
         IN  /\ b \in Schedulers
             /\ b.start = start /\ b.at = start /\ b.on = on /\ b.total = s.total
             /\ b.credit = s.credit + (b.request - b.scheduled)
<1> DEFINE requested == request + s.credit
           capped == IF requested > FrameTime THEN FrameTime ELSE requested
           whole == (capped \div PulseTime) * PulseTime
           b == BeginFrame(s, request, start, on)
<1>1. requested \in Nat /\ requested < FrameTime + PulseTime
  BY TimingAssumption DEF Schedulers
<1>2. whole \in Int /\ requested - whole \in 0..PulseTime - 1
  <2>1. CASE requested > FrameTime
    BY <1>1, <2>1, FrameOfPulses, TimingAssumption
  <2>2. CASE ~ requested > FrameTime
    <3>1. whole = (requested \div PulseTime) * PulseTime
      BY <2>2
    <3> HIDE DEF whole, requested
    <3> QED BY <1>1, <3>1, WholePulses
  <2> QED BY <2>1, <2>2
<1>3. b = [s EXCEPT !.start = start, !.at = start, !.on = on, !.request = request,
                    !.scheduled = whole, !.credit = requested - whole, !.frameOn = 0]
  BY DEF BeginFrame
<1>4. requested = request + s.credit /\ s.credit \in Int
  BY TimingAssumption DEF Schedulers
<1> HIDE DEF whole, requested, b
<1>5. b \in Schedulers
  <2>1. start \in Nat \cup {Never} /\ start \in Int /\ request \in Int /\ 0 \in Int
    BY TimingAssumption
  <2> QED BY <1>2, <1>3, <2>1, Zenon DEF Schedulers
<1>6. /\ b.start = start /\ b.at = start /\ b.on = on /\ b.total = s.total
      /\ b.request = request /\ b.scheduled = whole /\ b.credit = requested - whole
  BY <1>3, Zenon DEF Schedulers
<1>7. b.credit = s.credit + (b.request - b.scheduled)
  BY <1>1, <1>2, <1>4, <1>6
<1> QED BY <1>5, <1>6, <1>7 DEF b

LEMMA AccountUntilKeeps ==
  ASSUME NEW s \in Schedulers, NEW t \in Int
  PROVE  LET b == AccountUntil(s, t)
         IN  /\ b \in Schedulers
             /\ b.start = s.start /\ b.at = t /\ b.on = s.on /\ b.credit = s.credit
             /\ b.request = s.request /\ b.scheduled = s.scheduled
<1> DEFINE run == IF s.on THEN t - s.at ELSE 0
<1>1. run \in Int /\ s.total + run \in Int /\ s.frameOn + run \in Int
  BY DEF Schedulers
<1>2. AccountUntil(s, t) = [s EXCEPT !.total = s.total + run,
                                     !.frameOn = s.frameOn + run, !.at = t]
  BY Zenon DEF AccountUntil, Schedulers
<1> HIDE DEF run
<1> QED BY <1>1, <1>2, Zenon DEF Schedulers

Frames == [start : Int, end : Int, on : Int, kind : {"complete", "skipped", "reset"}]

\* Frames that began at from or later; one that is complete has its full length.
FramesFrom(frames, from) ==
  /\ frames \in Seq(Frames)
  /\ \A i \in DOMAIN frames : /\ frames[i].start >= from
                              /\ frames[i].kind = "complete"
                                   => frames[i].end = frames[i].start + FrameTime

\* What is owed once a scheduler has come to b.
Carried(s, b) ==
  b.credit = IF b.start = s.start THEN s.credit
             ELSE IF Idle(s) \/ b.start > s.start + FrameTime
                  THEN b.request - b.scheduled
             ELSE s.credit + (b.request - b.scheduled)

LEMMA FramesAfterFacts ==
  ASSUME NEW s \in Schedulers, ~ Idle(s), NEW crossed \in Nat \ {0},
         NEW request \in 0..FrameTime, NEW t \in Nat,
         s.start + crossed * FrameTime <= t
  PROVE  LET a == FramesAfter(AccountUntil(s, s.start + FrameTime), crossed, request, t)
         IN  /\ a.scheduler \in Schedulers /\ ~ Idle(a.scheduler)
             /\ s.start <= a.scheduler.start /\ a.scheduler.start <= t
             /\ a.scheduler.at = t
             /\ Carried(s, a.scheduler)
             /\ FramesFrom(a.frames, s.start)
<1> DEFINE done == AccountUntil(s, s.start + FrameTime)
           more == IF done.on THEN (crossed - 1) * FrameTime ELSE 0
           after == [done EXCEPT !.credit = IF crossed > 1 THEN 0 ELSE done.credit,
                                 !.total = done.total + more]
           begin == s.start + crossed * FrameTime
           next == BeginFrame(after, request, begin, done.on)
           skipped == [i \in 1..crossed - 1 |-> SkipFrame(done, s.start + i * FrameTime)]
           a == FramesAfter(done, crossed, request, t)
<1>1. /\ s.start \in Nat /\ FrameTime \in Nat \ {0} /\ s.start + FrameTime \in Int
      /\ s.credit \in Int
  BY TimingAssumption DEF Schedulers, Idle
<1>2. /\ done \in Schedulers /\ done.start = s.start /\ done.at = s.start + FrameTime
      /\ done.credit = s.credit /\ done.on \in BOOLEAN /\ done.frameOn \in Int
      /\ done.total \in Int
  <2>1. done \in Schedulers /\ done.start = s.start /\ done.at = s.start + FrameTime
        /\ done.credit = s.credit
    BY <1>1, AccountUntilKeeps
  <2> HIDE DEF done
  <2> QED BY <2>1 DEF Schedulers
<1>3. /\ crossed * FrameTime \in Nat /\ crossed * FrameTime >= FrameTime
      /\ crossed > 1 => crossed * FrameTime > FrameTime
      /\ crossed = 1 => crossed * FrameTime = FrameTime
      /\ \A i \in 1..crossed - 1 : i * FrameTime \in Nat
      /\ (crossed - 1) * FrameTime \in Int
  BY <1>1
<1> HIDE DEF done
<1>4. a = [scheduler |-> AccountUntil(next, t),
           frames |-> <<Finished(done, "complete")>> \o skipped]
  BY <1>2, Zenon DEF FramesAfter
<1>5. /\ after \in Schedulers
      /\ after.credit = IF crossed > 1 THEN 0 ELSE s.credit
  <2>1. more \in Int /\ done.total + more \in Int
    BY <1>2, <1>3
  <2>2. (IF crossed > 1 THEN 0 ELSE done.credit) \in 0..PulseTime - 1
    <3>1. done.credit \in 0..PulseTime - 1
      BY <1>2 DEF Schedulers
    <3> QED BY <3>1, TimingAssumption
  <2> HIDE DEF more
  <2>3. after \in Schedulers
    BY <1>2, <2>1, <2>2, Zenon DEF Schedulers
  <2>4. after.credit = IF crossed > 1 THEN 0 ELSE done.credit
    BY <1>2, Zenon DEF Schedulers
  <2> QED BY <1>2, <2>3, <2>4
<1> HIDE DEF after
<1>6. begin \in Nat /\ begin <= t /\ begin > s.start /\ begin \in Int
  BY <1>1, <1>3
<1>7. /\ next \in Schedulers /\ next.start = begin
      /\ next.credit = after.credit + (next.request - next.scheduled)
  <2> HIDE DEF begin
  <2> QED BY <1>2, <1>5, <1>6, BeginFrameCredit
<1> HIDE DEF next
<1>8. /\ a.scheduler \in Schedulers /\ a.scheduler.start = begin
      /\ a.scheduler.at = t /\ a.scheduler.credit = next.credit
      /\ a.scheduler.request = next.request /\ a.scheduler.scheduled = next.scheduled
  <2>1. a.scheduler = AccountUntil(next, t) /\ t \in Int
    BY <1>4
  <2> HIDE DEF begin, a
  <2> QED BY <1>7, <2>1, AccountUntilKeeps
<1>9. Carried(s, a.scheduler)
  <2>1. next.request \in Int /\ next.scheduled \in Int
    BY <1>7 DEF Schedulers
  <2>2. ~ Idle(s) /\ a.scheduler.start # s.start
    BY <1>1, <1>6, <1>8
  <2>3. CASE crossed > 1
    <3>1. a.scheduler.start > s.start + FrameTime
      BY <1>1, <1>3, <1>8, <2>3
    <3>2. a.scheduler.credit = a.scheduler.request - a.scheduler.scheduled
      BY <1>5, <1>7, <1>8, <2>1, <2>3
    <3> QED BY <2>2, <3>1, <3>2 DEF Carried
  <2>4. CASE crossed = 1
    <3>1. ~ a.scheduler.start > s.start + FrameTime
      BY <1>1, <1>3, <1>8, <2>4
    <3>2. a.scheduler.credit = s.credit + (a.scheduler.request - a.scheduler.scheduled)
      BY <1>1, <1>5, <1>7, <1>8, <2>1, <2>4
    <3> QED BY <2>2, <3>1, <3>2 DEF Carried
  <2> QED BY <2>3, <2>4
<1>10. FramesFrom(a.frames, s.start)
  <2>1. /\ Finished(done, "complete") \in Frames
        /\ Finished(done, "complete").start >= s.start
        /\ Finished(done, "complete").end = Finished(done, "complete").start + FrameTime
    BY <1>1, <1>2 DEF Finished, Frames
  <2>2. \A i \in 1..crossed - 1 : /\ skipped[i] \in Frames
                                  /\ skipped[i].start >= s.start
                                  /\ skipped[i].end = skipped[i].start + FrameTime
    BY <1>1, <1>2, <1>3 DEF SkipFrame, Frames
  <2>3. skipped \in Seq(Frames) /\ Len(skipped) = crossed - 1
    <3>1. crossed - 1 \in Nat /\ skipped \in [1..crossed - 1 -> Frames]
      BY <2>2
    <3> HIDE DEF skipped
    <3> QED BY <3>1
  <2> HIDE DEF skipped
  <2>4. <<Finished(done, "complete")>> \in Seq(Frames)
    BY <2>1
  <2>5. a.frames = <<Finished(done, "complete")>> \o skipped
    BY <1>4
  <2>6. \A i \in DOMAIN a.frames :
          a.frames[i] = IF i = 1 THEN Finished(done, "complete") ELSE skipped[i - 1]
    BY <2>3, <2>4, <2>5
  <2>7. DOMAIN a.frames = 1..crossed
    BY <2>3, <2>4, <2>5
  <2>8. \A i \in DOMAIN a.frames : /\ a.frames[i].start >= s.start
                                   /\ a.frames[i].end = a.frames[i].start + FrameTime
    <3>1. ASSUME NEW i \in DOMAIN a.frames, i # 1
          PROVE  /\ a.frames[i].start >= s.start
                 /\ a.frames[i].end = a.frames[i].start + FrameTime
      <4>1. i - 1 \in 1..crossed - 1 /\ a.frames[i] = skipped[i - 1]
        BY <2>6, <2>7, <3>1
      <4> QED BY <2>2, <4>1
    <3>2. 1 \in DOMAIN a.frames => a.frames[1] = Finished(done, "complete")
      BY <2>6
    <3> QED BY <2>1, <3>1, <3>2
  <2>9. a.frames \in Seq(Frames)
    BY <2>3, <2>4, <2>5
  <2> QED BY <2>8, <2>9 DEF FramesFrom
<1>11. ~ Idle(a.scheduler) /\ s.start <= a.scheduler.start /\ a.scheduler.start <= t
  BY <1>1, <1>6, <1>8 DEF Idle, Never
<1> QED BY <1>8, <1>9, <1>10, <1>11 DEF done

\* What advancing a scheduler to t yields.
LEMMA AdvanceToFacts ==
  ASSUME NEW s, NEW t \in Nat, Within(s, t), NEW request \in 0..FrameTime,
         NEW on \in BOOLEAN
  PROVE  LET a == AdvanceTo(s, request, t, on)
             b == a.scheduler
         IN  /\ b \in Schedulers /\ ~ Idle(b) /\ b.start <= t /\ b.at = t
             /\ ~ Idle(s) => s.start <= b.start
             /\ Idle(s) => b.start = t /\ a.frames = <<>>
             /\ Carried(s, b)
             /\ FramesFrom(a.frames, s.start)
<1> DEFINE a == AdvanceTo(s, request, t, on)
<1>0. s \in Schedulers /\ t \in Int
  BY DEF Within
<1>1. CASE Idle(s)
  <2>1. a = [scheduler |-> BeginFrame(s, request, t, on), frames |-> <<>>]
    BY <1>1 DEF AdvanceTo
  <2> DEFINE b == BeginFrame(s, request, t, on)
  <2>2. /\ b \in Schedulers /\ b.start = t /\ b.at = t
        /\ b.credit = s.credit + (b.request - b.scheduled)
    BY <1>0, BeginFrameCredit
  <2>3. s.credit = 0 /\ s.start = Never
    BY <1>1 DEF Within, Idle
  <2> HIDE DEF b
  <2>4. b.request - b.scheduled \in Int
    BY <2>2 DEF Schedulers
  <2>5. Carried(s, b) /\ ~ Idle(b)
    BY <1>1, <2>2, <2>3, <2>4 DEF Carried, Idle, Never
  <2>6. FramesFrom(<<>>, s.start)
    BY DEF FramesFrom
  <2> QED BY <1>1, <2>1, <2>2, <2>5, <2>6 DEF b
<1>2. CASE ~ Idle(s)
  <2> DEFINE crossed == (t - s.start) \div FrameTime
             m == AdvanceFrames(s, request, t)
  <2>1. s.start \in Nat /\ s.start <= t /\ s.at \in Int
    BY <1>0, <1>2 DEF Within, Idle, Schedulers
  <2>2. crossed \in Nat /\ s.start + crossed * FrameTime <= t
    <3>1. t - s.start \in Nat
      BY <2>1
    <3>2. /\ (t - s.start) \div FrameTime \in Nat
          /\ (t - s.start) % FrameTime \in Nat
          /\ t - s.start = FrameTime * ((t - s.start) \div FrameTime)
                             + ((t - s.start) % FrameTime)
      BY <3>1, TimingAssumption
    <3> QED BY <2>1, <3>2, TimingAssumption
  <2> HIDE DEF crossed
  <2>3. /\ m.scheduler \in Schedulers /\ ~ Idle(m.scheduler)
        /\ s.start <= m.scheduler.start /\ m.scheduler.start <= t
        /\ m.scheduler.at = t /\ Carried(s, m.scheduler)
        /\ FramesFrom(m.frames, s.start)
        /\ m = [scheduler |-> m.scheduler, frames |-> m.frames]
    <3>1. CASE crossed = 0
      <4> DEFINE b == AccountUntil(s, t)
      <4>1. m = [scheduler |-> b, frames |-> <<>>]
        BY <3>1 DEF AdvanceFrames, crossed
      <4>2. /\ b \in Schedulers /\ b.start = s.start /\ b.at = t /\ b.credit = s.credit
        BY <1>0, AccountUntilKeeps
      <4> HIDE DEF b
      <4>3. FramesFrom(<<>>, s.start)
        BY DEF FramesFrom
      <4> QED BY <1>2, <2>1, <4>1, <4>2, <4>3 DEF Carried, Idle
    <3>2. CASE crossed # 0
      <4> DEFINE f == FramesAfter(AccountUntil(s, s.start + FrameTime), crossed, request, t)
      <4>1. m = f
        BY <3>2 DEF AdvanceFrames, crossed
      <4>2. crossed \in Nat \ {0}
        BY <2>2, <3>2
      <4>3. f = [scheduler |-> f.scheduler, frames |-> f.frames]
        BY DEF FramesAfter
      <4> HIDE DEF m
      <4>4. /\ f.scheduler \in Schedulers /\ ~ Idle(f.scheduler)
            /\ s.start <= f.scheduler.start /\ f.scheduler.start <= t
            /\ f.scheduler.at = t
            /\ Carried(s, f.scheduler)
            /\ FramesFrom(f.frames, s.start)
        BY <1>0, <1>2, <2>2, <4>2, FramesAfterFacts
      <4> HIDE DEF f
      <4> QED BY <4>1, <4>3, <4>4
    <3> QED BY <3>1, <3>2
  <2>4. a = [m EXCEPT !.scheduler.on = on]
    BY <1>2 DEF AdvanceTo
  <2> HIDE DEF m
  <2>5. a.frames = m.frames /\ a.scheduler = [m.scheduler EXCEPT !.on = on]
    BY <2>3, <2>4
  <2>6. a.scheduler \in Schedulers
    BY <2>3, <2>5, Zenon DEF Schedulers
  <2>7. /\ a.scheduler.start = m.scheduler.start /\ a.scheduler.at = m.scheduler.at
        /\ a.scheduler.credit = m.scheduler.credit
        /\ a.scheduler.request = m.scheduler.request
        /\ a.scheduler.scheduled = m.scheduler.scheduled
    BY <2>3, <2>5, Zenon DEF Schedulers
  <2> QED BY <1>2, <2>3, <2>5, <2>6, <2>7 DEF Carried, Idle
<1> QED BY <1>1, <1>2

-----------------------------------------------------------------------------
(* The pulses of Hold *)

Observations ==
  [start : Int, end : Int, on : Int, role : Roles, acquired : Int, continuous : BOOLEAN]
Samples == [known : BOOLEAN, acquired : Int, role : Roles]
Latches == [solved : BOOLEAN, stale : BOOLEAN, role : Roles]
Pulses ==
  [sched : Schedulers, latched : Latches, from : Int, on : Int, metrics : Int,
   pending : {Nothing} \cup Observations]
Holds ==
  [request : 0..FrameTime, solved : BOOLEAN, stale : BOOLEAN, manual : BOOLEAN,
   lid : BOOLEAN, phase : {"holding", "failing", "done", "failed"}]

\* An observation that waits is not continuous yet, and is of a full frame that
\* began after d.
PendingAfter(p, d) ==
  p.pending # Nothing =>
    /\ ~ p.pending.continuous
    /\ p.pending.end = p.pending.start + FrameTime
    /\ d <= p.pending.start

\* Pulses last interrupted at d, the scheduler not beyond t.
PulseOK(p, d, t) ==
  /\ p \in Pulses
  /\ Within(p.sched, t)
  /\ ~ Idle(p.sched) => d <= p.sched.start
  /\ PendingAfter(p, d)

Fresh(o, d, t) ==
  o.continuous => /\ o.end <= o.acquired /\ o.acquired < o.end + FrameTime
                  /\ o.acquired <= t
                  /\ d <= o.start \/ d >= o.acquired
AllFresh(obs, d, t) ==
  obs \in Seq(Observations) /\ \A i \in DOMAIN obs : Fresh(obs[i], d, t)
NoneContinuous(obs) ==
  obs \in Seq(Observations) /\ \A i \in DOMAIN obs : ~ obs[i].continuous

LEMMA AllFreshConcat ==
  ASSUME NEW a, NEW b, NEW d, NEW t, AllFresh(a, d, t), AllFresh(b, d, t)
  PROVE  AllFresh(a \o b, d, t)
<1>1. a \in Seq(Observations) /\ b \in Seq(Observations)
  BY DEF AllFresh
<1>2. a \o b \in Seq(Observations)
  BY <1>1
<1>3. ASSUME NEW i \in DOMAIN (a \o b)
      PROVE  Fresh((a \o b)[i], d, t)
  <2>1. CASE i <= Len(a)
    <3>1. i \in DOMAIN a /\ (a \o b)[i] = a[i]
      BY <1>1, <1>3, <2>1
    <3> QED BY <3>1 DEF AllFresh
  <2>2. CASE ~ i <= Len(a)
    <3>1. i - Len(a) \in DOMAIN b /\ (a \o b)[i] = b[i - Len(a)]
      BY <1>1, <1>3, <2>2
    <3> QED BY <3>1 DEF AllFresh
  <2> QED BY <2>1, <2>2
<1> QED BY <1>2, <1>3 DEF AllFresh

LEMMA NoneContinuousConcat ==
  ASSUME NEW a, NEW b, NoneContinuous(a), NoneContinuous(b)
  PROVE  NoneContinuous(a \o b)
<1>1. a \in Seq(Observations) /\ b \in Seq(Observations)
  BY DEF NoneContinuous
<1>2. a \o b \in Seq(Observations)
  BY <1>1
<1>3. ASSUME NEW i \in DOMAIN (a \o b)
      PROVE  ~ (a \o b)[i].continuous
  <2>1. CASE i <= Len(a)
    <3>1. i \in DOMAIN a /\ (a \o b)[i] = a[i]
      BY <1>1, <1>3, <2>1
    <3> QED BY <3>1 DEF NoneContinuous
  <2>2. CASE ~ i <= Len(a)
    <3>1. i - Len(a) \in DOMAIN b /\ (a \o b)[i] = b[i - Len(a)]
      BY <1>1, <1>3, <2>2
    <3> QED BY <3>1 DEF NoneContinuous
  <2> QED BY <2>1, <2>2
<1> QED BY <1>2, <1>3 DEF NoneContinuous

LEMMA NoneContinuousFresh ==
  ASSUME NEW a, NEW d, NEW t, NoneContinuous(a)
  PROVE  AllFresh(a, d, t)
BY DEF NoneContinuous, AllFresh, Fresh

LEMMA EmptyNotContinuous == NoneContinuous(<<>>)
BY DEF NoneContinuous

\* What is observed of complete frames.
LEMMA ObservationType ==
  ASSUME NEW f \in Frames, NEW latched \in Latches, NEW sample \in Samples,
         NEW inhibited \in BOOLEAN
  PROVE  /\ Observation(f, latched, sample, inhibited) \in Observations
         /\ inhibited => ~ Observation(f, latched, sample, inhibited).continuous
BY DEF Observation, Frames, Latches, Samples, Observations

LEMMA ObservedFresh ==
  ASSUME NEW frames, NEW d \in Int, NEW t \in Int, FramesFrom(frames, d),
         NEW latched \in Latches, NEW sample \in Samples, sample.acquired <= t
  PROVE  AllFresh(Observed(frames, latched, sample, FALSE), d, t)
<1> DEFINE obs == [i \in DOMAIN frames |-> Observation(frames[i], latched, sample, FALSE)]
<1>1. frames \in Seq(Frames) /\ \A i \in DOMAIN frames : frames[i] \in Frames
  BY DEF FramesFrom
<1>2. ASSUME NEW i \in DOMAIN frames
      PROVE  obs[i] \in Observations /\ Fresh(obs[i], d, t)
  <2>1. obs[i] = Observation(frames[i], latched, sample, FALSE)
    OBVIOUS
  <2>2. /\ frames[i].start \in Int /\ frames[i].start >= d
        /\ frames[i].end \in Int
        /\ frames[i].kind = "complete" => frames[i].end = frames[i].start + FrameTime
    BY <1>1, <1>2 DEF FramesFrom, Frames
  <2>3. obs[i].continuous =>
          /\ frames[i].kind = "complete" /\ sample.acquired >= frames[i].end
          /\ sample.acquired < frames[i].end + (frames[i].end - frames[i].start)
    BY <2>1 DEF Observation
  <2>4. obs[i].start = frames[i].start /\ obs[i].end = frames[i].end
        /\ obs[i].acquired = sample.acquired
    BY <2>1 DEF Observation
  <2>5. sample.acquired \in Int
    BY DEF Samples
  <2>6. obs[i] \in Observations
    BY <1>1, <2>1, ObservationType
  <2> HIDE DEF obs
  <2>7. ASSUME obs[i].continuous
        PROVE  /\ frames[i].end <= sample.acquired
               /\ sample.acquired < frames[i].end + FrameTime
               /\ d <= frames[i].start
    <3>1. FrameTime \in Int /\ frames[i].end - frames[i].start = FrameTime
      BY <2>2, <2>3, <2>7, TimingAssumption
    <3> QED BY <2>2, <2>3, <2>5, <2>7, <3>1
  <2>8. Fresh(obs[i], d, t)
    BY <2>4, <2>7 DEF Fresh
  <2> QED BY <2>6, <2>8
<1>3. obs \in [1..Len(frames) -> Observations] /\ Len(frames) \in Nat
  <2>1. obs \in [DOMAIN frames -> Observations]
    BY <1>2
  <2>2. DOMAIN frames = 1..Len(frames) /\ Len(frames) \in Nat
    BY <1>1
  <2> QED BY <2>1, <2>2
<1>4. DOMAIN obs = DOMAIN frames
  OBVIOUS
<1> HIDE DEF obs
<1>5. obs \in Seq(Observations)
  BY <1>3
<1>6. AllFresh(obs, d, t)
  BY <1>2, <1>4, <1>5 DEF AllFresh
<1>7. AllFresh(<<>>, d, t)
  BY EmptyNotContinuous, NoneContinuousFresh
<1> QED BY <1>6, <1>7 DEF Observed, obs

LEMMA ObservedInhibited ==
  ASSUME NEW frames \in Seq(Frames), NEW latched \in Latches, NEW sample \in Samples
  PROVE  NoneContinuous(Observed(frames, latched, sample, TRUE))
<1> DEFINE obs == [i \in DOMAIN frames |-> Observation(frames[i], latched, sample, TRUE)]
<1>1. \A i \in DOMAIN frames : frames[i] \in Frames
  OBVIOUS
<1>2. \A i \in DOMAIN frames : obs[i] \in Observations /\ ~ obs[i].continuous
  BY <1>1, ObservationType
<1>3. obs \in [1..Len(frames) -> Observations] /\ Len(frames) \in Nat
  <2>1. obs \in [DOMAIN frames -> Observations]
    BY <1>2
  <2>2. DOMAIN frames = 1..Len(frames) /\ Len(frames) \in Nat
    OBVIOUS
  <2> QED BY <2>1, <2>2
<1>4. DOMAIN obs = DOMAIN frames
  OBVIOUS
<1> HIDE DEF obs
<1>5. obs \in Seq(Observations)
  BY <1>3
<1>6. NoneContinuous(obs)
  BY <1>2, <1>4, <1>5 DEF NoneContinuous
<1> QED BY <1>6, EmptyNotContinuous DEF Observed, obs

\* What comes of the observation that waits.
LEMMA ResolvedFresh ==
  ASSUME NEW p, NEW d \in Int, NEW t \in Int, NEW t0, PulseOK(p, d, t0),
         NEW sample \in Samples
  PROVE  AllFresh(Resolved(p, sample, t), d, t)
<1> DEFINE o == [p.pending EXCEPT !.continuous = TRUE, !.acquired = sample.acquired]
<1>1. CASE p.pending = Nothing \/ Waits(p, sample, t)
  BY <1>1, EmptyNotContinuous, NoneContinuousFresh DEF Resolved
<1>2. CASE ~ (p.pending = Nothing \/ Waits(p, sample, t))
  <2>1. p.pending # Nothing /\ ~ Waits(p, sample, t) /\ p.pending \in Observations
    BY <1>2 DEF PulseOK, Pulses
  <2>2. /\ ~ p.pending.continuous
        /\ p.pending.end = p.pending.start + FrameTime
        /\ d <= p.pending.start
    BY <2>1 DEF PulseOK, PendingAfter
  <2>3. CASE Resolvable(p.pending, sample, t)
    <3>1. sample.acquired \in Int
      BY DEF Samples
    <3>2. /\ o \in Observations /\ o.start = p.pending.start /\ o.end = p.pending.end
          /\ o.acquired = sample.acquired
      BY <2>1, <3>1, Zenon DEF Observations
    <3>3. /\ sample.acquired <= t /\ t < p.pending.end + (p.pending.end - p.pending.start)
          /\ ~ sample.acquired < p.pending.end
      BY <2>1, <2>3 DEF Resolvable, Waits
    <3>4. p.pending.start \in Int /\ p.pending.end \in Int
      BY <2>1 DEF Observations
    <3> HIDE DEF o
    <3>5. Fresh(o, d, t)
      BY <2>2, <3>1, <3>2, <3>3, <3>4, TimingAssumption DEF Fresh
    <3>6. Resolved(p, sample, t) = <<o>>
      BY <1>2, <2>3 DEF Resolved, o
    <3> QED BY <3>2, <3>5, <3>6 DEF AllFresh
  <2>4. CASE ~ Resolvable(p.pending, sample, t)
    <3>1. Resolved(p, sample, t) = <<p.pending>>
      BY <1>2, <2>4 DEF Resolved
    <3>2. NoneContinuous(<<p.pending>>)
      BY <2>1, <2>2 DEF NoneContinuous
    <3> QED BY <3>1, <3>2, NoneContinuousFresh
  <2> QED BY <2>3, <2>4
<1> QED BY <1>1, <1>2

LEMMA InvalidatedNotContinuous ==
  ASSUME NEW p, NEW d, NEW t, PulseOK(p, d, t)
  PROVE  NoneContinuous(Invalidated(p))
<1>1. CASE p.pending = Nothing
  BY <1>1, EmptyNotContinuous DEF Invalidated
<1>2. CASE p.pending # Nothing
  <2>1. p.pending \in Observations /\ ~ p.pending.continuous
    BY <1>2 DEF PulseOK, Pulses, PendingAfter
  <2> QED BY <1>2, <2>1 DEF Invalidated, NoneContinuous
<1> QED BY <1>1, <1>2


LEMMA PulseOKLater ==
  ASSUME NEW p, NEW d, NEW t \in Int, NEW u \in Int, t <= u, PulseOK(p, d, t)
  PROVE  PulseOK(p, d, u)
BY DEF PulseOK, Within, Schedulers

\* Advancing the pulses.
LEMMA AdvancePulseFacts ==
  ASSUME NEW p, NEW t \in Nat, NEW d \in 0..t, PulseOK(p, d, t), NEW h \in Holds,
         NEW on \in BOOLEAN, NEW sample \in Samples, sample.acquired <= t
  PROVE  LET r == AdvancePulse(p, h, t, on, sample)
         IN  /\ PulseOK(r.pulse, d, t)
             /\ ~ Idle(r.pulse.sched)
             /\ Carried(p.sched, r.pulse.sched)
             /\ AllFresh(r.result.observations, d, t)
<1> DEFINE a == AdvanceTo(p.sched, h.request, t, on)
           r == AdvancePulse(p, h, t, on, sample)
           ended == a.frames # <<>>
           deferred == ended /\ Deferred(a.frames[1], a.frames, p.latched, sample, t)
           latched == IF ended \/ Idle(p.sched) THEN Latch(h, sample.role) ELSE p.latched
           first == ~ended /\ ~p.latched.solved /\ latched.solved
           at == IF ended THEN a.frames[Len(a.frames)].end ELSE t
           total == IF ended THEN a.scheduler.total - a.scheduler.frameOn
                    ELSE a.scheduler.total
           report == (ended \/ first) /\ at > p.from
           wait == IF deferred THEN Observation(a.frames[1], p.latched, sample, FALSE)
                   ELSE IF Waits(p, sample, t) THEN p.pending ELSE Nothing
           from == IF report THEN at ELSE p.from
           onto == IF report THEN total ELSE p.on
           q == [p EXCEPT !.sched = a.scheduler, !.latched = latched,
                          !.metrics = a.scheduler.total, !.from = from, !.on = onto,
                          !.pending = wait]
           observations == Resolved(p, sample, t)
                 \o IF deferred THEN <<>> ELSE Observed(a.frames, p.latched, sample, FALSE)
<1>1. /\ p \in Pulses /\ Within(p.sched, t) /\ p.latched \in Latches
      /\ p.from \in Int /\ p.on \in Int
      /\ p.pending \in {Nothing} \cup Observations
      /\ h.request \in 0..FrameTime
  BY DEF PulseOK, Pulses, Holds
<1>2. /\ a.scheduler \in Schedulers /\ ~ Idle(a.scheduler)
      /\ a.scheduler.start <= t /\ a.scheduler.at = t
      /\ ~ Idle(p.sched) => p.sched.start <= a.scheduler.start
      /\ Idle(p.sched) => a.scheduler.start = t /\ a.frames = <<>>
      /\ Carried(p.sched, a.scheduler)
      /\ FramesFrom(a.frames, p.sched.start)
  BY <1>1, AdvanceToFacts
<1>3. r.pulse = q /\ r.result.observations = observations
  BY Zenon DEF AdvancePulse, Advanced
<1> HIDE DEF a, r
<1>4. a.scheduler.total \in Int /\ a.scheduler.frameOn \in Int /\ a.scheduler.start \in Int
  BY <1>2 DEF Schedulers, Never
<1>5. a.frames \in Seq(Frames)
  BY <1>2 DEF FramesFrom
<1>6. latched \in Latches
  BY <1>1 DEF Latch, Latches, Holds, Samples
<1>7. at \in Int /\ total \in Int
  <2>1. CASE ended
    <3>1. Len(a.frames) \in DOMAIN a.frames
      BY <1>5, <2>1
    <3>2. a.frames[Len(a.frames)] \in Frames
      BY <1>5, <3>1
    <3> QED BY <1>4, <2>1, <3>2 DEF Frames
  <2>2. CASE ~ ended
    BY <1>4, <2>2
  <2> QED BY <2>1, <2>2
<1>8. from \in Int /\ onto \in Int
  BY <1>1, <1>7
<1>9. FramesFrom(a.frames, d)
  <2>1. CASE Idle(p.sched)
    BY <1>2, <2>1 DEF FramesFrom
  <2>2. CASE ~ Idle(p.sched)
    <3>1. d <= p.sched.start /\ p.sched.start \in Int
      BY <1>1, <2>2 DEF PulseOK, Pulses, Schedulers, Never
    <3>2. ASSUME NEW i \in DOMAIN a.frames
          PROVE  a.frames[i].start >= d
      <4>1. a.frames[i] \in Frames
        BY <1>5, <3>2
      <4>2. a.frames[i].start >= p.sched.start /\ a.frames[i].start \in Int
        BY <1>2, <3>2, <4>1 DEF FramesFrom, Frames
      <4> QED BY <3>1, <4>2
    <3> QED BY <1>2, <3>2 DEF FramesFrom
  <2> QED BY <2>1, <2>2
<1>10. /\ wait \in {Nothing} \cup Observations
       /\ wait # Nothing => /\ ~ wait.continuous
                            /\ wait.end = wait.start + FrameTime
                            /\ d <= wait.start
  <2>1. CASE deferred
    <3> DEFINE f == a.frames[1]
    <3>1. 1 \in DOMAIN a.frames /\ f \in Frames
      BY <1>5, <2>1
    <3>2. f.kind = "complete" /\ sample.acquired < f.end
      BY <2>1 DEF Deferred
    <3>3. f.end = f.start + FrameTime /\ d <= f.start /\ f.end \in Int
      BY <1>9, <3>1, <3>2 DEF FramesFrom, Frames
    <3>4. wait = Observation(f, p.latched, sample, FALSE)
      BY <2>1
    <3>5. wait \in Observations
      BY <1>1, <3>1, <3>4, ObservationType
    <3>6. wait.start = f.start /\ wait.end = f.end /\ ~ wait.continuous
      BY <3>2, <3>3, <3>4 DEF Observation, Samples
    <3> HIDE DEF wait, f
    <3> QED BY <3>3, <3>5, <3>6
  <2>2. CASE ~ deferred
    BY <1>1, <2>2 DEF PulseOK, PendingAfter
  <2> QED BY <2>1, <2>2
<1> HIDE DEF latched, from, onto, wait
<1>11. q \in Pulses /\ q.sched = a.scheduler /\ q.pending = wait
  BY <1>1, <1>2, <1>4, <1>6, <1>8, <1>10, Zenon DEF Pulses
<1>12. d <= a.scheduler.start
  <2>1. CASE Idle(p.sched)
    BY <1>2, <2>1
  <2>2. CASE ~ Idle(p.sched)
    <3>1. d <= p.sched.start /\ p.sched.start \in Int
      BY <1>1, <2>2 DEF PulseOK, Pulses, Schedulers, Never
    <3> QED BY <1>2, <1>4, <2>2, <3>1
  <2> QED BY <2>1, <2>2
<1> HIDE DEF q
<1>13. PulseOK(q, d, t)
  BY <1>2, <1>10, <1>11, <1>12 DEF PulseOK, Within, PendingAfter
<1>14. AllFresh(observations, d, t)
  <2>1. AllFresh(Resolved(p, sample, t), d, t)
    BY ResolvedFresh
  <2>2. AllFresh(<<>>, d, t)
    BY EmptyNotContinuous, NoneContinuousFresh
  <2>3. AllFresh(Observed(a.frames, p.latched, sample, FALSE), d, t)
    <3>1. t \in Int /\ d \in Int
      OBVIOUS
    <3> QED BY <1>1, <1>9, <3>1, ObservedFresh
  <2>4. AllFresh(IF deferred THEN <<>> ELSE Observed(a.frames, p.latched, sample, FALSE), d, t)
    BY <2>2, <2>3
  <2> QED BY <2>1, <2>4, AllFreshConcat
<1> QED BY <1>2, <1>3, <1>11, <1>13, <1>14 DEF r

\* A scheduler that was reset is idle, and an interrupted frame is a frame.
LEMMA ResetSchedulerFacts ==
  ASSUME NEW s \in Schedulers
  PROVE  /\ ResetScheduler(s) \in Schedulers /\ Idle(ResetScheduler(s))
         /\ ResetScheduler(s).credit = 0
         /\ Lasting(Interrupted(s)) \in Seq(Frames)
<1>1. NewScheduler \in Schedulers /\ s.total \in Int
  BY TimingAssumption DEF NewScheduler, Schedulers, Never
<1>2. ResetScheduler(s) \in Schedulers
  BY <1>1, Zenon DEF ResetScheduler, Schedulers
<1>3. /\ ResetScheduler(s).start = NewScheduler.start
      /\ ResetScheduler(s).credit = NewScheduler.credit
  BY <1>1, Zenon DEF ResetScheduler, Schedulers
<1>4. Idle(ResetScheduler(s)) /\ ResetScheduler(s).credit = 0
  BY <1>3 DEF Idle, NewScheduler
<1>5. Interrupted(s) \in Seq(Frames)
  <2>1. CASE Idle(s)
    BY <2>1 DEF Interrupted
  <2>2. CASE ~ Idle(s)
    <3>1. Finished(s, "reset") \in Frames
      BY DEF Finished, Frames, Schedulers, Never
    <3> QED BY <2>2, <3>1 DEF Interrupted
  <2> QED BY <2>1, <2>2
<1> QED BY <1>2, <1>4, <1>5 DEF Lasting

LEMMA ResetPulseFacts ==
  ASSUME NEW p, NEW t \in Nat, NEW d \in 0..t, PulseOK(p, d, t), NEW h \in Holds,
         NEW on \in BOOLEAN, NEW sample \in Samples, NEW terminal \in BOOLEAN
  PROVE  LET r == ResetPulse(p, h, t, on, sample, terminal)
         IN  /\ \A u \in Nat, e \in Int : PulseOK(r.pulse, e, u)
             /\ Idle(r.pulse.sched) /\ r.pulse.sched.credit = 0
             /\ NoneContinuous(r.result.observations)
<1> DEFINE a == AdvanceTo(p.sched, h.request, t, on)
           r == ResetPulse(p, h, t, on, sample, terminal)
           latched == IF a.frames # <<>> \/ Idle(p.sched) THEN Latch(h, sample.role)
                      ELSE p.latched
           cut == Lasting(Interrupted(a.scheduler))
           q == [p EXCEPT !.sched = ResetScheduler(a.scheduler), !.latched = latched,
                          !.from = t, !.on = a.scheduler.total,
                          !.metrics = a.scheduler.total]
           observations == Invalidated(p) \o Observed(a.frames, p.latched, sample, TRUE)
                                          \o Observed(cut, latched, sample, TRUE)
<1>1. /\ p \in Pulses /\ Within(p.sched, t) /\ p.latched \in Latches
      /\ h.request \in 0..FrameTime /\ t \in Int
  BY DEF PulseOK, Pulses, Holds
<1>2. a.scheduler \in Schedulers /\ FramesFrom(a.frames, p.sched.start)
  BY <1>1, AdvanceToFacts
<1>3. r.pulse = [q EXCEPT !.pending = Nothing] /\ r.result.observations = observations
  BY Zenon DEF ResetPulse, Cut, DropPending
<1> HIDE DEF a, r
<1>4. latched \in Latches
  BY <1>1 DEF Latch, Latches, Holds, Samples
<1>5. a.scheduler.total \in Int /\ a.frames \in Seq(Frames)
  BY <1>2 DEF Schedulers, FramesFrom
<1>6. /\ ResetScheduler(a.scheduler) \in Schedulers
      /\ Idle(ResetScheduler(a.scheduler)) /\ ResetScheduler(a.scheduler).credit = 0
      /\ cut \in Seq(Frames)
  BY <1>2, ResetSchedulerFacts
<1> HIDE DEF latched, cut
<1>7. q \in Pulses /\ q.sched = ResetScheduler(a.scheduler)
  BY <1>1, <1>4, <1>5, <1>6, Zenon DEF Pulses
<1> HIDE DEF q
<1>8. r.pulse \in Pulses /\ r.pulse.sched = q.sched /\ r.pulse.pending = Nothing
  BY <1>3, <1>7, Zenon DEF Pulses
<1>9. \A u \in Nat, e \in Int : PulseOK(r.pulse, e, u)
  BY <1>6, <1>7, <1>8 DEF PulseOK, Within, PendingAfter
<1>10. NoneContinuous(observations)
  BY <1>1, <1>4, <1>5, <1>6, InvalidatedNotContinuous, ObservedInhibited,
     NoneContinuousConcat
<1> QED BY <1>3, <1>6, <1>7, <1>8, <1>9, <1>10 DEF r

LEMMA InvalidateGapFacts ==
  ASSUME NEW p, NEW t, NEW d, PulseOK(p, d, t)
  PROVE  LET r == InvalidateGap(p)
         IN  /\ \A u \in Nat, e \in Int : PulseOK(r.pulse, e, u)
             /\ Idle(r.pulse.sched) /\ r.pulse.sched.credit = 0
             /\ NoneContinuous(r.result.observations)
<1> DEFINE r == InvalidateGap(p)
           q == [p EXCEPT !.sched = ResetScheduler(p.sched)]
<1>1. p \in Pulses /\ p.sched \in Schedulers
  BY DEF PulseOK, Pulses
<1>2. /\ r.pulse = [q EXCEPT !.pending = Nothing]
      /\ r.result.observations = Invalidated(p)
  BY Zenon DEF InvalidateGap, DropPending
<1> HIDE DEF r
<1>3. /\ ResetScheduler(p.sched) \in Schedulers
      /\ Idle(ResetScheduler(p.sched)) /\ ResetScheduler(p.sched).credit = 0
  BY <1>1, ResetSchedulerFacts
<1>4. q \in Pulses /\ q.sched = ResetScheduler(p.sched)
  BY <1>1, <1>3, Zenon DEF Pulses
<1> HIDE DEF q
<1>5. r.pulse \in Pulses /\ r.pulse.sched = q.sched /\ r.pulse.pending = Nothing
  BY <1>2, <1>4, Zenon DEF Pulses
<1>6. \A u \in Nat, e \in Int : PulseOK(r.pulse, e, u)
  BY <1>3, <1>4, <1>5 DEF PulseOK, Within, PendingAfter
<1> QED BY <1>2, <1>3, <1>4, <1>5, <1>6, InvalidatedNotContinuous DEF r

-----------------------------------------------------------------------------
(* A step's view of the world *)

WorldFields == {"pulse", "auger", "out", "delta", "owed", "disturbed"}
OutFields == {"observations", "frames", "feedback"}
IsWorld(w) == w = [f \in WorldFields |-> w[f]]
IsOut(o) == o = [f \in OutFields |-> o[f]]

\* What the invariant says of a world at t.
WorldOK(w, t) ==
  /\ IsWorld(w) /\ IsOut(w.out)
  /\ w.auger \in BOOLEAN /\ w.disturbed \in 0..t
  /\ PulseOK(w.pulse, w.disturbed, t)
  /\ w.owed = w.pulse.sched.credit
  /\ AllFresh(w.out.observations, w.disturbed, t)

LEMMA FreshLater ==
  ASSUME NEW obs, NEW t \in Int, NEW d \in Int, AllFresh(obs, d, t)
  PROVE  AllFresh(obs, t, t)
<1> SUFFICES ASSUME NEW i \in DOMAIN obs PROVE Fresh(obs[i], t, t)
  BY DEF AllFresh
<1>1. Fresh(obs[i], d, t) /\ obs[i] \in Observations
  BY DEF AllFresh
<1>2. obs[i].acquired \in Int
  BY <1>1 DEF Observations
<1> QED BY <1>1, <1>2 DEF Fresh

LEMMA HandOverFacts ==
  ASSUME NEW w, IsWorld(w), NEW r
  PROVE  LET v == HandOver(w, r)
         IN  /\ v.pulse = w.pulse /\ v.auger = w.auger /\ v.owed = w.owed
             /\ v.disturbed = w.disturbed
             /\ v.out.observations = w.out.observations \o r.result.observations
             /\ IsWorld(v) /\ IsOut(v.out)
<1>1. IsOut(Handed(w.out, r.result))
  BY DEF Handed, IsOut, OutFields
<1> QED BY <1>1 DEF HandOver, Handed, IsWorld, WorldFields

LEMMA InhibitedFacts ==
  ASSUME NEW t \in Nat, NEW w, WorldOK(w, t), NEW h \in Holds, NEW sample \in Samples,
         NEW terminal \in BOOLEAN
  PROVE  LET v == Inhibited(w, h, t, sample, terminal)
         IN  WorldOK(v, t) /\ Idle(v.pulse.sched) /\ v.auger = FALSE
<1> DEFINE r == ResetPulse(w.pulse, h, t, w.auger, sample, terminal)
           x == [w EXCEPT !.pulse = r.pulse, !.owed = 0, !.disturbed = t, !.auger = FALSE]
           v == Inhibited(w, h, t, sample, terminal)
<1>1. v = HandOver(x, r)
  BY DEF Inhibited
<1>2. /\ \A u \in Nat, e \in Int : PulseOK(r.pulse, e, u)
      /\ Idle(r.pulse.sched) /\ r.pulse.sched.credit = 0
      /\ NoneContinuous(r.result.observations)
  <2>1. PulseOK(w.pulse, w.disturbed, t) /\ w.disturbed \in 0..t /\ w.auger \in BOOLEAN
    BY DEF WorldOK
  <2> QED BY <2>1, ResetPulseFacts
<1> HIDE DEF r
<1>3. /\ x.pulse = r.pulse /\ x.auger = FALSE /\ x.out = w.out /\ x.owed = 0
      /\ x.disturbed = t /\ IsWorld(x)
  BY DEF WorldOK, IsWorld, WorldFields
<1> HIDE DEF x, v
<1>4. /\ v.pulse = r.pulse /\ v.auger = FALSE /\ v.owed = 0 /\ v.disturbed = t
      /\ v.out.observations = w.out.observations \o r.result.observations
      /\ IsWorld(v) /\ IsOut(v.out)
  <2>1. /\ v.pulse = x.pulse /\ v.auger = x.auger /\ v.owed = x.owed
        /\ v.disturbed = x.disturbed
        /\ v.out.observations = x.out.observations \o r.result.observations
        /\ IsWorld(v) /\ IsOut(v.out)
    BY <1>1, <1>3, HandOverFacts, Zenon
  <2> QED BY <1>3, <2>1, Zenon
<1>5. AllFresh(v.out.observations, t, t)
  <2>1. AllFresh(w.out.observations, t, t)
    <3>1. t \in Int /\ w.disturbed \in Int /\ AllFresh(w.out.observations, w.disturbed, t)
      BY DEF WorldOK
    <3> QED BY <3>1, FreshLater
  <2> QED BY <1>2, <1>4, <2>1, NoneContinuousFresh, AllFreshConcat
<1>6. PulseOK(v.pulse, t, t) /\ t \in 0..t
  BY <1>2, <1>4
<1> QED BY <1>2, <1>4, <1>5, <1>6 DEF WorldOK, v

LEMMA LidPartFacts ==
  ASSUME NEW t \in Nat, NEW w, WorldOK(w, t), NEW h \in Holds, NEW sample \in Samples,
         NEW event
  PROVE  LET v == LidPart(w, h, t, sample, event)
         IN  /\ WorldOK(v, t)
             /\ event = "opens" => Idle(v.pulse.sched) /\ v.auger = FALSE
             /\ event # "opens" => v = w
BY InhibitedFacts DEF LidPart

LEMMA ReportedFacts ==
  ASSUME NEW t \in Nat, NEW w, WorldOK(w, t)
  PROVE  LET v == Reported(w, t)
         IN  /\ WorldOK(v, t)
             /\ v.pulse.sched = w.pulse.sched /\ v.auger = w.auger
<1> DEFINE q == [w.pulse EXCEPT !.from = t, !.on = w.pulse.sched.total]
           v == Reported(w, t)
<1>1. CASE t <= w.pulse.from
  BY <1>1 DEF Reported
<1>2. CASE ~ t <= w.pulse.from
  <2>1. /\ w.pulse \in Pulses /\ Within(w.pulse.sched, t)
        /\ ~ Idle(w.pulse.sched) => w.disturbed <= w.pulse.sched.start
        /\ PendingAfter(w.pulse, w.disturbed)
    BY DEF WorldOK, PulseOK
  <2>2. w.pulse.sched.total \in Int /\ t \in Int
    BY <2>1 DEF Pulses, Schedulers
  <2>3. /\ q \in Pulses /\ q.sched = w.pulse.sched /\ q.pending = w.pulse.pending
    BY <2>1, <2>2, Zenon DEF Pulses
  <2>4. /\ v.pulse = q /\ v.auger = w.auger /\ v.owed = w.owed
        /\ v.disturbed = w.disturbed /\ v.delta = w.delta
        /\ v.out.observations = w.out.observations
        /\ IsWorld(v) /\ IsOut(v.out)
    BY <1>2 DEF Reported, WorldOK, IsWorld, IsOut, WorldFields, OutFields
  <2> HIDE DEF q, v
  <2>5. PulseOK(v.pulse, v.disturbed, t)
    BY <2>1, <2>3, <2>4 DEF PulseOK, PendingAfter
  <2> QED BY <2>3, <2>4, <2>5 DEF WorldOK, v
<1> QED BY <1>1, <1>2
-----------------------------------------------------------------------------
(* The invariant *)

\* What is owed is the scheduler's credit, and pulses that are not permitted are
\* idle: neither follows from the properties, and each step needs both.
PulseInv ==
  /\ now \in Nat /\ auger \in BOOLEAN /\ hold \in Holds /\ disturbed \in 0..now
  /\ PulseOK(pulse, disturbed, now)
  /\ owed = pulse.sched.credit
  /\ ~ Permitted(hold) => Idle(pulse.sched)
  /\ auger => hold.manual \/ ~ Idle(pulse.sched)
  /\ AllFresh(out.observations, disturbed, now)

LEMMA PulseInit == Init => PulseInv
<1> SUFFICES ASSUME Init PROVE PulseInv
  OBVIOUS
<1>1. NewScheduler \in Schedulers /\ Idle(NewScheduler) /\ NewScheduler.credit = 0
  BY TimingAssumption DEF NewScheduler, Schedulers, Never, Idle
<1>2. PulseOK(pulse, 0, 0) /\ pulse.sched = NewScheduler
  BY <1>1, PulseAssumption
     DEF Init, Configured, PulseOK, Pulses, Latches, Within, PendingAfter
<1>3. hold \in Holds /\ Permitted(hold)
  BY TimingAssumption DEF Init, Holds, Permitted
<1>4. AllFresh(out.observations, 0, 0)
  BY EmptyNotContinuous, NoneContinuousFresh DEF Init, NoResult
<1>5. now = 0 /\ disturbed = 0 /\ owed = 0 /\ auger = FALSE
  BY DEF Init
<1>6. 0 \in Nat /\ 0 \in 0..0 /\ FALSE \in BOOLEAN
  OBVIOUS
<1> QED BY <1>1, <1>2, <1>3, <1>4, <1>5, <1>6, Zenon DEF PulseInv

\* The step begins in the world as it is.
LEMMA WorldStart ==
  ASSUME PulseInv, NEW t \in Nat, now <= t
  PROVE  /\ WorldOK(World, t)
         /\ World.pulse = pulse /\ World.auger = auger /\ World.owed = owed
         /\ World.disturbed = disturbed /\ World.out = NoResult
<1>1. PulseOK(pulse, disturbed, t) /\ disturbed \in 0..t
  BY PulseOKLater DEF PulseInv
<1>2. AllFresh(NoResult.observations, disturbed, t)
  BY EmptyNotContinuous, NoneContinuousFresh DEF NoResult
<1>3. /\ World.pulse = pulse /\ World.auger = auger /\ World.owed = owed
      /\ World.disturbed = disturbed /\ World.out = NoResult
      /\ IsWorld(World) /\ IsOut(NoResult)
  BY DEF World, IsWorld, IsOut, WorldFields, OutFields, NoResult
<1> QED BY <1>1, <1>2, <1>3 DEF WorldOK, PulseInv

\* What a step must come to for the invariant to hold after it.
LEMMA SettleInv ==
  ASSUME NEW t \in Nat, NEW w, WorldOK(w, t), NEW h \in Holds, Settle(t, w, h),
         ~ Permitted(h) => Idle(w.pulse.sched),
         w.auger => h.manual \/ ~ Idle(w.pulse.sched)
  PROVE  PulseInv'
BY DEF Settle, PulseInv, WorldOK

LEMMA HoldStates ==
  ASSUME NEW h \in Holds
  PROVE  /\ \A expired \in BOOLEAN : Released(h, expired) \in Holds
         /\ \A answer \in Answers : Taken(h, answer) \in Holds
         /\ \A event \in LidEvents : AfterLid(h, event) \in Holds
<1>1. ASSUME NEW expired \in BOOLEAN PROVE Released(h, expired) \in Holds
  <2>1. (h.manual /\ ~ expired) \in BOOLEAN
    OBVIOUS
  <2> QED BY <2>1, Zenon DEF Released, Holds
<1>2. ASSUME NEW answer \in Answers PROVE Taken(h, answer) \in Holds
  <2>1. CASE answer = NoAnswer \/ answer = Stale
    BY <2>1, Zenon DEF Taken, Holds
  <2>2. CASE ~ (answer = NoAnswer \/ answer = Stale)
    <3>1. answer \in 0..FrameTime
      BY <2>2, PulseAssumption DEF Answers
    <3> QED BY <2>2, <3>1, Zenon DEF Taken, Holds
  <2> QED BY <2>1, <2>2
<1>3. ASSUME NEW event \in LidEvents PROVE AfterLid(h, event) \in Holds
  BY <1>3 DEF AfterLid, Holds, LidEvents
<1> QED BY <1>1, <1>2, <1>3

\* Pulsing on from the start of a step.
LEMMA CommandedFacts ==
  ASSUME PulseInv, NEW t \in Nat, now <= t, NEW h \in Holds, NEW on \in BOOLEAN,
         NEW sample \in Samples, sample.acquired <= t, NEW command \in BOOLEAN
  PROVE  LET r == AdvancePulse(pulse, h, t, on, sample)
             v == Commanded(r, command)
             p == Pulsed(World, r)
         IN  /\ WorldOK(v, t) /\ v.auger = command /\ v.pulse = r.pulse
             /\ WorldOK(p, t) /\ p.auger = auger /\ p.pulse = r.pulse
             /\ PulseOK(r.pulse, disturbed, t)
             /\ ~ Idle(r.pulse.sched)
<1> DEFINE r == AdvancePulse(pulse, h, t, on, sample)
           p == Pulsed(World, r)
           x == [p EXCEPT !.auger = command]
           v == Commanded(r, command)
<1>1. /\ WorldOK(World, t)
      /\ World.pulse = pulse /\ World.auger = auger /\ World.owed = owed
      /\ World.disturbed = disturbed /\ World.out = NoResult
  BY WorldStart
<1>2. /\ PulseOK(r.pulse, disturbed, t) /\ ~ Idle(r.pulse.sched)
      /\ Carried(pulse.sched, r.pulse.sched)
      /\ AllFresh(r.result.observations, disturbed, t)
  <2>1. PulseOK(pulse, disturbed, t) /\ disturbed \in 0..t
    BY PulseOKLater DEF PulseInv
  <2> QED BY <2>1, AdvancePulseFacts
<1>3. v = HandOver(x, r)
  BY DEF Commanded
<1> HIDE DEF r, v
<1>4. Owed(World, r.pulse.sched) = r.pulse.sched.credit
  <2>1. owed = pulse.sched.credit
    BY DEF PulseInv
  <2> QED BY <1>1, <1>2, <2>1 DEF Owed, Carried
<1>5. /\ p.pulse = r.pulse /\ p.auger = auger /\ p.owed = r.pulse.sched.credit
      /\ p.disturbed = disturbed /\ p.out = NoResult /\ IsWorld(p)
  BY <1>1, <1>4 DEF Pulsed, WorldOK, IsWorld, WorldFields
<1> HIDE DEF p
<1>6. /\ x.pulse = r.pulse /\ x.auger = command /\ x.owed = r.pulse.sched.credit
      /\ x.disturbed = disturbed /\ x.out = NoResult /\ IsWorld(x)
  BY <1>5 DEF IsWorld, WorldFields
<1> HIDE DEF x
<1>7. IsOut(NoResult) /\ NoResult.observations = <<>> /\ AllFresh(<<>>, disturbed, t)
  BY EmptyNotContinuous, NoneContinuousFresh DEF IsOut, OutFields, NoResult
<1>8. /\ v.pulse = r.pulse /\ v.auger = command /\ v.owed = r.pulse.sched.credit
      /\ v.disturbed = disturbed /\ v.out.observations = <<>> \o r.result.observations
      /\ IsWorld(v) /\ IsOut(v.out)
  BY <1>3, <1>6, <1>7, HandOverFacts
<1>9. AllFresh(v.out.observations, disturbed, t)
  BY <1>2, <1>7, <1>8, AllFreshConcat
<1>10. disturbed \in 0..t /\ auger \in BOOLEAN
  BY DEF PulseInv
<1>11. WorldOK(p, t)
  BY <1>2, <1>5, <1>7, <1>10 DEF WorldOK
<1>12. WorldOK(v, t)
  BY <1>2, <1>8, <1>9, <1>10 DEF WorldOK
<1> QED BY <1>2, <1>5, <1>8, <1>11, <1>12 DEF r, p, v

-----------------------------------------------------------------------------
(* The steps *)

LEMMA HeldTickInv ==
  ASSUME PulseInv, NEW t \in Nat, now <= t, NEW answer \in Answers, NEW role \in Roles,
         NEW expired \in BOOLEAN, NEW event \in LidEvents,
         HeldTick(t, answer, role, expired, event)
  PROVE  PulseInv'
<1> DEFINE sample == [known |-> TRUE, acquired |-> t, role |-> role]
           h == Taken(Released(hold, expired), answer)
           w0 == [World EXCEPT !.auger = World.auger /\ ~ expired]
           w == IF answer # NoAnswer /\ h.stale THEN Inhibited(w0, h, t, sample, TRUE) ELSE w0
           v == LidPart(w, h, t, sample, event)
<1>1. ~ Permitted(h) /\ Settle(t, v, AfterLid(h, event))
  BY Zenon DEF HeldTick
<1>2. h \in Holds /\ AfterLid(h, event) \in Holds /\ sample \in Samples
  <2>1. hold \in Holds
    BY DEF PulseInv
  <2>2. h \in Holds
    BY <2>1, HoldStates
  <2>3. sample \in Samples
    BY DEF Samples
  <2> QED BY <2>2, <2>3, HoldStates
<1>3. /\ WorldOK(w0, t) /\ w0.pulse = pulse /\ (w0.auger <=> auger /\ ~ expired)
  <2>1. /\ WorldOK(World, t) /\ World.pulse = pulse /\ World.auger = auger
    BY WorldStart
  <2>2. /\ w0.pulse = World.pulse /\ w0.auger = (World.auger /\ ~ expired)
        /\ w0.owed = World.owed /\ w0.disturbed = World.disturbed
        /\ w0.out = World.out /\ IsWorld(w0)
    BY <2>1 DEF WorldOK, IsWorld, WorldFields
  <2> HIDE DEF w0
  <2> QED BY <2>1, <2>2 DEF WorldOK
<1>4. ~ (answer # NoAnswer /\ h.stale) =>
         /\ Idle(pulse.sched)
         /\ auger /\ ~ expired => h.manual
  <2>1. /\ ~ Permitted(hold) => Idle(pulse.sched)
        /\ auger => hold.manual \/ ~ Idle(pulse.sched)
        /\ hold \in Holds
    BY DEF PulseInv
  <2> DEFINE g == Released(hold, expired)
  <2>2. /\ g.stale = hold.stale /\ g.lid = hold.lid /\ (g.manual <=> hold.manual /\ ~ expired)
        /\ g \in Holds
    BY <2>1, HoldStates DEF Released, Holds
  <2> HIDE DEF g
  <2>3. /\ h.manual = g.manual /\ h.lid = g.lid
        /\ h.stale = IF answer = NoAnswer THEN g.stale ELSE answer = Stale
    BY <2>2 DEF Taken, Holds, g
  <2> HIDE DEF h
  <2> QED BY <1>1, <2>1, <2>2, <2>3 DEF Permitted
<1> HIDE DEF h, w0, sample
<1>5. /\ WorldOK(w, t) /\ Idle(w.pulse.sched)
      /\ w.auger => h.manual
  <2>1. CASE answer # NoAnswer /\ h.stale
    BY <1>2, <1>3, <2>1, InhibitedFacts
  <2>2. CASE ~ (answer # NoAnswer /\ h.stale)
    BY <1>3, <1>4, <2>2
  <2> QED BY <2>1, <2>2
<1> HIDE DEF w
<1>6. /\ WorldOK(v, t) /\ Idle(v.pulse.sched) /\ (v.auger => h.manual)
  BY <1>2, <1>5, LidPartFacts
<1>7. AfterLid(h, event).manual = h.manual
  BY <1>2 DEF AfterLid, Holds
<1> HIDE DEF v
<1> QED BY <1>1, <1>2, <1>6, <1>7, SettleInv

LEMMA PulseTickInv ==
  ASSUME PulseInv, NEW t \in Nat, now <= t, NEW answer \in Answers, NEW lag \in Lags,
         NEW role \in Roles, NEW expired \in BOOLEAN, NEW event \in LidEvents,
         PulseTick(t, answer, lag, role, expired, event)
  PROVE  PulseInv'
<1> DEFINE sample == [known |-> TRUE, acquired |-> t - lag, role |-> role]
           h == Taken(Released(hold, expired), answer)
           on == auger /\ ~ expired
           r == AdvancePulse(pulse, h, t, on, sample)
           command == CommandOn(r.pulse.sched) /\ event # "opens"
           c == Commanded(r, command)
           w == IF answer = NoAnswer THEN c ELSE Reported(c, t)
           v == LidPart(w, h, t, sample, event)
<1>1. Permitted(h) /\ Settle(t, v, AfterLid(h, event))
  BY Zenon DEF PulseTick
<1>2. /\ h \in Holds /\ AfterLid(h, event) \in Holds
      /\ sample \in Samples /\ sample.acquired <= t
  <2>1. hold \in Holds
    BY DEF PulseInv
  <2>2. h \in Holds
    BY <2>1, HoldStates
  <2>3. lag \in Nat
    BY PulseAssumption
  <2>4. sample \in Samples /\ sample.acquired <= t
    BY <2>3 DEF Samples
  <2> QED BY <2>2, <2>4, HoldStates
<1>3. command \in BOOLEAN /\ on \in BOOLEAN
  BY DEF CommandOn
<1>4. AfterLid(h, event).manual = h.manual
  BY <1>2 DEF AfterLid, Holds
<1>5. event # "opens" => Permitted(AfterLid(h, event))
  BY <1>1, <1>2 DEF AfterLid, Holds, Permitted
<1> HIDE DEF h, sample, command, on
<1>6. WorldOK(c, t) /\ c.auger = command /\ ~ Idle(c.pulse.sched)
  BY <1>2, <1>3, CommandedFacts
<1> HIDE DEF c
<1>7. WorldOK(w, t) /\ w.auger = command /\ ~ Idle(w.pulse.sched)
  BY <1>6, ReportedFacts
<1> HIDE DEF w
<1>8. /\ WorldOK(v, t)
      /\ event = "opens" => Idle(v.pulse.sched) /\ v.auger = FALSE
      /\ event # "opens" => v = w
  <2>1. CASE event = "opens"
    BY <1>2, <1>7, <2>1, InhibitedFacts DEF LidPart
  <2>2. CASE event # "opens"
    BY <1>7, <2>2 DEF LidPart
  <2> QED BY <2>1, <2>2
<1> HIDE DEF v
<1>9. /\ ~ Permitted(AfterLid(h, event)) => Idle(v.pulse.sched)
      /\ v.auger => AfterLid(h, event).manual \/ ~ Idle(v.pulse.sched)
  BY <1>5, <1>7, <1>8
<1> QED BY <1>1, <1>2, <1>8, <1>9, SettleInv

LEMMA LostTickInv ==
  ASSUME PulseInv, NEW t \in Nat, now <= t, NEW answer \in Answers, NEW lag \in Lags,
         NEW role \in Roles, NEW raised \in BOOLEAN,
         LostTick(t, answer, lag, role, raised)
  PROVE  PulseInv'
<1> DEFINE sample == [known |-> TRUE, acquired |-> t - lag, role |-> role]
           h == Taken(hold, answer)
           r == AdvancePulse(pulse, h, t, auger, sample)
           gap == InvalidateGap(r.pulse)
           o == HandOver(World, gap)
           v == [o EXCEPT !.pulse = gap.pulse, !.auger = FALSE, !.owed = 0, !.disturbed = t]
           failing == [h EXCEPT !.phase = "failing"]
           failed == [h EXCEPT !.phase = "failed"]
<1>1. /\ Permitted(h)
      /\ IF raised THEN Settle(t, Pulsed(World, r), failing) ELSE Settle(t, v, failed)
  BY Zenon DEF LostTick
<1>2. /\ h \in Holds /\ sample \in Samples /\ sample.acquired <= t
  <2>1. hold \in Holds
    BY DEF PulseInv
  <2>2. h \in Holds
    BY <2>1, HoldStates
  <2>3. lag \in Nat
    BY PulseAssumption
  <2>4. sample \in Samples /\ sample.acquired <= t
    BY <2>3 DEF Samples
  <2> QED BY <2>2, <2>4
<1>3. /\ failing \in Holds /\ failed \in Holds
      /\ Permitted(failing)
  BY <1>1, <1>2 DEF Holds, Permitted
<1> HIDE DEF h, sample, failing, failed
<1>4. /\ WorldOK(Pulsed(World, r), t) /\ Pulsed(World, r).pulse = r.pulse
      /\ ~ Idle(r.pulse.sched) /\ PulseOK(r.pulse, disturbed, t)
  <2>1. auger \in BOOLEAN
    BY DEF PulseInv
  <2> QED BY <1>2, <2>1, CommandedFacts
<1> HIDE DEF r
<1>5. CASE raised
  BY <1>1, <1>3, <1>4, <1>5, SettleInv
<1>6. CASE ~ raised
  <2>1. /\ \A u \in Nat, e \in Int : PulseOK(gap.pulse, e, u)
        /\ Idle(gap.pulse.sched) /\ gap.pulse.sched.credit = 0
        /\ NoneContinuous(gap.result.observations)
    BY <1>4, InvalidateGapFacts
  <2>2. /\ IsWorld(World) /\ IsOut(World.out) /\ World.out.observations = <<>>
    BY WorldStart DEF WorldOK, NoResult
  <2> HIDE DEF gap
  <2>3. /\ o.out.observations = <<>> \o gap.result.observations
        /\ IsWorld(o) /\ IsOut(o.out)
    BY <2>2, HandOverFacts
  <2> HIDE DEF o
  <2>4. /\ v.pulse = gap.pulse /\ v.auger = FALSE /\ v.owed = 0 /\ v.disturbed = t
        /\ v.out = o.out /\ IsWorld(v)
    BY <2>3 DEF IsWorld, WorldFields
  <2> HIDE DEF v
  <2>5. AllFresh(v.out.observations, t, t)
    BY <2>1, <2>3, <2>4, EmptyNotContinuous, NoneContinuousConcat, NoneContinuousFresh
  <2>6. PulseOK(v.pulse, t, t) /\ t \in 0..t
    BY <2>1, <2>4
  <2>7. WorldOK(v, t)
    BY <2>1, <2>3, <2>4, <2>5, <2>6 DEF WorldOK
  <2> QED BY <1>1, <1>3, <1>6, <2>1, <2>4, <2>7, SettleInv
<1> QED BY <1>5, <1>6

LEMMA ManualInv ==
  ASSUME PulseInv, NEW t \in Nat, now <= t, NEW on \in BOOLEAN, NEW role \in Roles,
         Manual(t, on, role)
  PROVE  PulseInv'
<1> DEFINE sample == [known |-> TRUE, acquired |-> now, role |-> role]
           w == Inhibited(World, hold, t, sample, FALSE)
           v == [w EXCEPT !.auger = on]
           h == [hold EXCEPT !.manual = TRUE]
<1>1. Settle(t, v, h)
  BY Zenon DEF Manual
<1>2. hold \in Holds /\ sample \in Samples /\ WorldOK(World, t)
  BY WorldStart DEF PulseInv, Samples
<1> HIDE DEF sample
<1>3. WorldOK(w, t) /\ Idle(w.pulse.sched)
  BY <1>2, InhibitedFacts
<1> HIDE DEF w
<1>4. /\ v.pulse = w.pulse /\ v.auger = on /\ v.owed = w.owed
      /\ v.disturbed = w.disturbed /\ v.out = w.out /\ IsWorld(v)
  BY <1>3 DEF WorldOK, IsWorld, WorldFields
<1> HIDE DEF v
<1>5. WorldOK(v, t) /\ Idle(v.pulse.sched)
  BY <1>3, <1>4 DEF WorldOK
<1>6. h \in Holds /\ h.manual
  BY <1>2 DEF Holds
<1> QED BY <1>1, <1>5, <1>6, SettleInv

LEMMA SafetyEventInv ==
  ASSUME PulseInv, NEW t \in Nat, now <= t, NEW role \in Roles, SafetyEvent(t, role)
  PROVE  PulseInv'
<1> DEFINE sample == [known |-> TRUE, acquired |-> now, role |-> role]
           v == Inhibited(World, hold, t, sample, TRUE)
<1>1. Settle(t, v, hold)
  BY Zenon DEF SafetyEvent
<1>2. hold \in Holds /\ sample \in Samples /\ WorldOK(World, t)
  BY WorldStart DEF PulseInv, Samples
<1> HIDE DEF sample
<1>3. WorldOK(v, t) /\ Idle(v.pulse.sched) /\ v.auger = FALSE
  BY <1>2, InhibitedFacts
<1> HIDE DEF v
<1> QED BY <1>1, <1>2, <1>3, SettleInv

LEMMA AdoptInv ==
  ASSUME PulseInv, NEW t \in Nat, now <= t, NEW role \in Roles, Adopt(t, role)
  PROVE  PulseInv'
<1> DEFINE sample == [known |-> TRUE, acquired |-> now, role |-> role]
           w == Inhibited(World, hold, t, sample, FALSE)
           v == [w EXCEPT !.pulse = Configured(t)]
           h == [hold EXCEPT !.request = 0, !.solved = FALSE, !.stale = FALSE]
<1>1. Settle(t, v, h)
  BY Zenon DEF Adopt
<1>2. hold \in Holds /\ sample \in Samples /\ WorldOK(World, t)
  BY WorldStart DEF PulseInv, Samples
<1> HIDE DEF sample
<1>3. WorldOK(w, t) /\ Idle(w.pulse.sched) /\ w.auger = FALSE
  BY <1>2, InhibitedFacts
<1> HIDE DEF w
<1>4. /\ v.pulse = Configured(t) /\ v.auger = FALSE /\ v.owed = w.owed
      /\ v.disturbed = w.disturbed /\ v.out = w.out /\ IsWorld(v)
  BY <1>3 DEF WorldOK, IsWorld, WorldFields
<1> HIDE DEF v
<1>5. NewScheduler \in Schedulers /\ Idle(NewScheduler) /\ NewScheduler.credit = 0
  BY TimingAssumption DEF NewScheduler, Schedulers, Never, Idle
<1>6. /\ Configured(t).sched = NewScheduler
      /\ PulseOK(Configured(t), w.disturbed, t)
  BY <1>5, PulseAssumption DEF Configured, PulseOK, Pulses, Latches, Within, PendingAfter
<1>7. w.owed = 0
  BY <1>3 DEF WorldOK, PulseOK, Within
<1>8. WorldOK(v, t) /\ Idle(v.pulse.sched)
  BY <1>3, <1>4, <1>5, <1>6, <1>7 DEF WorldOK
<1>9. h \in Holds
  <2>1. 0 \in 0..FrameTime
    BY TimingAssumption
  <2> QED BY <1>2, <2>1, Zenon DEF Holds
<1> QED BY <1>1, <1>4, <1>8, <1>9, SettleInv

LEMMA TeardownInv ==
  ASSUME PulseInv, NEW t \in Nat, now <= t, NEW known \in BOOLEAN, NEW role \in Roles,
         Teardown(t, known, role)
  PROVE  PulseInv'
<1> DEFINE sample == IF known THEN [known |-> TRUE, acquired |-> t, role |-> role]
                     ELSE Unknown
           r == AdvancePulse(pulse, hold, t, auger, sample)
           c == Commanded(r, FALSE)
           w == Reported(c, t)
           v == Inhibited(w, hold, t, sample, TRUE)
           h == [hold EXCEPT !.phase = Over]
<1>1. Settle(t, v, h)
  BY Zenon DEF Teardown
<1>2. /\ hold \in Holds /\ auger \in BOOLEAN
      /\ sample \in Samples /\ sample.acquired <= t
  BY PulseAssumption DEF PulseInv, Samples, Unknown, Never
<1>3. h \in Holds
  BY <1>2 DEF Holds, Over
<1> HIDE DEF sample, h
<1>4. WorldOK(c, t)
  BY <1>2, CommandedFacts
<1> HIDE DEF c
<1>5. WorldOK(w, t)
  BY <1>4, ReportedFacts
<1> HIDE DEF w
<1>6. WorldOK(v, t) /\ Idle(v.pulse.sched) /\ v.auger = FALSE
  BY <1>2, <1>5, InhibitedFacts
<1> HIDE DEF v
<1> QED BY <1>1, <1>3, <1>6, SettleInv

LEMMA DiscontinuityInv ==
  ASSUME PulseInv, Discontinuity
  PROVE  PulseInv'
<1> DEFINE r == InvalidateGap(pulse)
           x == [World EXCEPT !.pulse = r.pulse, !.auger = FALSE, !.owed = 0,
                              !.disturbed = now]
           v == HandOver(x, r)
           h == [hold EXCEPT !.phase = Over]
<1>1. Settle(now, v, h)
  BY Zenon DEF Discontinuity
<1>2. now \in Nat /\ now <= now /\ hold \in Holds /\ PulseOK(pulse, disturbed, now)
  BY DEF PulseInv
<1>3. /\ \A u \in Nat, e \in Int : PulseOK(r.pulse, e, u)
      /\ Idle(r.pulse.sched) /\ r.pulse.sched.credit = 0
      /\ NoneContinuous(r.result.observations)
  BY <1>2, InvalidateGapFacts
<1>4. h \in Holds
  BY <1>2 DEF Holds, Over
<1>5. /\ IsWorld(World) /\ IsOut(World.out) /\ World.out.observations = <<>>
  BY <1>2, WorldStart DEF WorldOK, NoResult
<1> HIDE DEF r, h
<1>6. /\ x.pulse = r.pulse /\ x.auger = FALSE /\ x.owed = 0 /\ x.disturbed = now
      /\ x.out.observations = <<>> /\ IsWorld(x) /\ IsOut(x.out)
  BY <1>5 DEF IsWorld, WorldFields
<1> HIDE DEF x
<1>7. /\ v.pulse = r.pulse /\ v.auger = FALSE /\ v.owed = 0 /\ v.disturbed = now
      /\ v.out.observations = <<>> \o r.result.observations
      /\ IsWorld(v) /\ IsOut(v.out)
  BY <1>6, HandOverFacts
<1> HIDE DEF v
<1>8. AllFresh(v.out.observations, now, now)
  BY <1>3, <1>7, EmptyNotContinuous, NoneContinuousConcat, NoneContinuousFresh
<1>9. PulseOK(v.pulse, now, now) /\ now \in 0..now
  BY <1>2, <1>3, <1>7
<1>10. WorldOK(v, now) /\ Idle(v.pulse.sched)
  BY <1>3, <1>7, <1>8, <1>9 DEF WorldOK
<1> QED BY <1>1, <1>2, <1>4, <1>7, <1>10, SettleInv

LEMMA PulseNext == PulseInv /\ [Next]_vars => PulseInv'
<1> SUFFICES ASSUME PulseInv, [Next]_vars PROVE PulseInv'
  OBVIOUS
<1>1. CASE UNCHANGED vars
  BY <1>1 DEF vars, PulseInv
<1>2. ASSUME NEW t \in Ticks PROVE t \in Nat /\ now <= t
  BY PulseAssumption DEF Ticks, PulseInv
<1>3. ASSUME NEW t \in Ticks, Holding(t) PROVE PulseInv'
  <2>1. PICK role \in Roles :
          \/ \E answer \in Answers, expired \in BOOLEAN, event \in LidEvents :
                \/ HeldTick(t, answer, role, expired, event)
                \/ \E lag \in Lags : PulseTick(t, answer, lag, role, expired, event)
          \/ \E answer \in Answers, lag \in Lags, raised \in BOOLEAN :
                LostTick(t, answer, lag, role, raised)
          \/ \E on \in BOOLEAN : Manual(t, on, role)
          \/ SafetyEvent(t, role)
          \/ Adopt(t, role)
    BY <1>3, Zenon DEF Holding
  <2>2. t \in Nat /\ now <= t
    BY <1>2
  <2> QED BY <2>1, <2>2, HeldTickInv, PulseTickInv, LostTickInv, ManualInv, SafetyEventInv,
             AdoptInv, Zenon
<1>4. ASSUME NEW t \in Ticks, NEW known \in BOOLEAN, NEW role \in Roles,
             Teardown(t, known, role)
      PROVE  PulseInv'
  BY <1>2, <1>4, TeardownInv
<1> QED BY <1>1, <1>3, <1>4, DiscontinuityInv, Zenon DEF Next

\* The state of the pulses is always well formed (FramedPulseRuntime and the
\* pulse state of HoldMode).
THEOREM PulseInvariant == Spec => []PulseInv
BY PulseInit, PulseNext, PTL DEF Spec

\* The scheduler gives its frames what they were asked for, short of less than a
\* pulse, since its credit was last dropped (PulseScheduler._begin_frame).
THEOREM PulseFairMean == Spec => []FairMean
<1>1. PulseInv => FairMean
  <2> SUFFICES ASSUME PulseInv PROVE FairMean
    OBVIOUS
  <2>1. owed \in 0..PulseTime - 1
    BY DEF PulseInv, PulseOK, Pulses, Schedulers
  <2> QED BY <2>1, TimingAssumption DEF FairMean
<1> QED BY <1>1, PulseInvariant, PTL

\* The auger runs by hand, or in a frame that nothing inhibits (HoldMode.tick and
\* its lid, manual and stale handling).
THEOREM PulseRunsOnlyInFrame == Spec => []RunsOnlyInFrame
<1>1. PulseInv => RunsOnlyInFrame
  BY DEF PulseInv, RunsOnlyInFrame, Permitted
<1> QED BY <1>1, PulseInvariant, PTL

\* A continuous observation has a temperature of its time, with no interruption
\* before it (FramedPulseRuntime._resolve_pending_observation).
THEOREM PulseContinuousIsFresh == Spec => []ContinuousIsFresh
<1>1. PulseInv => ContinuousIsFresh
  BY DEF PulseInv, AllFresh, Fresh, ContinuousIsFresh
<1> QED BY <1>1, PulseInvariant, PTL

-----------------------------------------------------------------------------
(* What is told of the auger                                               *)

\* How long the auger was seen running from a to b.
Ran(S, a, b) == Cardinality(S \cap a..b - 1)

\* What is seen at t of an auger last seen at u, on or off.
Grown(S, u, t, on) == S \cup (IF on THEN u..t - 1 ELSE {})

\* From u to t the auger is as it was seen at u: S was seen by then, T is at t.
Lasts(S, T, u, t, on) ==
  /\ u \in Nat /\ t \in Nat /\ u <= t /\ on \in BOOLEAN
  /\ S \subseteq 0..u - 1 /\ T = Grown(S, u, t, on)

\* A scheduler that has accounted for its frame up to u.
Tracked(s, S, u) ==
  IF Idle(s) THEN ~ s.on
  ELSE /\ s.at = u /\ s.start <= u /\ u < s.start + FrameTime
       /\ s.frameOn = Ran(S, s.start, u)

\* From where frames, and observations, are still to be told.
Mark(s, u) == IF Idle(s) THEN u ELSE s.start
ObsMark(p, u) == IF p.pending = Nothing THEN Mark(p.sched, u) ELSE p.pending.start

\* Pulses that have accounted for everything up to u: the frame, what is not fed
\* back yet, what the metrics were told, and the observation that waits.
Counted(p, S, u) ==
  /\ Tracked(p.sched, S, u)
  /\ p.from <= u /\ p.sched.total - p.on = Ran(S, p.from, u)
  /\ p.metrics = p.sched.total
  /\ p.pending # Nothing => /\ ~ Idle(p.sched) /\ p.pending.end = p.sched.start
                            /\ p.pending.on = Ran(S, p.pending.start, p.pending.end)

ToldType == told \in [observations : Int, frames : Int, feedback : Int]

\* What was told, in each kind of report, ends where the next begins.
Counting ==
  /\ seen \subseteq 0..now - 1
  /\ Counted(pulse, seen, now)
  /\ ToldType
  /\ told.observations <= ObsMark(pulse, now)
  /\ told.frames <= Mark(pulse.sched, now)
  /\ told.feedback <= pulse.from
  /\ hold.phase \in {"holding", "done"} => augerontime = Ran(seen, 0, now)

-----------------------------------------------------------------------------
(* Time the auger ran                                                      *)

LEMMA RanType ==
  ASSUME NEW S, NEW a \in Int, NEW b \in Int
  PROVE  /\ IsFiniteSet(S \cap a..b - 1) /\ Ran(S, a, b) \in Nat
         /\ a >= b => Ran(S, a, b) = 0
<1>1. IsFiniteSet(a..b - 1)
  BY FS_Interval
<1>2. IsFiniteSet(S \cap a..b - 1)
  BY <1>1, FS_Subset
<1>3. a >= b => a..b - 1 = {}
  OBVIOUS
<1>4. a >= b => S \cap a..b - 1 = {}
  BY <1>3
<1> QED BY <1>2, <1>4, FS_CardinalityType, FS_EmptySet DEF Ran

LEMMA RanSplit ==
  ASSUME NEW S, NEW a \in Int, NEW b \in Int, NEW c \in Int, a <= b, b <= c
  PROVE  Ran(S, a, c) = Ran(S, a, b) + Ran(S, b, c)
<1> DEFINE A == S \cap a..b - 1
           B == S \cap b..c - 1
<1>1. IsFiniteSet(A) /\ IsFiniteSet(B)
  BY RanType
<1>2. a..c - 1 = (a..b - 1) \cup (b..c - 1)
  OBVIOUS
<1>3. A \cup B = S \cap a..c - 1
  BY <1>2
<1>4. A \cap B = {}
  OBVIOUS
<1>5. Ran(S, a, c) = Cardinality(A \cup B) /\ Ran(S, a, b) = Cardinality(A)
      /\ Ran(S, b, c) = Cardinality(B)
  BY <1>3, Zenon DEF Ran
<1> HIDE DEF A, B
<1>6. Cardinality(A \cup B) = Cardinality(A) + Cardinality(B) - Cardinality(A \cap B)
  BY <1>1, FS_Union
<1>7. Cardinality(A) \in Nat /\ Cardinality(B) \in Nat /\ Cardinality(A \cap B) = 0
  BY <1>1, <1>4, FS_CardinalityType, FS_EmptySet
<1> QED BY <1>5, <1>6, <1>7

\* What was seen before u stays; from then on the auger ran all the time or not.
LEMMA LastsRan ==
  ASSUME NEW S, NEW T, NEW u, NEW t, NEW on, Lasts(S, T, u, t, on)
  PROVE  /\ T \subseteq 0..t - 1
         /\ u = t => T = S
         /\ \A a, b \in Int : b <= u => Ran(T, a, b) = Ran(S, a, b)
         /\ \A a, b \in Int : u <= a /\ a <= b /\ b <= t =>
               Ran(T, a, b) = IF on THEN b - a ELSE 0
<1>0. /\ u \in Nat /\ t \in Nat /\ u <= t /\ on \in BOOLEAN
      /\ S \subseteq 0..u - 1 /\ T = Grown(S, u, t, on)
  BY DEF Lasts
<1>1. T \subseteq 0..t - 1
  BY <1>0 DEF Grown
<1>2. u = t => T = S
  <2>1. u = t => u..t - 1 = {}
    BY <1>0
  <2> QED BY <1>0, <2>1 DEF Grown
<1>3. ASSUME NEW a \in Int, NEW b \in Int, b <= u
      PROVE  Ran(T, a, b) = Ran(S, a, b)
  <2>1. T \cap a..b - 1 = S \cap a..b - 1
    BY <1>0, <1>3 DEF Grown
  <2> QED BY <2>1 DEF Ran
<1>4. ASSUME NEW a \in Int, NEW b \in Int, u <= a, a <= b, b <= t
      PROVE  Ran(T, a, b) = IF on THEN b - a ELSE 0
  <2>1. CASE on
    <3>1. T \cap a..b - 1 = a..b - 1
      BY <1>0, <1>4, <2>1 DEF Grown
    <3>2. Cardinality(a..b - 1) = IF a > b - 1 THEN 0 ELSE (b - 1) - a + 1
      BY FS_Interval
    <3>3. Ran(T, a, b) = Cardinality(a..b - 1)
      BY <3>1, Zenon DEF Ran
    <3>4. Ran(T, a, b) = b - a
      BY <1>4, <3>2, <3>3
    <3> QED BY <2>1, <3>4
  <2>2. CASE ~ on
    <3>1. T \cap a..b - 1 = {}
      BY <1>0, <1>4, <2>2 DEF Grown
    <3> QED BY <2>2, <3>1, FS_EmptySet DEF Ran
  <2> QED BY <2>1, <2>2
<1> QED BY <1>1, <1>2, <1>3, <1>4

-----------------------------------------------------------------------------
(* Reports                                                                 *)

Spells == Observations \cup Frames \cup [start : Int, end : Int, on : Int]

\* Reports of what was seen in T, each later than the one before, between from
\* and to.
Spans(reports, T, from, to) ==
  /\ reports \in Seq(Spells) /\ from <= to
  /\ \A i \in DOMAIN reports :
        /\ reports[i].on = Ran(T, reports[i].start, reports[i].end)
        /\ reports[i].start >= IF i = 1 THEN from ELSE reports[i - 1].end
        /\ reports[i].end <= to

LEMMA SpellTimes ==
  ASSUME NEW reports \in Seq(Spells)
  PROVE  \A i \in DOMAIN reports : reports[i].start \in Int /\ reports[i].end \in Int
<1>1. \A r \in Spells : r.start \in Int /\ r.end \in Int
  BY DEF Spells, Observations, Frames
<1>2. \A i \in DOMAIN reports : reports[i] \in Spells
  OBVIOUS
<1> QED BY <1>1, <1>2

LEMMA SpansNothing ==
  ASSUME NEW T, NEW from, NEW to, from <= to
  PROVE  Spans(<<>>, T, from, to)
BY DEF Spans

LEMMA SpansOne ==
  ASSUME NEW r \in Spells, NEW T, NEW from \in Int, NEW to \in Int, from <= to,
         r.on = Ran(T, r.start, r.end), from <= r.start, r.end <= to
  PROVE  Spans(<<r>>, T, from, to)
<1>1. <<r>> \in Seq(Spells) /\ DOMAIN <<r>> = {1} /\ <<r>>[1] = r
  OBVIOUS
<1>2. r.start \in Int /\ r.end \in Int
  BY <1>1, SpellTimes
<1> QED BY <1>1, <1>2 DEF Spans

LEMMA SpansConcat ==
  ASSUME NEW a, NEW b, NEW T, NEW from \in Int, NEW mid \in Int, NEW to \in Int,
         Spans(a, T, from, mid), Spans(b, T, mid, to)
  PROVE  Spans(a \o b, T, from, to)
<1>1. a \in Seq(Spells) /\ b \in Seq(Spells) /\ from <= mid /\ mid <= to
  BY DEF Spans
<1>2. a \o b \in Seq(Spells) /\ from <= to
  BY <1>1
<1>3. ASSUME NEW i \in DOMAIN (a \o b)
      PROVE  LET s == a \o b
             IN  /\ s[i].on = Ran(T, s[i].start, s[i].end)
                 /\ s[i].start >= IF i = 1 THEN from ELSE s[i - 1].end
                 /\ s[i].end <= to
  <2>1. i \in Nat \ {0} /\ Len(a) \in Nat
    BY <1>1, <1>2
  <2>2. CASE i <= Len(a)
    <3>1. /\ i \in DOMAIN a /\ (a \o b)[i] = a[i]
          /\ i # 1 => i - 1 \in DOMAIN a /\ (a \o b)[i - 1] = a[i - 1]
      BY <1>1, <1>3, <2>2
    <3>2. a[i].start \in Int /\ a[i].end \in Int
      BY <1>1, <3>1, SpellTimes
    <3>3. /\ a[i].on = Ran(T, a[i].start, a[i].end)
          /\ a[i].start >= IF i = 1 THEN from ELSE a[i - 1].end
          /\ a[i].end <= mid
      BY <3>1 DEF Spans
    <3> QED BY <1>1, <3>1, <3>2, <3>3
  <2>3. CASE i = Len(a) + 1
    <3>1. /\ 1 \in DOMAIN b /\ (a \o b)[i] = b[1]
          /\ i # 1 => Len(a) \in DOMAIN a /\ (a \o b)[i - 1] = a[Len(a)]
      BY <1>1, <1>3, <2>3
    <3>2. b[1].start \in Int /\ b[1].end \in Int
      BY <1>1, <3>1, SpellTimes
    <3>3. /\ b[1].on = Ran(T, b[1].start, b[1].end)
          /\ b[1].start >= mid /\ b[1].end <= to
      BY <3>1 DEF Spans
    <3>4. i # 1 => a[Len(a)].end \in Int /\ a[Len(a)].end <= mid
      BY <1>1, <3>1, SpellTimes DEF Spans
    <3> QED BY <1>1, <3>1, <3>2, <3>3, <3>4
  <2>4. CASE i > Len(a) + 1
    <3> DEFINE j == i - Len(a)
    <3>1. /\ j \in DOMAIN b /\ j # 1 /\ (a \o b)[i] = b[j]
          /\ j - 1 \in DOMAIN b /\ (a \o b)[i - 1] = b[j - 1] /\ i # 1
      BY <1>1, <1>3, <2>1, <2>4
    <3> HIDE DEF j
    <3>2. /\ b[j].on = Ran(T, b[j].start, b[j].end)
          /\ b[j].start >= b[j - 1].end /\ b[j].end <= to
      BY <3>1 DEF Spans
    <3> QED BY <3>1, <3>2
  <2> QED BY <2>1, <2>2, <2>3, <2>4
<1> QED BY <1>2, <1>3 DEF Spans

\* What is seen later does not change what was told.
LEMMA SpansLater ==
  ASSUME NEW S, NEW T, NEW u, NEW t, NEW on, Lasts(S, T, u, t, on),
         NEW from, NEW to \in Int, to <= u, NEW reports, Spans(reports, S, from, to)
  PROVE  Spans(reports, T, from, to)
<1>1. reports \in Seq(Spells) /\ u \in Int
  BY DEF Spans, Lasts
<1>2. \A a, b \in Int : b <= u => Ran(T, a, b) = Ran(S, a, b)
  BY LastsRan
<1>3. ASSUME NEW i \in DOMAIN reports
      PROVE  reports[i].on = Ran(T, reports[i].start, reports[i].end)
  <2>1. reports[i].start \in Int /\ reports[i].end \in Int
    BY <1>1, SpellTimes
  <2>2. reports[i].on = Ran(S, reports[i].start, reports[i].end) /\ reports[i].end <= to
    BY DEF Spans
  <2> QED BY <1>1, <1>2, <2>1, <2>2
<1> QED BY <1>3 DEF Spans

-----------------------------------------------------------------------------
(* Frames                                                                  *)

LEMMA AccountUntilAdds ==
  ASSUME NEW s \in Schedulers, NEW t \in Int
  PROVE  /\ AccountUntil(s, t).total = s.total + (IF s.on THEN t - s.at ELSE 0)
         /\ AccountUntil(s, t).frameOn = s.frameOn + (IF s.on THEN t - s.at ELSE 0)
<1> DEFINE run == IF s.on THEN t - s.at ELSE 0
<1>1. AccountUntil(s, t) = [s EXCEPT !.total = s.total + run,
                                     !.frameOn = s.frameOn + run, !.at = t]
  BY Zenon DEF AccountUntil, Schedulers
<1> HIDE DEF run
<1>2. /\ AccountUntil(s, t).total = s.total + run
      /\ AccountUntil(s, t).frameOn = s.frameOn + run
  BY <1>1, Zenon DEF Schedulers
<1> QED BY <1>2 DEF run

LEMMA BeginFrameEmpty ==
  ASSUME NEW s \in Schedulers, NEW request, NEW start, NEW on
  PROVE  BeginFrame(s, request, start, on).frameOn = 0
<1> DEFINE requested == request + s.credit
           capped == IF requested > FrameTime THEN FrameTime ELSE requested
           whole == (capped \div PulseTime) * PulseTime
<1>1. BeginFrame(s, request, start, on) =
        [s EXCEPT !.start = start, !.at = start, !.on = on, !.request = request,
                  !.scheduled = whole, !.credit = requested - whole, !.frameOn = 0]
  BY DEF BeginFrame
<1> HIDE DEF whole, requested
<1> QED BY <1>1, Zenon DEF Schedulers

\* Frames that end, and the one that begins, in scheduler s between u and t.
FramesTold(a, s, T, u, t) ==
  LET b == a.scheduler
  IN  /\ b.at = t /\ s.start + FrameTime <= b.start /\ b.start <= t
      /\ t < b.start + FrameTime
      /\ b.frameOn = Ran(T, b.start, t)
      /\ b.total - s.total = Ran(T, u, t)
      /\ Len(a.frames) \in Nat \ {0} /\ a.frames[1].start = s.start
      /\ a.frames[Len(a.frames)].end = b.start
      /\ Spans(a.frames, T, s.start, b.start)

\* The frame that is done, those nobody looked at and the one at t tell of their
\* time what was seen in it.
LEMMA FramesAfterTold ==
  ASSUME NEW s \in Schedulers, ~ Idle(s), NEW crossed \in Nat \ {0},
         NEW request \in 0..FrameTime, NEW S, NEW T, NEW u, NEW t,
         Lasts(S, T, u, t, s.on), Tracked(s, S, u),
         s.start + crossed * FrameTime <= t, t < s.start + crossed * FrameTime + FrameTime
  PROVE  FramesTold(FramesAfter(AccountUntil(s, s.start + FrameTime), crossed, request, t),
                    s, T, u, t)
<1> DEFINE done == AccountUntil(s, s.start + FrameTime)
           more == IF done.on THEN (crossed - 1) * FrameTime ELSE 0
           after == [done EXCEPT !.credit = IF crossed > 1 THEN 0 ELSE done.credit,
                                 !.total = done.total + more]
           begin == s.start + crossed * FrameTime
           next == BeginFrame(after, request, begin, done.on)
           skipped == [i \in 1..crossed - 1 |-> SkipFrame(done, s.start + i * FrameTime)]
           a == FramesAfter(done, crossed, request, t)
           b == a.scheduler
           mid == s.start + FrameTime
<1>0. /\ u \in Nat /\ t \in Nat /\ u <= t /\ s.on \in BOOLEAN
      /\ s.at = u /\ s.start <= u /\ u < mid /\ s.frameOn = Ran(S, s.start, u)
  BY DEF Lasts, Tracked
<1>1. /\ s.start \in Nat /\ FrameTime \in Nat \ {0} /\ mid \in Int
      /\ s.credit \in 0..PulseTime - 1 /\ s.total \in Int /\ s.frameOn \in Int /\ s.on \in BOOLEAN
  BY TimingAssumption DEF Schedulers, Idle
<1>2. /\ done \in Schedulers /\ done.start = s.start /\ done.at = mid
      /\ done.credit = s.credit /\ done.on = s.on
      /\ done.total = s.total + (IF s.on THEN mid - u ELSE 0)
      /\ done.frameOn = s.frameOn + (IF s.on THEN mid - u ELSE 0)
  <2>1. mid \in Int /\ s.at = u
    BY <1>0, <1>1
  <2> HIDE DEF mid
  <2>2. /\ done \in Schedulers /\ done.start = s.start /\ done.at = mid
        /\ done.on = s.on /\ done.credit = s.credit
    BY <2>1, AccountUntilKeeps DEF mid
  <2>3. /\ done.total = s.total + (IF s.on THEN mid - s.at ELSE 0)
        /\ done.frameOn = s.frameOn + (IF s.on THEN mid - s.at ELSE 0)
    BY <2>1, AccountUntilAdds DEF mid
  <2> HIDE DEF done
  <2> QED BY <2>1, <2>2, <2>3
<1>3. /\ crossed * FrameTime \in Nat /\ crossed * FrameTime >= FrameTime
      /\ (crossed - 1) * FrameTime = crossed * FrameTime - FrameTime
      /\ begin \in Nat /\ mid <= begin /\ begin <= t /\ t < begin + FrameTime
  BY <1>0, <1>1
<1> HIDE DEF done
<1>4. a = [scheduler |-> AccountUntil(next, t),
           frames |-> <<Finished(done, "complete")>> \o skipped]
  BY <1>2, Zenon DEF FramesAfter
<1>5. /\ after \in Schedulers
      /\ after.total = s.total + (IF s.on THEN begin - u ELSE 0)
  <2>1. more \in Int /\ done.total \in Int /\ done.total + more \in Int
    BY <1>0, <1>1, <1>2, <1>3
  <2>2. (IF crossed > 1 THEN 0 ELSE done.credit) \in 0..PulseTime - 1
    BY <1>1, <1>2, TimingAssumption
  <2>3. done.total + more = s.total + (IF s.on THEN begin - u ELSE 0)
    <3>1. CASE s.on
      BY <1>0, <1>1, <1>2, <1>3, <3>1
    <3>2. CASE ~ s.on
      BY <1>0, <1>1, <1>2, <1>3, <3>2
    <3> QED BY <3>1, <3>2
  <2> HIDE DEF more, begin
  <2>4. after \in Schedulers
    BY <1>2, <2>1, <2>2, Zenon DEF Schedulers
  <2>5. after.total = done.total + more
    BY <1>2, Zenon DEF Schedulers
  <2> QED BY <2>3, <2>4, <2>5
<1> HIDE DEF after
<1>6. /\ next \in Schedulers /\ next.start = begin /\ next.at = begin /\ next.on = s.on
      /\ next.total = after.total /\ next.frameOn = 0
  <2>1. begin \in Nat
    BY <1>3
  <2>2. done.on = s.on /\ s.on \in BOOLEAN
    BY <1>1, <1>2
  <2> HIDE DEF begin
  <2>3. /\ next \in Schedulers /\ next.start = begin /\ next.at = begin
        /\ next.on = done.on /\ next.total = after.total
    BY <1>5, <2>1, <2>2, BeginFrameCredit
  <2>4. next.frameOn = 0
    BY <1>5, BeginFrameEmpty
  <2> HIDE DEF next
  <2> QED BY <2>2, <2>3, <2>4
<1> HIDE DEF next
<1>7. /\ b = AccountUntil(next, t) /\ t \in Int
      /\ a.frames = <<Finished(done, "complete")>> \o skipped
  BY <1>0, <1>4
<1> HIDE DEF a
<1>8. /\ b.start = begin /\ b.at = t
      /\ b.total = s.total + (IF s.on THEN t - u ELSE 0)
      /\ b.frameOn = IF s.on THEN t - begin ELSE 0
  <2> HIDE DEF begin
  <2>0. /\ AccountUntil(next, t).start = next.start /\ AccountUntil(next, t).at = t
        /\ AccountUntil(next, t).total = next.total + (IF next.on THEN t - next.at ELSE 0)
        /\ AccountUntil(next, t).frameOn = next.frameOn + (IF next.on THEN t - next.at ELSE 0)
    BY <1>6, <1>7, AccountUntilKeeps, AccountUntilAdds
  <2>1. /\ b.start = next.start /\ b.at = t
        /\ b.total = next.total + (IF next.on THEN t - next.at ELSE 0)
        /\ b.frameOn = next.frameOn + (IF next.on THEN t - next.at ELSE 0)
    BY <1>7, <2>0
  <2>2. CASE s.on
    BY <1>0, <1>1, <1>3, <1>5, <1>6, <2>1, <2>2
  <2>3. CASE ~ s.on
    BY <1>0, <1>1, <1>3, <1>5, <1>6, <2>1, <2>3
  <2> QED BY <2>2, <2>3
<1>9. /\ \A x, y \in Int : y <= u => Ran(T, x, y) = Ran(S, x, y)
      /\ \A x, y \in Int : u <= x /\ x <= y /\ y <= t =>
            Ran(T, x, y) = IF s.on THEN y - x ELSE 0
  BY LastsRan
<1>10. b.frameOn = Ran(T, b.start, t) /\ b.total - s.total = Ran(T, u, t)
  <2>1. Ran(T, begin, t) = IF s.on THEN t - begin ELSE 0
    BY <1>0, <1>1, <1>3, <1>9
  <2>2. Ran(T, u, t) = IF s.on THEN t - u ELSE 0
    BY <1>0, <1>9
  <2> QED BY <1>0, <1>1, <1>8, <2>1, <2>2
<1>11. /\ Finished(done, "complete") \in Frames
       /\ Finished(done, "complete").start = s.start
       /\ Finished(done, "complete").end = mid
       /\ Finished(done, "complete").on = Ran(T, s.start, mid)
  <2>1. Ran(T, s.start, mid) = Ran(T, s.start, u) + Ran(T, u, mid)
    <3> HIDE DEF mid
    <3> QED BY <1>0, <1>1, RanSplit
  <2>2. Ran(T, s.start, u) = s.frameOn /\ Ran(T, u, mid) = IF s.on THEN mid - u ELSE 0
    BY <1>0, <1>1, <1>3, <1>9
  <2> QED BY <1>1, <1>2, <2>1, <2>2 DEF Finished, Frames, Schedulers
<1>12. \A i \in 1..crossed - 1 :
         /\ skipped[i] \in Frames
         /\ skipped[i].start = s.start + i * FrameTime
         /\ skipped[i].end = skipped[i].start + FrameTime
         /\ skipped[i].end <= begin
         /\ skipped[i].on = Ran(T, skipped[i].start, skipped[i].end)
  <2> SUFFICES ASSUME NEW i \in 1..crossed - 1
               PROVE  /\ skipped[i] \in Frames
                      /\ skipped[i].start = s.start + i * FrameTime
                      /\ skipped[i].end = skipped[i].start + FrameTime
                      /\ skipped[i].end <= begin
                      /\ skipped[i].on = Ran(T, skipped[i].start, skipped[i].end)
    BY Zenon
  <2> DEFINE x == s.start + i * FrameTime
  <2>1. skipped[i] = SkipFrame(done, x)
    OBVIOUS
  <2>2. /\ x \in Int /\ u <= x /\ x + FrameTime <= begin
    <3>1. i * FrameTime \in Nat /\ i * FrameTime >= FrameTime
      BY <1>1
    <3>2. i * FrameTime + FrameTime <= crossed * FrameTime
      <4>1. crossed - 1 - i \in Nat /\ (crossed - 1 - i) * FrameTime \in Nat
        BY <1>1
      <4>2. (crossed - 1 - i) * FrameTime = crossed * FrameTime - FrameTime - i * FrameTime
        BY <1>1
      <4> QED BY <1>1, <1>3, <3>1, <4>1, <4>2
    <3> QED BY <1>0, <1>1, <1>3, <3>1, <3>2
  <2> HIDE DEF skipped, x
  <2>3. /\ skipped[i].start = x /\ skipped[i].end = x + FrameTime
        /\ skipped[i].on = (IF s.on THEN FrameTime ELSE 0) /\ skipped[i] \in Frames
    BY <1>1, <1>2, <2>1, <2>2 DEF SkipFrame, Frames
  <2>4. Ran(T, x, x + FrameTime) = IF s.on THEN (x + FrameTime) - x ELSE 0
    <3>1. x + FrameTime \in Int /\ x <= x + FrameTime /\ x + FrameTime <= t
      BY <1>0, <1>1, <1>3, <2>2
    <3> QED BY <1>9, <2>2, <3>1
  <2>5. (x + FrameTime) - x = FrameTime
    BY <1>1, <2>2
  <2> QED BY <2>2, <2>3, <2>4, <2>5 DEF x
<1>13. /\ skipped \in Seq(Frames) /\ Len(skipped) = crossed - 1
       /\ DOMAIN skipped = 1..crossed - 1
  <2>1. crossed - 1 \in Nat /\ skipped \in [1..crossed - 1 -> Frames]
    BY <1>12
  <2> HIDE DEF skipped
  <2> QED BY <2>1
<1> HIDE DEF skipped
<1>14. /\ a.frames \in Seq(Frames) /\ DOMAIN a.frames = 1..crossed
       /\ Len(a.frames) = crossed
       /\ a.frames[1] = Finished(done, "complete")
       /\ \A i \in 2..crossed : a.frames[i] = skipped[i - 1]
  <2>1. <<Finished(done, "complete")>> \in Seq(Frames)
    BY <1>11
  <2> QED BY <1>7, <1>13, <2>1
<1>15. \A i \in 1..crossed :
         /\ a.frames[i].on = Ran(T, a.frames[i].start, a.frames[i].end)
         /\ a.frames[i].end = s.start + i * FrameTime
         /\ a.frames[i].start = s.start + (i - 1) * FrameTime
         /\ a.frames[i].end <= begin
  <2> SUFFICES ASSUME NEW i \in 1..crossed
               PROVE  /\ a.frames[i].on = Ran(T, a.frames[i].start, a.frames[i].end)
                      /\ a.frames[i].end = s.start + i * FrameTime
                      /\ a.frames[i].start = s.start + (i - 1) * FrameTime
                      /\ a.frames[i].end <= begin
    BY Zenon
  <2>1. CASE i = 1
    <3>1. 1 * FrameTime = FrameTime /\ (1 - 1) * FrameTime = 0
      BY <1>1
    <3>2. s.start + FrameTime = mid /\ s.start + 0 = s.start
      BY <1>1
    <3> HIDE DEF begin, mid
    <3> QED BY <1>3, <1>11, <1>14, <2>1, <3>1, <3>2
  <2>2. CASE i # 1
    <3>1. i - 1 \in 1..crossed - 1 /\ i \in 2..crossed
      BY <2>2
    <3>2. i * FrameTime = (i - 1) * FrameTime + FrameTime
      BY <1>1
    <3>3. (i - 1) * FrameTime \in Int
      BY <1>1
    <3> DEFINE j == i - 1
    <3>4. /\ a.frames[i] = skipped[j]
          /\ skipped[j].start = s.start + j * FrameTime
          /\ skipped[j].end = skipped[j].start + FrameTime
          /\ skipped[j].end <= begin
          /\ skipped[j].on = Ran(T, skipped[j].start, skipped[j].end)
      <4> HIDE DEF begin
      <4> QED BY <1>12, <1>14, <3>1
    <3> QED BY <1>1, <3>2, <3>3, <3>4
  <2> QED BY <2>1, <2>2
<1>16. Spans(a.frames, T, s.start, begin)
  <2>1. a.frames \in Seq(Spells)
    BY <1>14 DEF Spells
  <2>2. ASSUME NEW i \in 1..crossed, i # 1
        PROVE  a.frames[i].start >= a.frames[i - 1].end
    <3>1. i - 1 \in 1..crossed /\ (i - 1) * FrameTime \in Int
      BY <1>1, <2>2
    <3> QED BY <1>1, <1>15, <3>1
  <2>3. a.frames[1].start >= s.start /\ s.start <= begin
    BY <1>1, <1>3, <1>11, <1>14
  <2> HIDE DEF begin
  <2> QED BY <1>14, <1>15, <2>1, <2>2, <2>3 DEF Spans
<1>17. a.frames[1].start = s.start /\ a.frames[crossed].end = begin
  BY <1>11, <1>14, <1>15
<1> QED BY <1>3, <1>8, <1>10, <1>14, <1>16, <1>17 DEF a, done, FramesTold

\* What becomes of scheduler s between u and t.
SchedulerTold(a, s, T, u, t) ==
  LET b == a.scheduler
  IN  /\ b \in Schedulers /\ ~ Idle(b) /\ Tracked(b, T, t)
      /\ b.total - s.total = Ran(T, u, t)
      /\ Spans(a.frames, T, Mark(s, u), b.start)
      /\ a.frames = <<>> => Idle(s) \/ b.start = s.start
      /\ a.frames # <<>> =>
            /\ ~ Idle(s) /\ s.start + FrameTime <= t
            /\ Len(a.frames) \in DOMAIN a.frames
            /\ a.frames[1].start = s.start
            /\ a.frames[Len(a.frames)].end = b.start

LEMMA AdvanceToTold ==
  ASSUME NEW s, NEW S, NEW T, NEW u, NEW t, Lasts(S, T, u, t, s.on), Tracked(s, S, u),
         Within(s, t), NEW request \in 0..FrameTime, NEW on \in BOOLEAN
  PROVE  SchedulerTold(AdvanceTo(s, request, t, on), s, T, u, t)
<1> DEFINE a == AdvanceTo(s, request, t, on)
           b == a.scheduler
<1>0. /\ s \in Schedulers /\ u \in Nat /\ t \in Nat /\ t \in Int /\ u <= t /\ s.on \in BOOLEAN
      /\ s.total \in Int /\ FrameTime \in Nat \ {0}
  BY TimingAssumption DEF Lasts, Within, Schedulers
<1>1. b \in Schedulers /\ ~ Idle(b) /\ b.start <= t /\ b.at = t
  BY <1>0, AdvanceToFacts
<1>2. b.start \in Nat /\ b.total \in Int /\ b.frameOn \in Int
  BY <1>1 DEF Schedulers, Idle
<1>3. /\ \A x, y \in Int : y <= u => Ran(T, x, y) = Ran(S, x, y)
      /\ \A x, y \in Int : u <= x /\ x <= y /\ y <= t =>
            Ran(T, x, y) = IF s.on THEN y - x ELSE 0
  BY LastsRan
<1>4. CASE Idle(s)
  <2>1. a = [scheduler |-> BeginFrame(s, request, t, on), frames |-> <<>>]
    BY <1>4 DEF AdvanceTo
  <2>2. b = BeginFrame(s, request, t, on) /\ a.frames = <<>>
    BY <2>1
  <2>3. b.start = t /\ b.total = s.total /\ b.frameOn = 0
    <3>1. /\ BeginFrame(s, request, t, on).start = t
          /\ BeginFrame(s, request, t, on).total = s.total
      BY <1>0, BeginFrameCredit
    <3> HIDE DEF a
    <3> QED BY <1>0, <2>2, <3>1, BeginFrameEmpty
  <2>4. ~ s.on /\ Mark(s, u) = u
    BY <1>4 DEF Tracked, Mark
  <2>5. Ran(T, u, t) = 0 /\ Ran(T, t, t) = 0
    BY <1>0, <1>3, <2>4, RanType
  <2> HIDE DEF a
  <2>6. Tracked(b, T, t)
    BY <1>0, <1>1, <2>3, <2>5 DEF Tracked
  <2>7. Spans(a.frames, T, Mark(s, u), b.start)
    BY <1>0, <2>2, <2>3, <2>4, SpansNothing
  <2>8. b.total - s.total = Ran(T, u, t)
    BY <1>0, <2>3, <2>5
  <2> QED BY <1>1, <1>4, <2>2, <2>6, <2>7, <2>8 DEF a, SchedulerTold
<1>5. CASE ~ Idle(s)
  <2> DEFINE crossed == (t - s.start) \div FrameTime
             m == AdvanceFrames(s, request, t)
  <2>1. /\ s.start \in Nat /\ s.at = u /\ s.start <= u /\ u < s.start + FrameTime
        /\ s.frameOn = Ran(S, s.start, u) /\ Mark(s, u) = s.start
    BY <1>0, <1>5 DEF Tracked, Mark, Idle, Schedulers
  <2>2. /\ crossed \in Nat /\ s.start + crossed * FrameTime <= t
        /\ t < s.start + crossed * FrameTime + FrameTime
    <3>1. t - s.start \in Nat
      BY <1>0, <2>1
    <3> DEFINE n == t - s.start
    <3>2. n \in Int
      BY <3>1
    <3> HIDE DEF n
    <3>3. /\ n \div FrameTime \in Int /\ n % FrameTime \in 0..FrameTime - 1
          /\ n = FrameTime * (n \div FrameTime) + (n % FrameTime)
      BY <1>0, <3>2
    <3>4. n \div FrameTime \in Nat
      BY <3>1, TimingAssumption DEF n
    <3>5. /\ t = s.start + n /\ crossed = n \div FrameTime
      BY <1>0, <2>1 DEF n, crossed
    <3> HIDE DEF crossed
    <3> QED BY <1>0, <2>1, <3>3, <3>4, <3>5
  <2> HIDE DEF crossed
  <2>3. a = [m EXCEPT !.scheduler.on = on]
    BY <1>5 DEF AdvanceTo
  <2>4. m = [scheduler |-> m.scheduler, frames |-> m.frames] /\ m.scheduler \in Schedulers
    <3>1. CASE crossed = 0
      <4>1. m = [scheduler |-> AccountUntil(s, t), frames |-> <<>>]
        BY <3>1 DEF AdvanceFrames, crossed
      <4> QED BY <1>0, <4>1, AccountUntilKeeps
    <3>2. CASE crossed # 0
      <4> DEFINE f == FramesAfter(AccountUntil(s, s.start + FrameTime), crossed, request, t)
      <4>1. m = f
        BY <3>2 DEF AdvanceFrames, crossed
      <4>2. f = [scheduler |-> f.scheduler, frames |-> f.frames]
        BY DEF FramesAfter
      <4>3. crossed \in Nat \ {0}
        BY <2>2, <3>2
      <4> HIDE DEF m
      <4>4. f.scheduler \in Schedulers
        BY <1>0, <1>5, <2>2, <4>3, FramesAfterFacts
      <4> HIDE DEF f
      <4> QED BY <4>1, <4>2, <4>4
    <3> QED BY <3>1, <3>2
  <2>5. /\ m.scheduler.start <= t /\ m.scheduler.start \in Nat
        /\ t < m.scheduler.start + FrameTime
        /\ m.scheduler.frameOn = Ran(T, m.scheduler.start, t)
        /\ m.scheduler.total - s.total = Ran(T, u, t)
        /\ Spans(m.frames, T, s.start, m.scheduler.start)
        /\ m.frames = <<>> => m.scheduler.start = s.start
        /\ m.frames # <<>> =>
              /\ s.start + FrameTime <= t
              /\ Len(m.frames) \in DOMAIN m.frames
              /\ m.frames[1].start = s.start
              /\ m.frames[Len(m.frames)].end = m.scheduler.start
    <3>1. CASE crossed = 0
      <4> DEFINE c == AccountUntil(s, t)
      <4>1. m.scheduler = c /\ m.frames = <<>>
        BY <3>1 DEF AdvanceFrames, crossed
      <4>2. c.start = s.start
        BY <1>0, AccountUntilKeeps
      <4>3. /\ c.total = s.total + (IF s.on THEN t - u ELSE 0)
            /\ c.frameOn = s.frameOn + (IF s.on THEN t - u ELSE 0)
        BY <1>0, <2>1, AccountUntilAdds
      <4> HIDE DEF c, m
      <4>4. Ran(T, u, t) = IF s.on THEN t - u ELSE 0
        BY <1>0, <1>3
      <4>5. Ran(T, s.start, t) = Ran(T, s.start, u) + Ran(T, u, t)
        BY <1>0, <2>1, RanSplit
      <4>6. Ran(T, s.start, u) = s.frameOn /\ s.frameOn \in Int
        BY <1>0, <1>3, <2>1 DEF Schedulers
      <4>7. t < s.start + FrameTime /\ s.start <= t
        BY <1>0, <2>1, <2>2, <3>1
      <4>8. Spans(<<>>, T, s.start, s.start)
        BY <2>1, SpansNothing
      <4>9. c.frameOn = Ran(T, s.start, t) /\ c.total - s.total = Ran(T, u, t)
        BY <1>0, <4>3, <4>4, <4>5, <4>6
      <4> QED BY <2>1, <4>1, <4>2, <4>7, <4>8, <4>9
    <3>2. CASE crossed # 0
      <4> DEFINE f == FramesAfter(AccountUntil(s, s.start + FrameTime), crossed, request, t)
      <4>1. m = f
        BY <3>2 DEF AdvanceFrames, crossed
      <4>2. crossed \in Nat \ {0}
        BY <2>2, <3>2
      <4> HIDE DEF m
      <4>3. FramesTold(f, s, T, u, t)
        BY <1>0, <1>5, <2>2, <4>2, FramesAfterTold
      <4> HIDE DEF f
      <4>4. f.frames \in Seq(Spells) /\ f.scheduler \in Schedulers
        BY <2>4, <4>1, <4>3 DEF FramesTold, Spans
      <4>5. Len(f.frames) \in DOMAIN f.frames /\ f.frames # <<>>
        BY <4>3, <4>4 DEF FramesTold
      <4>6. f.scheduler.start \in Int
        BY <4>4 DEF Schedulers, Never
      <4>7. f.scheduler.start \in Nat /\ s.start + FrameTime <= t
        BY <1>0, <2>1, <4>3, <4>6 DEF FramesTold
      <4> QED BY <4>1, <4>3, <4>5, <4>7 DEF FramesTold
    <3> QED BY <3>1, <3>2
  <2> HIDE DEF m
  <2>6. a.frames = m.frames /\ b = [m.scheduler EXCEPT !.on = on]
    BY <2>3, <2>4
  <2> HIDE DEF a
  <2>7. /\ b.start = m.scheduler.start /\ b.frameOn = m.scheduler.frameOn
        /\ b.total = m.scheduler.total
    BY <2>4, <2>6, Zenon DEF Schedulers
  <2>8. Tracked(b, T, t)
    BY <1>0, <1>1, <2>5, <2>7 DEF Tracked
  <2> QED BY <1>1, <1>5, <2>1, <2>5, <2>6, <2>7, <2>8 DEF a, SchedulerTold
<1> QED BY <1>4, <1>5

-----------------------------------------------------------------------------
(* Pulses                                                                  *)

LEMMA ObservedTold ==
  ASSUME NEW frames \in Seq(Frames), NEW T, NEW from, NEW to, Spans(frames, T, from, to),
         NEW latched \in Latches, NEW sample \in Samples, NEW inhibited \in BOOLEAN
  PROVE  Spans(Observed(frames, latched, sample, inhibited), T, from, to)
<1> DEFINE obs == [i \in DOMAIN frames |-> Observation(frames[i], latched, sample, inhibited)]
<1>1. ASSUME NEW i \in DOMAIN frames
      PROVE  /\ obs[i] \in Observations /\ obs[i].on = frames[i].on
             /\ obs[i].start = frames[i].start /\ obs[i].end = frames[i].end
  <2>1. frames[i] \in Frames /\ obs[i] = Observation(frames[i], latched, sample, inhibited)
    BY <1>1
  <2>2. Observation(frames[i], latched, sample, inhibited) \in Observations
    BY <2>1, ObservationType
  <2>3. /\ obs[i].on = frames[i].on
        /\ obs[i].start = frames[i].start /\ obs[i].end = frames[i].end
    BY <2>1 DEF Observation
  <2> HIDE DEF obs
  <2> QED BY <2>1, <2>2, <2>3
<1>2. obs \in [1..Len(frames) -> Observations] /\ Len(frames) \in Nat
  <2>1. obs \in [DOMAIN frames -> Observations]
    BY <1>1
  <2>2. DOMAIN frames = 1..Len(frames) /\ Len(frames) \in Nat
    OBVIOUS
  <2> QED BY <2>1, <2>2
<1>3. DOMAIN obs = DOMAIN frames /\ DOMAIN frames = 1..Len(frames)
  OBVIOUS
<1>4. Observed(frames, latched, sample, inhibited) \in {obs, <<>>}
  BY DEF Observed
<1> HIDE DEF obs
<1>5. obs \in Seq(Spells)
  <2>1. obs \in Seq(Observations)
    BY <1>2
  <2> QED BY <2>1 DEF Spells
<1>6. from <= to /\ \A i \in DOMAIN frames :
        /\ frames[i].on = Ran(T, frames[i].start, frames[i].end)
        /\ frames[i].start >= IF i = 1 THEN from ELSE frames[i - 1].end
        /\ frames[i].end <= to
  BY DEF Spans
<1>7. ASSUME NEW i \in DOMAIN obs
      PROVE  /\ obs[i].on = Ran(T, obs[i].start, obs[i].end)
             /\ obs[i].start >= IF i = 1 THEN from ELSE obs[i - 1].end
             /\ obs[i].end <= to
  <2>1. i # 1 => i - 1 \in DOMAIN frames
    BY <1>2, <1>3
  <2> QED BY <1>1, <1>3, <1>6, <2>1
<1>8. Spans(obs, T, from, to)
  BY <1>5, <1>6, <1>7 DEF Spans
<1> QED BY <1>4, <1>6, <1>8, SpansNothing

\* Where the reports of pulses at u begin.
LEMMA Marks ==
  ASSUME NEW p, NEW d, NEW t, PulseOK(p, d, t), NEW S, NEW u \in Nat, Counted(p, S, u)
  PROVE  /\ Mark(p.sched, u) \in Int /\ ObsMark(p, u) \in Int
         /\ ObsMark(p, u) <= Mark(p.sched, u) /\ Mark(p.sched, u) <= u
         /\ p.pending # Nothing =>
               /\ p.pending \in Observations /\ p.pending.start \in Int
               /\ p.pending.end = Mark(p.sched, u) /\ p.pending.end = p.sched.start
               /\ p.pending.end = p.pending.start + FrameTime
               /\ ObsMark(p, u) = p.pending.start
               /\ p.pending.on = Ran(S, p.pending.start, p.pending.end)
<1>1. /\ p.sched \in Schedulers /\ p.pending \in {Nothing} \cup Observations
      /\ p.sched.start \in Int
  BY DEF PulseOK, Pulses, Schedulers, Never
<1>2. Mark(p.sched, u) \in Int /\ Mark(p.sched, u) <= u
  BY <1>1 DEF Counted, Tracked, Mark
<1>3. CASE p.pending = Nothing
  BY <1>2, <1>3 DEF ObsMark
<1>4. CASE p.pending # Nothing
  <2>1. p.pending \in Observations /\ p.pending.start \in Int
    BY <1>1, <1>4 DEF Observations
  <2>2. p.pending.end = p.pending.start + FrameTime
    BY <1>4 DEF PulseOK, PendingAfter
  <2>3. /\ p.pending.end = p.sched.start /\ Mark(p.sched, u) = p.sched.start
        /\ p.pending.on = Ran(S, p.pending.start, p.pending.end)
    BY <1>4 DEF Counted, Mark
  <2>4. ObsMark(p, u) = p.pending.start
    BY <1>4 DEF ObsMark
  <2> QED BY <1>2, <2>1, <2>2, <2>3, <2>4, TimingAssumption
<1> QED BY <1>3, <1>4

LEMMA InvalidatedTold ==
  ASSUME NEW p, NEW d, NEW t, PulseOK(p, d, t), NEW S, NEW u \in Nat, Counted(p, S, u)
  PROVE  Spans(Invalidated(p), S, ObsMark(p, u), Mark(p.sched, u))
<1>1. CASE p.pending = Nothing
  BY <1>1, Marks, SpansNothing DEF Invalidated
<1>2. CASE p.pending # Nothing
  <2>1. /\ p.pending \in Spells
        /\ p.pending.on = Ran(S, p.pending.start, p.pending.end)
        /\ ObsMark(p, u) = p.pending.start /\ p.pending.end = Mark(p.sched, u)
    BY <1>2, Marks DEF Spells
  <2>2. /\ Mark(p.sched, u) \in Int /\ ObsMark(p, u) \in Int
        /\ ObsMark(p, u) <= Mark(p.sched, u)
    BY Marks
  <2>3. Invalidated(p) = <<p.pending>>
    BY <1>2 DEF Invalidated
  <2> HIDE DEF ObsMark, Mark
  <2>4. ObsMark(p, u) <= p.pending.start /\ p.pending.end <= Mark(p.sched, u)
    BY <2>1, <2>2
  <2>5. Spans(<<p.pending>>, S, ObsMark(p, u), Mark(p.sched, u))
    BY <2>1, <2>2, <2>4, SpansOne
  <2> QED BY <2>3, <2>5
<1> QED BY <1>1, <1>2

\* An observation that does not wait any longer.
LEMMA ResolvedTold ==
  ASSUME NEW p, NEW d, NEW v, PulseOK(p, d, v), NEW S, NEW u \in Nat, Counted(p, S, u),
         NEW sample \in Samples, NEW t, ~ Waits(p, sample, t)
  PROVE  Spans(Resolved(p, sample, t), S, ObsMark(p, u), Mark(p.sched, u))
<1>1. CASE ~ Resolvable(p.pending, sample, t) \/ p.pending = Nothing
  BY <1>1, InvalidatedTold DEF Resolved, Invalidated
<1>2. CASE Resolvable(p.pending, sample, t) /\ p.pending # Nothing
  <2> DEFINE o == [p.pending EXCEPT !.continuous = TRUE, !.acquired = sample.acquired]
  <2>1. /\ p.pending \in Observations
        /\ p.pending.on = Ran(S, p.pending.start, p.pending.end)
        /\ ObsMark(p, u) = p.pending.start /\ p.pending.end = Mark(p.sched, u)
    BY <1>2, Marks
  <2>2. /\ Mark(p.sched, u) \in Int /\ ObsMark(p, u) \in Int
        /\ ObsMark(p, u) <= Mark(p.sched, u)
    BY Marks
  <2>3. sample.acquired \in Int
    BY DEF Samples
  <2>4. /\ o \in Observations /\ o.start = p.pending.start /\ o.end = p.pending.end
        /\ o.on = p.pending.on
    BY <2>1, <2>3, Zenon DEF Observations
  <2>5. Resolved(p, sample, t) = <<o>>
    BY <1>2 DEF Resolved
  <2> HIDE DEF o, ObsMark, Mark
  <2>6. /\ o \in Spells /\ ObsMark(p, u) <= o.start /\ o.end <= Mark(p.sched, u)
        /\ o.on = Ran(S, o.start, o.end)
    BY <2>1, <2>2, <2>4 DEF Spells
  <2>7. Spans(<<o>>, S, ObsMark(p, u), Mark(p.sched, u))
    BY <2>2, <2>6, SpansOne
  <2> QED BY <2>5, <2>7
<1> QED BY <1>1, <1>2

\* What becomes of pulses between u and t, and what is told of it.
PulsesTold(r, p, T, u, t) ==
  /\ Counted(r.pulse, T, t)
  /\ Spans(r.result.observations, T, ObsMark(p, u), ObsMark(r.pulse, t))
  /\ Spans(r.result.frames, T, Mark(p.sched, u), Mark(r.pulse.sched, t))
  /\ Spans(r.result.feedback, T, p.from, r.pulse.from)
  /\ r.delta = Ran(T, u, t)

LEMMA AdvancePulseTold ==
  ASSUME NEW p, NEW d, NEW t \in Nat, PulseOK(p, d, t), NEW h \in Holds,
         NEW on \in BOOLEAN, NEW sample \in Samples,
         NEW S, NEW T, NEW u, Lasts(S, T, u, t, p.sched.on), Counted(p, S, u)
  PROVE  PulsesTold(AdvancePulse(p, h, t, on, sample), p, T, u, t)
<1> DEFINE a == AdvanceTo(p.sched, h.request, t, on)
           b == a.scheduler
           r == AdvancePulse(p, h, t, on, sample)
           ended == a.frames # <<>>
           deferred == ended /\ Deferred(a.frames[1], a.frames, p.latched, sample, t)
           latched == IF ended \/ Idle(p.sched) THEN Latch(h, sample.role) ELSE p.latched
           first == ~ended /\ ~p.latched.solved /\ latched.solved
           at == IF ended THEN a.frames[Len(a.frames)].end ELSE t
           total == IF ended THEN b.total - b.frameOn ELSE b.total
           report == (ended \/ first) /\ at > p.from
           wait == IF deferred THEN Observation(a.frames[1], p.latched, sample, FALSE)
                   ELSE IF Waits(p, sample, t) THEN p.pending ELSE Nothing
           from == IF report THEN at ELSE p.from
           onto == IF report THEN total ELSE p.on
           q == [p EXCEPT !.sched = b, !.latched = latched,
                          !.metrics = b.total, !.from = from, !.on = onto,
                          !.pending = wait]
           others == IF deferred THEN <<>> ELSE Observed(a.frames, p.latched, sample, FALSE)
           feedback == IF report THEN ReportFrames(p, at, total) ELSE <<>>
           mark == Mark(p.sched, u)
<1>1. /\ p \in Pulses /\ Within(p.sched, t) /\ p.latched \in Latches
      /\ p.from \in Int /\ p.on \in Int /\ p.sched \in Schedulers /\ p.sched.total \in Int
      /\ h.request \in 0..FrameTime
  BY DEF PulseOK, Pulses, Holds, Schedulers
<1>2. /\ u \in Nat /\ u <= t /\ t \in Int /\ u \in Int /\ FrameTime \in Nat \ {0}
      /\ Tracked(p.sched, S, u) /\ p.from <= u /\ p.metrics = p.sched.total
      /\ p.sched.total - p.on = Ran(S, p.from, u)
  BY TimingAssumption DEF Counted, Lasts
<1>3. /\ b \in Schedulers /\ ~ Idle(b) /\ Tracked(b, T, t)
      /\ b.total - p.sched.total = Ran(T, u, t)
      /\ Spans(a.frames, T, mark, b.start)
      /\ a.frames = <<>> => Idle(p.sched) \/ b.start = p.sched.start
      /\ a.frames # <<>> =>
            /\ ~ Idle(p.sched) /\ p.sched.start + FrameTime <= t
            /\ Len(a.frames) \in DOMAIN a.frames
            /\ a.frames[1].start = p.sched.start
            /\ a.frames[Len(a.frames)].end = b.start
  <2>1. SchedulerTold(a, p.sched, T, u, t)
    BY <1>1, <1>2, AdvanceToTold
  <2> HIDE DEF a
  <2> QED BY <2>1 DEF SchedulerTold
<1>4. FramesFrom(a.frames, p.sched.start)
  BY <1>1, AdvanceToFacts
<1>5. /\ r.pulse = q /\ r.delta = b.total - p.metrics
      /\ r.result.observations = Resolved(p, sample, t) \o others
      /\ r.result.frames = a.frames /\ r.result.feedback = feedback
  BY Zenon DEF AdvancePulse, Advanced
<1> HIDE DEF a, r
<1>6. /\ b.total \in Int /\ b.frameOn \in Int /\ b.start \in Nat /\ b.start <= t
      /\ b.frameOn = Ran(T, b.start, t)
  BY <1>3 DEF Schedulers, Idle, Tracked
<1>7. a.frames \in Seq(Frames)
  BY <1>4 DEF FramesFrom
<1>8. /\ mark \in Int /\ ObsMark(p, u) \in Int /\ mark <= u
      /\ p.pending # Nothing =>
            /\ p.pending \in Observations /\ p.pending.start \in Int
            /\ p.pending.end = p.sched.start
            /\ p.pending.end = p.pending.start + FrameTime
            /\ ObsMark(p, u) = p.pending.start
            /\ p.pending.on = Ran(S, p.pending.start, p.pending.end)
            /\ ~ Idle(p.sched)
  BY <1>2, Marks DEF Counted
<1>9. /\ \A x, y \in Int : y <= u => Ran(T, x, y) = Ran(S, x, y)
  BY LastsRan
\* No frame ends while an observation waits.
<1>10. ended => ~ Waits(p, sample, t)
  <2> SUFFICES ASSUME ended, Waits(p, sample, t) PROVE FALSE
    OBVIOUS
  <2>1. /\ p.pending # Nothing
        /\ t < p.pending.end + (p.pending.end - p.pending.start)
    BY DEF Waits, Resolvable
  <2>2. p.sched.start + FrameTime <= t /\ p.sched.start \in Int
    BY <1>1, <1>3 DEF Schedulers, Never
  <2> QED BY <1>2, <1>8, <2>1, <2>2
<1>11. /\ wait # Nothing => /\ wait.end = b.start /\ wait.on = Ran(T, wait.start, wait.end)
       /\ q.sched = b /\ q.from = from /\ q.on = onto /\ q.metrics = b.total
       /\ q.pending = wait
  <2>1. CASE deferred
    <3> DEFINE f == a.frames[1]
    <3>1. Len(a.frames) = 1 /\ 1 \in DOMAIN a.frames
      BY <1>7, <2>1 DEF Deferred
    <3>2. /\ f.end = b.start /\ f.on = Ran(T, f.start, f.end)
      BY <1>3, <2>1, <3>1 DEF Spans
    <3>3. wait.end = f.end /\ wait.start = f.start /\ wait.on = f.on
      BY <2>1 DEF Observation
    <3> HIDE DEF wait, f
    <3>4. wait.end = b.start /\ wait.on = Ran(T, wait.start, wait.end)
      BY <3>2, <3>3
    <3> HIDE DEF latched, from, onto
    <3> QED BY <1>1, <3>4, Zenon DEF Pulses
  <2>2. CASE ~ deferred
    <3>1. wait # Nothing => wait = p.pending /\ Waits(p, sample, t)
      BY <2>2
    <3>2. wait # Nothing => ~ ended /\ ~ Idle(p.sched)
      BY <1>8, <1>10, <3>1
    <3>3. wait # Nothing => wait.end = b.start
      BY <1>3, <1>8, <3>1, <3>2
    <3>4. wait # Nothing => wait.on = Ran(T, wait.start, wait.end)
      <4>1. p.pending # Nothing => p.pending.end \in Int /\ p.pending.end <= u
        <5>1. p.pending # Nothing => mark = p.sched.start /\ p.sched.start = p.pending.end
          BY <1>8 DEF Mark
        <5> HIDE DEF mark
        <5> QED BY <1>2, <1>8, <5>1
      <4> HIDE DEF wait
      <4> QED BY <1>8, <1>9, <3>1, <4>1
    <3> HIDE DEF wait, latched, from, onto
    <3> QED BY <1>1, <3>3, <3>4, Zenon DEF Pulses
  <2> QED BY <2>1, <2>2
\* What is fed back, and from where the next report begins.
<1>12. /\ from \in Int /\ from <= t /\ p.from <= from
       /\ b.total - onto = Ran(T, from, t)
       /\ Spans(feedback, T, p.from, from)
  <2>1. Ran(T, p.from, u) = p.sched.total - p.on
    BY <1>1, <1>2, <1>9
  <2>2. Ran(T, p.from, t) = b.total - p.on
    <3>1. Ran(T, p.from, t) = Ran(T, p.from, u) + Ran(T, u, t)
      BY <1>1, <1>2, RanSplit
    <3> QED BY <1>1, <1>3, <1>6, <2>1, <3>1
  <2>3. at \in Int /\ total \in Int /\ at <= t /\ b.total - total = Ran(T, at, t)
    <3>1. CASE ended
      BY <1>2, <1>3, <1>6, <3>1
    <3>2. CASE ~ ended
      <4>1. t \in Int /\ t >= t
        BY <1>2
      <4>2. Ran(T, t, t) = 0
        BY <4>1, RanType
      <4> QED BY <1>2, <1>6, <3>2, <4>2
    <3> QED BY <3>1, <3>2
  <2> HIDE DEF at, total
  <2>4. CASE report
    <3>1. p.from < at /\ from = at /\ onto = total
      BY <1>1, <2>3, <2>4
    <3>2. feedback = <<[start |-> p.from, end |-> at, on |-> total - p.on]>>
      BY <2>4 DEF ReportFrames
    <3>3. Ran(T, p.from, t) = Ran(T, p.from, at) + Ran(T, at, t)
      BY <1>1, <1>2, <2>3, <3>1, RanSplit
    <3>4. Ran(T, p.from, at) \in Nat /\ Ran(T, at, t) \in Nat
      BY <1>1, <1>2, <2>3, RanType
    <3>5. total - p.on = Ran(T, p.from, at)
      BY <1>1, <1>6, <2>2, <2>3, <3>3, <3>4
    <3> DEFINE x == [start |-> p.from, end |-> at, on |-> total - p.on]
    <3>6. x \in Spells /\ x.start = p.from /\ x.end = at /\ x.on = total - p.on
      BY <1>1, <2>3 DEF Spells
    <3> HIDE DEF x, report, from, onto, feedback
    <3>7. Spans(<<x>>, T, p.from, at)
      BY <1>1, <2>3, <3>1, <3>5, <3>6, SpansOne
    <3> QED BY <1>1, <2>3, <3>1, <3>2, <3>7 DEF x
  <2>5. CASE ~ report
    <3>1. from = p.from /\ onto = p.on /\ feedback = <<>>
      BY <2>5
    <3> HIDE DEF report, from, onto, feedback
    <3> QED BY <1>1, <1>2, <2>2, <3>1, SpansNothing
  <2> QED BY <2>4, <2>5
<1>13. ObsMark(q, t) = IF wait = Nothing THEN b.start ELSE wait.start
  <2> HIDE DEF q, wait
  <2> QED BY <1>3, <1>11 DEF ObsMark, Mark
<1>14. Spans(Resolved(p, sample, t) \o others, T, ObsMark(p, u), ObsMark(q, t))
  <2>1. CASE Waits(p, sample, t)
    <3>1. a.frames = <<>> /\ wait = p.pending /\ p.pending # Nothing
      BY <1>10, <2>1 DEF Waits
    <3>2. Resolved(p, sample, t) = <<>> /\ others = <<>>
      BY <2>1, <3>1 DEF Resolved, Observed
    <3>3. ObsMark(q, t) = ObsMark(p, u)
      BY <1>8, <1>13, <3>1
    <3> HIDE DEF q, others
    <3>4. Spans(<<>>, T, ObsMark(p, u), ObsMark(q, t))
      BY <1>8, <3>3, SpansNothing
    <3> QED BY <3>2, <3>4
  <2>2. CASE ~ Waits(p, sample, t)
    <3>1. Spans(Resolved(p, sample, t), S, ObsMark(p, u), mark)
      BY <1>2, <2>2, ResolvedTold
    <3> HIDE DEF mark
    <3>2. Spans(Resolved(p, sample, t), T, ObsMark(p, u), mark)
      BY <1>8, <3>1, SpansLater
    <3>3. ObsMark(q, t) \in Int /\ Spans(others, T, mark, ObsMark(q, t))
      <4>1. CASE deferred
        <5>1. wait.start = a.frames[1].start /\ wait # Nothing
          BY <2>2, <4>1 DEF Observation, Nothing
        <5>2. a.frames[1].start = p.sched.start /\ mark = p.sched.start
          BY <1>3, <4>1 DEF Mark, mark
        <5>3. ObsMark(q, t) = mark /\ others = <<>>
          BY <1>13, <4>1, <5>1, <5>2
        <5> HIDE DEF others, q
        <5> QED BY <1>8, <5>3, SpansNothing
      <4>2. CASE ~ deferred
        <5>1. wait = Nothing
          BY <2>2, <4>2
        <5> HIDE DEF q, wait
        <5>2. ObsMark(q, t) = b.start /\ b.start \in Int
          BY <1>6, <1>13, <5>1
        <5>3. Spans(Observed(a.frames, p.latched, sample, FALSE), T, mark, b.start)
          BY <1>1, <1>3, <1>7, ObservedTold DEF mark
        <5>4. others = Observed(a.frames, p.latched, sample, FALSE)
          BY <4>2
        <5> HIDE DEF others, q
        <5> QED BY <5>2, <5>3, <5>4
      <4> QED BY <4>1, <4>2
    <3> HIDE DEF others, q
    <3> QED BY <1>8, <3>2, <3>3, SpansConcat
  <2> QED BY <2>1, <2>2
<1> HIDE DEF q, wait, from, onto, others, feedback
<1>15. Counted(q, T, t)
  <2>1. q.pending # Nothing => /\ ~ Idle(q.sched) /\ q.pending.end = q.sched.start
                               /\ q.pending.on = Ran(T, q.pending.start, q.pending.end)
    BY <1>3, <1>11
  <2> QED BY <1>3, <1>11, <1>12, <2>1 DEF Counted
<1>16. Mark(q.sched, t) = b.start
  BY <1>3, <1>11 DEF Mark
<1>17. r.delta = Ran(T, u, t)
  BY <1>2, <1>3, <1>5
<1> QED BY <1>3, <1>5, <1>11, <1>12, <1>14, <1>15, <1>16, <1>17 DEF PulsesTold, r

LEMMA ResetSchedulerOff ==
  ASSUME NEW s \in Schedulers
  PROVE  ResetScheduler(s).on = FALSE /\ ResetScheduler(s).total = s.total
BY DEF ResetScheduler, NewScheduler

LEMMA RanNothing ==
  ASSUME NEW T, NEW t \in Int
  PROVE  Ran(T, t, t) = 0
<1>1. t >= t
  OBVIOUS
<1> QED BY <1>1, RanType

LEMMA CutTold ==
  ASSUME NEW s \in Schedulers, ~ Idle(s), NEW T, NEW t \in Nat, Tracked(s, T, t)
  PROVE  /\ Lasting(Interrupted(s)) \in Seq(Frames)
         /\ Spans(Lasting(Interrupted(s)), T, s.start, t)
<1> DEFINE f == Finished(s, "reset")
<1>1. /\ s.start \in Int /\ t \in Int /\ s.start <= t /\ s.at = t
      /\ s.frameOn = Ran(T, s.start, t) /\ s.frameOn \in Int
  BY DEF Tracked, Schedulers, Never
<1>2. f \in Frames /\ f.start = s.start /\ f.end = t /\ f.on = Ran(T, s.start, t)
  BY <1>1 DEF Finished, Frames
<1>3. Lasting(Interrupted(s)) \in {<<f>>, <<>>}
  BY DEF Interrupted, Lasting
<1> HIDE DEF f
<1>4. f \in Spells
  BY <1>2 DEF Spells
<1>5. Spans(<<f>>, T, s.start, t)
  BY <1>1, <1>2, <1>4, SpansOne
<1>6. Spans(<<>>, T, s.start, t)
  BY <1>1, SpansNothing
<1>7. <<f>> \in Seq(Frames) /\ <<>> \in Seq(Frames)
  BY <1>2
<1> QED BY <1>3, <1>5, <1>6, <1>7

\* Pulses with an idle scheduler that have been fed back.
LEMMA IdleCounted ==
  ASSUME NEW p, NEW T, NEW t \in Nat, NEW s, p.sched = s, Idle(s), ~ s.on, s.total \in Int,
         p.from = t, p.on = s.total, p.metrics = s.total, p.pending = Nothing
  PROVE  Counted(p, T, t)
<1>1. Ran(T, t, t) = 0 /\ t <= t
  BY RanNothing
<1> QED BY <1>1 DEF Counted, Tracked

LEMMA ResetPulseTold ==
  ASSUME NEW p, NEW d, NEW t \in Nat, PulseOK(p, d, t), NEW h \in Holds,
         NEW on \in BOOLEAN, NEW sample \in Samples, NEW terminal \in BOOLEAN,
         NEW S, NEW T, NEW u, Lasts(S, T, u, t, p.sched.on), Counted(p, S, u)
  PROVE  PulsesTold(ResetPulse(p, h, t, on, sample, terminal), p, T, u, t)
<1> DEFINE a == AdvanceTo(p.sched, h.request, t, on)
           b == a.scheduler
           r == ResetPulse(p, h, t, on, sample, terminal)
           latched == IF a.frames # <<>> \/ Idle(p.sched) THEN Latch(h, sample.role)
                      ELSE p.latched
           cut == Lasting(Interrupted(b))
           q == [p EXCEPT !.sched = ResetScheduler(b), !.latched = latched,
                          !.from = t, !.on = b.total, !.metrics = b.total]
           before == Observed(a.frames, p.latched, sample, TRUE)
           last == Observed(cut, latched, sample, TRUE)
           mark == Mark(p.sched, u)
           frames == a.frames \o IF terminal THEN cut ELSE <<>>
<1>1. /\ p \in Pulses /\ Within(p.sched, t) /\ p.latched \in Latches
      /\ p.from \in Int /\ p.sched \in Schedulers /\ p.sched.total \in Int
      /\ h.request \in 0..FrameTime
  BY DEF PulseOK, Pulses, Holds, Schedulers
<1>2. /\ u \in Nat /\ u <= t /\ t \in Int /\ u \in Int
      /\ Tracked(p.sched, S, u) /\ p.from <= u /\ p.metrics = p.sched.total
  BY DEF Counted, Lasts
<1>3. /\ b \in Schedulers /\ ~ Idle(b) /\ Tracked(b, T, t)
      /\ b.total - p.sched.total = Ran(T, u, t)
      /\ Spans(a.frames, T, mark, b.start)
  <2>1. SchedulerTold(a, p.sched, T, u, t)
    BY <1>1, <1>2, AdvanceToTold
  <2> HIDE DEF a
  <2> QED BY <2>1 DEF SchedulerTold
<1>4. a.frames \in Seq(Frames)
  <2>1. FramesFrom(a.frames, p.sched.start)
    BY <1>1, AdvanceToFacts
  <2> HIDE DEF a
  <2> QED BY <2>1 DEF FramesFrom
<1>5. /\ r.pulse = [q EXCEPT !.pending = Nothing] /\ r.delta = b.total - p.metrics
      /\ r.result.observations = Invalidated(p) \o before \o last
      /\ r.result.frames = frames /\ r.result.feedback = <<>>
  BY Zenon DEF ResetPulse, Cut, DropPending
<1> HIDE DEF a, r
<1>6. b.total \in Int /\ b.start \in Int
  BY <1>3 DEF Schedulers, Never
<1>7. latched \in Latches
  BY <1>1 DEF Latch, Latches, Holds, Samples
<1>8. cut \in Seq(Frames) /\ Spans(cut, T, b.start, t)
  BY <1>3, CutTold
<1>9. mark \in Int /\ ObsMark(p, u) \in Int /\ mark <= u
  BY <1>2, Marks
<1> HIDE DEF latched, cut
<1>10. /\ r.pulse.sched = ResetScheduler(b) /\ r.pulse.pending = Nothing
       /\ r.pulse.from = t /\ r.pulse.on = b.total /\ r.pulse.metrics = b.total
  BY <1>1, <1>5, Zenon DEF Pulses
<1>11. Idle(ResetScheduler(b)) /\ ~ ResetScheduler(b).on /\ ResetScheduler(b).total = b.total
  BY <1>3, ResetSchedulerFacts, ResetSchedulerOff
<1>12. Counted(r.pulse, T, t)
  BY <1>6, <1>10, <1>11, IdleCounted
<1>13. Mark(r.pulse.sched, t) = t /\ ObsMark(r.pulse, t) = t
  BY <1>10, <1>11 DEF Mark, ObsMark
<1>14. Spans(Invalidated(p) \o before \o last, T, ObsMark(p, u), t)
  <2>1. Spans(Invalidated(p), S, ObsMark(p, u), mark)
    BY <1>2, InvalidatedTold
  <2> HIDE DEF mark
  <2>2. Spans(Invalidated(p), T, ObsMark(p, u), mark)
    BY <1>9, <2>1, SpansLater
  <2>3. Spans(before, T, mark, b.start) /\ Spans(last, T, b.start, t)
    BY <1>1, <1>3, <1>4, <1>7, <1>8, ObservedTold
  <2> HIDE DEF before, last
  <2>4. Spans(Invalidated(p) \o before, T, ObsMark(p, u), b.start)
    BY <1>6, <1>9, <2>2, <2>3, SpansConcat
  <2> QED BY <1>2, <1>6, <1>9, <2>3, <2>4, SpansConcat
<1>15. Spans(frames, T, mark, t)
  <2> HIDE DEF mark
  <2>1. Spans(IF terminal THEN cut ELSE <<>>, T, b.start, t)
    <3>1. b.start <= t
      BY <1>8 DEF Spans
    <3> QED BY <1>8, <3>1, SpansNothing
  <2> QED BY <1>2, <1>3, <1>6, <1>9, <2>1, SpansConcat
<1>16. Spans(<<>>, T, p.from, t)
  <2>1. p.from <= t
    BY <1>1, <1>2
  <2> QED BY <2>1, SpansNothing
<1>17. r.delta = Ran(T, u, t)
  BY <1>2, <1>3, <1>5
<1> HIDE DEF before, last, frames
<1> QED BY <1>5, <1>10, <1>12, <1>13, <1>14, <1>15, <1>16, <1>17 DEF PulsesTold, r

LEMMA InvalidateGapTold ==
  ASSUME NEW p, NEW d, NEW t, PulseOK(p, d, t), NEW T, NEW u \in Nat, Counted(p, T, u)
  PROVE  PulsesTold(InvalidateGap(p), p, T, u, u)
<1> DEFINE r == InvalidateGap(p)
           q == [p EXCEPT !.sched = ResetScheduler(p.sched)]
           cut == Lasting(Interrupted(p.sched))
<1>1. p \in Pulses /\ p.sched \in Schedulers /\ p.from \in Int /\ p.sched.total \in Int
  BY DEF PulseOK, Pulses, Schedulers
<1>2. /\ r.pulse = [q EXCEPT !.pending = Nothing] /\ r.delta = 0
      /\ r.result.observations = Invalidated(p) /\ r.result.frames = cut
      /\ r.result.feedback = <<>>
  BY Zenon DEF InvalidateGap, DropPending
<1> HIDE DEF r
<1>3. /\ r.pulse.sched = ResetScheduler(p.sched) /\ r.pulse.pending = Nothing
      /\ r.pulse.from = p.from /\ r.pulse.on = p.on /\ r.pulse.metrics = p.metrics
  BY <1>1, <1>2, Zenon DEF Pulses
<1>4. /\ Idle(ResetScheduler(p.sched)) /\ ~ ResetScheduler(p.sched).on
      /\ ResetScheduler(p.sched).total = p.sched.total
  BY <1>1, ResetSchedulerFacts, ResetSchedulerOff
<1>5. /\ p.from <= u /\ p.sched.total - p.on = Ran(T, p.from, u)
      /\ p.metrics = p.sched.total /\ Tracked(p.sched, T, u)
  BY DEF Counted
<1>6. Counted(r.pulse, T, u)
  BY <1>3, <1>4, <1>5 DEF Counted, Tracked
<1>7. Mark(r.pulse.sched, u) = u /\ ObsMark(r.pulse, u) = u
  BY <1>3, <1>4 DEF Mark, ObsMark
<1>8. /\ Mark(p.sched, u) \in Int /\ ObsMark(p, u) \in Int
      /\ Mark(p.sched, u) <= u /\ u \in Int
  BY Marks
<1>9. Spans(cut, T, Mark(p.sched, u), u)
  <2>1. CASE Idle(p.sched)
    <3>1. cut = <<>> /\ Mark(p.sched, u) = u /\ u <= u
      BY <1>8, <2>1 DEF Lasting, Interrupted, Mark
    <3> QED BY <3>1, SpansNothing
  <2>2. CASE ~ Idle(p.sched)
    BY <1>1, <1>5, <2>2, CutTold DEF Mark
  <2> QED BY <2>1, <2>2
<1>10. Spans(Invalidated(p), T, ObsMark(p, u), u)
  <2>1. Spans(Invalidated(p), T, ObsMark(p, u), Mark(p.sched, u))
    BY InvalidatedTold
  <2>2. Spans(<<>>, T, Mark(p.sched, u), u)
    BY <1>8, SpansNothing
  <2>3. Spans(Invalidated(p) \o <<>>, T, ObsMark(p, u), u)
    BY <1>8, <2>1, <2>2, SpansConcat
  <2>4. Invalidated(p) \o <<>> = Invalidated(p)
    BY <2>1 DEF Spans
  <2> QED BY <2>3, <2>4
<1>11. Spans(<<>>, T, p.from, p.from) /\ Ran(T, u, u) = 0
  BY <1>1, <1>8, RanNothing, SpansNothing
<1> HIDE DEF cut
<1> QED BY <1>2, <1>3, <1>6, <1>7, <1>9, <1>10, <1>11 DEF PulsesTold, r

-----------------------------------------------------------------------------
(* A step's view of the world, and what it has told                        *)

Telling(w, T, t) ==
  /\ Counted(w.pulse, T, t)
  /\ Spans(w.out.observations, T, told.observations, ObsMark(w.pulse, t))
  /\ Spans(w.out.frames, T, told.frames, Mark(w.pulse.sched, t))
  /\ Spans(w.out.feedback, T, told.feedback, w.pulse.from)

\* The metric agrees with what was seen once the world's share is added.
Metered(w, T, t) ==
  augerontime \in Int /\ w.delta \in Int /\ augerontime + w.delta = Ran(T, 0, t)

\* Nothing more is seen within a step.
LEMMA LastsAgain ==
  ASSUME NEW S, NEW T, NEW u, NEW t, NEW on, Lasts(S, T, u, t, on), NEW more \in BOOLEAN
  PROVE  Lasts(T, T, t, t, more)
<1>1. t \in Nat /\ T \subseteq 0..t - 1
  BY LastsRan DEF Lasts
<1>2. Grown(T, t, t, more) = T
  <2>1. t..t - 1 = {}
    BY <1>1
  <2> QED BY <2>1 DEF Grown
<1> QED BY <1>1, <1>2 DEF Lasts

LEMMA HandedTold ==
  ASSUME ToldType, NEW w, NEW S, NEW u, Telling(w, S, u),
         NEW d, NEW e, NEW x, NEW t \in Nat, PulseOK(w.pulse, d, x),
         NEW T, Lasts(S, T, u, t, w.pulse.sched.on),
         NEW r, PulsesTold(r, w.pulse, T, u, t), PulseOK(r.pulse, e, t),
         NEW v, v.pulse = r.pulse, v.out = Handed(w.out, r.result)
  PROVE  Telling(v, T, t)
<1>1. /\ told.observations \in Int /\ told.frames \in Int /\ told.feedback \in Int
  BY DEF ToldType
<1>2. /\ u \in Nat /\ u \in Int /\ w.pulse.from \in Int /\ w.pulse.from <= u
      /\ r.pulse.from \in Int
  BY DEF Lasts, Telling, Counted, PulseOK, Pulses
<1>3. Counted(w.pulse, S, u) /\ Counted(r.pulse, T, t)
  BY DEF Telling, PulsesTold
<1>4. /\ Mark(w.pulse.sched, u) \in Int /\ ObsMark(w.pulse, u) \in Int
      /\ ObsMark(w.pulse, u) <= u /\ Mark(w.pulse.sched, u) <= u
  BY <1>2, <1>3, Marks
<1>5. Mark(r.pulse.sched, t) \in Int /\ ObsMark(r.pulse, t) \in Int
  BY <1>3, Marks
<1>6. /\ Spans(w.out.observations, T, told.observations, ObsMark(w.pulse, u))
      /\ Spans(w.out.frames, T, told.frames, Mark(w.pulse.sched, u))
      /\ Spans(w.out.feedback, T, told.feedback, w.pulse.from)
  BY <1>1, <1>2, <1>4, SpansLater DEF Telling
<1>7. /\ Spans(r.result.observations, T, ObsMark(w.pulse, u), ObsMark(r.pulse, t))
      /\ Spans(r.result.frames, T, Mark(w.pulse.sched, u), Mark(r.pulse.sched, t))
      /\ Spans(r.result.feedback, T, w.pulse.from, r.pulse.from)
  BY DEF PulsesTold
<1>8. /\ Spans(w.out.observations \o r.result.observations, T, told.observations,
               ObsMark(r.pulse, t))
      /\ Spans(w.out.frames \o r.result.frames, T, told.frames, Mark(r.pulse.sched, t))
      /\ Spans(w.out.feedback \o r.result.feedback, T, told.feedback, r.pulse.from)
  BY <1>1, <1>2, <1>4, <1>5, <1>6, <1>7, SpansConcat
<1>9. /\ v.out.observations = w.out.observations \o r.result.observations
      /\ v.out.frames = w.out.frames \o r.result.frames
      /\ v.out.feedback = w.out.feedback \o r.result.feedback
  <2> DEFINE o == Handed(w.out, r.result)
  <2>1. /\ o.observations = w.out.observations \o r.result.observations
        /\ o.frames = w.out.frames \o r.result.frames
        /\ o.feedback = w.out.feedback \o r.result.feedback
    BY DEF Handed
  <2>2. v.out = o
    OBVIOUS
  <2> HIDE DEF o
  <2> QED BY <2>1, <2>2
<1> QED BY <1>3, <1>8, <1>9 DEF Telling

LEMMA MeteredOn ==
  ASSUME NEW w, NEW S, NEW u, Metered(w, S, u), NEW T, NEW t \in Nat, NEW on,
         Lasts(S, T, u, t, on), NEW v, v.delta = w.delta + Ran(T, u, t)
  PROVE  Metered(v, T, t)
<1>1. u \in Nat /\ u <= t /\ u \in Int /\ t \in Int /\ 0 \in Int /\ 0 <= u /\ u <= u
  BY DEF Lasts
<1>2. Ran(T, 0, t) = Ran(T, 0, u) + Ran(T, u, t) /\ Ran(T, u, t) \in Nat
  BY <1>1, RanSplit, RanType
<1>3. Ran(T, 0, u) = Ran(S, 0, u) /\ Ran(S, 0, u) \in Nat
  <2>1. \A a, b \in Int : b <= u => Ran(T, a, b) = Ran(S, a, b)
    BY LastsRan
  <2> QED BY <1>1, <2>1, RanType
<1> QED BY <1>2, <1>3 DEF Metered

LEMMA HandOverOut ==
  ASSUME NEW w, IsWorld(w), NEW r
  PROVE  /\ HandOver(w, r).pulse = w.pulse
         /\ HandOver(w, r).out = Handed(w.out, r.result)
         /\ HandOver(w, r).delta = w.delta + r.delta
BY DEF HandOver, IsWorld, WorldFields

LEMMA InhibitedTold ==
  ASSUME ToldType, NEW t \in Nat, NEW w, WorldOK(w, t), NEW S, NEW T, NEW u,
         Telling(w, S, u), Lasts(S, T, u, t, w.pulse.sched.on),
         NEW h \in Holds, NEW sample \in Samples, NEW terminal \in BOOLEAN
  PROVE  LET v == Inhibited(w, h, t, sample, terminal)
         IN  Telling(v, T, t) /\ (Metered(w, S, u) => Metered(v, T, t))
<1> DEFINE r == ResetPulse(w.pulse, h, t, w.auger, sample, terminal)
           x == [w EXCEPT !.pulse = r.pulse, !.owed = 0, !.disturbed = t, !.auger = FALSE]
           v == Inhibited(w, h, t, sample, terminal)
<1>1. v = HandOver(x, r)
  BY DEF Inhibited
<1>2. PulseOK(w.pulse, w.disturbed, t) /\ w.disturbed \in 0..t /\ w.auger \in BOOLEAN
  BY DEF WorldOK
<1>3. PulsesTold(r, w.pulse, T, u, t)
  <2>1. Counted(w.pulse, S, u)
    BY DEF Telling
  <2> QED BY <1>2, <2>1, ResetPulseTold
<1>4. PulseOK(r.pulse, t, t)
  <2>1. \A y \in Nat, e \in Int : PulseOK(r.pulse, e, y)
    BY <1>2, ResetPulseFacts
  <2> QED BY <2>1
<1> HIDE DEF r
<1>5. x.pulse = r.pulse /\ x.out = w.out /\ x.delta = w.delta /\ IsWorld(x)
  BY DEF WorldOK, IsWorld, WorldFields
<1> HIDE DEF x, v
<1>6. v.pulse = r.pulse /\ v.out = Handed(w.out, r.result) /\ v.delta = w.delta + r.delta
  BY <1>1, <1>5, HandOverOut
<1>7. Telling(v, T, t)
  BY <1>2, <1>3, <1>4, <1>6, HandedTold
<1>8. Metered(w, S, u) => Metered(v, T, t)
  <2>1. v.delta = w.delta + Ran(T, u, t)
    BY <1>3, <1>6 DEF PulsesTold
  <2> QED BY <2>1, MeteredOn
<1> QED BY <1>7, <1>8 DEF v

LEMMA LidPartTold ==
  ASSUME ToldType, NEW t \in Nat, NEW w, WorldOK(w, t), NEW S, NEW T, NEW u, NEW on,
         Telling(w, T, t), Lasts(S, T, u, t, on),
         NEW h \in Holds, NEW sample \in Samples, NEW event
  PROVE  LET v == LidPart(w, h, t, sample, event)
         IN  Telling(v, T, t) /\ (Metered(w, T, t) => Metered(v, T, t))
<1>1. CASE event = "opens"
  <2>1. w.pulse.sched.on \in BOOLEAN
    BY DEF WorldOK, PulseOK, Pulses, Schedulers
  <2>2. Lasts(T, T, t, t, w.pulse.sched.on)
    BY <2>1, LastsAgain
  <2> QED BY <1>1, <2>2, InhibitedTold DEF LidPart
<1>2. CASE event # "opens"
  BY <1>2 DEF LidPart
<1> QED BY <1>1, <1>2

LEMMA ReportedTold ==
  ASSUME ToldType, NEW t \in Nat, NEW w, WorldOK(w, t), NEW T, Telling(w, T, t)
  PROVE  LET v == Reported(w, t)
         IN  Telling(v, T, t) /\ (Metered(w, T, t) => Metered(v, T, t))
<1> DEFINE q == [w.pulse EXCEPT !.from = t, !.on = w.pulse.sched.total]
           v == Reported(w, t)
           f == [start |-> w.pulse.from, end |-> t, on |-> w.pulse.sched.total - w.pulse.on]
<1>1. CASE t <= w.pulse.from
  BY <1>1 DEF Reported
<1>2. CASE ~ t <= w.pulse.from
  <2>1. /\ w.pulse \in Pulses /\ w.pulse.from \in Int /\ w.pulse.on \in Int
        /\ w.pulse.sched.total \in Int /\ t \in Int
        /\ IsWorld(w) /\ IsOut(w.out) /\ told.feedback \in Int
    BY DEF WorldOK, PulseOK, Pulses, Schedulers, ToldType
  <2>2. /\ v.pulse = q /\ v.delta = w.delta
        /\ v.out.observations = w.out.observations /\ v.out.frames = w.out.frames
        /\ v.out.feedback = w.out.feedback \o <<f>>
    BY <1>2, <2>1 DEF Reported, Report, IsWorld, IsOut, WorldFields, OutFields
  <2>3. /\ q.sched = w.pulse.sched /\ q.pending = w.pulse.pending /\ q.from = t
        /\ q.on = w.pulse.sched.total /\ q.metrics = w.pulse.metrics
    BY <2>1, Zenon DEF Pulses
  <2> HIDE DEF q, v
  <2>4. w.pulse.sched.total - w.pulse.on = Ran(T, w.pulse.from, t)
    BY DEF Telling, Counted
  <2>5. f \in Spells /\ f.start = w.pulse.from /\ f.end = t
        /\ f.on = Ran(T, w.pulse.from, t)
    BY <2>1, <2>4 DEF Spells
  <2> HIDE DEF f
  <2>6. Spans(<<f>>, T, w.pulse.from, t)
    BY <1>2, <2>1, <2>5, SpansOne
  <2>7. Spans(v.out.feedback, T, told.feedback, t)
    BY <2>1, <2>2, <2>6, SpansConcat DEF Telling
  <2>8. Counted(q, T, t)
    <3>1. Ran(T, t, t) = 0 /\ t <= t
      BY <2>1, RanNothing
    <3> QED BY <2>1, <2>3, <3>1 DEF Telling, Counted
  <2>9. ObsMark(q, t) = ObsMark(w.pulse, t)
    BY <2>3 DEF ObsMark
  <2>10. Telling(v, T, t)
    BY <2>2, <2>3, <2>7, <2>8, <2>9 DEF Telling
  <2> QED BY <2>2, <2>10 DEF Metered, v
<1> QED BY <1>1, <1>2

\* Idle pulses have nothing to tell of the time that passes.
LEMMA IdleTold ==
  ASSUME ToldType, NEW w, NEW S, NEW T, NEW u, NEW t \in Nat, Telling(w, S, u),
         Lasts(S, T, u, t, w.pulse.sched.on), Idle(w.pulse.sched),
         NEW d, PulseOK(w.pulse, d, t)
  PROVE  Telling(w, T, t) /\ (Metered(w, S, u) => Metered(w, T, t))
<1>1. /\ u \in Nat /\ u <= t /\ u \in Int /\ t \in Int /\ ~ w.pulse.sched.on
      /\ w.pulse.from \in Int /\ w.pulse.from <= u /\ w.pulse.pending = Nothing
      /\ w.pulse.sched.total \in Int /\ w.pulse.on \in Int
      /\ w.pulse.sched.total - w.pulse.on = Ran(S, w.pulse.from, u)
  BY DEF Lasts, Telling, Counted, Tracked, PulseOK, Pulses, Schedulers
<1>2. /\ Mark(w.pulse.sched, u) = u /\ ObsMark(w.pulse, u) = u
      /\ Mark(w.pulse.sched, t) = t /\ ObsMark(w.pulse, t) = t
  BY <1>1 DEF Mark, ObsMark
<1>3. /\ Spans(w.out.observations, T, told.observations, u)
      /\ Spans(w.out.frames, T, told.frames, u)
      /\ Spans(w.out.feedback, T, told.feedback, w.pulse.from)
  <2>1. u <= u
    BY <1>1
  <2> QED BY <1>1, <1>2, <2>1, SpansLater DEF Telling
<1>4. ASSUME NEW reports, NEW from \in Int, Spans(reports, T, from, u)
      PROVE  Spans(reports, T, from, t)
  <2>1. Spans(<<>>, T, u, t)
    BY <1>1, SpansNothing
  <2>2. Spans(reports \o <<>>, T, from, t)
    BY <1>1, <1>4, <2>1, SpansConcat
  <2>3. reports \o <<>> = reports
    BY <1>4 DEF Spans
  <2> QED BY <2>2, <2>3
<1>5. /\ Spans(w.out.observations, T, told.observations, t)
      /\ Spans(w.out.frames, T, told.frames, t)
  BY <1>3, <1>4 DEF ToldType
<1>6. Ran(T, u, t) = 0
  BY <1>1, LastsRan
<1>7. Counted(w.pulse, T, t)
  <2>1. Ran(T, w.pulse.from, t) = Ran(T, w.pulse.from, u) + Ran(T, u, t)
    BY <1>1, RanSplit
  <2>2. Ran(T, w.pulse.from, u) = Ran(S, w.pulse.from, u) /\ u <= u
    BY <1>1, LastsRan
  <2>3. Ran(T, w.pulse.from, t) = w.pulse.sched.total - w.pulse.on /\ w.pulse.from <= t
    BY <1>1, <1>6, <2>1, <2>2
  <2> QED BY <1>1, <2>3 DEF Telling, Counted, Tracked
<1>8. Metered(w, S, u) => Metered(w, T, t)
  <2>1. Metered(w, S, u) => w.delta = w.delta + Ran(T, u, t)
    BY <1>6 DEF Metered
  <2> QED BY <2>1, MeteredOn
<1> QED BY <1>2, <1>3, <1>5, <1>7, <1>8 DEF Telling

-----------------------------------------------------------------------------
(* The steps, and what they tell                                           *)

Tells ==
  /\ InOrder(out'.observations, told.observations)
  /\ InOrder(out'.frames, told.frames)
  /\ InOrder(out'.feedback, told.feedback)
  /\ hold'.phase \in {"holding", "done"} => augerontime' = Cardinality(seen')

LEMMA CountingInit == Init => Counting
<1> SUFFICES ASSUME Init PROVE Counting
  OBVIOUS
<1>1. /\ now = 0 /\ seen = {} /\ augerontime = 0 /\ pulse = Configured(0)
      /\ told = [observations |-> 0, frames |-> 0, feedback |-> 0]
  BY DEF Init
<1>2. /\ pulse.sched = NewScheduler /\ pulse.from = 0 /\ pulse.on = 0
      /\ pulse.metrics = 0 /\ pulse.pending = Nothing
      /\ NewScheduler.total = 0 /\ ~ NewScheduler.on /\ Idle(NewScheduler)
  BY <1>1 DEF Configured, NewScheduler, Idle
<1>3. Counted(pulse, seen, 0)
  BY <1>2, IdleCounted
<1>4. Mark(pulse.sched, 0) = 0 /\ ObsMark(pulse, 0) = 0
  BY <1>2 DEF Mark, ObsMark
<1>5. Ran(seen, 0, 0) = 0
  BY RanNothing
<1> QED BY <1>1, <1>2, <1>3, <1>4, <1>5 DEF Counting, ToldType

LEMMA WorldStartTold ==
  ASSUME PulseInv, Counting
  PROVE  /\ Telling(World, seen, now)
         /\ hold.phase \in {"holding", "done"} => Metered(World, seen, now)
<1>1. World.pulse = pulse /\ World.out = NoResult /\ World.delta = 0
  BY DEF World
<1>2. /\ NoResult.observations = <<>> /\ NoResult.frames = <<>>
      /\ NoResult.feedback = <<>>
  BY DEF NoResult
<1>3. /\ Spans(<<>>, seen, told.observations, ObsMark(pulse, now))
      /\ Spans(<<>>, seen, told.frames, Mark(pulse.sched, now))
      /\ Spans(<<>>, seen, told.feedback, pulse.from)
  BY SpansNothing DEF Counting
<1>4. Telling(World, seen, now)
  BY <1>1, <1>2, <1>3 DEF Telling, Counting
<1>5. now \in Int /\ Ran(seen, 0, now) \in Nat
  <2>1. now \in Int /\ 0 \in Int
    BY DEF PulseInv
  <2> QED BY <2>1, RanType
<1> QED BY <1>1, <1>4, <1>5 DEF Metered, Counting

LEMMA SeenLasts ==
  ASSUME PulseInv, Counting, NEW t \in Nat, now <= t
  PROVE  Lasts(seen, Grown(seen, now, t, pulse.sched.on), now, t, pulse.sched.on)
<1>1. now \in Nat /\ pulse.sched.on \in BOOLEAN
  BY DEF PulseInv, PulseOK, Pulses, Schedulers
<1> QED BY <1>1 DEF Lasts, Counting

\* The reports of a step, and where the next ones begin.
LEMMA SpansTold ==
  ASSUME NEW reports, NEW from \in Int, NEW to \in Int, NEW T, Spans(reports, T, from, to)
  PROVE  /\ \A i \in DOMAIN reports :
               /\ reports[i].on = Ran(T, reports[i].start, reports[i].end)
               /\ reports[i].start >= IF i = 1 THEN from ELSE reports[i - 1].end
         /\ (IF reports = <<>> THEN from ELSE reports[Len(reports)].end) \in Int
         /\ (IF reports = <<>> THEN from ELSE reports[Len(reports)].end) <= to
<1>1. reports \in Seq(Spells) /\ from <= to
  BY DEF Spans
<1>2. CASE reports = <<>>
  BY <1>1, <1>2
<1>3. CASE reports # <<>>
  <2>1. Len(reports) \in DOMAIN reports
    BY <1>1, <1>3
  <2>2. reports[Len(reports)].end \in Int
    BY <1>1, <2>1, SpellTimes
  <2> QED BY <1>3, <2>1, <2>2 DEF Spans
<1> QED BY <1>2, <1>3

\* What a step must come to for its reports to be true.
LEMMA SettleTold ==
  ASSUME PulseInv, Counting, NEW t \in Nat, now <= t, NEW T,
         T = Grown(seen, now, t, pulse.sched.on),
         NEW w, WorldOK(w, t), Telling(w, T, t), NEW h,
         h.phase \in {"holding", "done"} => Metered(w, T, t),
         Settle(t, w, h)
  PROVE  Counting' /\ Tells
<1>1. /\ now' = t /\ pulse' = w.pulse /\ out' = w.out /\ hold' = h /\ seen' = T
      /\ augerontime' = augerontime + w.delta
      /\ told' = [observations |-> Last(w.out.observations, "observations"),
                  frames |-> Last(w.out.frames, "frames"),
                  feedback |-> Last(w.out.feedback, "feedback")]
  BY DEF Settle, Grown
<1>2. T \subseteq 0..t - 1
  BY SeenLasts, LastsRan
<1>3. /\ told.observations \in Int /\ told.frames \in Int /\ told.feedback \in Int
  BY DEF Counting, ToldType
<1>4. /\ Mark(w.pulse.sched, t) \in Int /\ ObsMark(w.pulse, t) \in Int
      /\ w.pulse.from \in Int
  BY Marks DEF WorldOK, PulseOK, Pulses, Telling
<1>5. /\ Spans(w.out.observations, T, told.observations, ObsMark(w.pulse, t))
      /\ Spans(w.out.frames, T, told.frames, Mark(w.pulse.sched, t))
      /\ Spans(w.out.feedback, T, told.feedback, w.pulse.from)
      /\ Counted(w.pulse, T, t)
  BY DEF Telling
<1>6. /\ Last(w.out.observations, "observations") \in Int
      /\ Last(w.out.observations, "observations") <= ObsMark(w.pulse, t)
      /\ Last(w.out.frames, "frames") \in Int
      /\ Last(w.out.frames, "frames") <= Mark(w.pulse.sched, t)
      /\ Last(w.out.feedback, "feedback") \in Int
      /\ Last(w.out.feedback, "feedback") <= w.pulse.from
  <2> HIDE DEF Mark, ObsMark
  <2> QED BY <1>3, <1>4, <1>5, SpansTold DEF Last
<1>7. h.phase \in {"holding", "done"} =>
         augerontime' = Ran(T, 0, t) /\ augerontime' = Cardinality(T)
  <2>1. T \cap 0..t - 1 = T
    BY <1>2
  <2> QED BY <1>1, <2>1 DEF Metered, Ran
<1>8. Counting'
  <2>1. told' \in [observations : Int, frames : Int, feedback : Int]
    BY <1>1, <1>6
  <2>2. /\ told'.observations <= ObsMark(w.pulse, t)
        /\ told'.frames <= Mark(w.pulse.sched, t) /\ told'.feedback <= w.pulse.from
    BY <1>1, <1>6
  <2> QED BY <1>1, <1>2, <1>5, <1>7, <2>1, <2>2 DEF Counting, ToldType
<1>9. Tells
  <2>1. ASSUME NEW reports, NEW from \in Int, NEW to \in Int, Spans(reports, T, from, to)
        PROVE  InOrder(reports, from)
    <3>1. \A a, b : RunTime(a, b) = Ran(T, a, b)
      BY <1>1, Zenon DEF RunTime, Ran
    <3>2. \A i \in DOMAIN reports :
            /\ reports[i].on = Ran(T, reports[i].start, reports[i].end)
            /\ reports[i].start >= IF i = 1 THEN from ELSE reports[i - 1].end
      BY <2>1, SpansTold
    <3> QED BY <3>1, <3>2 DEF InOrder
  <2>2. /\ InOrder(w.out.observations, told.observations)
        /\ InOrder(w.out.frames, told.frames)
        /\ InOrder(w.out.feedback, told.feedback)
    BY <1>3, <1>4, <1>5, <2>1
  <2> QED BY <1>1, <1>7, <2>2 DEF Tells
<1> QED BY <1>8, <1>9

\* Pulsing on from the start of a step.
LEMMA CommandedTold ==
  ASSUME PulseInv, Counting, NEW t \in Nat, now <= t, NEW h \in Holds, NEW on \in BOOLEAN,
         NEW sample \in Samples, sample.acquired <= t, NEW command \in BOOLEAN,
         NEW T, T = Grown(seen, now, t, pulse.sched.on)
  PROVE  LET r == AdvancePulse(pulse, h, t, on, sample)
             v == Commanded(r, command)
         IN  /\ Telling(v, T, t) /\ Telling(Pulsed(World, r), T, t)
             /\ hold.phase = "holding" => Metered(v, T, t)
<1> DEFINE r == AdvancePulse(pulse, h, t, on, sample)
           p == Pulsed(World, r)
           x == [p EXCEPT !.auger = command]
           v == Commanded(r, command)
<1>1. /\ World.pulse = pulse /\ World.out = NoResult /\ World.delta = 0
      /\ IsWorld(World) /\ PulseOK(pulse, disturbed, t) /\ IsOut(NoResult)
  BY WorldStart DEF World, WorldOK
<1>2. PulseOK(r.pulse, disturbed, t)
  BY CommandedFacts
<1>3. Lasts(seen, T, now, t, pulse.sched.on) /\ Counted(pulse, seen, now) /\ ToldType
  BY SeenLasts DEF Counting
<1>4. PulsesTold(r, pulse, T, now, t)
  BY <1>1, <1>3, AdvancePulseTold
<1>5. v = HandOver(x, r)
  BY DEF Commanded
<1> HIDE DEF r, v
<1>6. p.pulse = r.pulse /\ p.out = NoResult /\ p.delta = 0 /\ IsWorld(p)
  BY <1>1 DEF Pulsed, IsWorld, WorldFields
<1> HIDE DEF p
<1>7. x.out = NoResult /\ x.delta = 0 /\ x.pulse = r.pulse /\ IsWorld(x)
  BY <1>6 DEF IsWorld, WorldFields
<1> HIDE DEF x
<1>8. v.pulse = r.pulse /\ v.out = Handed(NoResult, r.result) /\ v.delta = 0 + r.delta
  BY <1>5, <1>7, HandOverOut
<1>9. Telling(World, seen, now)
  BY WorldStartTold
<1>10. Telling(v, T, t)
  BY <1>1, <1>2, <1>3, <1>4, <1>8, <1>9, HandedTold
<1>11. Telling(p, T, t)
  <2>1. NoResult.observations = <<>> /\ NoResult.frames = <<>> /\ NoResult.feedback = <<>>
    BY DEF NoResult
  <2>2. /\ ObsMark(pulse, now) <= ObsMark(r.pulse, t)
        /\ Mark(pulse.sched, now) <= Mark(r.pulse.sched, t)
        /\ pulse.from <= r.pulse.from /\ Counted(r.pulse, T, t)
    BY <1>4 DEF PulsesTold, Spans
  <2>3. now \in Nat
    BY DEF PulseInv
  <2>4. /\ ObsMark(pulse, now) \in Int /\ Mark(pulse.sched, now) \in Int
        /\ pulse.from \in Int
    BY <1>1, <1>3, <2>3, Marks DEF PulseOK, Pulses
  <2>5. /\ ObsMark(r.pulse, t) \in Int /\ Mark(r.pulse.sched, t) \in Int
        /\ r.pulse.from \in Int
    BY <1>2, <2>2, Marks DEF PulseOK, Pulses
  <2>6. /\ told.observations \in Int /\ told.observations <= ObsMark(pulse, now)
        /\ told.frames \in Int /\ told.frames <= Mark(pulse.sched, now)
        /\ told.feedback \in Int /\ told.feedback <= pulse.from
    BY DEF Counting, ToldType
  <2> HIDE DEF ObsMark, Mark
  <2>7. /\ told.observations <= ObsMark(r.pulse, t)
        /\ told.frames <= Mark(r.pulse.sched, t) /\ told.feedback <= r.pulse.from
    BY <2>2, <2>4, <2>5, <2>6
  <2> QED BY <1>6, <2>1, <2>2, <2>7, SpansNothing DEF Telling
<1>12. hold.phase = "holding" => Metered(v, T, t)
  <2>1. v.delta = World.delta + Ran(T, now, t)
    BY <1>1, <1>4, <1>8 DEF PulsesTold
  <2> QED BY <1>3, <2>1, WorldStartTold, MeteredOn
<1> QED BY <1>10, <1>11, <1>12 DEF r, p, v

LEMMA HeldTickTold ==
  ASSUME PulseInv, Counting, hold.phase = "holding", NEW t \in Nat, now <= t,
         NEW answer \in Answers, NEW role \in Roles, NEW expired \in BOOLEAN,
         NEW event \in LidEvents, HeldTick(t, answer, role, expired, event)
  PROVE  Counting' /\ Tells
<1> DEFINE sample == [known |-> TRUE, acquired |-> t, role |-> role]
           h == Taken(Released(hold, expired), answer)
           w0 == [World EXCEPT !.auger = World.auger /\ ~ expired]
           w == IF answer # NoAnswer /\ h.stale THEN Inhibited(w0, h, t, sample, TRUE) ELSE w0
           v == LidPart(w, h, t, sample, event)
           T == Grown(seen, now, t, pulse.sched.on)
<1>1. ~ Permitted(h) /\ Settle(t, v, AfterLid(h, event))
  BY Zenon DEF HeldTick
<1>2. h \in Holds /\ sample \in Samples
  <2>1. hold \in Holds
    BY DEF PulseInv
  <2> QED BY <2>1, HoldStates DEF Samples
<1>3. /\ WorldOK(World, t) /\ World.pulse = pulse /\ World.auger = auger
      /\ Telling(World, seen, now) /\ Metered(World, seen, now)
      /\ auger \in BOOLEAN /\ ToldType /\ now \in Nat
      /\ Lasts(seen, T, now, t, pulse.sched.on)
  BY WorldStart, WorldStartTold, SeenLasts DEF PulseInv, Counting
<1>4. /\ WorldOK(w0, t) /\ w0.pulse = pulse
      /\ Telling(w0, seen, now) /\ Metered(w0, seen, now)
  <2>1. /\ w0.pulse = World.pulse /\ w0.auger = (World.auger /\ ~ expired)
        /\ w0.owed = World.owed /\ w0.disturbed = World.disturbed
        /\ w0.out = World.out /\ w0.delta = World.delta /\ IsWorld(w0)
    BY <1>3 DEF WorldOK, IsWorld, WorldFields
  <2>2. w0.auger \in BOOLEAN
    BY <1>3, <2>1
  <2> HIDE DEF w0
  <2>3. WorldOK(w0, t)
    BY <1>3, <2>1, <2>2 DEF WorldOK
  <2> QED BY <1>3, <2>1, <2>3 DEF Telling, Metered
<1>5. ~ (answer # NoAnswer /\ h.stale) => Idle(pulse.sched)
  <2>1. (~ Permitted(hold) => Idle(pulse.sched)) /\ hold \in Holds
    BY DEF PulseInv
  <2> DEFINE g == Released(hold, expired)
  <2>2. /\ g.stale = hold.stale /\ g.lid = hold.lid /\ (g.manual => hold.manual)
        /\ g \in Holds
    BY <2>1, HoldStates DEF Released, Holds
  <2> HIDE DEF g
  <2>3. /\ h.manual = g.manual /\ h.lid = g.lid
        /\ h.stale = IF answer = NoAnswer THEN g.stale ELSE answer = Stale
    BY <2>2 DEF Taken, Holds, g
  <2> HIDE DEF h
  <2> QED BY <1>1, <2>1, <2>2, <2>3 DEF Permitted
<1> HIDE DEF h, w0, sample, T
<1>6. WorldOK(w, t) /\ Telling(w, T, t) /\ Metered(w, T, t)
  <2>1. CASE answer # NoAnswer /\ h.stale
    <3>1. w = Inhibited(w0, h, t, sample, TRUE)
      BY <2>1
    <3>2. WorldOK(w, t)
      BY <1>2, <1>4, <3>1, InhibitedFacts
    <3> HIDE DEF w
    <3> QED BY <1>2, <1>3, <1>4, <3>1, <3>2, InhibitedTold
  <2>2. CASE ~ (answer # NoAnswer /\ h.stale)
    <3>1. w = w0 /\ Idle(w0.pulse.sched) /\ PulseOK(w0.pulse, w0.disturbed, t)
      BY <1>4, <1>5, <2>2 DEF WorldOK
    <3> HIDE DEF w
    <3> QED BY <1>3, <1>4, <3>1, IdleTold
  <2> QED BY <2>1, <2>2
<1> HIDE DEF w
<1>7. WorldOK(v, t) /\ Telling(v, T, t) /\ Metered(v, T, t)
  <2>1. WorldOK(v, t)
    BY <1>2, <1>6, LidPartFacts
  <2> QED BY <1>2, <1>3, <1>6, <2>1, LidPartTold
<1> HIDE DEF v
<1> QED BY <1>1, <1>7, SettleTold DEF T

LEMMA PulseTickTold ==
  ASSUME PulseInv, Counting, hold.phase = "holding", NEW t \in Nat, now <= t,
         NEW answer \in Answers, NEW lag \in Lags, NEW role \in Roles,
         NEW expired \in BOOLEAN, NEW event \in LidEvents,
         PulseTick(t, answer, lag, role, expired, event)
  PROVE  Counting' /\ Tells
<1> DEFINE sample == [known |-> TRUE, acquired |-> t - lag, role |-> role]
           h == Taken(Released(hold, expired), answer)
           on == auger /\ ~ expired
           r == AdvancePulse(pulse, h, t, on, sample)
           command == CommandOn(r.pulse.sched) /\ event # "opens"
           c == Commanded(r, command)
           w == IF answer = NoAnswer THEN c ELSE Reported(c, t)
           v == LidPart(w, h, t, sample, event)
           T == Grown(seen, now, t, pulse.sched.on)
<1>1. Settle(t, v, AfterLid(h, event))
  BY Zenon DEF PulseTick
<1>2. h \in Holds /\ sample \in Samples /\ sample.acquired <= t
  <2>1. hold \in Holds
    BY DEF PulseInv
  <2>2. h \in Holds
    BY <2>1, HoldStates
  <2>3. lag \in Nat
    BY PulseAssumption
  <2> QED BY <2>2, <2>3 DEF Samples
<1>3. /\ command \in BOOLEAN /\ on \in BOOLEAN /\ ToldType
      /\ Lasts(seen, T, now, t, pulse.sched.on)
  BY SeenLasts DEF CommandOn, Counting
<1> HIDE DEF h, sample, command, on
<1>4. WorldOK(c, t)
  BY <1>2, <1>3, CommandedFacts
<1>5. Telling(c, T, t) /\ Metered(c, T, t)
  BY <1>2, <1>3, CommandedTold
<1> HIDE DEF c, T
<1>6. WorldOK(w, t) /\ Telling(w, T, t) /\ Metered(w, T, t)
  BY <1>3, <1>4, <1>5, ReportedFacts, ReportedTold
<1> HIDE DEF w
<1>7. WorldOK(v, t) /\ Telling(v, T, t) /\ Metered(v, T, t)
  <2>1. WorldOK(v, t)
    BY <1>2, <1>6, LidPartFacts
  <2> QED BY <1>2, <1>3, <1>6, <2>1, LidPartTold
<1> HIDE DEF v
<1> QED BY <1>1, <1>7, SettleTold DEF T

LEMMA LostTickTold ==
  ASSUME PulseInv, Counting, NEW t \in Nat, now <= t, NEW answer \in Answers,
         NEW lag \in Lags, NEW role \in Roles, NEW raised \in BOOLEAN,
         LostTick(t, answer, lag, role, raised)
  PROVE  Counting' /\ Tells
<1> DEFINE sample == [known |-> TRUE, acquired |-> t - lag, role |-> role]
           h == Taken(hold, answer)
           r == AdvancePulse(pulse, h, t, auger, sample)
           gap == InvalidateGap(r.pulse)
           o == HandOver(World, gap)
           v == [o EXCEPT !.pulse = gap.pulse, !.auger = FALSE, !.owed = 0, !.disturbed = t]
           p == Pulsed(World, r)
           failing == [h EXCEPT !.phase = "failing"]
           failed == [h EXCEPT !.phase = "failed"]
           T == Grown(seen, now, t, pulse.sched.on)
<1>1. IF raised THEN Settle(t, p, failing) ELSE Settle(t, v, failed)
  BY Zenon DEF LostTick
<1>2. h \in Holds /\ sample \in Samples /\ sample.acquired <= t
  <2>1. hold \in Holds
    BY DEF PulseInv
  <2>2. h \in Holds
    BY <2>1, HoldStates
  <2>3. lag \in Nat
    BY PulseAssumption
  <2> QED BY <2>2, <2>3 DEF Samples
<1>3. /\ auger \in BOOLEAN /\ ToldType /\ FALSE \in BOOLEAN
      /\ Lasts(seen, T, now, t, pulse.sched.on)
  BY SeenLasts DEF PulseInv, Counting
<1>4. failing.phase = "failing" /\ failed.phase = "failed"
  BY <1>2 DEF Holds
<1> HIDE DEF h, sample, failing, failed
<1>5. WorldOK(p, t) /\ p.pulse = r.pulse /\ PulseOK(r.pulse, disturbed, t)
  BY <1>2, <1>3, CommandedFacts
<1>6. Telling(p, T, t)
  BY <1>2, <1>3, CommandedTold
<1>7. p.out = NoResult /\ IsOut(NoResult) /\ IsWorld(World) /\ World.out = NoResult
  BY WorldStart DEF Pulsed, IsWorld, WorldFields, WorldOK
<1> HIDE DEF r, p
<1>8. CASE raised
  BY <1>1, <1>4, <1>5, <1>6, <1>8, SettleTold
<1>9. CASE ~ raised
  <2>1. /\ \A u \in Nat, e \in Int : PulseOK(gap.pulse, e, u)
        /\ Idle(gap.pulse.sched) /\ gap.pulse.sched.credit = 0
        /\ NoneContinuous(gap.result.observations)
    BY <1>5, InvalidateGapFacts
  <2>2. PulsesTold(gap, p.pulse, T, t, t)
    BY <1>5, <1>6, InvalidateGapTold DEF Telling
  <2> HIDE DEF gap
  <2>3. /\ o.out = Handed(NoResult, gap.result) /\ IsWorld(o) /\ IsOut(o.out)
        /\ o.out.observations = NoResult.observations \o gap.result.observations
    <3>1. IsWorld(World)
      BY <1>7
    <3>2. o.out = Handed(World.out, gap.result)
      BY <3>1, HandOverOut
    <3>3. /\ o.out.observations = World.out.observations \o gap.result.observations
          /\ IsWorld(o) /\ IsOut(o.out)
      BY <3>1, HandOverFacts, Zenon
    <3> HIDE DEF o
    <3> QED BY <1>7, <3>2, <3>3, Zenon
  <2> HIDE DEF o
  <2>4. /\ v.pulse = gap.pulse /\ v.auger = FALSE /\ v.owed = 0 /\ v.disturbed = t
        /\ v.out = o.out /\ IsWorld(v)
    BY <2>3 DEF IsWorld, WorldFields
  <2> HIDE DEF v
  <2>5. AllFresh(v.out.observations, t, t)
    <3>1. NoResult.observations = <<>>
      BY DEF NoResult
    <3> QED BY <2>1, <2>3, <2>4, <3>1, EmptyNotContinuous, NoneContinuousConcat,
               NoneContinuousFresh
  <2>6. PulseOK(v.pulse, t, t) /\ t \in 0..t
    BY <2>1, <2>4
  <2>7. WorldOK(v, t)
    BY <2>1, <2>3, <2>4, <2>5, <2>6 DEF WorldOK
  <2>8. Telling(v, T, t)
    <3>1. p.pulse.sched.on \in BOOLEAN /\ PulseOK(p.pulse, disturbed, t)
      BY <1>5 DEF PulseOK, Pulses, Schedulers
    <3>2. Lasts(T, T, t, t, p.pulse.sched.on)
      BY <1>3, <3>1, LastsAgain
    <3>3. PulseOK(gap.pulse, t, t) /\ v.out = Handed(p.out, gap.result)
      BY <1>7, <2>1, <2>3, <2>4
    <3> HIDE DEF T
    <3> QED BY <1>3, <1>6, <2>2, <2>4, <3>1, <3>2, <3>3, HandedTold
  <2> QED BY <1>1, <1>4, <1>9, <2>7, <2>8, SettleTold
<1> QED BY <1>8, <1>9

LEMMA ManualTold ==
  ASSUME PulseInv, Counting, hold.phase = "holding", NEW t \in Nat, now <= t,
         NEW on \in BOOLEAN, NEW role \in Roles, Manual(t, on, role)
  PROVE  Counting' /\ Tells
<1> DEFINE sample == [known |-> TRUE, acquired |-> now, role |-> role]
           w == Inhibited(World, hold, t, sample, FALSE)
           v == [w EXCEPT !.auger = on]
           h == [hold EXCEPT !.manual = TRUE]
           T == Grown(seen, now, t, pulse.sched.on)
<1>1. Settle(t, v, h)
  BY Zenon DEF Manual
<1>2. /\ hold \in Holds /\ sample \in Samples /\ ToldType
      /\ WorldOK(World, t) /\ World.pulse = pulse
      /\ Telling(World, seen, now) /\ Metered(World, seen, now)
      /\ Lasts(seen, T, now, t, pulse.sched.on)
  BY WorldStart, WorldStartTold, SeenLasts DEF PulseInv, Counting, Samples
<1> HIDE DEF sample
<1>3. WorldOK(w, t)
  BY <1>2, InhibitedFacts
<1> HIDE DEF T
<1>4. Telling(w, T, t) /\ Metered(w, T, t)
  BY <1>2, InhibitedTold
<1> HIDE DEF w
<1>5. /\ v.pulse = w.pulse /\ v.auger = on /\ v.owed = w.owed /\ v.delta = w.delta
      /\ v.disturbed = w.disturbed /\ v.out = w.out /\ IsWorld(v)
  BY <1>3 DEF WorldOK, IsWorld, WorldFields
<1> HIDE DEF v
<1>6. WorldOK(v, t)
  BY <1>3, <1>5 DEF WorldOK
<1>7. Telling(v, T, t) /\ Metered(v, T, t)
  BY <1>4, <1>5 DEF Telling, Metered
<1> HIDE DEF h
<1> QED BY <1>1, <1>6, <1>7, SettleTold DEF T

LEMMA SafetyEventTold ==
  ASSUME PulseInv, Counting, hold.phase = "holding", NEW t \in Nat, now <= t,
         NEW role \in Roles, SafetyEvent(t, role)
  PROVE  Counting' /\ Tells
<1> DEFINE sample == [known |-> TRUE, acquired |-> now, role |-> role]
           v == Inhibited(World, hold, t, sample, TRUE)
           T == Grown(seen, now, t, pulse.sched.on)
<1>1. Settle(t, v, hold)
  BY Zenon DEF SafetyEvent
<1>2. /\ hold \in Holds /\ sample \in Samples /\ ToldType
      /\ WorldOK(World, t) /\ World.pulse = pulse
      /\ Telling(World, seen, now) /\ Metered(World, seen, now)
      /\ Lasts(seen, T, now, t, pulse.sched.on)
  BY WorldStart, WorldStartTold, SeenLasts DEF PulseInv, Counting, Samples
<1> HIDE DEF sample
<1>3. WorldOK(v, t)
  BY <1>2, InhibitedFacts
<1> HIDE DEF T
<1>4. Telling(v, T, t) /\ Metered(v, T, t)
  BY <1>2, InhibitedTold
<1> HIDE DEF v
<1> QED BY <1>1, <1>3, <1>4, SettleTold DEF T

LEMMA AdoptTold ==
  ASSUME PulseInv, Counting, hold.phase = "holding", NEW t \in Nat, now <= t,
         NEW role \in Roles, Adopt(t, role)
  PROVE  Counting' /\ Tells
<1> DEFINE sample == [known |-> TRUE, acquired |-> now, role |-> role]
           w == Inhibited(World, hold, t, sample, FALSE)
           v == [w EXCEPT !.pulse = Configured(t)]
           h == [hold EXCEPT !.request = 0, !.solved = FALSE, !.stale = FALSE]
           T == Grown(seen, now, t, pulse.sched.on)
<1>1. Settle(t, v, h)
  BY Zenon DEF Adopt
<1>2. /\ hold \in Holds /\ sample \in Samples /\ ToldType
      /\ WorldOK(World, t) /\ World.pulse = pulse
      /\ Telling(World, seen, now) /\ Metered(World, seen, now)
      /\ Lasts(seen, T, now, t, pulse.sched.on)
  BY WorldStart, WorldStartTold, SeenLasts DEF PulseInv, Counting, Samples
<1> HIDE DEF sample
<1>3. WorldOK(w, t) /\ Idle(w.pulse.sched) /\ w.auger = FALSE
  BY <1>2, InhibitedFacts
<1> HIDE DEF T
<1>4. Telling(w, T, t) /\ Metered(w, T, t)
  BY <1>2, InhibitedTold
<1> HIDE DEF w
<1>5. /\ v.pulse = Configured(t) /\ v.auger = FALSE /\ v.owed = w.owed
      /\ v.disturbed = w.disturbed /\ v.out = w.out /\ v.delta = w.delta /\ IsWorld(v)
  BY <1>3 DEF WorldOK, IsWorld, WorldFields
<1> HIDE DEF v, h
<1>6. /\ NewScheduler \in Schedulers /\ Idle(NewScheduler) /\ NewScheduler.credit = 0
      /\ NewScheduler.total = 0 /\ ~ NewScheduler.on
  BY TimingAssumption DEF NewScheduler, Schedulers, Never, Idle
<1>7. /\ Configured(t).sched = NewScheduler /\ Configured(t).from = t
      /\ Configured(t).on = 0 /\ Configured(t).metrics = 0
      /\ Configured(t).pending = Nothing
      /\ PulseOK(Configured(t), w.disturbed, t)
  BY <1>6, PulseAssumption DEF Configured, PulseOK, Pulses, Latches, Within, PendingAfter
<1>8. WorldOK(v, t)
  <2>1. w.owed = 0
    BY <1>3 DEF WorldOK, PulseOK, Within
  <2> QED BY <1>3, <1>5, <1>6, <1>7, <2>1 DEF WorldOK
<1>9. Counted(v.pulse, T, t)
  BY <1>5, <1>6, <1>7, IdleCounted
<1>10. Mark(v.pulse.sched, t) = t /\ ObsMark(v.pulse, t) = t /\ v.pulse.from = t
  BY <1>5, <1>6, <1>7 DEF Mark, ObsMark
\* The pulses that are left told of everything before t.
<1>11. /\ Counted(w.pulse, T, t)
       /\ Mark(w.pulse.sched, t) \in Int /\ ObsMark(w.pulse, t) \in Int
       /\ Mark(w.pulse.sched, t) <= t /\ ObsMark(w.pulse, t) <= t
       /\ w.pulse.from \in Int /\ w.pulse.from <= t
  <2>1. Counted(w.pulse, T, t) /\ w.pulse.from \in Int
    BY <1>3, <1>4 DEF Telling, WorldOK, PulseOK, Pulses
  <2>2. t \in Int /\ w.pulse.from <= t
    BY <2>1 DEF Counted
  <2>3. PulseOK(w.pulse, w.disturbed, t)
    BY <1>3 DEF WorldOK
  <2>4. /\ Mark(w.pulse.sched, t) \in Int /\ ObsMark(w.pulse, t) \in Int
        /\ ObsMark(w.pulse, t) <= Mark(w.pulse.sched, t) /\ Mark(w.pulse.sched, t) <= t
    BY <2>1, <2>3, Marks
  <2> HIDE DEF Mark, ObsMark
  <2> QED BY <2>1, <2>2, <2>4
<1>12. ASSUME NEW reports, NEW from \in Int, NEW to \in Int, to <= t,
              Spans(reports, T, from, to)
       PROVE  Spans(reports, T, from, t)
  <2>1. Spans(<<>>, T, to, t) /\ t \in Int
    BY <1>12, SpansNothing
  <2>2. Spans(reports \o <<>>, T, from, t)
    BY <1>12, <2>1, SpansConcat
  <2>3. reports \o <<>> = reports
    BY <1>12 DEF Spans
  <2> QED BY <2>2, <2>3
<1>13. /\ Spans(w.out.observations, T, told.observations, t)
       /\ Spans(w.out.frames, T, told.frames, t)
       /\ Spans(w.out.feedback, T, told.feedback, t)
  <2>1. /\ Spans(w.out.observations, T, told.observations, ObsMark(w.pulse, t))
        /\ Spans(w.out.frames, T, told.frames, Mark(w.pulse.sched, t))
        /\ Spans(w.out.feedback, T, told.feedback, w.pulse.from)
    BY <1>4 DEF Telling
  <2>2. /\ told.observations \in Int /\ told.frames \in Int /\ told.feedback \in Int
    BY <1>2 DEF ToldType
  <2> QED BY <1>11, <1>12, <2>1, <2>2
<1>14. Telling(v, T, t) /\ Metered(v, T, t)
  BY <1>4, <1>5, <1>9, <1>10, <1>13 DEF Telling, Metered
<1> QED BY <1>1, <1>8, <1>14, SettleTold DEF T

LEMMA TeardownTold ==
  ASSUME PulseInv, Counting, hold.phase \in {"holding", "failing"},
         NEW t \in Nat, now <= t, NEW known \in BOOLEAN, NEW role \in Roles,
         Teardown(t, known, role)
  PROVE  Counting' /\ Tells
<1> DEFINE sample == IF known THEN [known |-> TRUE, acquired |-> t, role |-> role]
                     ELSE Unknown
           r == AdvancePulse(pulse, hold, t, auger, sample)
           c == Commanded(r, FALSE)
           w == Reported(c, t)
           v == Inhibited(w, hold, t, sample, TRUE)
           h == [hold EXCEPT !.phase = Over]
           T == Grown(seen, now, t, pulse.sched.on)
<1>1. Settle(t, v, h)
  BY Zenon DEF Teardown
<1>2. /\ hold \in Holds /\ auger \in BOOLEAN /\ ToldType /\ FALSE \in BOOLEAN
      /\ sample \in Samples /\ sample.acquired <= t
      /\ Lasts(seen, T, now, t, pulse.sched.on)
  BY PulseAssumption, SeenLasts DEF PulseInv, Counting, Samples, Unknown, Never
<1>3. h.phase \in {"holding", "done"} => hold.phase = "holding"
  BY <1>2 DEF Holds, Over
<1> HIDE DEF sample, h
<1>4. WorldOK(c, t)
  BY <1>2, CommandedFacts
<1>5. Telling(c, T, t) /\ (hold.phase = "holding" => Metered(c, T, t))
  BY <1>2, CommandedTold
<1> HIDE DEF c
<1>6. WorldOK(w, t) /\ Telling(w, T, t) /\ (hold.phase = "holding" => Metered(w, T, t))
  BY <1>2, <1>4, <1>5, ReportedFacts, ReportedTold
<1> HIDE DEF w
<1>7. Lasts(T, T, t, t, w.pulse.sched.on)
  <2>1. w.pulse.sched.on \in BOOLEAN
    BY <1>6 DEF WorldOK, PulseOK, Pulses, Schedulers
  <2> QED BY <1>2, <2>1, LastsAgain
<1> HIDE DEF T
<1>8. WorldOK(v, t)
  BY <1>2, <1>6, InhibitedFacts
<1>9. Telling(v, T, t) /\ (hold.phase = "holding" => Metered(v, T, t))
  BY <1>2, <1>6, <1>7, InhibitedTold
<1> HIDE DEF v
<1> QED BY <1>1, <1>3, <1>8, <1>9, SettleTold DEF T

LEMMA DiscontinuityTold ==
  ASSUME PulseInv, Counting, hold.phase \in {"holding", "failing"}, Discontinuity
  PROVE  Counting' /\ Tells
<1> DEFINE r == InvalidateGap(pulse)
           x == [World EXCEPT !.pulse = r.pulse, !.auger = FALSE, !.owed = 0,
                              !.disturbed = now]
           v == HandOver(x, r)
           h == [hold EXCEPT !.phase = Over]
           T == Grown(seen, now, now, pulse.sched.on)
<1>1. Settle(now, v, h)
  BY Zenon DEF Discontinuity
<1>2. /\ now \in Nat /\ now <= now /\ hold \in Holds /\ PulseOK(pulse, disturbed, now)
      /\ Counted(pulse, seen, now) /\ ToldType /\ auger \in BOOLEAN
  BY DEF PulseInv, Counting
<1>3. /\ \A u \in Nat, e \in Int : PulseOK(r.pulse, e, u)
      /\ Idle(r.pulse.sched) /\ r.pulse.sched.credit = 0
      /\ NoneContinuous(r.result.observations)
  BY <1>2, InvalidateGapFacts
<1>4. h.phase \in {"holding", "done"} => hold.phase = "holding"
  BY <1>2 DEF Holds, Over
<1>5. Lasts(seen, T, now, now, pulse.sched.on) /\ T = seen
  <2>1. Lasts(seen, T, now, now, pulse.sched.on)
    BY <1>2, SeenLasts
  <2> HIDE DEF T
  <2> QED BY <2>1, LastsRan
<1>6. PulsesTold(r, pulse, seen, now, now) /\ r.delta = 0
  BY <1>2, InvalidateGapTold DEF InvalidateGap
<1>7. /\ IsWorld(World) /\ IsOut(World.out) /\ World.out.observations = <<>>
      /\ World.pulse = pulse /\ World.delta = 0
  BY <1>2, WorldStart DEF WorldOK, NoResult, World
<1>8. /\ Telling(World, seen, now)
      /\ hold.phase \in {"holding", "done"} => Metered(World, seen, now)
  BY WorldStartTold
<1> HIDE DEF r, h, T
<1>9. /\ x.pulse = r.pulse /\ x.auger = FALSE /\ x.owed = 0 /\ x.disturbed = now
      /\ x.out = World.out /\ x.delta = World.delta /\ IsWorld(x)
  BY <1>7 DEF IsWorld, WorldFields
<1> HIDE DEF x
<1>10. /\ v.pulse = x.pulse /\ v.out = Handed(x.out, r.result) /\ v.delta = x.delta + r.delta
  BY <1>9, HandOverOut
<1>11. /\ v.auger = x.auger /\ v.owed = x.owed /\ v.disturbed = x.disturbed
       /\ v.out.observations = x.out.observations \o r.result.observations
       /\ IsWorld(v) /\ IsOut(v.out)
  BY <1>7, <1>9, HandOverFacts, Zenon
<1> HIDE DEF v
<1>12. AllFresh(v.out.observations, now, now)
  <2>1. v.out.observations = <<>> \o r.result.observations
    BY <1>7, <1>9, <1>11
  <2> QED BY <1>3, <2>1, EmptyNotContinuous, NoneContinuousConcat, NoneContinuousFresh
<1>13. WorldOK(v, now)
  <2>1. PulseOK(v.pulse, now, now) /\ now \in 0..now
    BY <1>2, <1>3, <1>9, <1>10
  <2> QED BY <1>3, <1>9, <1>10, <1>11, <1>12, <2>1 DEF WorldOK
<1>14. Telling(v, seen, now)
  <2>1. /\ v.pulse = r.pulse /\ v.out = Handed(World.out, r.result)
        /\ PulseOK(r.pulse, now, now) /\ Lasts(seen, seen, now, now, World.pulse.sched.on)
        /\ PulsesTold(r, World.pulse, seen, now, now)
        /\ PulseOK(World.pulse, disturbed, now)
    BY <1>2, <1>3, <1>5, <1>6, <1>7, <1>9, <1>10
  <2> HIDE DEF World
  <2> QED BY <1>2, <1>8, <2>1, HandedTold
<1>15. hold.phase = "holding" => Metered(v, seen, now)
  BY <1>6, <1>7, <1>8, <1>9, <1>10 DEF Metered
<1> QED BY <1>1, <1>2, <1>4, <1>5, <1>13, <1>14, <1>15, SettleTold DEF T

LEMMA CountingNext == PulseInv /\ Counting /\ [Next]_vars => Counting' /\ [Tells]_vars
<1> SUFFICES ASSUME PulseInv, Counting, [Next]_vars PROVE Counting' /\ [Tells]_vars
  OBVIOUS
<1>1. CASE UNCHANGED vars
  BY <1>1, Zenon DEF vars, Counting, ToldType
<1>2. ASSUME NEW t \in Ticks PROVE t \in Nat /\ now <= t
  BY PulseAssumption DEF Ticks, PulseInv
<1>3. ASSUME hold.phase = "holding", NEW t \in Ticks, Holding(t)
      PROVE  Counting' /\ Tells
  <2>1. PICK role \in Roles :
          \/ \E answer \in Answers, expired \in BOOLEAN, event \in LidEvents :
                \/ HeldTick(t, answer, role, expired, event)
                \/ \E lag \in Lags : PulseTick(t, answer, lag, role, expired, event)
          \/ \E answer \in Answers, lag \in Lags, raised \in BOOLEAN :
                LostTick(t, answer, lag, role, raised)
          \/ \E on \in BOOLEAN : Manual(t, on, role)
          \/ SafetyEvent(t, role)
          \/ Adopt(t, role)
    BY <1>3, Zenon DEF Holding
  <2>2. t \in Nat /\ now <= t
    BY <1>2
  <2> QED BY <1>3, <2>1, <2>2, HeldTickTold, PulseTickTold, LostTickTold, ManualTold,
             SafetyEventTold, AdoptTold, Zenon
<1>4. ASSUME hold.phase \in {"holding", "failing"}, NEW t \in Ticks, NEW known \in BOOLEAN,
             NEW role \in Roles, Teardown(t, known, role)
      PROVE  Counting' /\ Tells
  BY <1>2, <1>4, TeardownTold
<1> QED BY <1>1, <1>3, <1>4, DiscontinuityTold, Zenon DEF Next

\* What was told of the auger, in each kind of report, always ends where the next
\* report begins, and the scheduler's counts agree with what was seen of it
\* (PulseScheduler.advance, FramedPulseRuntime.advance, reset, report_feedback).
THEOREM CountingInvariant == Spec => []Counting
<1>1. Counting /\ PulseInv /\ [Next]_vars => Counting'
  BY CountingNext
<1> QED BY <1>1, CountingInit, PulseInvariant, PTL DEF Spec

\* Every frame, observation and report says what the auger was seen to do in its
\* interval, later than the one before, and the metric is the time it was ever
\* seen running unless a tick was lost (FramedPulseRuntime._record_delivery).
THEOREM PulseToldAsObserved == Spec => ToldAsObserved
<1>1. Counting /\ PulseInv /\ [Next]_vars =>
        [/\ InOrder(out'.observations, told.observations)
         /\ InOrder(out'.frames, told.frames)
         /\ InOrder(out'.feedback, told.feedback)
         /\ hold'.phase \in {"holding", "done"} => augerontime' = Cardinality(seen')]_vars
  BY CountingNext DEF Tells
<1> QED BY <1>1, CountingInvariant, PulseInvariant, PTL DEF Spec, ToldAsObserved
=============================================================================
