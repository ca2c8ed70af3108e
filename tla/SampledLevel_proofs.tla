------------------------ MODULE SampledLevel_proofs ------------------------
(***************************************************************************)
(* The invariant of a sampled hopper sensor, for every length of burst and *)
(* every threshold, and what follows from it: that the threads, which      *)
(* share attributes without a lock, publish no level late and let no hang  *)
(* go unnoticed as long as the watchdog hears.                             *)
(***************************************************************************)
EXTENDS SampledLevel, TLAPS

Bursting == {"read", "returned", "publish", "restart"}
Recovering == {"reopen", "recover", "reopened"}

Types ==
  /\ sampler \in Bursting \union Recovering \union {"asleep", "awake", "trusted"}
  /\ watchdog \in {"asleep", "poll", "saw", "overdue", "report"}
  /\ healthy \in BOOLEAN /\ stuckReported \in BOOLEAN
  /\ cycleAge \in {NoCycle} \union 0..Oldest
  /\ seen \in {NoCycle} \union 0..Oldest
  /\ published \in 0..Oldest

\* The stamp is of a burst that is read, and of nothing else.
Stamped == cycleAge # NoCycle <=> sampler \in Bursting
\* Only the sampling thread trusts the sensor again.
Distrusted == sampler \in Recovering => ~ healthy
\* The watchdog gives up only on a hang that has not been reported.
Unreported == watchdog = "overdue" => ~ stuckReported
\* A burst that was overdue when the watchdog looked is seen to be so, and given
\* up on by the end of the look.
Seen == watchdog = "saw" /\ cycleAge > StuckCycle => seen > StuckCycle
GivenUp ==
  watchdog \in {"report", "asleep"} /\ cycleAge > StuckCycle => Deaf \/ ~ healthy
\* A burst that is about to be published is in time.
InTime == sampler = "publish" => Deaf \/ cycleAge <= StuckCycle + Poll

LevelInv ==
  /\ Types /\ Stamped /\ Distrusted /\ Unreported /\ Seen /\ GivenUp /\ InTime
  /\ PublishedInTime /\ NoticedUnlessDeaf

LEMMA LevelInit == Init => LevelInv
<1> SUFFICES ASSUME Init PROVE LevelInv
  OBVIOUS
<1>1. StuckCycle \in Nat /\ 0 \in 0..Oldest
  BY TimesAssumption DEF Oldest, Poll
<1>2. Types
  BY <1>1 DEF Init, Types, Bursting, Recovering
<1> QED
  BY <1>1, <1>2
     DEF Init, LevelInv, Stamped, Distrusted, Unreported, Seen, GivenUp, InTime,
         PublishedInTime, NoticedUnlessDeaf, NoCycle, Poll, Bursting, Recovering

\* What all the steps of the sampling thread leave alone.
SamplerStep == UNCHANGED <<device, watchdogVars>>

LEMMA SamplingInv ==
  ASSUME LevelInv, Sampling, SamplerStep
  PROVE  LevelInv'
<1> USE TimesAssumption
    DEF LevelInv, Types, Stamped, Distrusted, Unreported, Seen, GivenUp, InTime,
        PublishedInTime, NoticedUnlessDeaf, Deaf, NoCycle, Oldest, Poll, Bursting, Recovering,
        SamplerStep, watchdogVars, flags, EndCycle, Accessing
<1>1. CASE Skip /\ UNCHANGED flags
  BY <1>1 DEF Skip
<1>2. CASE StartCycle /\ UNCHANGED flags
  BY <1>2 DEF StartCycle
<1>3. CASE Raises /\ UNCHANGED flags
  BY <1>3 DEF Raises, Failed
<1>4. CASE Returns /\ UNCHANGED flags
  BY <1>4 DEF Returns, Reopens, Succeeded
<1>5. CASE Check /\ UNCHANGED flags
  BY <1>5 DEF Check
<1>6. CASE Publish /\ UNCHANGED flags
  BY <1>6 DEF Publish, Succeeded
<1>7. CASE Trust
  BY <1>7 DEF Trust
<1>8. CASE Unflag
  BY <1>8 DEF Unflag, Succeeded
<1> QED BY <1>1, <1>2, <1>3, <1>4, <1>5, <1>6, <1>7, <1>8 DEF Sampling

LEMMA WatchingInv ==
  ASSUME LevelInv, Watching, UNCHANGED <<device, samplerVars, requested, published>>
  PROVE  LevelInv'
<1> USE TimesAssumption
    DEF LevelInv, Types, Stamped, Distrusted, Unreported, Seen, GivenUp, InTime,
        PublishedInTime, NoticedUnlessDeaf, Deaf, NoCycle, Oldest, Poll, Bursting, Recovering,
        samplerVars, flags
<1>1. CASE Look
  BY <1>1 DEF Look
<1>2. CASE Judge
  BY <1>2 DEF Judge
<1>3. CASE GiveUp
  BY <1>3 DEF GiveUp
<1>4. CASE Report
  BY <1>4 DEF Report
<1> QED BY <1>1, <1>2, <1>3, <1>4 DEF Watching

LEMMA TickInv ==
  ASSUME LevelInv, Tick
  PROVE  LevelInv'
BY TimesAssumption
   DEF LevelInv, Types, Stamped, Distrusted, Unreported, Seen, GivenUp, InTime,
       PublishedInTime, NoticedUnlessDeaf, Deaf, NoCycle, Oldest, Poll, Bursting, Recovering,
       Tick, Older, Accessing, flags

LEMMA LevelNext == LevelInv /\ [Next]_vars => LevelInv'
<1> SUFFICES ASSUME LevelInv, [Next]_vars PROVE LevelInv'
  OBVIOUS
<1>1. CASE UNCHANGED vars
  BY <1>1 DEF vars, samplerVars, flags, watchdogVars, LevelInv, Types, Stamped, Distrusted,
     Unreported, Seen, GivenUp, InTime, PublishedInTime, NoticedUnlessDeaf, Deaf
<1>2. CASE Sampling /\ UNCHANGED <<device, watchdogVars>>
  BY <1>2, SamplingInv DEF SamplerStep
<1>3. CASE Watching /\ UNCHANGED <<device, samplerVars, requested, published>>
  BY <1>3, WatchingInv
<1>4. CASE RequestSample \/ DeviceTurns
  BY <1>4 DEF RequestSample, DeviceTurns, samplerVars, flags, watchdogVars, LevelInv, Types,
     Stamped, Distrusted, Unreported, Seen, GivenUp, InTime, PublishedInTime,
     NoticedUnlessDeaf, Deaf
<1>5. CASE Tick
  BY <1>5, TickInv
<1> QED BY <1>1, <1>2, <1>3, <1>4, <1>5 DEF Next

\* The attributes the threads share agree with where the threads are and with
\* the age of the burst (SampledHopperLevel).
THEOREM LevelInvariant == Spec => []LevelInv
BY LevelInit, LevelNext, PTL DEF Spec

\* No reading that comes back late is published while the watchdog hears
\* (SampledHopperLevel._take_sample against _check_stuck_cycle).
THEOREM LevelPublishedInTime == Spec => []PublishedInTime
BY LevelInvariant, PTL DEF LevelInv

\* Every hang is given up on at the first poll that finds it overdue, while the
\* watchdog hears (_check_stuck_cycle, _recover_from_stuck_read).
THEOREM LevelNoticed == Spec => []NoticedUnlessDeaf
BY LevelInvariant, PTL DEF LevelInv

\* A watchdog that is deaf stays so: no step of either thread makes it hear again
\* (_check_stuck_cycle returns early as long as _stuck_reported is set, and only
\* a recovery from a sensor that is not healthy clears it).
THEOREM LevelDeafForGood == Spec => [][Deaf => Deaf']_vars
<1>1. LevelInv /\ [Next]_vars => [Deaf => Deaf']_vars
  <2> SUFFICES ASSUME LevelInv, Next, Deaf PROVE Deaf'
    OBVIOUS
  <2> USE DEF Deaf
  <2>1. ~ watchdog = "overdue" /\ ~ sampler \in Recovering
    BY DEF LevelInv, Unreported, Distrusted
  <2>2. CASE Sampling /\ UNCHANGED <<device, watchdogVars>>
    BY <2>1, <2>2
       DEF Sampling, Skip, StartCycle, Raises, Returns, Reopens, Succeeded, Failed, EndCycle,
           Check, Publish, Trust, Unflag, flags, Recovering
  <2>3. CASE Watching /\ UNCHANGED <<device, samplerVars, requested, published>>
    BY <2>1, <2>3 DEF Watching, Look, Judge, GiveUp, Report, flags, samplerVars
  <2>4. CASE RequestSample \/ DeviceTurns \/ Tick
    BY <2>4 DEF RequestSample, DeviceTurns, Tick, flags, samplerVars
  <2> QED BY <2>2, <2>3, <2>4 DEF Next
<1> QED BY <1>1, LevelInvariant, PTL DEF Spec
=============================================================================
