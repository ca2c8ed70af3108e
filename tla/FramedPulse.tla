---------------------------- MODULE FramedPulse ----------------------------
(***************************************************************************)
(* Hold's framed pulses (controller/runtime/framed_pulse.py and its calls  *)
(* from modes/hold.py): every tick of Hold advances the scheduler of       *)
(* PulseScheduler, commands the auger, and hands over what the auger did:  *)
(* completed frames and progress to the controller, observations (a frame  *)
(* with the temperature it led to) to the learning, the time run to the    *)
(* metrics.  A lid, a manual output, a stale result, a safety event, a new *)
(* controller, a gap of the clock and the end of Hold interrupt the frame. *)
(*                                                                         *)
(* A tick takes no time; between two ticks a gap passes.  Calibration, the *)
(* fan, wall time and the traces are left out.                             *)
(***************************************************************************)
EXTENDS PulseScheduler, FiniteSets

CONSTANTS
    Requests,  \* what a solve may ask a frame for
    Gaps,      \* how long the next tick may be in coming
    Lags,      \* how old a tick's temperature may be
    Roles,     \* the learning's role generations
    MaxTime

ASSUME PulseAssumption ==
    /\ Requests \subseteq 0..FrameTime /\ Gaps \subseteq Nat \ {0}
    /\ Lags \subseteq Nat /\ 0 \in Roles /\ MaxTime \in Nat

VARIABLES
    now,          \* the clock at the last tick
    auger,        \* whether the auger runs
    hold,         \* Hold's own state of the pulses and what inhibits them
    pulse,        \* the FramedPulseRuntime
    augerontime,  \* the metric
    out,          \* what the last tick handed over
    told,         \* history: up to where each kind of report has come
    seen,         \* history: the units of time the auger was last seen running
    owed,         \* history: asked of frames and not given, since one was cut
    disturbed     \* history: when pulses were last interrupted
vars == <<now, auger, hold, pulse, augerontime, out, told, seen, owed, disturbed>>

Nothing == [start |-> Never]
NoResult == [observations |-> <<>>, frames |-> <<>>, feedback |-> <<>>]
Latch(h, role) == [solved |-> h.solved, stale |-> h.stale, role |-> role]
Configured(t) ==
    [sched |-> NewScheduler, latched |-> [solved |-> FALSE, stale |-> FALSE, role |-> 0],
     from |-> t, on |-> 0, metrics |-> 0, pending |-> Nothing]

Init ==
    /\ now = 0 /\ auger = FALSE /\ pulse = Configured(0) /\ augerontime = 0
    /\ hold = [request |-> 0, solved |-> FALSE, stale |-> FALSE, manual |-> FALSE,
               lid |-> FALSE, phase |-> "holding"]
    /\ out = NoResult /\ told = [observations |-> 0, frames |-> 0, feedback |-> 0]
    /\ seen = {} /\ owed = 0 /\ disturbed = 0

-----------------------------------------------------------------------------
(* A sample is a temperature with the time it was acquired and the role    *)
(* generation it was acquired under; the set point, the ambient and the    *)
(* units are compared as the role is.                                      *)

Unknown == [known |-> FALSE, acquired |-> Never, role |-> 0]

\* A frame that ended between two temperatures waits for the next one.
Resolvable(o, sample, t) ==
    /\ sample.known /\ sample.role = o.role
    /\ sample.acquired <= t /\ t < o.end + (o.end - o.start)
Waits(p, sample, t) ==
    /\ p.pending # Nothing /\ Resolvable(p.pending, sample, t)
    /\ sample.acquired < p.pending.end
Resolved(p, sample, t) ==
    IF p.pending = Nothing \/ Waits(p, sample, t) THEN <<>>
    ELSE IF Resolvable(p.pending, sample, t)
         THEN <<[p.pending EXCEPT !.continuous = TRUE, !.acquired = sample.acquired]>>
         ELSE <<p.pending>>
Invalidated(p) == IF p.pending = Nothing THEN <<>> ELSE <<p.pending>>

Observation(f, latched, sample, inhibited) ==
    [start |-> f.start, end |-> f.end, on |-> f.on, role |-> latched.role,
     acquired |-> sample.acquired,
     continuous |-> /\ ~inhibited /\ ~latched.stale /\ f.kind = "complete"
                    /\ sample.acquired >= f.end
                    /\ sample.acquired < f.end + (f.end - f.start)]
Observable(latched, sample) == sample.known /\ latched.solved
Deferred(f, frames, latched, sample, t) ==
    /\ Len(frames) = 1 /\ t < f.end + (f.end - f.start) /\ f.kind = "complete"
    /\ Observable(latched, sample) /\ ~latched.stale
    /\ f.start <= sample.acquired /\ sample.acquired < f.end

Observed(frames, latched, sample, inhibited) ==
    IF Observable(latched, sample)
    THEN [i \in DOMAIN frames |-> Observation(frames[i], latched, sample, inhibited)]
    ELSE <<>>
\* A frame cut at its very start is told to nobody; no other frame is empty.
Lasting(cut) == IF cut # <<>> /\ cut[1].end = cut[1].start THEN <<>> ELSE cut

\* What the auger did since the last report, up to t; the baseline moves to t.
Report(p, t) == <<[start |-> p.from, end |-> t, on |-> p.sched.total - p.on]>>
ReportFrames(p, t, on) == <<[start |-> p.from, end |-> t, on |-> on - p.on]>>

-----------------------------------------------------------------------------
\* FramedPulseRuntime.advance, once the scheduler has advanced to a.
Advanced(p, h, t, sample, a) ==
    LET ended == a.frames # <<>>
        deferred == ended /\ Deferred(a.frames[1], a.frames, p.latched, sample, t)
        latched == IF ended \/ Idle(p.sched) THEN Latch(h, sample.role) ELSE p.latched
        first == ~ended /\ ~p.latched.solved /\ latched.solved
        at == IF ended THEN a.frames[Len(a.frames)].end ELSE t
        total == IF ended THEN a.scheduler.total - a.scheduler.frameOn ELSE a.scheduler.total
        report == (ended \/ first) /\ at > p.from
    IN  [pulse |->
            [p EXCEPT !.sched = a.scheduler, !.latched = latched,
                      !.metrics = a.scheduler.total,
                      !.from = IF report THEN at ELSE @, !.on = IF report THEN total ELSE @,
                      !.pending = IF deferred
                                  THEN Observation(a.frames[1], p.latched, sample, FALSE)
                                  ELSE IF Waits(p, sample, t) THEN @ ELSE Nothing],
         delta |-> a.scheduler.total - p.metrics,
         result |->
            [observations |-> Resolved(p, sample, t)
                 \o IF deferred THEN <<>> ELSE Observed(a.frames, p.latched, sample, FALSE),
             frames |-> a.frames,
             feedback |-> IF report THEN ReportFrames(p, at, total) ELSE <<>>]]

\* on: whether the auger is seen running.
AdvancePulse(p, h, t, on, sample) ==
    Advanced(p, h, t, sample, AdvanceTo(p.sched, h.request, t, on))

\* Mutant: a frame that waits for its temperature survives.
DropPendingNever(p) == p
DropPending(p) == [p EXCEPT !.pending = Nothing]

\* FramedPulseRuntime.reset, once the scheduler has advanced to a; terminal: the
\* interrupted frame is fed back too.
Cut(p, h, t, sample, terminal, a) ==
    LET latched == IF a.frames # <<>> \/ Idle(p.sched) THEN Latch(h, sample.role) ELSE p.latched
        cut == Lasting(Interrupted(a.scheduler))
        after == [p EXCEPT !.sched = ResetScheduler(a.scheduler), !.latched = latched,
                           !.from = t, !.on = a.scheduler.total,
                           !.metrics = a.scheduler.total]
    IN  [pulse |-> DropPending(after),
         delta |-> a.scheduler.total - p.metrics,
         result |->
            [observations |-> Invalidated(p) \o Observed(a.frames, p.latched, sample, TRUE)
                                             \o Observed(cut, latched, sample, TRUE),
             frames |-> a.frames \o IF terminal THEN cut ELSE <<>>,
             feedback |-> <<>>]]

ResetPulse(p, h, t, on, sample, terminal) ==
    Cut(p, h, t, sample, terminal, AdvanceTo(p.sched, h.request, t, on))

\* FramedPulseRuntime.invalidate_observation_gap: time has not been observed.
InvalidateGap(p) ==
    LET cut == Lasting(Interrupted(p.sched))
    IN  [pulse |-> DropPending([p EXCEPT !.sched = ResetScheduler(p.sched)]),
         delta |-> 0,
         result |-> [observations |-> Invalidated(p), frames |-> cut,
                     feedback |-> <<>>]]

-----------------------------------------------------------------------------
(* The actions.  A step's view of the world, so that a tick can do several *)
(* things to it in turn.                                                   *)

World == [pulse |-> pulse, auger |-> auger, out |-> NoResult, delta |-> 0,
          owed |-> owed, disturbed |-> disturbed]

Handed(o, r) == [observations |-> o.observations \o r.observations,
                 frames |-> o.frames \o r.frames, feedback |-> o.feedback \o r.feedback]
HandOver(w, r) == [w EXCEPT !.out = Handed(@, r.result), !.delta = @ + r.delta]

Owed(w, s) ==
    LET old == w.pulse.sched
        more == s.request - s.scheduled
    IN  IF s.start = old.start THEN w.owed
        ELSE IF Idle(old) \/ s.start > old.start + FrameTime THEN more ELSE w.owed + more

Pulsed(w, r) == [w EXCEPT !.pulse = r.pulse, !.owed = Owed(w, r.pulse.sched)]

\* Mutant: the auger is left as it was commanded.
InhibitedRunning(w, h, t, sample, terminal) ==
    LET r == ResetPulse(w.pulse, h, t, w.auger, sample, terminal)
    IN  HandOver([w EXCEPT !.pulse = r.pulse, !.owed = 0, !.disturbed = t], r)
Inhibited(w, h, t, sample, terminal) ==
    LET r == ResetPulse(w.pulse, h, t, w.auger, sample, terminal)
    IN  HandOver([w EXCEPT !.pulse = r.pulse, !.owed = 0, !.disturbed = t,
                           !.auger = FALSE], r)

Last(reports, field) ==
    IF reports = <<>> THEN told[field] ELSE reports[Len(reports)].end

\* The step ends at t in world w, with Hold's state h.
Settle(t, w, h) ==
    /\ now' = t /\ pulse' = w.pulse /\ auger' = w.auger /\ out' = w.out /\ hold' = h
    /\ augerontime' = augerontime + w.delta
    /\ told' = [observations |-> Last(w.out.observations, "observations"),
                frames |-> Last(w.out.frames, "frames"),
                feedback |-> Last(w.out.feedback, "feedback")]
    /\ seen' = seen \cup (IF pulse.sched.on THEN now..t - 1 ELSE {})
    /\ owed' = w.owed /\ disturbed' = w.disturbed

\* An expired manual output is released before anything else.
Released(h, expired) == [h EXCEPT !.manual = @ /\ ~expired]
Expires(expired) == expired => hold.manual

\* What happens to the lid at the end of a tick: it opens (the temperature
\* falls or the operator says so) or it counts as closed.
LidEvents == {"none", "opens", "closes"}
LidPossible(event) == event = "closes" => hold.lid
AfterLid(h, event) == [h EXCEPT !.lid = CASE event = "opens" -> TRUE
                                          [] event = "closes" -> FALSE
                                          [] OTHER -> @]
LidPart(w, h, t, sample, event) ==
    IF event = "opens" THEN Inhibited(w, h, t, sample, TRUE) ELSE w

-----------------------------------------------------------------------------
\* A solve's answer as it is taken: a request, or none, or that it is stale.
NoAnswer == -1
Stale == -2
Answers == Requests \cup {NoAnswer, Stale}
Taken(h, answer) ==
    IF answer = NoAnswer THEN h
    ELSE IF answer = Stale THEN [h EXCEPT !.stale = TRUE]
    ELSE [h EXCEPT !.request = answer, !.solved = TRUE, !.stale = FALSE]

Permitted(h) == ~h.stale /\ ~h.manual /\ ~h.lid

\* A tick that may not pulse: a stale answer interrupts, an open lid or a
\* manual output already has.
HeldTick(t, answer, role, expired, event) ==
    LET sample == [known |-> TRUE, acquired |-> t, role |-> role]
        h == Taken(Released(hold, expired), answer)
        w0 == [World EXCEPT !.auger = @ /\ ~expired]
        w == IF answer # NoAnswer /\ h.stale THEN Inhibited(w0, h, t, sample, TRUE) ELSE w0
    IN  /\ ~Permitted(h)
        /\ Settle(t, LidPart(w, h, t, sample, event), AfterLid(h, event))

\* What the scheduler came to, the auger commanded, and all of it handed over.
Commanded(r, on) == HandOver([Pulsed(World, r) EXCEPT !.auger = on], r)
\* The progress since the last report is fed back.
Reported(w, t) ==
    IF t <= w.pulse.from THEN w
    ELSE [w EXCEPT !.pulse.from = t, !.pulse.on = w.pulse.sched.total,
                   !.out.feedback = @ \o Report(w.pulse, t)]

\* A tick that pulses: account and schedule, command the auger, hand over.
PulseTick(t, answer, lag, role, expired, event) ==
    LET sample == [known |-> TRUE, acquired |-> t - lag, role |-> role]
        h == Taken(Released(hold, expired), answer)
    IN  /\ Permitted(h) /\ lag <= t
        /\ \E r \in {AdvancePulse(pulse, h, t, auger /\ ~expired, sample)} :
           \E w \in {Commanded(r, CommandOn(r.pulse.sched) /\ event # "opens")} :
              Settle(t, LidPart(IF answer = NoAnswer THEN w ELSE Reported(w, t),
                                h, t, sample, event),
                     AfterLid(h, event))

\* The auger's driver raises at the command, or the clock's gap is noticed
\* there: what the scheduler has completed is not handed over.
LostTick(t, answer, lag, role, raised) ==
    LET sample == [known |-> TRUE, acquired |-> t - lag, role |-> role]
        h == Taken(hold, answer)
    IN  /\ Permitted(h) /\ lag <= t
        /\ \E r \in {AdvancePulse(pulse, h, t, auger, sample)} :
           \E gap \in {InvalidateGap(r.pulse)} :
              IF raised THEN Settle(t, Pulsed(World, r), [h EXCEPT !.phase = "failing"])
              ELSE Settle(t, [HandOver(World, gap) EXCEPT !.pulse = gap.pulse,
                                 !.auger = FALSE, !.owed = 0, !.disturbed = t],
                          [h EXCEPT !.phase = "failed"])

Manual(t, on, role) ==
    LET sample == [known |-> TRUE, acquired |-> now, role |-> role]
        w == Inhibited(World, hold, t, sample, FALSE)
    IN  Settle(t, [w EXCEPT !.auger = on], [hold EXCEPT !.manual = TRUE])

SafetyEvent(t, role) ==
    LET sample == [known |-> TRUE, acquired |-> now, role |-> role]
    IN  Settle(t, Inhibited(World, hold, t, sample, TRUE), hold)

\* HoldMode._adopt_runner_configuration
Adopt(t, role) ==
    LET sample == [known |-> TRUE, acquired |-> now, role |-> role]
        w == Inhibited(World, hold, t, sample, FALSE)
    IN  Settle(t, [w EXCEPT !.pulse = Configured(t)],
               [hold EXCEPT !.request = 0, !.solved = FALSE, !.stale = FALSE])

Over == IF hold.phase = "failing" THEN "failed" ELSE "done"

\* HoldMode.teardown: the last frame is advanced, reported and cut.
Teardown(t, known, role) ==
    LET sample == IF known THEN [known |-> TRUE, acquired |-> t, role |-> role] ELSE Unknown
    IN  \E r \in {AdvancePulse(pulse, hold, t, auger, sample)} :
           Settle(t, Inhibited(Reported(Commanded(r, FALSE), t), hold, t, sample, TRUE),
                  [hold EXCEPT !.phase = Over])

\* A gap of the clock: nothing is known since the last tick.
Discontinuity ==
    LET r == InvalidateGap(pulse)
        w == HandOver([World EXCEPT !.pulse = r.pulse, !.auger = FALSE, !.owed = 0,
                                    !.disturbed = now], r)
    IN  Settle(now, w, [hold EXCEPT !.phase = Over])

-----------------------------------------------------------------------------
Ticks == {t \in {now + gap : gap \in Gaps} : t <= MaxTime}

Holding(t) ==
    \E role \in Roles :
        \/ \E answer \in Answers, expired \in BOOLEAN, event \in LidEvents :
              /\ Expires(expired) /\ LidPossible(event)
              /\ \/ HeldTick(t, answer, role, expired, event)
                 \/ \E lag \in Lags : PulseTick(t, answer, lag, role, expired, event)
        \/ \E answer \in Answers, lag \in Lags, raised \in BOOLEAN :
              LostTick(t, answer, lag, role, raised)
        \/ \E on \in BOOLEAN : Manual(t, on, role)
        \/ SafetyEvent(t, role)
        \/ Adopt(t, role)

Next ==
    \/ hold.phase = "holding" /\ \E t \in Ticks : Holding(t)
    \/ /\ hold.phase \in {"holding", "failing"}
       /\ \/ \E t \in Ticks, known \in BOOLEAN, role \in Roles : Teardown(t, known, role)
          \/ Discontinuity

Spec == Init /\ [][Next]_vars
=============================================================================
