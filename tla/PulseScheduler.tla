-------------------------- MODULE PulseScheduler --------------------------
(***************************************************************************)
(* The auger's pulses in Hold (controller/runtime/logic/pulse.py): time is *)
(* cut into frames, a frame is asked for some time of auger, gives it in   *)
(* whole pulses at its beginning, and carries the rest over as a credit.   *)
(*                                                                         *)
(* A scheduler is a record.  Times and requests are whole numbers of a     *)
(* unit as short as one likes; nothing here reads a clock.                 *)
(***************************************************************************)
EXTENDS Integers, Sequences

CONSTANTS
    PulseTime,  \* timing.pulse_s
    FrameTime   \* timing.frame_s
ASSUME TimingAssumption ==
    /\ PulseTime \in Nat \ {0} /\ FrameTime \in Nat \ {0}
    /\ FrameTime % PulseTime = 0

Never == -1
\* total: what was delivered in all frames; the other fields are of the frame.
NewScheduler ==
    [start |-> Never, at |-> Never, on |-> FALSE, request |-> 0, credit |-> 0,
     scheduled |-> 0, frameOn |-> 0, total |-> 0]
Idle(s) == s.start = Never

\* Mutant: what a frame cannot give is forgotten.
BeginFrameAfresh(s, request, start, on) ==
    [s EXCEPT !.start = start, !.at = start, !.on = on, !.request = request,
              !.scheduled = (request \div PulseTime) * PulseTime,
              !.credit = 0, !.frameOn = 0]

\* No request is longer than a frame.
BeginFrame(s, request, start, on) ==
    LET requested == request + s.credit
        capped == IF requested > FrameTime THEN FrameTime ELSE requested
        scheduled == (capped \div PulseTime) * PulseTime
    IN  [s EXCEPT !.start = start, !.at = start, !.on = on, !.request = request,
                  !.scheduled = scheduled, !.credit = requested - scheduled, !.frameOn = 0]

\* The auger did until t what it was last seen doing.
AccountUntil(s, t) ==
    LET on == IF s.on THEN t - s.at ELSE 0
    IN  [s EXCEPT !.total = @ + on, !.frameOn = @ + on, !.at = t]

Finished(s, kind) == [start |-> s.start, end |-> s.at, on |-> s.frameOn, kind |-> kind]

\* A frame nobody looked at; its credit is lost.
SkipFrame(s, start) ==
    [start |-> start, end |-> start + FrameTime, kind |-> "skipped",
     on |-> IF s.on THEN FrameTime ELSE 0]

\* The frame that is done, those skipped after it, and the frame at t.
FramesAfter(done, crossed, request, t) ==
    LET after == [done EXCEPT !.credit = IF crossed > 1 THEN 0 ELSE @,
                              !.total = @ + IF done.on THEN (crossed - 1) * FrameTime ELSE 0]
        next == BeginFrame(after, request, done.start + crossed * FrameTime, done.on)
    IN  [scheduler |-> AccountUntil(next, t),
         frames |-> <<Finished(done, "complete")>>
             \o [i \in 1..crossed - 1 |-> SkipFrame(done, done.start + i * FrameTime)]]

\* The frames that have ended by t, and the frame at t.
AdvanceFrames(s, request, t) ==
    LET crossed == (t - s.start) \div FrameTime
    IN  IF crossed = 0 THEN [scheduler |-> AccountUntil(s, t), frames |-> <<>>]
        ELSE FramesAfter(AccountUntil(s, s.start + FrameTime), crossed, request, t)

\* on: whether the auger is seen running at t.
AdvanceTo(s, request, t, on) ==
    IF Idle(s) THEN [scheduler |-> BeginFrame(s, request, t, on), frames |-> <<>>]
    ELSE LET advanced == AdvanceFrames(s, request, t)
         IN  [advanced EXCEPT !.scheduler.on = on]

CommandOn(s) == s.at - s.start < s.scheduled

\* Mutant: what was delivered before is forgotten too.
ResetSchedulerAltogether(s) == NewScheduler

\* The frame is cut short where it was last accounted, its credit lost.
ResetScheduler(s) == [NewScheduler EXCEPT !.total = s.total]
Interrupted(s) == IF Idle(s) THEN <<>> ELSE <<Finished(s, "reset")>>
=============================================================================
