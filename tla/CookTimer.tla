----------------------------- MODULE CookTimer -----------------------------
(***************************************************************************)
(* The cook timer across processes: the web process asks for timers with   *)
(* intents addressed to the generation whose heartbeat it has read; the    *)
(* control process admits its clock, drains the intents, checkpoints and   *)
(* expires the timer in its outer loop and in the work cycle; clocks jump, *)
(* the host suspends, the process dies and comes back.                     *)
(***************************************************************************)
EXTENDS TimerRecords, Selection

CONSTANTS
  HeartbeatStale,     \* CONTROL_HEARTBEAT_STALE_AFTER
  HeartbeatInterval,  \* HEARTBEAT_WRITE_INTERVAL
  MaxMono,            \* bound: time the host is awake, per boot
  MaxSuspend,         \* bound: time the host is suspended, per boot
  MaxRequests,        \* bound: intents the operator sends
  MaxQueue,           \* bound: intents waiting
  MaxDeaths           \* bound: deaths of the control process

ASSUME ClockAssumption ==
  {HeartbeatStale, HeartbeatInterval, MaxMono, MaxSuspend, MaxRequests,
   MaxQueue, MaxDeaths} \subseteq Nat

VARIABLES
  mono, susp, boot,   \* the host's clocks
  gen,                \* generations issued; the last is the live domain's
  pc,                 \* where the control process is
  last,               \* ctx.last_clock_stamp, or NoStamp
  timer,              \* control.timer in the datastore
  req,                \* the timer's entry in notify_data: req
  shutdown,           \* and shutdown
  mode, updated,      \* the mode the record asks for
  queue,              \* queue_control_write
  kept,               \* what a reset of the record holds in memory
  published,          \* the cycle's display_toggle
  heartbeat,          \* the heartbeat stamp in the datastore, or NoStamp
  handler,            \* the request a web thread is serving
  requests, deaths,   \* events so far
  sent,               \* Timer_Expired notifications sent for each timer
  armedBy,            \* history: the request that last set the timer running
  cut                 \* history: requests sent before the clock was last lost

clocks == <<mono, susp, boot>>
entry  == <<req, shutdown>>
record == <<timer, req, shutdown, mode, updated>>
memory == <<kept, published>>
web == <<handler, requests>>
vars == <<mono, susp, boot, gen, pc, last, timer, req, shutdown, mode, updated,
          queue, kept, published, heartbeat, handler, requests, deaths, sent,
          armedBy, cut>>
history == <<armedBy, cut>>
outside == <<heartbeat, handler, requests, deaths, sent, armedBy, cut>>

Modes == {"Stop", "Error", "Cook", "Shutdown"}
OuterPcs == {"tick", "drain", "notify", "send", "dispatch", "reset", "restore",
             "natural"}
CyclePcs == {"loop", "apply", "sense", "check", "tell", "publish", "finish",
             "ended"}
Pcs == OuterPcs \cup CyclePcs \cup {"down", "boot"}

Here == [boot |-> boot, runtime |-> gen, mono |-> mono, susp |-> susp]

Idle == [serving |-> FALSE, target |-> 0, mayStart |-> FALSE]
Nothing == [timer |-> DefaultTimer, shutdown |-> FALSE, mode |-> "Stop"]

StartIntents ==
  {[op |-> "start_or_resume", seconds |-> d] : d \in Durations}
    \cup {[op |-> "start_with_options", seconds |-> d, shutdown |-> b] :
            d \in Durations \ {0}, b \in BOOLEAN}
TimerIntents == StartIntents \cup {[op |-> "pause"], [op |-> "clear"]}
Asked == {[op |-> "mode", mode |-> m] : m \in {"Stop", "Cook"}}
Entry(intents) == [n : Nat, intent : intents, target : Nat]

TypeOK ==
  /\ {mono, susp, boot, gen, published, requests, deaths} \subseteq Nat
  /\ pc \in Pcs
  /\ {last, heartbeat} \subseteq Stamp
  /\ timer \in Timer /\ WellFormed(timer)
  /\ kept \in [timer : Timer, shutdown : BOOLEAN, mode : Modes]
  /\ WellFormed(kept.timer)
  /\ {req, shutdown, updated} \subseteq BOOLEAN
  /\ mode \in Modes
  /\ \A i \in 1 .. Len(queue) :
       queue[i] \in Entry(TimerIntents \cup Asked)
  /\ handler \in [serving : BOOLEAN, target : Nat, mayStart : BOOLEAN]
  /\ sent \in [0 .. MaxRequests -> Nat]
  /\ {armedBy, cut} \subseteq Nat

Init ==
  /\ mono = 0 /\ susp = 0 /\ boot = 1 /\ gen = 0
  /\ pc = "down" /\ last = NoStamp
  /\ timer \in {DefaultTimer, LegacyTimer} /\ req = FALSE /\ shutdown = FALSE
  /\ mode = "Stop" /\ updated = FALSE
  /\ queue = <<>> /\ kept = Nothing /\ published = 0
  /\ heartbeat = NoStamp /\ handler = Idle
  /\ requests = 0 /\ deaths = 0
  /\ sent = [id \in 0 .. MaxRequests |-> 0]
  /\ armedBy = 0 /\ cut = 0

-----------------------------------------------------------------------------
(* The host's clocks.  The time a step takes is counted before the next      *)
(* reading of the clock: nothing else depends on it.                         *)

ReadsClock == pc \in {"down", "tick", "loop", "sense", "finish"}

Advance ==
  /\ ReadsClock
  /\ mono < MaxMono
  /\ mono' = mono + 1
  /\ UNCHANGED <<susp, boot, gen, pc, last, record, queue, memory, outside>>

Suspend ==
  /\ ReadsClock
  /\ susp < MaxSuspend
  /\ susp' = susp + 1
  /\ UNCHANGED <<mono, boot, gen, pc, last, record, queue, memory, outside>>

-----------------------------------------------------------------------------
(* The web process: _cmd_set_timer and _cmd_set_mode *)

\* heartbeat_runtime_id: the reader ages the heartbeat on its own clocks
LiveHeartbeat ==
  /\ heartbeat # NoStamp
  /\ LET age == Age(heartbeat, [Here EXCEPT !.runtime = heartbeat.runtime])
     IN  age # Unknown /\ age <= HeartbeatStale

\* The checks of _timer_start_with_options at request time, and of its applier
MayStart(t) == t.state # "paused"
                 /\ ~ (t.state = "interrupted" /\ t.remaining # Unknown)

ReadRecord ==
  /\ ~ handler.serving /\ requests < MaxRequests
  /\ LiveHeartbeat
  /\ handler' = [serving |-> TRUE, target |-> heartbeat.runtime,
                 mayStart |-> MayStart(timer)]
  /\ UNCHANGED <<clocks, gen, pc, last, record, queue, memory, heartbeat,
                 requests, deaths, sent, history>>

Enqueue(intent, target) ==
  /\ requests < MaxRequests /\ Len(queue) < MaxQueue
  /\ queue' = Append(queue, [n |-> requests + 1, intent |-> intent,
                              target |-> target])
  /\ requests' = requests + 1
  /\ UNCHANGED <<clocks, gen, pc, last, record, memory, heartbeat, deaths, sent,
                 history>>

AskTimer ==
  /\ handler.serving
  /\ handler' = Idle
  /\ \E intent \in TimerIntents :
       /\ intent.op = "start_with_options" => handler.mayStart
       /\ Enqueue(intent, handler.target)

AskMode ==
  /\ \E intent \in Asked : Enqueue(intent, 0)
  /\ UNCHANGED handler

-----------------------------------------------------------------------------
(* Draining: one intent per transaction, under the admitted stamp *)

\* Mutant: an intent is accepted whatever generation it was meant for.
AcceptsLate(c) ==
  \/ c.intent \in Asked
  \/ CASE c.intent.op = "start_or_resume" ->
            timer.state \in {"paused", "interrupted"} => CanResume(timer)
       [] c.intent.op = "start_with_options" -> MayStart(timer)
       [] OTHER -> TRUE

\* An intent for another generation, and one its timer does not allow, is
\* rejected as a whole.
Accepts(c) ==
  \/ c.intent \in Asked
  \/ /\ c.target = last.runtime
     /\ CASE c.intent.op = "start_or_resume" ->
               timer.state \in {"paused", "interrupted"} => CanResume(timer)
          [] c.intent.op = "start_with_options" -> MayStart(timer)
          [] OTHER -> TRUE

ApplyTimer(intent, id) ==
  /\ CASE intent.op = "clear" ->
            timer' = DefaultTimer /\ req' = FALSE /\ shutdown' = FALSE
       [] intent.op = "pause" ->
            timer' = PauseTimer(timer, last) /\ req' = FALSE
              /\ UNCHANGED shutdown
       [] intent.op = "start_or_resume" ->
            /\ timer' = IF timer.state \in {"paused", "interrupted"}
                          THEN ResumeTimer(timer, last)
                          ELSE StartTimer(id, intent.seconds, last)
            /\ req' = TRUE /\ UNCHANGED shutdown
       [] intent.op = "start_with_options" ->
            /\ timer' = StartTimer(id, intent.seconds, last)
            /\ req' = TRUE /\ shutdown' = intent.shutdown
  /\ UNCHANGED <<mode, updated>>

ApplyMode(m) ==
  /\ mode' = m /\ updated' = TRUE
  /\ UNCHANGED <<timer, entry>>

ApplyHead ==
  /\ pc \in {"drain", "apply", "natural"} /\ queue # <<>>
  /\ queue' = Tail(queue)
  /\ LET c == Head(queue) IN
       \/ ~ Accepts(c) /\ UNCHANGED record
       \/ Accepts(c) /\ c.intent \in Asked /\ ApplyMode(c.intent.mode)
       \/ Accepts(c) /\ c.intent \notin Asked
            /\ ApplyTimer(c.intent, c.n)   \* uuid4: one timer a request
  /\ armedBy' = IF timer'.state = "running" /\ timer' # timer
                  THEN Head(queue).n ELSE armedBy
  /\ UNCHANGED <<clocks, gen, pc, last, memory, heartbeat, web, deaths, sent,
                 cut>>

-----------------------------------------------------------------------------
(* Admitting the clock *)

\* A first stamp is compared with itself.
Lost == ContinuityLost(IF last = NoStamp THEN Here ELSE last, Here)

Admit(to) ==
  /\ last' = Here
  /\ pc' = to
  /\ UNCHANGED <<clocks, gen, record, queue, memory, web, deaths, sent,
                 history>>

Beat ==
  heartbeat' =
    IF heartbeat.runtime = gen /\ heartbeat # NoStamp
         /\ mono - heartbeat.mono < HeartbeatInterval
      THEN heartbeat ELSE Here

\* Retiring the clock: rotate the generation, drain under the new one (every
\* timer intent is addressed to an old one), interrupt the timer, ask for Error.
Retire ==
  /\ gen' = gen + 1
  /\ queue' = <<>>
  /\ timer' = RestoreTimer(timer)
  /\ req' = FALSE
  /\ mode' = "Error" /\ updated' = TRUE
  /\ cut' = requests
  /\ UNCHANGED <<clocks, shutdown, kept, heartbeat, web, deaths, sent, armedBy>>

AdmitTick ==
  /\ pc = "tick"
  /\ \/ ~ Lost /\ Admit("drain") /\ Beat
     \/ Lost /\ Retire /\ last' = NoStamp /\ pc' = "tick" /\ UNCHANGED published

-----------------------------------------------------------------------------
(* The outer loop: Controller.tick *)

Checkpoint ==
  /\ pc = "drain" /\ queue = <<>>
  /\ timer' = CheckpointTimer(timer, last)
  /\ pc' = "notify"
  /\ UNCHANGED <<clocks, gen, last, entry, mode, updated, queue, memory,
                 outside>>

\* check_notify on the timer's entry: an expiry is stored before it is told.
Notify(told, quiet) ==
  /\ IF req /\ Expires(timer, last)
       THEN /\ timer' = ExpireTimer(timer, last)
            /\ req' = FALSE
            /\ IF shutdown /\ mode = "Cook"
                 THEN mode' = "Shutdown" /\ updated' = TRUE /\ shutdown' = FALSE
                 ELSE UNCHANGED <<mode, updated, shutdown>>
            /\ pc' = told
       ELSE UNCHANGED record /\ pc' = quiet
  /\ UNCHANGED <<clocks, gen, last, queue, memory, outside>>

Tell(to) ==
  /\ sent' = [sent EXCEPT ![timer.id] = @ + 1]
  /\ pc' = to
  /\ UNCHANGED <<clocks, gen, last, record, queue, memory, heartbeat, web,
                 deaths, history>>

TickNotifies ==
  \/ pc = "notify" /\ Notify("send", "dispatch")
  \/ pc = "send" /\ Tell("dispatch")

\* Stop pauses the timer, Error interrupts it; then the record is reset.
DispatchTerminal ==
  /\ pc = "dispatch" /\ updated /\ mode \in {"Stop", "Error"}
  /\ timer' = IF mode = "Error" THEN InterruptTimer(timer)
                                ELSE PauseTimer(timer, last)
  /\ kept' = [timer |-> timer', shutdown |-> shutdown, mode |-> mode]
  /\ req' = FALSE /\ updated' = FALSE
  /\ pc' = "reset"
  /\ UNCHANGED <<clocks, gen, last, shutdown, mode, queue, published, outside>>

DispatchCycle ==
  /\ pc = "dispatch" /\ updated /\ mode \in {"Cook", "Shutdown"}
  /\ updated' = FALSE
  /\ published' = last.mono
  /\ pc' = "loop"
  /\ UNCHANGED <<clocks, gen, last, timer, entry, mode, queue, kept, outside>>

NoDispatch ==
  /\ pc = "dispatch" /\ ~ updated
  /\ pc' = "tick"
  /\ UNCHANGED <<clocks, gen, last, record, queue, memory, outside>>

\* flush_control: a default record, with a default timer.
Flushed ==
  /\ timer' = DefaultTimer
  /\ req' = FALSE /\ shutdown' = FALSE
  /\ mode' = "Stop" /\ updated' = TRUE

Reset ==
  /\ pc = "reset"
  /\ Flushed
  /\ queue' = <<>>
  /\ pc' = "restore"
  /\ UNCHANGED <<clocks, gen, last, memory, outside>>

\* ... and the write that puts back what was held in memory.
Restored(pending) ==
  /\ timer' = kept.timer /\ shutdown' = kept.shutdown /\ mode' = kept.mode
  /\ updated' = pending
  /\ kept' = Nothing
  /\ pc' = "tick"
  /\ UNCHANGED <<clocks, gen, last, req, queue, published, outside>>

Restore == pc = "restore" /\ Restored(FALSE)

Tick == \/ AdmitTick \/ Checkpoint \/ TickNotifies \/ NoDispatch
        \/ DispatchTerminal \/ DispatchCycle \/ Reset \/ Restore

-----------------------------------------------------------------------------
(* The work cycle: ControlMode *)

\* A cycle whose clock is lost goes through _finish_cycle back to the tick.
CycleLost ==
  Lost /\ Retire /\ last' = NoStamp /\ published' = 0 /\ pc' = "tick"

AdmitLoop ==
  /\ pc = "loop"
  /\ \/ ~ Lost /\ Admit("apply") /\ Beat
     \/ CycleLost

Applied ==
  /\ pc = "apply" /\ queue = <<>>
  /\ pc' = IF updated THEN "finish" ELSE "sense"
  /\ UNCHANGED <<clocks, gen, last, record, queue, memory, outside>>

AdmitSense ==
  /\ pc = "sense"
  /\ \/ ~ Lost /\ Admit("check") /\ UNCHANGED heartbeat
     \/ CycleLost

CycleNotifies ==
  \/ pc = "check" /\ Notify("tell", "publish")
  \/ pc = "tell" /\ Tell("publish")

\* The status goes out, with a checkpoint, when some time has passed; then the
\* loop goes round, or the mode has run its course, or a guard trips.
Publish ==
  /\ pc = "publish"
  /\ IF last.mono > published
       THEN timer' = CheckpointTimer(timer, last) /\ published' = last.mono
       ELSE UNCHANGED <<timer, published>>
  /\ pc' \in {"loop", "finish"}
  /\ \/ UNCHANGED <<mode, updated>>
     \/ mode' = "Error" /\ updated' = TRUE /\ pc' = "finish"
  /\ UNCHANGED <<clocks, gen, last, entry, queue, kept, outside>>

\* _finish_cycle, of a cycle that ended without an exception
Finish ==
  /\ pc = "finish"
  /\ \/ CycleLost
     \/ /\ ~ Lost
        /\ Admit("ended") /\ UNCHANGED heartbeat

FinishRecord ==
  /\ pc = "ended"
  /\ IF mode \in {"Stop", "Error"} /\ timer.state = "running"
       THEN timer' = PauseTimer(timer, last) /\ req' = FALSE
       ELSE UNCHANGED <<timer, req>>
  /\ published' = 0
  /\ pc' = "natural"
  /\ UNCHANGED <<clocks, gen, last, shutdown, mode, updated, queue, kept,
                 outside>>

\* next_mode, after a last drain: Shutdown goes on to Stop.
Natural ==
  /\ pc = "natural" /\ queue = <<>>
  /\ mode' = IF updated THEN mode
             ELSE IF mode = "Shutdown" THEN "Stop" ELSE mode
  /\ updated' = TRUE
  /\ pc' = "tick"
  /\ UNCHANGED <<clocks, gen, last, timer, entry, queue, memory, outside>>

Cycle == \/ AdmitLoop \/ Applied \/ AdmitSense \/ CycleNotifies \/ Publish
         \/ Finish \/ FinishRecord \/ Natural

-----------------------------------------------------------------------------
(* Death and restart *)

Dead ==
  /\ pc' = "down" /\ last' = NoStamp /\ kept' = Nothing /\ published' = 0
  /\ deaths' = deaths + 1

\* An exception: a cycle interrupts a running timer (_finish_cycle), then the
\* exit handler pauses it (cleanup).
Exit ==
  /\ deaths < MaxDeaths /\ pc \in OuterPcs \cup CyclePcs
  /\ Dead
  /\ timer' = CASE pc \in CyclePcs -> InterruptTimer(timer)
                [] pc \in OuterPcs /\ last # NoStamp -> PauseTimer(timer, last)
                [] OTHER -> timer
  /\ req' = (req /\ last = NoStamp)
  /\ UNCHANGED <<clocks, gen, shutdown, mode, updated, queue, heartbeat, web,
                 sent, history>>

Kill ==
  /\ deaths < MaxDeaths /\ pc # "down"
  /\ Dead
  /\ UNCHANGED <<clocks, gen, record, queue, heartbeat, web, sent, history>>

PowerLoss ==
  /\ deaths < MaxDeaths
  /\ Dead
  /\ boot' = boot + 1 /\ mono' = 0 /\ susp' = 0
  /\ handler' = Idle
  /\ UNCHANGED <<gen, record, queue, heartbeat, requests, sent, history>>

\* control.py: a new process resets the record around the restored timer; of
\* what was queued only the timer intents stay, for the drain to reject.
Boot ==
  /\ pc = "down"
  /\ gen' = gen + 1
  /\ kept' = [timer |-> RestoreTimer(timer), shutdown |-> shutdown,
              mode |-> "Stop"]
  /\ Flushed
  /\ queue' = Those(queue, Entry(TimerIntents))
  /\ pc' = "boot"
  /\ cut' = requests
  /\ UNCHANGED <<clocks, last, published, heartbeat, web, deaths, sent,
                 armedBy>>

BootRestore == pc = "boot" /\ Restored(TRUE)

Control == Tick \/ Cycle \/ ApplyHead
Restart == Boot \/ BootRestore
Environment == \/ Advance \/ Suspend \/ ReadRecord \/ AskTimer \/ AskMode
               \/ Exit \/ Kill \/ PowerLoss

Next == Control \/ Restart \/ Environment

Spec == Init /\ [][Next]_vars

\* The loop never waits for anybody, supervisord restarts the process, and time
\* passes: strongly fair, because the model lets it pass only where it is read.
FairSpec == Spec /\ WF_vars(Control) /\ WF_vars(Restart) /\ SF_vars(Advance)
=============================================================================
