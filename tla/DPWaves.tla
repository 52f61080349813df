------------------------------- MODULE DPWaves -------------------------------
(***************************************************************************)
(* Request waves of a data-parallel deployment of a mixture-of-experts     *)
(* model: the engines (DPEngineCoreProc), the coordinator that starts them *)
(* (DPCoordinatorProc) and the front ends (DPAsyncMPClient).  Every        *)
(* forward pass is a collective of all engines, so an engine without       *)
(* requests runs dummy passes as long as another one has work, and the     *)
(* engines stop together: every SyncInterval passes an all-reduce asks     *)
(* whether anyone is unfinished.  A stop ends a wave.                      *)
(*                                                                         *)
(* A collective is a step all engines take at once, when all have arrived. *)
(* Messages of different senders overtake each other; those of one sender  *)
(* to one receiver do not.                                                 *)
(***************************************************************************)
EXTENDS Integers, Sequences, FiniteSets

CONSTANTS dp_size,        \* the number of engines
          Clients,        \* front ends
          Requests,       \* numbered in the order they are sent
          SyncInterval,   \* passes between two all-reduces (32 in the code)
          PauseModes,     \* the modes pause_scheduler is called with
          MaxControls,    \* bound: aborts and pauses
          MaxInputs,      \* bound: requests, aborts and pauses
          None

Engines == 0..(dp_size - 1)

ASSUME WavesAssumption ==
    /\ dp_size \in Nat \ {0}
    /\ Requests \subseteq Nat
    /\ SyncInterval \in Nat \ {0}
    /\ MaxControls \in Nat /\ MaxInputs \in Nat
    /\ PauseModes \subseteq {"abort", "wait", "keep"}
    /\ None \notin Engines /\ None \notin PauseModes

VARIABLES
    \* the engines
    pc,                    \* "input", or the collective an engine has reached
    engines_running,
    current_wave,
    step_counter,          \* modulo SyncInterval, which is all that is read of it
    pending_pause,
    ignore_start_dp_wave,
    pause_state,           \* of the engine's scheduler
    was_running,           \* engines_running at the top of the busy loop
    \* the requests
    status,                \* "sent" while its ADD message is under way
    home,                  \* the engine it was sent to
    request_wave,          \* the wave its ADD message carries
    aborts,                \* the requests whose ABORT message is under way
    \* the coordinator
    coord,                 \* its wave and whether it believes the engines run
    \* the front ends
    front,                 \* the same for every front end
    first_req,             \* FIRST_REQ notices waiting for the stats task
    overtaken,             \* (history) a new wave was read while one waited
    \* messages
    starts,                \* START_DP_WAVE, to an engine
    notices,               \* from a front end to the coordinator
    reports,               \* wave_complete and start_wave, from an engine
    news,                  \* the latest publication to a front end
    \* pause_scheduler and resume_scheduler, called on all engines
    caller,                \* what the caller is waiting for
    pause_call,            \* the call of pause_scheduler on its way to an engine
    resume_call,           \* the engines resume_scheduler is on its way to
    pausing,               \* engines whose pause future is not resolved
    resuming,              \* engines that have not answered resume_scheduler
    controls,              \* aborts and pauses so far
    refused                \* resume_scheduler raised

loop == <<pc, was_running, step_counter>>
waves == <<engines_running, current_wave>>
pause == <<pending_pause, ignore_start_dp_wave, pause_state>>
engine == <<loop, waves, pause>>
requests == <<status, home, request_wave, aborts>>
frontEnds == <<front, first_req, overtaken>>
channels == <<starts, notices, reports, news>>
calls == <<caller, pause_call, resume_call, pausing, resuming, controls, refused>>

vars == <<engine, requests, coord, frontEnds, channels, calls>>

Init ==
    /\ pc = [e \in Engines |-> "input"]
    /\ engines_running = [e \in Engines |-> FALSE]
    /\ current_wave = [e \in Engines |-> 0]
    /\ step_counter = [e \in Engines |-> 0]
    /\ pending_pause = [e \in Engines |-> FALSE]
    /\ ignore_start_dp_wave = [e \in Engines |-> FALSE]
    /\ pause_state = [e \in Engines |-> "UNPAUSED"]
    /\ was_running = [e \in Engines |-> FALSE]
    /\ status = [r \in Requests |-> "new"]
    /\ home = [r \in Requests |-> None]
    /\ request_wave = [r \in Requests |-> 0]
    /\ aborts = {}
    /\ coord = [wave |-> 0, running |-> FALSE]
    /\ front = [c \in Clients |-> [wave |-> 0, running |-> FALSE]]
    /\ first_req = [c \in Clients |-> <<>>]
    /\ overtaken = FALSE
    /\ starts = [e \in Engines |-> <<>>]
    /\ notices = [c \in Clients |-> <<>>]
    /\ reports = [e \in Engines |-> <<>>]
    /\ news = [c \in Clients |-> None]
    /\ caller = "idle"
    /\ pause_call = [e \in Engines |-> None]
    /\ resume_call = {}
    /\ pausing = {}
    /\ resuming = {}
    /\ controls = 0
    /\ refused = FALSE

------------------------------------------------------------------------------
(***************************************************************************)
(* The front ends.                                                         *)
(***************************************************************************)

Inputs == Cardinality({r \in Requests : status[r] # "new"}) + controls

\* add_request_async: the request carries the wave the front end knows, and
\* a notice goes to the stats task when the engines are thought to be idle.
add_request_async(c, r, e) ==
    /\ status[r] = "new" /\ \A q \in Requests : q < r => status[q] # "new"
    /\ Inputs < MaxInputs
    /\ status' = [status EXCEPT ![r] = "sent"]
    /\ home' = [home EXCEPT ![r] = e]
    /\ request_wave' = [request_wave EXCEPT ![r] = front[c].wave]
    /\ first_req' = IF front[c].running THEN first_req
                    ELSE [first_req EXCEPT ![c] = Append(@, e)]
    /\ UNCHANGED <<engine, aborts, coord, front, overtaken, channels, calls>>

Ended == {"finished", "aborted"}

abort_requests_async(r) ==
    /\ controls < MaxControls /\ Inputs < MaxInputs
    /\ status[r] \in {"sent", "waiting", "running"} /\ r \notin aborts
    /\ controls' = controls + 1
    /\ aborts' = aborts \cup {r}
    /\ UNCHANGED <<engine, status, home, request_wave, coord, frontEnds, channels,
                   caller, pause_call, resume_call, pausing, resuming, refused>>

\* The stats task takes a notice: first if it believes the engines idle,
\* otherwise only when there is no publication to read.  The notice gets the
\* wave that the front end knows now, whatever its request carries.
ForwardFirstReq(c) ==
    /\ first_req[c] # <<>>
    /\ ~ front[c].running \/ news[c] = None
    /\ front' = [front EXCEPT ![c].running = TRUE]
    /\ notices' = [notices EXCEPT ![c] = Append(@,
                     [exclude |-> Head(first_req[c]), wave |-> front[c].wave])]
    /\ first_req' = [first_req EXCEPT ![c] = Tail(@)]
    /\ UNCHANGED <<engine, requests, coord, overtaken, starts, reports, news,
                   calls>>

\* The stats task drains the publications; only the latest counts.  Notices
\* may have been queued since it polled, or behind the one it took.
ReadNews(c) ==
    /\ news[c] # None
    /\ overtaken' = (overtaken \/
                       (first_req[c] # <<>> /\ news[c].wave # front[c].wave))
    /\ front' = [front EXCEPT ![c] = news[c]]
    /\ news' = [news EXCEPT ![c] = None]
    /\ UNCHANGED <<engine, requests, coord, first_req, starts, notices,
                   reports, calls>>

------------------------------------------------------------------------------
(***************************************************************************)
(* The coordinator: process_input_socket.                                  *)
(***************************************************************************)

_send_start_wave(wave, exclude) ==
    starts' = [e \in Engines |->
                 Append(starts[e], [wave |-> wave, exclude |-> exclude])]

Publish == news' = [c \in Clients |-> coord']


\* The engine that need not be told.  A stale wave number is no evidence that
\* the engine will start by itself.
Excluded(n) == IF n.wave < coord.wave THEN None ELSE n.exclude

\* A notice of a front end.  It does not set running: an engine that is
\* paused discards START_DP_WAVE.
(* Mutant: sending START_DP_WAVE is taken for evidence that the engines run. *)
HandleNoticeAsStart(c) ==
    /\ notices[c] # <<>>
    /\ notices' = [notices EXCEPT ![c] = Tail(@)]
    /\ LET n == Head(notices[c]) IN
       IF coord.running THEN UNCHANGED starts
       ELSE _send_start_wave(coord.wave, Excluded(n))
    /\ coord' = [coord EXCEPT !.running = TRUE]
    /\ UNCHANGED <<engine, requests, frontEnds, reports, news, calls>>

HandleNotice(c) ==
    /\ notices[c] # <<>>
    /\ notices' = [notices EXCEPT ![c] = Tail(@)]
    /\ LET n == Head(notices[c]) IN
       IF coord.running THEN UNCHANGED starts
       ELSE _send_start_wave(coord.wave, Excluded(n))
    /\ UNCHANGED <<engine, requests, coord, frontEnds, reports, news,
                   calls>>

HandleWaveComplete(e) ==
    /\ reports[e] # <<>> /\ Head(reports[e]).type = "wave_complete"
    /\ reports' = [reports EXCEPT ![e] = Tail(@)]
    /\ LET wave == Head(reports[e]).wave IN
       IF coord.wave <= wave
       THEN /\ coord' = [wave |-> wave + 1, running |-> FALSE]
            /\ Publish
       ELSE UNCHANGED <<coord, news>>
    /\ UNCHANGED <<engine, requests, frontEnds, starts, notices, calls>>

HandleStartWave(e) ==
    /\ reports[e] # <<>> /\ Head(reports[e]).type = "start_wave"
    /\ reports' = [reports EXCEPT ![e] = Tail(@)]
    /\ LET wave == Head(reports[e]).wave IN
       IF wave > coord.wave \/ (wave = coord.wave /\ ~ coord.running)
       THEN /\ coord' = [wave |-> wave, running |-> TRUE]
            /\ Publish
            /\ _send_start_wave(wave, e)
       ELSE UNCHANGED <<coord, news, starts>>
    /\ UNCHANGED <<engine, requests, frontEnds, notices, calls>>

\* The poll times out: the state goes out with the load statistics.  (What
\* every front end knows already is not published again.)
PublishStats ==
    /\ \E c \in Clients : front[c] # coord
    /\ UNCHANGED coord
    /\ Publish
    /\ UNCHANGED <<engine, requests, frontEnds, starts, notices, reports,
                   calls>>

------------------------------------------------------------------------------
(***************************************************************************)
(* The engines: messages, handled by _process_input_queue.                 *)
(***************************************************************************)

On(e, states) == {r \in Requests : home[r] = e /\ status[r] \in states}

\* Scheduler.has_unfinished_requests, under every pause state.
Unfinished(e) ==
    CASE pause_state[e] = "PAUSED_ALL" -> FALSE
      [] pause_state[e] = "PAUSED_NEW" -> On(e, {"running"}) # {}
      [] OTHER -> On(e, {"waiting", "running"}) # {}

has_work(e) == engines_running[e] \/ Unfinished(e)

Report(e, type, wave) ==
    reports' = [reports EXCEPT ![e] = Append(@, [type |-> type, wave |-> wave])]

add_request(e, r) ==
    /\ pc[e] = "input"
    /\ status[r] = "sent" /\ home[r] = e
    /\ status' = [status EXCEPT ![r] = "waiting"]
    /\ current_wave' = [current_wave EXCEPT ![e] =
                          IF request_wave[r] > @ THEN request_wave[r] ELSE @]
    /\ IF /\ request_wave[r] < current_wave[e]
          /\ ~ engines_running[e]
          /\ pause_state[e] = "UNPAUSED"
       THEN /\ engines_running' = [engines_running EXCEPT ![e] = TRUE]
            /\ Report(e, "start_wave", current_wave[e])
       ELSE UNCHANGED <<engines_running, reports>>
    /\ UNCHANGED <<loop, pause, home, request_wave, aborts, coord, frontEnds,
                   starts, notices, news, calls>>

\* An abort arrives after its request; the request may have ended.
abort_requests(e, r) ==
    /\ pc[e] = "input"
    /\ r \in aborts /\ home[r] = e /\ status[r] # "sent"
    /\ aborts' = aborts \ {r}
    /\ status' = [status EXCEPT ![r] = IF @ \in Ended THEN @ ELSE "aborted"]
    /\ UNCHANGED <<engine, home, request_wave, coord, frontEnds, channels, calls>>

(* Mutant: START_DP_WAVE is heeded by an engine that has paused. *)
HeedsWhilePaused(e, m) == m.exclude # e /\ m.wave >= current_wave[e]

Heeds(e, m) ==
    /\ ~ ignore_start_dp_wave[e]
    /\ m.exclude # e
    /\ m.wave >= current_wave[e]

HandleStartDPWave(e) ==
    /\ pc[e] = "input"
    /\ starts[e] # <<>>
    /\ starts' = [starts EXCEPT ![e] = Tail(@)]
    /\ LET m == Head(starts[e]) IN
       IF Heeds(e, m)
       THEN /\ current_wave' = [current_wave EXCEPT ![e] = m.wave]
            /\ engines_running' = [engines_running EXCEPT ![e] = TRUE]
       ELSE UNCHANGED waves
    /\ UNCHANGED <<loop, pause, requests, coord, frontEnds, notices,
                   reports, news, calls>>

(* Mutant: an idle engine is not started. *)
PauseWithoutStart(e) ==
    /\ pending_pause' = [pending_pause EXCEPT ![e] = TRUE]
    /\ UNCHANGED engines_running

\* The engine runs until all have received the call.
_pause_complete(e) ==
    /\ pending_pause' = [pending_pause EXCEPT ![e] = TRUE]
    /\ engines_running' = [engines_running EXCEPT ![e] = TRUE]

pause_scheduler(e) ==
    /\ pc[e] = "input"
    /\ pause_call[e] # None
    /\ pause_call' = [pause_call EXCEPT ![e] = None]
    /\ status' = IF pause_call[e] = "abort"
                 THEN [r \in Requests |->
                         IF r \in On(e, {"waiting", "running"})
                         THEN "aborted" ELSE status[r]]
                 ELSE status
    /\ pause_state' = [pause_state EXCEPT ![e] =
                IF pause_call[e] = "keep" THEN "PAUSED_ALL" ELSE "PAUSED_NEW"]
    /\ _pause_complete(e)
    /\ UNCHANGED <<loop, current_wave, ignore_start_dp_wave, home, request_wave,
                   aborts, coord, frontEnds, channels, caller, resume_call,
                   pausing, resuming, controls, refused>>

\* resume_scheduler: its refusal, its early return, or the way to its barrier.
resume_scheduler(e) ==
    /\ pc[e] = "input"
    /\ e \in resume_call
    /\ resume_call' = resume_call \ {e}
    /\ IF pending_pause[e] \/ engines_running[e]
       THEN /\ refused' = (refused \/ pending_pause[e] \/ ignore_start_dp_wave[e])
            /\ resuming' = resuming \ {e}
            /\ UNCHANGED <<pc, pause_state, ignore_start_dp_wave>>
       ELSE /\ pause_state' = [pause_state EXCEPT ![e] = "UNPAUSED"]
            /\ ignore_start_dp_wave' = [ignore_start_dp_wave EXCEPT ![e] = FALSE]
            /\ pc' = [pc EXCEPT ![e] = "resume"]
            /\ UNCHANGED <<resuming, refused>>
    /\ UNCHANGED <<was_running, step_counter, waves, pending_pause, requests,
                   coord, frontEnds, channels, caller, pause_call, pausing,
                   controls>>

\* The barrier of resume_scheduler: has_unfinished_dp.
ResumeBarrier ==
    /\ \A e \in Engines : pc[e] = "resume"
    /\ pc' = [e \in Engines |-> "input"]
    /\ LET unfinished == \E e \in Engines : Unfinished(e) IN
       engines_running' = [e \in Engines |-> unfinished]
    /\ resuming' = {}
    /\ UNCHANGED <<was_running, step_counter, current_wave, pause, requests,
                   coord, frontEnds, channels, caller, pause_call,
                   resume_call, pausing, controls, refused>>

\* _notify_idle_state_callbacks: the pause future resolves.
NotifyIdle(e) ==
    /\ pc[e] = "input" /\ ~ has_work(e)
    /\ e \in pausing /\ pause_call[e] = None
    /\ pausing' = pausing \ {e}
    /\ UNCHANGED <<engine, requests, coord, frontEnds, channels, caller,
                   pause_call, resume_call, resuming, controls, refused>>

------------------------------------------------------------------------------
(***************************************************************************)
(* The engines: run_busy_loop.                                             *)
(***************************************************************************)

\* _process_engine_step up to the collective in the forward pass, real or
\* dummy.  An unpaused scheduler takes up what is waiting.
BeginStep(e) ==
    /\ pc[e] = "input" /\ has_work(e)
    /\ pc' = [pc EXCEPT ![e] = "forward"]
    /\ status' = IF pause_state[e] = "UNPAUSED"
                 THEN [r \in Requests |-> IF r \in On(e, {"waiting"})
                                          THEN "running" ELSE status[r]]
                 ELSE status
    /\ UNCHANGED <<was_running, step_counter, waves, pause, home, request_wave,
                   aborts, coord, frontEnds, channels, calls>>

\* The start of a wave that rank 0 has to report.
ReportsStart(still_pending) == ~ was_running[0] /\ ~ still_pending

\* The scheduled requests; under PAUSED_ALL nothing is scheduled.
Scheduled ==
    {r \in Requests : /\ status[r] = "running"
                      /\ pause_state[home[r]] # "PAUSED_ALL"}

(* Mutant: the counter is not reset with the wave. *)
NextCounterUnwrapped(e) == step_counter[e] + 1

NextCounter(e) == (step_counter[e] + 1) % SyncInterval

Synchronizes(e) == NextCounter(e) = 0

\* The forward pass and the rest of the step, which is local to every engine:
\* requests finish, the passes are counted, and an engine that is not due for
\* an all-reduce is back at the top of its loop.
Forward(done) ==
    /\ \A e \in Engines : pc[e] = "forward"
    /\ done \subseteq Scheduled
    /\ status' = [r \in Requests |->
                    IF r \in done THEN "finished" ELSE status[r]]
    /\ step_counter' = [e \in Engines |-> NextCounter(e)]
    /\ pc' = [e \in Engines |-> IF Synchronizes(e) THEN "sync" ELSE "input"]
    /\ engines_running' = [e \in Engines |->
                             engines_running[e] \/ ~ Synchronizes(e)]
    /\ was_running' = [e \in Engines |-> was_running[e] \/ ~ Synchronizes(e)]
    /\ IF ~ Synchronizes(0) /\ ReportsStart(pending_pause[0])
       THEN Report(0, "start_wave", current_wave[0])
       ELSE UNCHANGED reports
    /\ UNCHANGED <<current_wave, pause, home, request_wave, aborts, coord,
                   frontEnds, starts, notices, news, calls>>

\* sync_dp_state.
PauseCount == Cardinality({e \in Engines : pending_pause[e]})
HasUnfinishedGlobal ==
    (\E e \in Engines : Unfinished(e)) \/ PauseCount % dp_size # 0

PauseConsensus == PauseCount = dp_size

\* The all-reduce, and what every engine does with its result.
SyncDPState ==
    /\ \A e \in Engines : pc[e] = "sync"
    /\ pc' = [e \in Engines |-> "input"]
    /\ IF PauseConsensus
       THEN /\ ignore_start_dp_wave' = [e \in Engines |-> TRUE]
            /\ pending_pause' = [e \in Engines |-> FALSE]
       ELSE UNCHANGED <<ignore_start_dp_wave, pending_pause>>
    /\ LET running == HasUnfinishedGlobal IN
       /\ engines_running' = [e \in Engines |-> running]
       /\ was_running' = [e \in Engines |-> running]
       /\ IF running
          THEN /\ UNCHANGED <<current_wave, step_counter>>
               /\ IF ReportsStart(pending_pause'[0])
                  THEN Report(0, "start_wave", current_wave[0])
                  ELSE UNCHANGED reports
          ELSE /\ Report(0, "wave_complete", current_wave[0])
               /\ current_wave' = [e \in Engines |-> current_wave[e] + 1]
               /\ step_counter' = [e \in Engines |-> 0]
    /\ UNCHANGED <<pause_state, requests, coord, frontEnds, starts,
                   notices, news, calls>>

------------------------------------------------------------------------------
(***************************************************************************)
(* pause_scheduler_async and resume_scheduler_async: one call to every     *)
(* engine, and the wait for every answer.                                  *)
(***************************************************************************)

pause_scheduler_async(mode) ==
    /\ caller = "idle" /\ controls < MaxControls /\ Inputs < MaxInputs
    /\ caller' = "pausing"
    /\ controls' = controls + 1
    /\ pausing' = Engines
    /\ pause_call' = [e \in Engines |-> mode]
    /\ UNCHANGED <<engine, requests, coord, frontEnds, channels, resume_call,
                   resuming, refused>>

PauseReturns ==
    /\ caller = "pausing" /\ pausing = {}
    /\ caller' = "paused"
    /\ UNCHANGED <<engine, requests, coord, frontEnds, channels, pause_call,
                   resume_call, pausing, resuming, controls, refused>>

resume_scheduler_async ==
    /\ caller = "paused"
    /\ caller' = "resuming"
    /\ resuming' = Engines
    /\ resume_call' = Engines
    /\ UNCHANGED <<engine, requests, coord, frontEnds, channels, pause_call,
                   pausing, controls, refused>>

ResumeReturns ==
    /\ caller = "resuming" /\ resuming = {}
    /\ caller' = "idle"
    /\ UNCHANGED <<engine, requests, coord, frontEnds, channels, pause_call,
                   resume_call, pausing, resuming, controls, refused>>

------------------------------------------------------------------------------
HandleMessage(e) ==
    \/ \E r \in Requests : add_request(e, r) \/ abort_requests(e, r)
    \/ HandleStartDPWave(e) \/ pause_scheduler(e) \/ resume_scheduler(e)

EngineStep(e) == HandleMessage(e) \/ NotifyIdle(e) \/ BeginStep(e)

Collective ==
    \/ ResumeBarrier
    \/ \E done \in SUBSET Requests : Forward(done)
    \/ SyncDPState

CoordinatorStep ==
    \/ \E c \in Clients : HandleNotice(c)
    \/ \E e \in Engines : HandleWaveComplete(e) \/ HandleStartWave(e)
    \/ PublishStats

FrontEndStep ==
    \/ \E c \in Clients : ForwardFirstReq(c) \/ ReadNews(c)
    \/ \E c \in Clients, r \in Requests, e \in Engines :
         add_request_async(c, r, e)
    \/ \E r \in Requests : abort_requests_async(r)

CallerStep ==
    \/ \E mode \in PauseModes : pause_scheduler_async(mode)
    \/ PauseReturns \/ resume_scheduler_async \/ ResumeReturns

Next ==
    \/ \E e \in Engines : EngineStep(e)
    \/ Collective
    \/ CoordinatorStep
    \/ FrontEndStep
    \/ CallerStep

(***************************************************************************)
(* Fairness.  Every process keeps running: an engine's loop, a collective  *)
(* all have reached, the coordinator's poll loop and its periodic          *)
(* publication, the stats task.  A request runs out of tokens after        *)
(* finitely many passes.  Nobody has to send, abort, pause or resume.      *)
(***************************************************************************)
Background ==
    \/ PublishStats
    \/ \E c \in Clients : HandleNotice(c) \/ ForwardFirstReq(c) \/ ReadNews(c)
    \/ \E e \in Engines : HandleWaveComplete(e) \/ HandleStartWave(e)
    \/ \E e \in Engines : NotifyIdle(e)
    \/ PauseReturns \/ ResumeReturns

Fairness ==
    /\ WF_vars(Background)
    /\ WF_vars(\E e \in Engines : BeginStep(e))
    /\ WF_vars(ResumeBarrier \/ SyncDPState)
    /\ SF_vars(Forward(Scheduled))
    /\ SF_vars(\E e \in Engines : HandleMessage(e))

Spec == Init /\ [][Next]_vars /\ Fairness

------------------------------------------------------------------------------
(***************************************************************************)
(* Properties.                                                             *)
(***************************************************************************)

EngineTypes ==
    /\ pc \in [Engines -> {"input", "forward", "sync", "resume"}]
    /\ engines_running \in [Engines -> BOOLEAN]
    /\ was_running \in [Engines -> BOOLEAN]
    /\ current_wave \in [Engines -> Nat]
    /\ step_counter \in [Engines -> 0..(SyncInterval - 1)]
    /\ pending_pause \in [Engines -> BOOLEAN]
    /\ ignore_start_dp_wave \in [Engines -> BOOLEAN]
    /\ pause_state \in [Engines -> {"UNPAUSED", "PAUSED_NEW", "PAUSED_ALL"}]

RequestTypes ==
    /\ status \in [Requests -> {"new", "sent", "waiting", "running"} \cup Ended]
    /\ home \in [Requests -> Engines \cup {None}]
    /\ request_wave \in [Requests -> Nat]
    /\ aborts \subseteq Requests

WaveState == [wave : Nat, running : BOOLEAN]
Start == [wave : Nat, exclude : Engines \cup {None}]
Notice == [wave : Nat, exclude : Engines]
EngineReport == [type : {"wave_complete", "start_wave"}, wave : Nat]

MessageTypes ==
    /\ coord \in WaveState
    /\ front \in [Clients -> WaveState]
    /\ first_req \in [Clients -> Seq(Engines)]
    /\ overtaken \in BOOLEAN
    /\ starts \in [Engines -> Seq(Start)]
    /\ notices \in [Clients -> Seq(Notice)]
    /\ reports \in [Engines -> Seq(EngineReport)]
    /\ news \in [Clients -> WaveState \cup {None}]

CallTypes ==
    /\ caller \in {"idle", "pausing", "paused", "resuming"}
    /\ pause_call \in [Engines -> PauseModes \cup {None}]
    /\ resume_call \subseteq Engines
    /\ pausing \subseteq Engines
    /\ resuming \subseteq Engines
    /\ controls \in Nat
    /\ refused \in BOOLEAN

TypeOK == EngineTypes /\ RequestTypes /\ MessageTypes /\ CallTypes

\* Engines that wait in a collective wait in the same one: the forward pass,
\* the all-reduce of _has_global_unfinished_reqs and the barrier of
\* resume_scheduler never meet, which would hang the deployment.
CollectivesMatch ==
    \A e, f \in Engines :
        pc[e] # "input" /\ pc[f] # "input" => pc[e] = pc[f]

\* Once pause_scheduler_async has returned, no engine runs, whatever requests
\* and START_DP_WAVE messages still arrive, until resume_scheduler_async.
PauseHolds ==
    caller = "paused" => \A e \in Engines : pc[e] = "input" /\ ~ has_work(e)

\* resume_scheduler never raises for a caller that waited for the pause.
ResumeAccepted == ~ refused

\* No message is under way and no engine has anything to do.
Quiet ==
    /\ caller = "idle"
    /\ \A e \in Engines :
        /\ pc[e] = "input" /\ ~ has_work(e)
        /\ starts[e] = <<>> /\ reports[e] = <<>>
    /\ \A c \in Clients : notices[c] = <<>> /\ first_req[c] = <<>>
    /\ \A r \in Requests : status[r] # "sent"

\* When all is quiet the coordinator knows it: a coordinator that believed the
\* engines running would leave the next request's notice unanswered.  And all
\* agree on the wave.
QuietIsKnown ==
    Quiet => /\ ~ coord.running
             /\ \A e \in Engines : current_wave[e] = coord.wave

\* Every request has ended, the engines have stopped, all know the same wave.
AtRest ==
    /\ \A r \in Requests : status[r] \in {"new"} \cup Ended
    /\ \A e \in Engines :
        pc[e] = "input" /\ ~ engines_running[e] /\ current_wave[e] = coord.wave
    /\ \A c \in Clients : front[c] = coord
    /\ ~ coord.running



=============================================================================
