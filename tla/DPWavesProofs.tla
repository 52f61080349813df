---------------------------- MODULE DPWavesProofs ----------------------------
(***************************************************************************)
(* Safety of the request waves and of the two-phase pause, for every       *)
(* number of engines, front ends and requests and every interval between   *)
(* two all-reduces.                                                        *)
(***************************************************************************)
EXTENDS DPWavesTypeProofs, FiniteSetTheorems

(***************************************************************************)
(* The inductive invariant.  The caller's position fixes how far the       *)
(* pause has come on every engine.                                         *)
(***************************************************************************)
Stopped(e) == pc[e] = "input" /\ ~ has_work(e)

\* No pause is under way.
Open ==
    \A e \in Engines :
        /\ pause_state[e] = "UNPAUSED" /\ ~ ignore_start_dp_wave[e]
        /\ ~ pending_pause[e] /\ pause_call[e] = None

\* First phase: an engine has the call before it, or runs until all have it.
Asked ==
    \A e \in Engines :
        /\ ~ ignore_start_dp_wave[e]
        /\ \/ /\ pause_call[e] # None /\ ~ pending_pause[e]
              /\ pause_state[e] = "UNPAUSED"
           \/ /\ pause_call[e] = None /\ pending_pause[e]
              /\ pause_state[e] # "UNPAUSED" /\ engines_running[e]

\* Second phase: the engines run and stop together, and stay stopped.
Agreed ==
    /\ \A e \in Engines :
        /\ ignore_start_dp_wave[e] /\ ~ pending_pause[e]
        /\ pause_call[e] = None /\ pause_state[e] # "UNPAUSED"
        /\ ~ engines_running[e] => Stopped(e)
    /\ \A e, f \in Engines : engines_running[e] = engines_running[f]

\* The engines arrive at the barrier of resume_scheduler.
Resuming ==
    \A e \in Engines :
        /\ ~ pending_pause[e] /\ pause_call[e] = None /\ ~ engines_running[e]
        /\ IF e \in resume_call
           THEN /\ ignore_start_dp_wave[e] /\ pause_state[e] # "UNPAUSED"
                /\ Stopped(e)
           ELSE /\ ~ ignore_start_dp_wave[e] /\ pause_state[e] = "UNPAUSED"
                /\ pc[e] = "resume"

NoneRuns == \A e \in Engines : ~ engines_running[e]

NoResume == resume_call = {} /\ \A e \in Engines : pc[e] # "resume"

Phase ==
    \/ caller = "idle" /\ Open /\ NoResume /\ pausing = {} /\ resuming = {}
    \/ caller = "pausing" /\ Asked /\ NoResume /\ pausing = Engines
    \/ caller = "pausing" /\ Agreed /\ NoResume /\ (pausing # Engines => NoneRuns)
    \/ caller = "paused" /\ Agreed /\ NoResume /\ NoneRuns /\ pausing = {}
    \/ caller = "resuming" /\ Resuming /\ pausing = {} /\ resuming = Engines
    \/ caller = "resuming" /\ Open /\ NoResume /\ pausing = {} /\ resuming = {}

\* All engines count the same passes, and reach the all-reduce together.
Lockstep ==
    /\ \A e, f \in Engines : step_counter[e] = step_counter[f]
    /\ \A e, f \in Engines : pc[e] = "sync" => pc[f] = "sync"

IInv == TypeOK /\ Phase /\ Lockstep /\ ~ refused

(***************************************************************************)
(* The phases of a pause.                                                  *)
(***************************************************************************)
\* A paused engine stays stopped while requests are queued or end.
LEMMA StaysStopped ==
    ASSUME EngineTypes,
           NEW e \in Engines, pause_state[e] # "UNPAUSED", Stopped(e),
           pc'[e] = pc[e], engines_running'[e] = engines_running[e],
           pause_state'[e] = pause_state[e],
           \A r \in Requests : status'[r] = "running" =>
               status[r] = "running" /\ home'[r] = home[r]
    PROVE  Stopped(e)'
<1>1. CASE pause_state[e] = "PAUSED_ALL"
  BY <1>1 DEF Stopped, has_work, Unfinished
<1>2. CASE pause_state[e] = "PAUSED_NEW"
  <2>1. On(e, {"running"}) = {}
    BY <1>2, SMTT(30) DEF Stopped, has_work, Unfinished
  <2>2. On(e, {"running"})' = {}
    BY <2>1 DEF On
  <2> QED
    BY <1>2, <2>2 DEF Stopped, has_work, Unfinished
<1> QED
  BY <1>1, <1>2 DEF EngineTypes

\* Steps that leave the pause alone and start at most engines that do not
\* ignore START_DP_WAVE.
LEMMA FramePhase ==
    ASSUME EngineTypes, Phase,
           UNCHANGED <<pc, pause, caller, pause_call, resume_call, pausing, resuming>>,
           \A e \in Engines :
               \/ engines_running'[e] = engines_running[e]
               \/ pc[e] = "input" /\ ~ ignore_start_dp_wave[e] /\ engines_running'[e],
           \A r \in Requests : status'[r] = "running" =>
               status[r] = "running" /\ home'[r] = home[r]
    PROVE  Phase'
<1>1. Open => Open'
  BY SMTT(30) DEF Open, pause
<1>2. Asked => Asked'
  BY DEF Asked, pause
<1>3. NoResume => NoResume'
  BY SMTT(30) DEF NoResume
<1>4. ASSUME Agreed PROVE Agreed' /\ (NoneRuns => NoneRuns')
  <2>1. \A e \in Engines : engines_running'[e] = engines_running[e]
    BY <1>4, SMTT(30) DEF Agreed
  <2>2. ASSUME NEW e \in Engines, ~ engines_running'[e] PROVE Stopped(e)'
    <3>1. /\ pause_state[e] # "UNPAUSED" /\ Stopped(e) /\ ignore_start_dp_wave[e]
          /\ pause_state'[e] = pause_state[e]
      BY <1>4, <2>1, <2>2 DEF Agreed, pause
    <3>2. pc'[e] = pc[e]
      BY <3>1
    <3> QED
      BY <2>1, <3>1, <3>2, StaysStopped
  <2> QED
    BY <1>4, <2>1, <2>2, SMTT(30) DEF Agreed, NoneRuns, pause
<1>5. ASSUME Resuming PROVE Resuming'
  <2>1. \A e \in Engines : engines_running'[e] = engines_running[e]
    BY <1>5, SMTT(30) DEF Resuming
  <2>2. ASSUME NEW e \in resume_call, e \in Engines PROVE Stopped(e)'
    <3>1. /\ pause_state[e] # "UNPAUSED" /\ Stopped(e) /\ ignore_start_dp_wave[e]
          /\ pause_state'[e] = pause_state[e]
      BY <1>5, <2>1, <2>2 DEF Resuming, pause
    <3>2. pc'[e] = pc[e]
      BY <3>1
    <3> QED
      BY <2>1, <2>2, <3>1, <3>2, StaysStopped
  <2> QED
    BY <1>5, <2>1, <2>2, SMTT(30) DEF Resuming, pause
<1> QED
  BY <1>1, <1>2, <1>3, <1>4, <1>5, SMTT(30) DEF Phase

\* An engine whose scheduler is not paused heeds START_DP_WAVE.
LEMMA UnpausedHeeds ==
    ASSUME Phase, NEW e \in Engines, pause_state[e] = "UNPAUSED"
    PROVE  ~ ignore_start_dp_wave[e]
  BY DEF Phase, Open, Asked, Agreed, Resuming

(***************************************************************************)
(* Counting the pending pauses, as sync_dp_state does.                     *)
(***************************************************************************)
\* The sum of the flags tells none and all apart from some.
LEMMA PauseCounts ==
    /\ PauseCount \in 0..dp_size
    /\ PauseCount = 0 <=> \A e \in Engines : ~ pending_pause[e]
    /\ PauseCount = dp_size <=> \A e \in Engines : pending_pause[e]
<1> DEFINE P == {e \in Engines : pending_pause[e]}
<1>1. IsFiniteSet(Engines) /\ Cardinality(Engines) = dp_size
  BY FS_Interval, WavesAssumption DEF Engines
<1>2. /\ IsFiniteSet(P) /\ Cardinality(P) \in Nat
      /\ Cardinality(P) <= Cardinality(Engines)
      /\ Cardinality(P) = Cardinality(Engines) => P = Engines
  BY <1>1, FS_Subset, FS_CardinalityType
<1>3. Cardinality(P) = 0 <=> P = {}
  BY <1>2, FS_EmptySet
<1>4. PauseCount = Cardinality(P)
  BY DEF PauseCount
<1> HIDE DEF P
<1>5. PauseCount \in 0..dp_size
  BY <1>1, <1>2, <1>4, WavesAssumption
<1>6. PauseCount = dp_size <=> P = Engines
  BY <1>1, <1>2, <1>4
<1> QED
  BY <1>3, <1>4, <1>5, <1>6 DEF P

\* A pause that only some engines have received keeps all of them running.
LEMMA PartialPauseRuns ==
    ASSUME NEW e \in Engines, pending_pause[e], ~ PauseConsensus
    PROVE  HasUnfinishedGlobal
<1>1. PauseCount \in 0..(dp_size - 1) /\ PauseCount # 0
  BY PauseCounts, WavesAssumption, SMTT(30) DEF PauseConsensus
<1> QED
  BY <1>1, ModuloBelow, WavesAssumption DEF HasUnfinishedGlobal

\* Every step moves the pause from phase to phase.
LEMMA PhaseStep == TypeOK /\ Phase /\ Lockstep /\ [Next]_vars => Phase'
<1> SUFFICES ASSUME TypeOK, Phase, Lockstep, [Next]_vars PROVE Phase'
  BY SMTT(30)
<1> USE DEF TypeOK
<1>1. ASSUME NEW c \in Clients, NEW r \in Requests, NEW e \in Engines,
             add_request_async(c, r, e)
      PROVE  Phase'
  BY <1>1, FramePhase, Zenon DEF add_request_async, RequestTypes, engine, loop, waves,
     pause, calls
<1>2. ASSUME NEW r \in Requests, abort_requests_async(r) PROVE Phase'
  BY <1>2, FramePhase, Zenon DEF abort_requests_async, engine, loop, waves, pause
<1>3. ASSUME NEW c \in Clients, ForwardFirstReq(c) \/ ReadNews(c) \/ HandleNotice(c)
      PROVE  Phase'
  BY <1>3, FramePhase, SMTT(30) DEF ForwardFirstReq, ReadNews, HandleNotice,
     engine, loop, waves, pause, calls, requests
<1>4. ASSUME NEW e \in Engines, HandleWaveComplete(e) \/ HandleStartWave(e)
      PROVE  Phase'
  BY <1>4, FramePhase, SMTT(30) DEF HandleWaveComplete, HandleStartWave,
     engine, loop, waves, pause, calls, requests
<1>5. CASE PublishStats
  BY <1>5, FramePhase, SMTT(30) DEF PublishStats, engine, loop, waves, pause, calls, requests
<1>6. ASSUME NEW e \in Engines, NEW r \in Requests, add_request(e, r) PROVE Phase'
  BY <1>6, FramePhase, UnpausedHeeds
     DEF add_request, EngineTypes, RequestTypes, loop, pause, calls
<1>7. ASSUME NEW e \in Engines, NEW r \in Requests, abort_requests(e, r) PROVE Phase'
  BY <1>7, FramePhase, ZenonT(30) DEF abort_requests, RequestTypes, Ended, engine, loop, waves,
     pause, calls
<1>8. ASSUME NEW e \in Engines, HandleStartDPWave(e) PROVE Phase'
  BY <1>8, FramePhase, SMTT(30)
     DEF HandleStartDPWave, Heeds, EngineTypes, loop, waves, pause, calls, requests
<1>9. ASSUME NEW e \in Engines, pause_scheduler(e) PROVE Phase'
  <2>1. caller = "pausing" /\ Asked /\ NoResume /\ pausing = Engines
    <3>1. pause_call[e] # None
      BY <1>9 DEF pause_scheduler
    <3>2. ~ Open /\ ~ Agreed /\ ~ Resuming
      BY <3>1, Zenon DEF Open, Agreed, Resuming
    <3> QED
      BY <3>2, Zenon DEF Phase
  <2>2. Asked'
    BY <1>9, <2>1, SMTT(30) DEF pause_scheduler, _pause_complete, Asked, EngineTypes, CallTypes
  <2> QED
    BY <1>9, <2>1, <2>2, SMTT(30) DEF pause_scheduler, Phase, NoResume, loop
<1>10. ASSUME NEW e \in Engines, resume_scheduler(e) PROVE Phase'
  <2>1. caller = "resuming" /\ Resuming /\ pausing = {} /\ resuming = Engines
    BY <1>10, SMTT(30) DEF resume_scheduler, Phase, NoResume
  <2>2. /\ pc' = [pc EXCEPT ![e] = "resume"]
        /\ pause_state' = [pause_state EXCEPT ![e] = "UNPAUSED"]
        /\ ignore_start_dp_wave' = [ignore_start_dp_wave EXCEPT ![e] = FALSE]
        /\ resume_call' = resume_call \ {e}
        /\ UNCHANGED <<caller, pausing, resuming, engines_running, pending_pause,
                       pause_call, status, home>>
    BY <1>10, <2>1 DEF resume_scheduler, Resuming, waves, requests
  <2>3. ASSUME NEW f \in Engines, f # e, f \in resume_call PROVE Stopped(f)'
    BY <2>1, <2>2, <2>3, StaysStopped, ZenonT(30) DEF Resuming, EngineTypes
  <2>4. Resuming'
    BY <2>1, <2>2, <2>3, SMTT(30) DEF Resuming, EngineTypes
  <2> QED
    BY <2>1, <2>2, <2>4, SMTT(30) DEF Phase
<1>11. CASE ResumeBarrier
  <2>1. caller = "resuming" /\ Resuming /\ pausing = {}
    BY <1>11, Rank0, SMTT(30) DEF ResumeBarrier, Phase, NoResume
  <2>2. resume_call = {}
    BY <1>11, <2>1 DEF ResumeBarrier, Resuming, Stopped, CallTypes
  <2>3. Open' /\ NoResume' /\ resuming' = {}
    BY <1>11, <2>1, <2>2, Zenon DEF ResumeBarrier, Resuming, Open, NoResume, pause
  <2> QED
    BY <1>11, <2>1, <2>3, SMTT(30) DEF ResumeBarrier, Phase
<1>12. ASSUME NEW e \in Engines, NotifyIdle(e) PROVE Phase'
  <2>1. caller = "pausing" /\ Agreed /\ NoResume /\ NoneRuns
    BY <1>12, ZenonT(30) DEF NotifyIdle, has_work, Phase, Asked, Agreed, NoneRuns
  <2>2. Agreed' /\ NoResume' /\ NoneRuns'
    BY <1>12, <2>1 DEF NotifyIdle, Agreed, NoResume, NoneRuns, Stopped, has_work,
       Unfinished, On, engine, loop, waves, pause, requests
  <2> QED
    BY <1>12, <2>1, <2>2, Zenon DEF NotifyIdle, Phase
<1>13. ASSUME NEW e \in Engines, BeginStep(e) PROVE Phase'
  <2>1. ~ Resuming
    BY <1>13, Zenon DEF BeginStep, Resuming, Stopped
  <2>2. Agreed => \A f \in Engines : engines_running[f]
    BY <1>13, ZenonT(30) DEF BeginStep, Agreed, Stopped
  <2>3. UNCHANGED <<engines_running, pause, caller, pause_call, resume_call, pausing, resuming>>
    BY <1>13 DEF BeginStep, waves, calls
  <2>4. NoResume => NoResume'
    BY <1>13, <2>3 DEF BeginStep, NoResume, EngineTypes
  <2>5. (Open => Open') /\ (Asked => Asked') /\ (NoneRuns => NoneRuns')
    <3>1. Open => Open'
      BY <2>3 DEF Open, pause
    <3>2. Asked => Asked'
      BY <2>3 DEF Asked, pause
    <3>3. NoneRuns => NoneRuns'
      BY <2>3 DEF NoneRuns
    <3> QED
      BY <3>1, <3>2, <3>3
  <2>6. Agreed => Agreed'
    BY <2>2, <2>3 DEF Agreed, pause
  <2> QED
    BY <2>1, <2>3, <2>4, <2>5, <2>6 DEF Phase
<1>14. ASSUME NEW done \in SUBSET Requests, Forward(done) PROVE Phase'
  <2>1. ~ Resuming
    BY <1>14, Rank0 DEF Forward, Resuming, Stopped
  <2>2. Agreed => \A f \in Engines : engines_running[f]
    BY <1>14 DEF Forward, Agreed, Stopped
  <2>3. UNCHANGED <<pause, caller, pause_call, resume_call, pausing, resuming>>
    BY <1>14 DEF Forward, calls
  <2>4. \A f \in Engines : engines_running[f] => engines_running'[f]
    BY <1>14, Zenon DEF Forward
  <2>5. NoResume => NoResume'
    BY <1>14, <2>3 DEF Forward, NoResume
  <2>6. (Open => Open') /\ (Asked => Asked')
    BY <2>3, <2>4, Zenon DEF Open, Asked, pause
  <2>7. Agreed => Agreed' /\ ~ NoneRuns
    BY <2>2, <2>3, <2>4, Rank0, Zenon DEF Agreed, NoneRuns, pause
  <2> QED
    BY <2>1, <2>3, <2>5, <2>6, <2>7, SMTT(30) DEF Phase
<1>15. CASE SyncDPState
  <2>1. ~ Resuming
    BY <1>15, Rank0 DEF SyncDPState, Resuming, Stopped
  <2>2. Agreed => ~ NoneRuns
    BY <1>15, Rank0, SMTT(30) DEF SyncDPState, Agreed, NoneRuns, Stopped
  <2>3. /\ UNCHANGED <<pause_state, caller, pause_call, resume_call, pausing, resuming,
                       status, home>>
        /\ pc' = [e \in Engines |-> "input"]
        /\ engines_running' = [e \in Engines |-> HasUnfinishedGlobal]
    BY <1>15 DEF SyncDPState, requests, calls
  <2>4. NoResume => NoResume'
    BY <2>3, SMTT(30) DEF NoResume
  <2>5. CASE PauseConsensus
    <3>1. \A e \in Engines : pending_pause[e]
      BY <2>5, PauseCounts, SMTT(30) DEF PauseConsensus
    <3>2. caller = "pausing" /\ Asked /\ NoResume /\ pausing = Engines
      BY <2>1, <3>1, Rank0, SMTT(30) DEF Phase, Open, Agreed
    <3>3. \A e \in Engines : ignore_start_dp_wave'[e] /\ ~ pending_pause'[e]
      BY <1>15, <2>5 DEF SyncDPState
    <3>4. ASSUME NEW e \in Engines, ~ engines_running'[e] PROVE Stopped(e)'
      <4>1. ~ Unfinished(e)
        BY <2>3, <3>4, Zenon DEF HasUnfinishedGlobal
      <4>2. ~ Unfinished(e)'
        BY <2>3, <4>1, SMTT(30) DEF Unfinished, On
      <4> QED
        BY <2>3, <3>4, <4>2 DEF Stopped, has_work
    <3>5. Agreed'
      BY <2>3, <3>1, <3>2, <3>3, <3>4, SMTT(30) DEF Agreed, Asked
    <3> QED
      BY <2>3, <2>4, <3>2, <3>5 DEF Phase
  <2>6. CASE ~ PauseConsensus
    <3>1. UNCHANGED <<ignore_start_dp_wave, pending_pause>>
      BY <1>15, <2>6 DEF SyncDPState
    <3>2. Open => Open'
      BY <2>3, <3>1, ZenonT(30) DEF Open
    <3>3. Asked => Asked'
      BY <2>3, <2>6, <3>1, PartialPauseRuns, SMTT(30) DEF Asked
    <3>4. ASSUME NEW e \in Engines, ~ engines_running'[e] PROVE Stopped(e)'
      <4>1. ~ Unfinished(e)
        BY <2>3, <3>4, Zenon DEF HasUnfinishedGlobal
      <4>2. ~ Unfinished(e)'
        BY <2>3, <4>1 DEF Unfinished, On
      <4> QED
        BY <2>3, <3>4, <4>2 DEF Stopped, has_work
    <3>5. Agreed => Agreed'
      BY <2>3, <3>1, <3>4 DEF Agreed
    <3> QED
      BY <2>1, <2>2, <2>3, <2>4, <3>2, <3>3, <3>5, SMTT(30) DEF Phase
  <2> QED
    BY <2>5, <2>6
<1>16. ASSUME NEW mode \in PauseModes, pause_scheduler_async(mode) PROVE Phase'
  <2>1. Open /\ NoResume
    BY <1>16 DEF pause_scheduler_async, Phase
  <2>2. Asked' /\ NoResume'
    BY <1>16, <2>1, WavesAssumption
       DEF pause_scheduler_async, Open, Asked, NoResume, engine, loop, pause
  <2> QED
    BY <1>16, <2>2 DEF pause_scheduler_async, Phase
<1>17. CASE PauseReturns
  <2>1. Agreed /\ NoResume /\ NoneRuns
    BY <1>17, Rank0 DEF PauseReturns, Phase
  <2>2. Agreed' /\ NoResume' /\ NoneRuns'
    BY <1>17, <2>1 DEF PauseReturns, Agreed, NoResume, NoneRuns, Stopped, has_work,
       Unfinished, On, engine, loop, waves, pause, requests
  <2> QED
    BY <1>17, <2>2 DEF PauseReturns, Phase
<1>18. CASE resume_scheduler_async
  <2>1. Agreed /\ NoneRuns
    BY <1>18 DEF resume_scheduler_async, Phase
  <2>2. Resuming'
    BY <1>18, <2>1 DEF resume_scheduler_async, Agreed, NoneRuns, Resuming, Stopped,
       has_work,
       Unfinished, On, engine, loop, waves, pause, requests
  <2> QED
    BY <1>18, <2>2 DEF resume_scheduler_async, Phase
<1>19. CASE ResumeReturns
  <2>1. Open /\ NoResume /\ pausing = {} /\ resuming = {}
    BY <1>19, Rank0, SMTT(30) DEF ResumeReturns, Phase
  <2>2. Open' /\ NoResume'
    BY <1>19, <2>1, SMTT(30) DEF ResumeReturns, Open, NoResume, engine, loop, pause
  <2> QED
    BY <1>19, <2>1, <2>2 DEF ResumeReturns, Phase
<1>20. CASE UNCHANGED vars
  BY <1>20, FramePhase DEF vars, engine, loop, waves, pause, requests, calls
<1> QED
  BY <1>1, <1>2, <1>3, <1>4, <1>5, <1>6, <1>7, <1>8, <1>9, <1>10, <1>11, <1>12, <1>13,
     <1>14, <1>15, <1>16, <1>17, <1>18, <1>19, <1>20, SMTT(30)
     DEF Next, EngineStep, HandleMessage, Collective, CoordinatorStep, FrontEndStep,
     CallerStep

\* Every step keeps the engines in lockstep.
LEMMA LockstepStep == TypeOK /\ Lockstep /\ [Next]_vars => Lockstep'
<1> SUFFICES ASSUME TypeOK, Lockstep, [Next]_vars PROVE Lockstep'
  BY SMTT(30)
<1> USE DEF TypeOK, EngineTypes
\* Only the collectives change step_counter, enter or leave the all-reduce.
<1>1. ASSUME NEW e \in Engines, resume_scheduler(e) \/ BeginStep(e) PROVE Lockstep'
  BY <1>1 DEF resume_scheduler, BeginStep, Lockstep
<1>2. CASE ResumeBarrier
  BY <1>2, SMTT(30) DEF ResumeBarrier, Lockstep
<1>3. ASSUME NEW done \in SUBSET Requests, Forward(done) PROVE Lockstep'
  <2>1. \A e, f \in Engines : NextCounter(e) = NextCounter(f)
    BY DEF Lockstep, NextCounter
  <2>2. \A e, f \in Engines : Synchronizes(e) <=> Synchronizes(f)
    BY <2>1, SMTT(30) DEF Synchronizes
  <2> QED
    BY <1>3, <2>1, <2>2 DEF Forward, Lockstep
<1>4. CASE SyncDPState
  BY <1>4 DEF SyncDPState, Lockstep
<1>5. CASE UNCHANGED loop
  BY <1>5, SMTT(30) DEF loop, Lockstep
<1>6. ASSUME NEW e \in Engines, HandleMessage(e) PROVE resume_scheduler(e) \/ UNCHANGED loop
  BY <1>6 DEF HandleMessage, add_request, abort_requests, HandleStartDPWave,
     pause_scheduler,
     engine
<1>7. ASSUME NEW e \in Engines, NotifyIdle(e) PROVE UNCHANGED loop
  BY <1>7 DEF NotifyIdle, engine
<1>8. CASE CoordinatorStep
  BY <1>8, <1>5, Zenon DEF CoordinatorStep, HandleNotice, HandleWaveComplete, HandleStartWave,
     PublishStats, engine
<1>9. CASE FrontEndStep
  BY <1>9, <1>5, ZenonT(30) DEF FrontEndStep, ForwardFirstReq, ReadNews, add_request_async,
     abort_requests_async, engine
<1>10. CASE CallerStep
  BY <1>10, <1>5 DEF CallerStep, pause_scheduler_async, PauseReturns,
     resume_scheduler_async,
     ResumeReturns, engine
<1>11. CASE UNCHANGED vars
  BY <1>11, <1>5 DEF vars, engine
<1> QED
  BY <1>1, <1>2, <1>3, <1>4, <1>5, <1>6, <1>7, <1>8, <1>9, <1>10, <1>11
     DEF Next, EngineStep, Collective

\* resume_scheduler is handled in the phase that accepts it.
LEMMA AcceptedStep == Phase /\ ~ refused /\ [Next]_vars => ~ refused'
<1> SUFFICES ASSUME Phase, ~ refused, [Next]_vars PROVE ~ refused'
  OBVIOUS
<1>1. ASSUME NEW e \in Engines, resume_scheduler(e) PROVE ~ refused'
  <2>1. Resuming
    BY <1>1, Zenon DEF resume_scheduler, Phase, NoResume
  <2> QED
    BY <1>1, <2>1, Zenon DEF resume_scheduler, Resuming
<1>2. ASSUME NEW e \in Engines, HandleMessage(e) PROVE resume_scheduler(e) \/ UNCHANGED refused
  BY <1>2, ZenonT(30) DEF HandleMessage, add_request, abort_requests, HandleStartDPWave,
     pause_scheduler,
     calls
<1>3. ASSUME NEW e \in Engines, NotifyIdle(e) \/ BeginStep(e) PROVE UNCHANGED refused
  BY <1>3, ZenonT(30) DEF NotifyIdle, BeginStep, calls
<1>4. Collective => UNCHANGED refused
  BY DEF Collective, ResumeBarrier, Forward, SyncDPState, calls
<1>5. CoordinatorStep => UNCHANGED refused
  BY Zenon DEF CoordinatorStep, HandleNotice, HandleWaveComplete, HandleStartWave,
     PublishStats, calls
<1>6. FrontEndStep => UNCHANGED refused
  BY Zenon DEF FrontEndStep, ForwardFirstReq, ReadNews, add_request_async,
     abort_requests_async, calls
<1>7. CallerStep => UNCHANGED refused
  BY DEF CallerStep, pause_scheduler_async, PauseReturns, resume_scheduler_async,
     ResumeReturns
<1>8. UNCHANGED vars => UNCHANGED refused
  BY DEF vars, calls
<1> QED
  BY <1>1, <1>2, <1>3, <1>4, <1>5, <1>6, <1>7, <1>8 DEF Next, EngineStep

\* The initial state is idle, unpaused and in lockstep.
LEMMA InitPhase == Init => Phase /\ Lockstep /\ ~ refused
<1> SUFFICES ASSUME Init PROVE Phase /\ Lockstep /\ ~ refused
  OBVIOUS
<1>1. Open
  BY DEF Init, Open
<1>2. NoResume
  BY DEF Init, NoResume
<1>3. Phase
  BY <1>1, <1>2 DEF Init, Phase
<1>4. Lockstep /\ ~ refused
  BY DEF Init, Lockstep
<1> QED
  BY <1>3, <1>4

\* The inductive invariant holds in every reachable state.
THEOREM Invariance == Spec => []IInv
<1> DEFINE Rest == Phase /\ Lockstep /\ ~ refused
<1>1. TypeOK /\ Rest /\ [Next]_vars => Rest'
  BY PhaseStep, LockstepStep, AcceptedStep
<1>2. Init => Rest
  BY InitPhase
<1>3. TypeOK /\ Rest => IInv
  BY DEF IInv
<1> HIDE DEF Rest
<1> QED
  BY <1>1, <1>2, <1>3, WavesTypes, PTL DEF Spec

\* The forward pass, the all-reduce of _has_global_unfinished_reqs and the
\* barrier of resume_scheduler never have engines waiting in them together,
\* however many engines there are and however messages overtake each other.
THEOREM CollectivesNeverMix == Spec => []CollectivesMatch
<1>1. IInv => CollectivesMatch
  <2> SUFFICES ASSUME IInv, NEW e \in Engines, NEW f \in Engines,
                      pc[e] # "input", pc[f] # "input"
               PROVE  pc[e] = pc[f]
    BY DEF CollectivesMatch
  <2>1. CASE NoResume
    BY <2>1, SMTT(30) DEF NoResume, IInv, Lockstep, TypeOK, EngineTypes
  <2>2. CASE Resuming
    BY <2>2, SMTT(30) DEF Resuming, Stopped
  <2> QED
    BY <2>1, <2>2 DEF IInv, Phase
<1> QED
  BY <1>1, Invariance, PTL

\* The two-phase pause: once every pause future has resolved no engine runs,
\* whatever requests and stale START_DP_WAVE messages arrive.
THEOREM PauseKeepsAll == Spec => []PauseHolds
<1>1. IInv => PauseHolds
  BY DEF IInv, Phase, Agreed, NoneRuns, Stopped, PauseHolds
<1> QED
  BY <1>1, Invariance, PTL

\* A caller that waited for the pause is never told by resume_scheduler that
\* the pause is still in flight.
THEOREM ResumeNeverRefused == Spec => []ResumeAccepted
<1>1. IInv => ResumeAccepted
  BY DEF IInv, ResumeAccepted
<1> QED
  BY <1>1, Invariance, PTL

==============================================================================
