-------------------------- MODULE DPWavesTypeProofs --------------------------
(***************************************************************************)
(* Type correctness of the data-parallel engines, their coordinator, their *)
(* front ends and the caller of a pause, for every number of them.         *)
(***************************************************************************)
EXTENDS DPWaves, TLAPS

(***************************************************************************)
(* Types.                                                                  *)
(***************************************************************************)
\* A number below the modulus is its own remainder.
LEMMA ModuloBelow ==
    ASSUME NEW n \in Nat \ {0}, NEW x \in 0..(n - 1)
    PROVE  x % n = x
  BY SMT

\* Taking the head of a queue keeps the types of queue and message.
LEMMA TakeType ==
    ASSUME NEW S, NEW D, NEW q \in [D -> Seq(S)], NEW d \in D, q[d] # << >>
    PROVE  Head(q[d]) \in S /\ [q EXCEPT ![d] = Tail(@)] \in [D -> Seq(S)]
  OBVIOUS

\* So does appending to it.
LEMMA PutType ==
    ASSUME NEW S, NEW D, NEW q \in [D -> Seq(S)], NEW d \in D, NEW x \in S
    PROVE  [q EXCEPT ![d] = Append(@, x)] \in [D -> Seq(S)]
  OBVIOUS

\* The coordinator's START_DP_WAVE messages are well formed.
LEMMA StartsType ==
    ASSUME starts \in [Engines -> Seq(Start)],
           NEW wave \in Nat, NEW exclude \in Engines \cup {None},
           _send_start_wave(wave, exclude)
    PROVE  starts' \in [Engines -> Seq(Start)]
<1>1. [wave |-> wave, exclude |-> exclude] \in Start
  BY DEF Start
<1> QED
  BY <1>1 DEF _send_start_wave

\* So are the engines' reports.
LEMMA ReportType ==
    ASSUME reports \in [Engines -> Seq(EngineReport)], NEW e \in Engines,
           NEW type \in {"wave_complete", "start_wave"}, NEW wave \in Nat,
           Report(e, type, wave)
    PROVE  reports' \in [Engines -> Seq(EngineReport)]
<1>1. [type |-> type, wave |-> wave] \in EngineReport
  BY DEF EngineReport
<1> QED
  BY <1>1, PutType DEF Report

\* There is an engine of rank 0.
LEMMA Rank0 == 0 \in Engines
  BY WavesAssumption, SMTT(30) DEF Engines

\* Every step keeps the types.
LEMMA TypeStep == TypeOK /\ [Next]_vars => TypeOK'
<1> SUFFICES ASSUME TypeOK, [Next]_vars PROVE TypeOK'
  OBVIOUS
<1> USE WavesAssumption DEF TypeOK
<1>1. ASSUME NEW c \in Clients, NEW r \in Requests, NEW e \in Engines, add_request_async(c, r, e)
      PROVE  TypeOK'
  <2>1. RequestTypes'
    <3>1. front[c].wave \in Nat
      BY DEF MessageTypes, WaveState
    <3> QED
      BY <1>1, <3>1 DEF RequestTypes, add_request_async
  <2>2. MessageTypes'
    BY <1>1 DEF MessageTypes, add_request_async, frontEnds, channels
  <2>3. EngineTypes' /\ CallTypes'
    BY <1>1 DEF add_request_async, EngineTypes, CallTypes, engine, loop, waves,
       pause, calls
  <2> QED
    BY <2>1, <2>2, <2>3
<1>2. ASSUME NEW r \in Requests, abort_requests_async(r)
      PROVE  TypeOK'
  <2>1. RequestTypes'
    BY <1>2 DEF RequestTypes, abort_requests_async, requests
  <2>2. CallTypes'
    BY <1>2 DEF CallTypes, abort_requests_async, calls
  <2>3. EngineTypes' /\ MessageTypes'
    BY <1>2 DEF abort_requests_async, EngineTypes, MessageTypes, engine, loop, waves,
       pause, frontEnds, channels
  <2> QED
    BY <2>1, <2>2, <2>3
<1>3. ASSUME NEW c \in Clients, ForwardFirstReq(c)
      PROVE  TypeOK'
  <2>1. MessageTypes'
    <3> DEFINE n == [exclude |-> Head(first_req[c]), wave |-> front[c].wave]
    <3>1. /\ Head(first_req[c]) \in Engines
          /\ first_req' \in [Clients -> Seq(Engines)]
      BY <1>3, TakeType DEF MessageTypes, ForwardFirstReq
    <3>2. n \in Notice
      BY <3>1 DEF MessageTypes, WaveState, Notice
    <3>3. notices' \in [Clients -> Seq(Notice)]
      BY <1>3, <3>2, PutType DEF MessageTypes, ForwardFirstReq
    <3>4. front' \in [Clients -> WaveState]
      BY <1>3, Zenon DEF MessageTypes, ForwardFirstReq, WaveState
    <3> QED
      BY <1>3, <3>1, <3>3, <3>4 DEF MessageTypes, ForwardFirstReq
  <2>2. EngineTypes' /\ RequestTypes' /\ CallTypes'
    BY <1>3 DEF ForwardFirstReq, EngineTypes, RequestTypes, CallTypes, engine, loop,
       waves, pause, requests, calls
  <2> QED
    BY <2>1, <2>2
<1>4. ASSUME NEW c \in Clients, ReadNews(c)
      PROVE  TypeOK'
  <2>1. MessageTypes'
    BY <1>4 DEF MessageTypes, ReadNews, frontEnds, channels
  <2>2. EngineTypes' /\ RequestTypes' /\ CallTypes'
    BY <1>4 DEF ReadNews, EngineTypes, RequestTypes, CallTypes, engine, loop, waves,
       pause, requests, calls
  <2> QED
    BY <2>1, <2>2
<1>5. ASSUME NEW c \in Clients, HandleNotice(c)
      PROVE  TypeOK'
  <2>1. MessageTypes'
    <3> DEFINE n == Head(notices[c])
    <3>1. n \in Notice /\ notices' \in [Clients -> Seq(Notice)]
      BY <1>5, TakeType DEF MessageTypes, HandleNotice
    <3>2. coord.wave \in Nat /\ Excluded(n) \in Engines \cup {None}
      BY <3>1 DEF MessageTypes, WaveState, Notice, Excluded
    <3>3. starts' \in [Engines -> Seq(Start)]
      BY <1>5, <3>2, StartsType DEF MessageTypes, HandleNotice
    <3> QED
      BY <1>5, <3>1, <3>3 DEF MessageTypes, HandleNotice, frontEnds
  <2>2. EngineTypes' /\ RequestTypes' /\ CallTypes'
    BY <1>5 DEF HandleNotice, EngineTypes, RequestTypes, CallTypes, engine, loop,
       waves, pause, requests, calls
  <2> QED
    BY <2>1, <2>2
<1>6. ASSUME NEW e \in Engines, HandleWaveComplete(e)
      PROVE  TypeOK'
  <2>1. MessageTypes'
    <3> DEFINE m == Head(reports[e])
    <3>1. m \in EngineReport /\ reports' \in [Engines -> Seq(EngineReport)]
      BY <1>6, TakeType DEF MessageTypes, HandleWaveComplete
    <3>2. m.wave + 1 \in Nat
      BY <3>1 DEF EngineReport
    <3>3. coord' \in WaveState
      <4>1. [wave |-> m.wave + 1, running |-> FALSE] \in WaveState
        BY <3>2 DEF WaveState
      <4> QED
        BY <1>6, <4>1, Zenon DEF MessageTypes, HandleWaveComplete
    <3>4. news' \in [Clients -> WaveState \cup {None}]
      BY <1>6, <3>3 DEF MessageTypes, HandleWaveComplete, Publish
    <3> QED
      BY <1>6, <3>1, <3>3, <3>4, SMTT(30) DEF MessageTypes, HandleWaveComplete, frontEnds
  <2>2. EngineTypes' /\ RequestTypes' /\ CallTypes'
    BY <1>6, SMTT(30) DEF HandleWaveComplete, EngineTypes, RequestTypes, CallTypes, engine,
       loop, waves, pause, requests, calls
  <2> QED
    BY <2>1, <2>2
<1>7. ASSUME NEW e \in Engines, HandleStartWave(e)
      PROVE  TypeOK'
  <2>1. MessageTypes'
    <3> DEFINE m == Head(reports[e])
    <3>1. m \in EngineReport /\ reports' \in [Engines -> Seq(EngineReport)]
      BY <1>7, TakeType, SMTT(30) DEF MessageTypes, HandleStartWave
    <3>2. m.wave \in Nat
      BY <3>1 DEF EngineReport
    <3>3. coord' \in WaveState
      <4>1. [wave |-> m.wave, running |-> TRUE] \in WaveState
        BY <3>2 DEF WaveState
      <4> QED
        BY <1>7, <4>1, Zenon DEF MessageTypes, HandleStartWave
    <3>4. news' \in [Clients -> WaveState \cup {None}]
      BY <1>7, <3>3 DEF MessageTypes, HandleStartWave, Publish
    <3>5. starts' \in [Engines -> Seq(Start)]
      BY <1>7, <3>2, StartsType DEF MessageTypes, HandleStartWave
    <3> QED
      BY <1>7, <3>1, <3>3, <3>4, <3>5 DEF MessageTypes, HandleStartWave, frontEnds
  <2>2. EngineTypes' /\ RequestTypes' /\ CallTypes'
    BY <1>7 DEF HandleStartWave, EngineTypes, RequestTypes, CallTypes, engine, loop,
       waves, pause, requests, calls
  <2> QED
    BY <2>1, <2>2
<1>8. CASE PublishStats
  <2>1. MessageTypes'
    BY <1>8 DEF MessageTypes, PublishStats, Publish, frontEnds, channels
  <2>2. EngineTypes' /\ RequestTypes' /\ CallTypes'
    BY <1>8 DEF PublishStats, EngineTypes, RequestTypes, CallTypes, engine, loop,
       waves, pause, requests, calls
  <2> QED
    BY <2>1, <2>2
<1>9. ASSUME NEW e \in Engines, NEW r \in Requests, add_request(e, r)
      PROVE  TypeOK'
  <2>1. EngineTypes'
    <3>1. current_wave' \in [Engines -> Nat]
      BY <1>9 DEF EngineTypes, RequestTypes, add_request
    <3>2. engines_running' \in [Engines -> BOOLEAN]
      BY <1>9, Zenon DEF EngineTypes, add_request
    <3> QED
      BY <1>9, <3>1, <3>2 DEF EngineTypes, add_request, loop, pause
  <2>2. RequestTypes'
    BY <1>9 DEF RequestTypes, add_request, requests
  <2>3. MessageTypes'
    <3>1. reports' \in [Engines -> Seq(EngineReport)]
      BY <1>9, ReportType DEF MessageTypes, EngineTypes, add_request
    <3> QED
      BY <1>9, <3>1 DEF MessageTypes, add_request, frontEnds
  <2>4. CallTypes'
    BY <1>9 DEF add_request, CallTypes, calls
  <2> QED
    BY <2>1, <2>2, <2>3, <2>4
<1>10. ASSUME NEW e \in Engines, NEW r \in Requests, abort_requests(e, r)
      PROVE  TypeOK'
  <2>1. RequestTypes'
    BY <1>10 DEF RequestTypes, abort_requests, Ended, requests
  <2>2. EngineTypes' /\ MessageTypes' /\ CallTypes'
    BY <1>10 DEF abort_requests, EngineTypes, MessageTypes, CallTypes, engine, loop,
       waves, pause, frontEnds, channels, calls
  <2> QED
    BY <2>1, <2>2
<1>11. ASSUME NEW e \in Engines, HandleStartDPWave(e)
      PROVE  TypeOK'
  <2>1. EngineTypes'
    <3> DEFINE m == Head(starts[e])
    <3>1. m \in Start
      BY <1>11, TakeType DEF MessageTypes, HandleStartDPWave
    <3>2. m.wave \in Nat
      BY <3>1 DEF Start
    <3> HIDE DEF m
    <3>3. current_wave' \in [Engines -> Nat]
      BY <1>11, <3>2, Zenon DEF EngineTypes, HandleStartDPWave, waves, m
    <3>4. engines_running' \in [Engines -> BOOLEAN]
      BY <1>11, Zenon DEF EngineTypes, HandleStartDPWave, waves
    <3> QED
      BY <1>11, <3>3, <3>4 DEF EngineTypes, HandleStartDPWave, loop, pause
  <2>2. MessageTypes'
    <3>1. starts' \in [Engines -> Seq(Start)]
      BY <1>11, TakeType DEF MessageTypes, HandleStartDPWave
    <3> QED
      BY <1>11, <3>1 DEF MessageTypes, HandleStartDPWave, frontEnds
  <2>3. RequestTypes' /\ CallTypes'
    BY <1>11 DEF HandleStartDPWave, RequestTypes, CallTypes, requests, calls
  <2> QED
    BY <2>1, <2>2, <2>3
<1>12. ASSUME NEW e \in Engines, pause_scheduler(e)
      PROVE  TypeOK'
  <2>1. EngineTypes'
    BY <1>12 DEF EngineTypes, pause_scheduler, _pause_complete, engine, loop, waves,
       pause
  <2>2. RequestTypes'
    BY <1>12 DEF RequestTypes, pause_scheduler, Ended, requests
  <2>3. CallTypes'
    BY <1>12 DEF CallTypes, pause_scheduler, calls
  <2>4. MessageTypes'
    BY <1>12 DEF pause_scheduler, MessageTypes, frontEnds, channels
  <2> QED
    BY <2>1, <2>2, <2>3, <2>4
<1>13. ASSUME NEW e \in Engines, resume_scheduler(e)
      PROVE  TypeOK'
  <2>1. EngineTypes'
    BY <1>13, ZenonT(30) DEF EngineTypes, resume_scheduler, engine, loop, waves, pause
  <2>2. CallTypes'
    BY <1>13, Zenon DEF CallTypes, resume_scheduler, calls
  <2>3. RequestTypes' /\ MessageTypes'
    BY <1>13 DEF resume_scheduler, RequestTypes, MessageTypes, requests, frontEnds,
       channels
  <2> QED
    BY <2>1, <2>2, <2>3
<1>14. CASE ResumeBarrier
  <2>1. EngineTypes'
    BY <1>14 DEF EngineTypes, ResumeBarrier, engine, loop, waves, pause
  <2>2. CallTypes'
    BY <1>14 DEF CallTypes, ResumeBarrier, calls
  <2>3. RequestTypes' /\ MessageTypes'
    BY <1>14 DEF ResumeBarrier, RequestTypes, MessageTypes, requests, frontEnds,
       channels
  <2> QED
    BY <2>1, <2>2, <2>3
<1>15. ASSUME NEW e \in Engines, NotifyIdle(e)
      PROVE  TypeOK'
  <2>1. CallTypes'
    BY <1>15, SMTT(30) DEF CallTypes, NotifyIdle, calls
  <2>2. EngineTypes' /\ RequestTypes' /\ MessageTypes'
    BY <1>15 DEF NotifyIdle, EngineTypes, RequestTypes, MessageTypes, engine, loop,
       waves, pause, requests, frontEnds, channels
  <2> QED
    BY <2>1, <2>2
<1>16. ASSUME NEW e \in Engines, BeginStep(e)
      PROVE  TypeOK'
  <2>1. EngineTypes'
    BY <1>16 DEF EngineTypes, BeginStep, engine, loop, waves, pause
  <2>2. RequestTypes'
    BY <1>16 DEF RequestTypes, BeginStep, requests
  <2>3. MessageTypes' /\ CallTypes'
    BY <1>16 DEF BeginStep, MessageTypes, CallTypes, frontEnds, channels, calls
  <2> QED
    BY <2>1, <2>2, <2>3
<1>17. ASSUME NEW done \in SUBSET Requests, Forward(done)
      PROVE  TypeOK'
  <2>1. EngineTypes'
    BY <1>17 DEF EngineTypes, Forward, Synchronizes, NextCounter, engine, loop,
       waves, pause
  <2>2. RequestTypes'
    BY <1>17, SMTT(30) DEF RequestTypes, Forward, Ended, requests
  <2>3. MessageTypes'
    <3>1. reports' \in [Engines -> Seq(EngineReport)]
      BY <1>17, ReportType, Rank0, SMTT(30) DEF MessageTypes, EngineTypes, Forward
    <3> QED
      BY <1>17, <3>1, SMTT(30) DEF MessageTypes, Forward, frontEnds
  <2>4. CallTypes'
    BY <1>17 DEF Forward, CallTypes, calls
  <2> QED
    BY <2>1, <2>2, <2>3, <2>4, SMTT(30)
<1>18. CASE SyncDPState
  <2>1. EngineTypes'
    <3>1. HasUnfinishedGlobal \in BOOLEAN
      BY DEF HasUnfinishedGlobal
    <3>2. current_wave' \in [Engines -> Nat]
      BY <1>18 DEF EngineTypes, SyncDPState
    <3>3. step_counter' \in [Engines -> 0..(SyncInterval - 1)]
      BY <1>18 DEF EngineTypes, SyncDPState
    <3>4. engines_running' \in [Engines -> BOOLEAN] /\ was_running' \in [Engines -> BOOLEAN]
      BY <1>18, <3>1 DEF SyncDPState
    <3>5. /\ ignore_start_dp_wave' \in [Engines -> BOOLEAN]
          /\ pending_pause' \in [Engines -> BOOLEAN]
      <4>1. \/ /\ ignore_start_dp_wave' = [f \in Engines |-> TRUE]
               /\ pending_pause' = [f \in Engines |-> FALSE]
            \/ UNCHANGED <<ignore_start_dp_wave, pending_pause>>
        BY <1>18, Zenon DEF SyncDPState
      <4> QED
        BY <4>1, ZenonT(30) DEF EngineTypes
    <3>6. pc' \in [Engines -> {"input", "forward", "sync", "resume"}] /\ pause_state' = pause_state
      BY <1>18 DEF SyncDPState
    <3> QED
      BY <3>2, <3>3, <3>4, <3>5, <3>6 DEF EngineTypes
  <2>2. MessageTypes'
    <3>1. reports' \in [Engines -> Seq(EngineReport)]
      BY <1>18, ReportType, Rank0, SMTT(30) DEF MessageTypes, EngineTypes, SyncDPState
    <3> QED
      BY <1>18, <3>1, SMTT(30) DEF MessageTypes, SyncDPState, frontEnds
  <2>3. RequestTypes' /\ CallTypes'
    BY <1>18 DEF SyncDPState, RequestTypes, CallTypes, requests, calls
  <2> QED
    BY <2>1, <2>2, <2>3
<1>19. ASSUME NEW mode \in PauseModes, pause_scheduler_async(mode)
      PROVE  TypeOK'
  <2>1. CallTypes'
    BY <1>19, SMTT(30) DEF CallTypes, pause_scheduler_async, calls
  <2>2. EngineTypes' /\ RequestTypes' /\ MessageTypes'
    BY <1>19, Zenon DEF pause_scheduler_async, EngineTypes, RequestTypes, MessageTypes,
       engine, loop, waves, pause, requests, frontEnds, channels
  <2> QED
    BY <2>1, <2>2
<1>20. CASE PauseReturns
  <2>1. CallTypes'
    BY <1>20, SMTT(30) DEF CallTypes, PauseReturns, calls
  <2>2. EngineTypes' /\ RequestTypes' /\ MessageTypes'
    BY <1>20 DEF PauseReturns, EngineTypes, RequestTypes, MessageTypes, engine, loop,
       waves, pause, requests, frontEnds, channels
  <2> QED
    BY <2>1, <2>2
<1>21. CASE resume_scheduler_async
  <2>1. CallTypes'
    BY <1>21 DEF CallTypes, resume_scheduler_async, calls
  <2>2. EngineTypes' /\ RequestTypes' /\ MessageTypes'
    BY <1>21, Zenon DEF resume_scheduler_async, EngineTypes, RequestTypes, MessageTypes,
       engine, loop, waves, pause, requests, frontEnds, channels
  <2> QED
    BY <2>1, <2>2
<1>22. CASE ResumeReturns
  <2>1. CallTypes'
    BY <1>22, SMTT(30) DEF CallTypes, ResumeReturns, calls
  <2>2. EngineTypes' /\ RequestTypes' /\ MessageTypes'
    BY <1>22, SMTT(30) DEF ResumeReturns, EngineTypes, RequestTypes, MessageTypes, engine,
       loop, waves, pause, requests, frontEnds, channels
  <2> QED
    BY <2>1, <2>2
<1>23. CASE UNCHANGED vars
  BY <1>23, SMTT(30) DEF EngineTypes, RequestTypes, MessageTypes, CallTypes, vars,
     engine, loop, waves, pause, requests, frontEnds, channels, calls
<1> QED
  BY <1>1, <1>2, <1>3, <1>4, <1>5, <1>6, <1>7, <1>8, <1>9, <1>10, <1>11, <1>12,
     <1>13, <1>14, <1>15, <1>16, <1>17, <1>18, <1>19, <1>20, <1>21, <1>22, <1>23, SMTT(30)
     DEF Next, EngineStep, HandleMessage, Collective, CoordinatorStep, FrontEndStep,
     CallerStep

\* All queues, counters and flags of the engines, the coordinator and the
\* front ends keep their types; step_counter stays below the interval.
THEOREM WavesTypes == Spec => []TypeOK
<1>1. Init => TypeOK
  <2> SUFFICES ASSUME Init PROVE TypeOK
    OBVIOUS
  <2> USE WavesAssumption
  <2>1. EngineTypes
    BY SMTT(30) DEF Init, EngineTypes
  <2>2. RequestTypes
    BY SMTT(30) DEF Init, RequestTypes
  <2>3. MessageTypes
    <3>1. [wave |-> 0, running |-> FALSE] \in WaveState
      BY DEF WaveState
    <3>2. /\ coord \in WaveState /\ front \in [Clients -> WaveState]
          /\ overtaken \in BOOLEAN
      BY <3>1, Zenon DEF Init
    <3>3. /\ first_req \in [Clients -> Seq(Engines)]
          /\ starts \in [Engines -> Seq(Start)]
          /\ notices \in [Clients -> Seq(Notice)]
          /\ reports \in [Engines -> Seq(EngineReport)]
          /\ news \in [Clients -> WaveState \cup {None}]
      BY DEF Init
    <3> QED
      BY <3>2, <3>3, Zenon DEF MessageTypes
  <2>4. CallTypes
    BY ZenonT(30) DEF Init, CallTypes
  <2> QED
    BY <2>1, <2>2, <2>3, <2>4 DEF TypeOK
<1> QED
  BY <1>1, TypeStep, PTL DEF Spec

==============================================================================
