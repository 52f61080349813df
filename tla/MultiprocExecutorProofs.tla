----------------------- MODULE MultiprocExecutorProofs -----------------------
(***************************************************************************)
(* The answers of the workers reach the futures of the calls they answer,  *)
(* for every number of workers, calls and slots, although no answer says   *)
(* which call it is for.                                                   *)
(***************************************************************************)
EXTENDS MultiprocExecutor, Integers, TLAPS

(***************************************************************************)
(* The inductive invariant                                                 *)
(***************************************************************************)

\* Worker w is to answer call j.
Asked(j, w) == log[j].output_rank \in {None, w}

\* The queues that are read for call j as long as the executor has them.
AllMqs(j) == IF log[j].output_rank = None THEN [i \in 1..world_size |-> i - 1]
                                          ELSE <<log[j].output_rank>>

\* The fields are dropped only by a shutdown that has begun.
ShutdownOrder ==
    /\ \A t \in Threads : closing[t] \in {"terminate", "close", "drop", "done"} =>
                             executor.shutting_down
    /\ ~ executor.has_response_mqs => executor.shutting_down

\* Calls of which the engine has, or has had, a future.
Made(j) == j < Len(log) \/ (j = Len(log) /\ engine.pc /= "reply")

\* A future reads all the queues of its call, or none when they were dropped
\* before it was made.
FutureOK(j) ==
    /\ future[j].mqs /= <<>> => j \in 1..Len(log) /\ Made(j) /\ future[j].mqs = AllMqs(j)
    /\ future[j].state = "none" => future[j].mqs = <<>> /\ future[j].responses = <<>>
    /\ future[j].state /= "none" => j \in 1..Len(log) /\ Made(j)
    /\ Len(future[j].responses) <= Len(future[j].mqs)
    /\ future[j].state = "result" => Len(future[j].responses) = Len(future[j].mqs)

\* If it reads none then the later ones read none either.
FuturesMade ==
    /\ \A j \in 1..MaxCalls : FutureOK(j)
    /\ executor.has_response_mqs =>
          \A j \in 1..Len(log) : Made(j) => future[j].mqs /= <<>>
    /\ \A i \in 1..MaxCalls : future[i].mqs /= <<>> =>
          \A j \in 1..(i - 1) : future[j].mqs /= <<>>

\* Futures are served in the order of the calls: the pending ones are the one
\* being served and, behind it, those of futures_queue, and nothing was read
\* for the latter.
ServedInOrder ==
    /\ \A k \in 1..Len(futures_queue) :
          future[futures_queue[k]].state = "pending" /\ future[futures_queue[k]].responses = <<>>
    /\ \A k, l \in 1..Len(futures_queue) : k < l => futures_queue[k] < futures_queue[l]
    /\ \A k \in 1..Len(futures_queue) : engine.popped < futures_queue[k]
    /\ \A i \in 1..MaxCalls : future[i].state = "pending" =>
          i = engine.popped \/ \E k \in 1..Len(futures_queue) : futures_queue[k] = i
    /\ \A i, j \in 1..MaxCalls : future[i].state = "pending" /\ future[j].state \in {"result", "error"} =>
          j < i

\* What the engine thread works on.
EnginePlace ==
    /\ engine.pc \in {"send", "write", "reply"} => engine.call \in Calls
    /\ engine.pc \in {"send", "write"} => Len(log) < MaxCalls
    /\ engine.pc = "reply" => Len(log) > 0 /\ engine.call = log[Len(log)]
    /\ engine.pc = "wait" => engine.wanted \in 1..Len(log) /\ future[engine.wanted].state /= "none"
    /\ engine.popped /= 0 => /\ engine.pc = "wait" /\ future[engine.wanted].state = "pending"
                             /\ future[engine.popped].state = "pending"

\* The answers of worker w on their way: those that its output thread has not
\* sent are behind those that it has.
Underway(w) == response_mq[w] \o async_output_queue[w]

\* q holds answers of worker w to calls among the first n of lg, in the order
\* of the calls.
Answered(q, w, lg, n) ==
    /\ \A k \in 1..Len(q) : /\ q[k].rank = w /\ q[k].call \in 1..n
                            /\ lg[q[k].call].output_rank \in {None, w}
    /\ \A k, l \in 1..Len(q) : k < l => q[k].call < q[l].call

\* The calls that worker w has not only received but worked off.
Served(w) == IF worker[w] = "call" THEN Len(received[w]) - 1 ELSE Len(received[w])

AnswersOK(w) ==
    /\ Len(received[w]) <= Len(log)
    /\ worker[w] = "call" => Len(received[w]) > 0
    /\ ~ use_async_scheduling => async_output_queue[w] = <<>>
    /\ Answered(Underway(w), w, log, Served(w))
AnswersInOrder == \A w \in Ranks : AnswersOK(w)

Clean == \A j \in 1..MaxCalls : future[j].state /= "error"

Holds(q, j) == \E k \in 1..Len(q) : q[k].call = j

\* The future of call j has its answer from worker w.
Taken(j, w) == \E k \in 1..Len(future[j].responses) : future[j].mqs[k] = w

\* Until a call fails, an answer that was given is either underway or taken;
\* a worker that died may have left its last call unanswered.
Once(j, w) ==
    /\ Holds(Underway(w), j) => ~ Taken(j, w)
    /\ Taken(j, w) => j <= Served(w)
    /\ j \in 1..Len(received[w]) /\ Asked(j, w) /\ (j < Len(received[w]) \/ worker[w] = "loop") =>
          Holds(Underway(w), j) \/ Taken(j, w)
NothingLost == Clean => \A w \in Ranks, j \in 1..MaxCalls : Once(j, w)

\* The answers of a future are those to its call, from the queues it reads,
\* if no earlier call has failed.
Paired ==
    \A i \in 1..MaxCalls :
        (\A j \in 1..(i - 1) : future[j].state /= "error") =>
            \A k \in 1..Len(future[i].responses) :
                future[i].responses[k].call = i /\ future[i].responses[k].rank = future[i].mqs[k]

IInv == /\ TypeOK /\ ShutdownOrder /\ FuturesMade /\ ServedInOrder /\ EnginePlace
        /\ AnswersInOrder /\ NothingLost /\ Paired

------------------------------------------------------------------------------
(***************************************************************************)
(* Types                                                                   *)
(***************************************************************************)

States == {"none", "pending", "result", "error"}
Futures == [state : States, mqs : Seq(Ranks), responses : Seq(Answers)]
Engines == [pc : {"idle", "send", "write", "reply", "wait", "stopped"},
            call : Calls \cup {None}, wanted : 0..MaxCalls, popped : 0..MaxCalls]
Executors == [is_failed : BOOLEAN, shutting_down : BOOLEAN, has_rpc_mq : BOOLEAN,
              has_response_mqs : BOOLEAN, cancelled : BOOLEAN]
Typed ==
    /\ log \in Seq(Calls) /\ Len(log) <= MaxCalls
    /\ received \in [Ranks -> Seq(Calls)] /\ gone \subseteq Ranks
    /\ worker \in [Ranks -> {"loop", "call", "dead"}]
    /\ async_output_queue \in [Ranks -> Seq(Answers)]
    /\ response_mq \in [Ranks -> Seq(Answers)]
    /\ future \in [1..MaxCalls -> Futures]
    /\ futures_queue \in Seq(1..MaxCalls)
    /\ engine \in Engines
    /\ executor \in Executors
    /\ closing \in [Threads -> {"no", "begin", "terminate", "close", "drop", "done"}]

LEMMA Typing == (TypeOK => Typed) /\ (Typed' => TypeOK')
BY Zenon DEF TypeOK, Typed, States, Futures, Engines, Executors

LEMMA HeadTail ==
    ASSUME NEW S, NEW q \in Seq(S), q /= <<>>
    PROVE  /\ Head(q) \in S /\ Head(q) = q[1] /\ Len(q) \in Nat /\ Len(q) >= 1
           /\ Tail(q) \in Seq(S) /\ Len(Tail(q)) = Len(q) - 1
           /\ \A k \in 1..(Len(q) - 1) : Tail(q)[k] = q[k + 1]
OBVIOUS

LEMMA NextPlace ==
    ASSUME NEW S, NEW T, NEW p \in Seq(S), NEW q \in Seq(T), Len(p) < Len(q)
    PROVE  /\ Len(p) \in Nat /\ Len(p) + 1 \in 1..Len(q) /\ q /= <<>>
           /\ \A k \in 1..Len(p) : k \in 1..Len(q) /\ k /= Len(p) + 1
OBVIOUS

LEMMA Numbers == MaxCalls \in Nat /\ 0 \in 0..MaxCalls /\ world_size \in Nat /\ world_size >= 1
BY ExecutorAssumption

\* The places of the engine thread.
LEMMA EngineType ==
    ASSUME NEW p \in {"idle", "send", "write", "reply", "wait", "stopped"},
           NEW c \in Calls \cup {None}, NEW n \in 0..MaxCalls, NEW m \in 0..MaxCalls
    PROVE  [pc |-> p, call |-> c, wanted |-> n, popped |-> m] \in Engines
BY DEF Engines

LEMMA IdleType ==
    /\ Idle \in Engines /\ Idle.pc = "idle" /\ Idle.popped = 0
    /\ [Idle EXCEPT !.pc = "stopped"] \in Engines
    /\ \A c \in Calls : [Idle EXCEPT !.pc = "send", !.call = c] \in Engines
    /\ \A n \in 0..MaxCalls : [Idle EXCEPT !.pc = "wait", !.wanted = n] \in Engines
<1>1. Idle \in Engines /\ Idle.pc = "idle" /\ Idle.popped = 0
  BY Numbers, EngineType DEF Idle
<1>2. [Idle EXCEPT !.pc = "stopped"] \in Engines
  BY <1>1 DEF Engines
<1>3. \A c \in Calls : [Idle EXCEPT !.pc = "send", !.call = c] \in Engines
  BY Zenon, <1>1 DEF Engines
<1>4. \A n \in 0..MaxCalls : [Idle EXCEPT !.pc = "wait", !.wanted = n] \in Engines
  BY Zenon, <1>1 DEF Engines
<1> QED
  BY Zenon, <1>1, <1>2, <1>3, <1>4

\* After an exception the engine thread is idle or stopped.
LEMMA RaiseType ==
    ASSUME NEW c, Raise(c)
    PROVE  engine' \in Engines /\ engine'.pc \in {"idle", "stopped"} /\ engine'.popped = 0
<1>1. engine' \in Engines
  BY Zenon, IdleType DEF Raise
<1>2. engine'.pc \in {"idle", "stopped"} /\ engine'.popped = 0
  BY DEF Raise, Idle
<1> QED
  BY Zenon, <1>1, <1>2

\* A future of a call reads one queue or all of them.
LEMMA MqsType ==
    ASSUME NEW c \in Calls
    PROVE  /\ ResponseMqs(c) \in Seq(Ranks)
           /\ executor.has_response_mqs => ResponseMqs(c) /= <<>>
<1>1. [i \in 1..world_size |-> i - 1] \in Seq(Ranks) /\ [i \in 1..world_size |-> i - 1] /= <<>>
  BY Numbers DEF Ranks
<1>2. c.output_rank \in Ranks \cup {None}
  BY ExecutorAssumption
<1> QED
  BY <1>1, <1>2 DEF ResponseMqs

\* A future that ends keeps what it has read.
LEMMA StateType ==
    ASSUME Typed, NEW i \in 1..MaxCalls, NEW st \in States, SetState(i, st)
    PROVE  future' \in [1..MaxCalls -> Futures] /\ engine' \in Engines
<1>1. future \in [1..MaxCalls -> Futures] /\ engine \in Engines
  BY DEF Typed
<1>2. [future[i] EXCEPT !.state = st] \in Futures
  BY <1>1 DEF Futures
<1>3. future' \in [1..MaxCalls -> Futures]
  BY <1>1, <1>2 DEF SetState
<1>4. [engine EXCEPT !.popped = 0] \in Engines
  BY <1>1, Numbers DEF Engines
<1> QED
  BY <1>3, <1>4 DEF SetState

\* The future that is waited for is still queued when none is being served.
LEMMA QueueNotEmpty ==
    ASSUME IInv, Waiting, engine.popped = 0
    PROVE  futures_queue /= <<>>
<1>1. Typed BY Typing DEF IInv
<1>2. engine.wanted \in 1..MaxCalls
  BY <1>1, Numbers DEF IInv, EnginePlace, Waiting, Typed
<1>3. future[engine.wanted].state = "pending"
  BY DEF Waiting
<1>4. \E k \in 1..Len(futures_queue) : futures_queue[k] = engine.wanted
  <2>1. \A i \in 1..MaxCalls : future[i].state = "pending" =>
          i = engine.popped \/ \E k \in 1..Len(futures_queue) : futures_queue[k] = i
    BY Zenon DEF IInv, ServedInOrder
  <2> QED BY <1>2, <1>3, <2>1
<1> QED
  BY <1>4

LEMMA TypeStep == IInv /\ [Next]_vars => TypeOK'
<1> SUFFICES ASSUME IInv, [Next]_vars PROVE Typed'
  BY Typing
<1>0. Typed
  BY Typing DEF IInv
<1>t. /\ log \in Seq(Calls) /\ Len(log) <= MaxCalls /\ MaxCalls \in Nat
      /\ futures_queue \in Seq(1..MaxCalls)
  BY <1>0, Numbers DEF Typed
<1> USE DEF Typed
<1>a. ASSUME engine' \in Engines, UNCHANGED <<rpc_vars, worker_vars, response_mq, future_vars, executor, closing>>
      PROVE  Typed'
  BY <1>0, <1>a DEF rpc_vars, worker_vars, future_vars
<1>1. ASSUME NEW c \in Calls, collective_rpc(c) PROVE Typed'
  BY Zenon, <1>a, <1>1, IdleType, RaiseType DEF collective_rpc
<1>2. ASSUME LoadQueue PROVE Typed'
  <2>1. [engine EXCEPT !.pc = "write"] \in Engines
    BY Zenon, <1>0 DEF Engines
  <2> QED BY <1>a, <1>2, <2>1, RaiseType DEF LoadQueue
<1>3. ASSUME enqueue PROVE Typed'
  <2>1. log' = Append(log, engine.call) /\ UNCHANGED <<received, gone>>
    BY <1>3 DEF enqueue, rpc!enqueue
  <2>2. engine.call \in Calls /\ Len(log) < MaxCalls
    BY <1>3 DEF enqueue, IInv, EnginePlace
  <2>3. log' \in Seq(Calls) /\ Len(log') <= MaxCalls
    <3> HIDE DEF Typed
    <3> QED BY <1>t, <2>1, <2>2
  <2>4. engine' \in Engines
    BY Zenon, <1>0, <1>3 DEF enqueue, Engines
  <2> QED BY <1>0, <1>3, <2>1, <2>3, <2>4 DEF enqueue, worker_vars, future_vars
<1>4. ASSUME MakeFuture PROVE Typed'
  <2>1. engine.call \in Calls /\ Len(log) \in 1..MaxCalls
    BY <1>0, <1>4, Numbers DEF MakeFuture, IInv, EnginePlace
  <2>2. ResponseMqs(engine.call) \in Seq(Ranks)
    BY <2>1, MqsType
  <2>3. [state |-> "pending", mqs |-> ResponseMqs(engine.call), responses |-> <<>>] \in Futures
    BY <2>2 DEF Futures, States
  <2>4. engine' \in Engines
    <3>1. Len(log) \in 0..MaxCalls
      BY <2>1
    <3> QED BY Zenon, <1>4, <3>1, IdleType, RaiseType DEF MakeFuture
  <2>5. CASE UNCHANGED future_vars
    BY <1>a, <1>4, <2>4, <2>5 DEF MakeFuture
  <2>6. CASE /\ future' = [future EXCEPT ![Len(log)] =
                              [state |-> "pending", mqs |-> ResponseMqs(engine.call), responses |-> <<>>]]
             /\ futures_queue' = Append(futures_queue, Len(log))
    <3>1. future' \in [1..MaxCalls -> Futures]
      BY <1>0, <2>1, <2>3, <2>6
    <3>2. futures_queue' \in Seq(1..MaxCalls)
      BY <1>0, <2>1, <2>6
    <3> QED BY <1>0, <1>4, <2>4, <3>1, <3>2 DEF MakeFuture, rpc_vars, worker_vars
  <2> QED BY <1>4, <2>5, <2>6 DEF MakeFuture
<1>5. ASSUME NEW i \in 1..Len(log), result(i) PROVE Typed'
  <2>1. i \in 0..MaxCalls
    BY <1>0, Numbers
  <2> QED BY Zenon, <1>a, <1>5, <2>1, IdleType DEF result
<1>6. ASSUME PopFuture PROVE Typed'
  <2>1. Head(futures_queue) \in 1..MaxCalls /\ Tail(futures_queue) \in Seq(1..MaxCalls)
    <3>1. futures_queue /= <<>>
      BY <1>6, QueueNotEmpty DEF PopFuture
    <3> HIDE DEF Typed
    <3> QED BY <1>t, <3>1
  <2>2. engine' \in Engines
    <3>1. Head(futures_queue) \in 0..MaxCalls BY <2>1
    <3> QED BY Zenon, <1>0, <1>6, <3>1 DEF PopFuture, Engines
  <2> QED BY <1>0, <1>6, <2>1, <2>2 DEF PopFuture, rpc_vars, worker_vars
<1>7. ASSUME Receive PROVE Typed'
  <2> DEFINE i == engine.popped
             w == NextMq(future[i])
  <2>1. i \in 1..MaxCalls /\ future[i] \in Futures /\ Len(future[i].responses) < Len(future[i].mqs)
    BY <1>0, <1>7, Numbers DEF Receive, Engines
  <2>2. w \in Ranks /\ response_mq[w] \in Seq(Answers) /\ response_mq[w] /= <<>>
    <3>1. w \in Ranks BY <2>1 DEF NextMq, Futures
    <3>2. response_mq[w] /= <<>> BY <1>7 DEF Receive
    <3> QED BY <1>0, <3>1, <3>2
  <2>3. response_mq' = [response_mq EXCEPT ![w] = Tail(@)]
    BY <1>7 DEF Receive
  <2>4. \/ future' = [future EXCEPT ![i].responses = Append(@, Head(response_mq[w]))] /\ engine' = engine
        \/ SetState(i, "error")
    BY <1>7 DEF Receive
  <2> HIDE DEF w, i
  <2>5. response_mq' \in [Ranks -> Seq(Answers)]
    BY <1>0, <2>2, <2>3
  <2>6. future' \in [1..MaxCalls -> Futures] /\ engine' \in Engines
    <3>1. CASE future' = [future EXCEPT ![i].responses = Append(@, Head(response_mq[w]))] /\ engine' = engine
      <4>1. Append(future[i].responses, Head(response_mq[w])) \in Seq(Answers)
        BY <2>1, <2>2 DEF Futures
      <4> QED BY Zenon, <1>0, <2>1, <3>1, <4>1 DEF Futures
    <3>2. CASE SetState(i, "error")
      BY <1>0, <2>1, <3>2, StateType DEF States
    <3> QED BY <2>4, <3>1, <3>2
  <2> QED BY <1>0, <1>7, <2>5, <2>6 DEF Receive, rpc_vars, worker_vars
<1>8. ASSUME NEW i \in 1..MaxCalls, NEW st \in States, SetState(i, st),
             UNCHANGED <<rpc_vars, worker_vars, response_mq, futures_queue, executor, closing>>
      PROVE  Typed'
  BY <1>0, <1>8, StateType DEF rpc_vars, worker_vars
<1>9. ASSUME GiveUp PROVE Typed'
  <2>1. engine.popped \in 1..MaxCalls BY <1>0, <1>9, Numbers DEF GiveUp, Engines
  <2> QED BY <1>8, <1>9, <2>1 DEF GiveUp, States
<1>10. ASSUME SetResult PROVE Typed'
  <2>1. engine.popped \in 1..MaxCalls BY <1>0, <1>10, Numbers DEF SetResult, Engines
  <2> QED BY <1>8, <1>10, <2>1 DEF SetResult, States
<1>11. ASSUME Return PROVE Typed'
  BY Zenon, <1>a, <1>11, IdleType, RaiseType DEF Return
<1>12. ASSUME Stop PROVE Typed'
  <2>1. engine' \in Engines BY Zenon, <1>0, <1>12 DEF Stop, Engines
  <2> QED BY <1>a, <1>12, <2>1 DEF Stop
<1>13. ASSUME NEW w \in Ranks, Dequeue(w) PROVE Typed'
  <2>1. /\ Len(received[w]) < Len(log) /\ UNCHANGED <<log, gone>>
        /\ received' = [received EXCEPT ![w] = Append(@, log[Len(@) + 1])]
    BY <1>13 DEF Dequeue, rpc!dequeue
  <2>2. received' \in [Ranks -> Seq(Calls)]
    <3>1. received[w] \in Seq(Calls) /\ log[Len(received[w]) + 1] \in Calls BY <1>0, <2>1
    <3>2. Append(received[w], log[Len(received[w]) + 1]) \in Seq(Calls) BY <3>1
    <3> QED BY <1>0, <2>1, <3>2
  <2>3. worker' \in [Ranks -> {"loop", "call", "dead"}]
    BY <1>0, <1>13 DEF Dequeue
  <2> QED BY <1>0, <1>13, <2>1, <2>2, <2>3 DEF Dequeue, future_vars
<1>14. ASSUME NEW w \in Ranks, execute_worker_rpc(w) PROVE Typed'
  <2> DEFINE n == Len(received[w])
  <2>1. n \in 1..MaxCalls
    <3>1. worker[w] = "call"
      BY <1>14 DEF execute_worker_rpc
    <3>2. received[w] \in Seq(Calls)
      BY <1>0
    <3>3. Len(received[w]) <= Len(log) /\ (worker[w] = "call" => Len(received[w]) > 0)
      BY DEF IInv, AnswersInOrder, AnswersOK
    <3> HIDE DEF Typed
    <3> QED BY <1>t, <3>1, <3>2, <3>3
  <2>2. \A b \in BOOLEAN : [call |-> n, rank |-> w, success |-> b] \in Answers
    BY <2>1 DEF Answers
  <2>3. \/ \E b \in BOOLEAN : handle_output(w, [call |-> n, rank |-> w, success |-> b])
        \/ UNCHANGED <<async_output_queue, response_mq>>
    BY <1>14 DEF execute_worker_rpc
  <2> HIDE DEF n
  <2>4. async_output_queue' \in [Ranks -> Seq(Answers)] /\ response_mq' \in [Ranks -> Seq(Answers)]
    <3>1. CASE UNCHANGED <<async_output_queue, response_mq>> BY <1>0, <3>1
    <3>2. ASSUME NEW b \in BOOLEAN, handle_output(w, [call |-> n, rank |-> w, success |-> b])
          PROVE  async_output_queue' \in [Ranks -> Seq(Answers)] /\ response_mq' \in [Ranks -> Seq(Answers)]
      <4>1. \A q \in Seq(Answers) : Append(q, [call |-> n, rank |-> w, success |-> b]) \in Seq(Answers)
        BY <2>2
      <4>2. \A f \in [Ranks -> Seq(Answers)] :
               [f EXCEPT ![w] = Append(@, [call |-> n, rank |-> w, success |-> b])] \in [Ranks -> Seq(Answers)]
        BY <4>1
      <4>3. CASE use_async_scheduling
        BY Zenon, <1>0, <3>2, <4>2, <4>3 DEF handle_output
      <4>4. CASE ~ use_async_scheduling
        BY Zenon, <1>0, <3>2, <4>2, <4>4 DEF handle_output
      <4> QED BY <4>3, <4>4
    <3> QED BY Zenon, <2>3, <3>1, <3>2
  <2>5. worker' \in [Ranks -> {"loop", "call", "dead"}]
    BY <1>0, <1>14 DEF execute_worker_rpc
  <2> QED BY Zenon, <1>0, <1>14, <2>4, <2>5 DEF execute_worker_rpc, rpc_vars, future_vars
<1>15. ASSUME NEW w \in Ranks, async_output(w) PROVE Typed'
  <2> DEFINE a == Head(async_output_queue[w])
  <2>1. a \in Answers /\ async_output_queue[w] /= <<>>
    BY <1>0, <1>15 DEF async_output
  <2>2. a.success \in BOOLEAN /\ \A b \in BOOLEAN : [a EXCEPT !.success = b] \in Answers
    BY <2>1 DEF Answers
  <2>3. \E b \in BOOLEAN : response_mq' = [response_mq EXCEPT ![w] = Append(@, [a EXCEPT !.success = b])]
    BY Zenon, <1>15, <2>2 DEF async_output
  <2> HIDE DEF a
  <2>4. response_mq' \in [Ranks -> Seq(Answers)]
    BY <1>0, <2>2, <2>3
  <2>5. async_output_queue' \in [Ranks -> Seq(Answers)]
    BY <1>0, <1>15, <2>1 DEF async_output
  <2> QED BY <1>0, <1>15, <2>4, <2>5 DEF async_output, rpc_vars, future_vars
<1>16. ASSUME NEW w \in Ranks, Exit(w) PROVE Typed'
  <2>1. gone' \subseteq Ranks /\ UNCHANGED <<log, received>>
    BY <1>0, <1>16 DEF Exit, rpc!leave
  <2>2. worker' \in [Ranks -> {"loop", "call", "dead"}]
    BY <1>0, <1>16 DEF Exit
  <2> QED BY <1>0, <1>16, <2>1, <2>2 DEF Exit, future_vars
<1>17. ASSUME NEW w \in Ranks, Crash(w) PROVE Typed'
  <2>1. worker' \in [Ranks -> {"loop", "call", "dead"}]
    BY <1>0, <1>17 DEF Crash
  <2> QED BY <1>0, <1>17, <2>1 DEF Crash, rpc_vars, future_vars
<1>18. ASSUME monitor_workers PROVE Typed'
  BY Zenon, <1>0, <1>18 DEF Executors, monitor_workers, rpc_vars, worker_vars, future_vars, Threads
<1>19. ASSUME NEW t \in Threads, shutdown(t) PROVE Typed'
  <2>1. CASE BeginShutdown(t)
    BY Zenon, <1>0, <2>1 DEF Executors, BeginShutdown, rpc_vars, worker_vars, future_vars
  <2>2. CASE ensure_worker_termination(t)
    BY Zenon, <1>0, <2>2 DEF Executors, ensure_worker_termination, rpc_vars, future_vars
  <2>3. CASE CloseRpcMq(t)
    BY Zenon, <1>0, <2>3 DEF Executors, CloseRpcMq, rpc_vars, worker_vars, future_vars
  <2>4. CASE DropResponseMqs(t)
    BY Zenon, <1>0, <2>4 DEF Executors, DropResponseMqs, rpc_vars, worker_vars, future_vars
  <2> QED BY <1>19, <2>1, <2>2, <2>3, <2>4 DEF shutdown
<1>20. CASE UNCHANGED vars
  BY <1>0, <1>20 DEF vars
<1> QED
  BY <1>1, <1>2, <1>3, <1>4, <1>5, <1>6, <1>7, <1>9, <1>10, <1>11, <1>12, <1>13, <1>14,
     <1>15, <1>16, <1>17, <1>18, <1>19, <1>20 DEF Next, InCall, Serving

------------------------------------------------------------------------------
(***************************************************************************)
(* What the steps do to the futures and to the answers                     *)
(***************************************************************************)

\* The engine thread moves, between calls or before it has sent one.
BetweenCalls ==
    /\ engine.popped = 0 /\ engine'.popped = 0
    /\ engine.pc /= "reply" /\ engine'.pc /= "reply"
    /\ UNCHANGED <<rpc_vars, worker_vars, response_mq, future_vars, executor, closing>>

EngineMoves ==
    /\ \/ \E c \in Calls : collective_rpc(c)
       \/ \E i \in 1..Len(log) : result(i)
       \/ LoadQueue \/ Return \/ Stop
    /\ BetweenCalls

\* The future that is served takes an answer.
AnswerTaken(i, w) ==
    /\ Len(future[i].responses) < Len(future[i].mqs) /\ w = NextMq(future[i])
    /\ response_mq[w] /= <<>> /\ response_mq' = [response_mq EXCEPT ![w] = Tail(@)]
    /\ future' = [future EXCEPT ![i].responses = Append(@, Head(response_mq[w]))]
    /\ UNCHANGED <<rpc_vars, worker_vars, futures_queue, engine, executor, closing>>

\* The future that is served ends; a failure takes an answer or none.
FutureEnds(i, st) ==
    /\ SetState(i, st)
    /\ st = "result" => /\ Len(future[i].responses) = Len(future[i].mqs)
                        /\ UNCHANGED response_mq
    /\ \/ UNCHANGED response_mq
       \/ \E w \in Ranks : response_mq[w] /= <<>> /\ response_mq' = [response_mq EXCEPT ![w] = Tail(@)]
    /\ UNCHANGED <<rpc_vars, worker_vars, futures_queue, executor, closing>>

\* Workers die, the executor shuts down, or nothing happens.
OthersMove ==
    /\ UNCHANGED <<log, received, async_output_queue, response_mq, future_vars, engine>>
    /\ \A w \in Ranks : worker'[w] \in {worker[w], "dead"}
    /\ executor'.has_response_mqs => executor.has_response_mqs

LEMMA Kinds ==
    ASSUME IInv, [Next]_vars
    PROVE  \/ enqueue \/ MakeFuture \/ PopFuture \/ EngineMoves \/ OthersMove
           \/ \E i \in 1..MaxCalls :
                 /\ i = engine.popped
                 /\ \/ \E w \in Ranks : AnswerTaken(i, w)
                    \/ \E st \in {"result", "error"} : FutureEnds(i, st)
           \/ \E w \in Ranks : Dequeue(w) \/ execute_worker_rpc(w) \/ async_output(w)
<1>0. Typed
  BY Typing DEF IInv
<1>1. engine.pc /= "wait" => engine.popped = 0
  BY DEF IInv, EnginePlace
<1>2. engine.pc = "wait" /\ future[engine.wanted].state /= "pending" => engine.popped = 0
  BY DEF IInv, EnginePlace
<1>3. engine.popped /= 0 => engine.popped \in 1..MaxCalls
  BY <1>0, Numbers DEF Typed, Engines
<1>4. ASSUME NEW c \in Calls, collective_rpc(c) PROVE BetweenCalls
  <2>1. engine.pc = "idle" BY <1>4 DEF collective_rpc
  <2>2. engine'.popped = 0 /\ engine'.pc /= "reply"
    <3>1. CASE Raise(c) BY <3>1, RaiseType
    <3>2. CASE engine' = [Idle EXCEPT !.pc = "send", !.call = c] BY <3>2 DEF Idle
    <3> QED BY <1>4, <3>1, <3>2 DEF collective_rpc
  <2> QED BY <1>1, <1>4, <2>1, <2>2 DEF collective_rpc, BetweenCalls
<1>5. ASSUME LoadQueue PROVE BetweenCalls
  <2>1. engine.pc = "send" BY <1>5 DEF LoadQueue
  <2>2. engine'.popped = 0 /\ engine'.pc /= "reply"
    <3>1. CASE Raise(engine.call) BY <3>1, RaiseType
    <3>2. CASE engine' = [engine EXCEPT !.pc = "write"]
      BY <1>0, <1>1, <2>1, <3>2 DEF Typed, Engines
    <3> QED BY <1>5, <3>1, <3>2 DEF LoadQueue
  <2> QED BY <1>1, <1>5, <2>1, <2>2 DEF LoadQueue, BetweenCalls
<1>6. ASSUME NEW i \in 1..Len(log), result(i) PROVE BetweenCalls
  <2>1. engine.pc = "idle" BY <1>6 DEF result
  <2>2. engine'.popped = 0 /\ engine'.pc /= "reply" BY <1>6 DEF result, Idle
  <2> QED BY <1>1, <1>6, <2>1, <2>2 DEF result, BetweenCalls
<1>7. ASSUME Return PROVE BetweenCalls
  <2>1. engine.pc = "wait" /\ engine.popped = 0 BY <1>2, <1>7 DEF Return
  <2>2. engine'.popped = 0 /\ engine'.pc /= "reply"
    <3>1. CASE Raise(log[engine.wanted]) BY <3>1, RaiseType
    <3>2. CASE engine' = Idle BY <3>2 DEF Idle
    <3> QED BY <1>7, <3>1, <3>2 DEF Return
  <2> QED BY <1>7, <2>1, <2>2 DEF Return, BetweenCalls
<1>8. ASSUME Stop PROVE BetweenCalls
  <2>1. engine.pc = "idle" BY <1>8 DEF Stop
  <2>2. engine'.popped = 0 /\ engine'.pc /= "reply"
    BY <1>0, <1>1, <1>8, <2>1 DEF Stop, Typed, Engines
  <2> QED BY <1>1, <1>8, <2>1, <2>2 DEF Stop, BetweenCalls
<1>9. ASSUME Receive
      PROVE  engine.popped \in 1..MaxCalls /\ \/ \E w \in Ranks : AnswerTaken(engine.popped, w)
                                              \/ FutureEnds(engine.popped, "error")
  <2> DEFINE i == engine.popped
             w == NextMq(future[i])
  <2>1. i \in 1..MaxCalls BY <1>3, <1>9 DEF Receive
  <2>2. /\ Len(future[i].responses) < Len(future[i].mqs) /\ response_mq[w] /= <<>>
        /\ response_mq' = [response_mq EXCEPT ![w] = Tail(@)]
        /\ UNCHANGED <<rpc_vars, worker_vars, futures_queue, executor, closing>>
        /\ \/ future' = [future EXCEPT ![i].responses = Append(@, Head(response_mq[w]))] /\ UNCHANGED engine
           \/ SetState(i, "error")
    BY <1>9 DEF Receive
  <2>3. w \in Ranks
    <3>1. future[i] \in Futures BY <1>0, <2>1 DEF Typed
    <3>2. future[i].mqs \in Seq(Ranks) /\ future[i].responses \in Seq(Answers)
      BY <3>1 DEF Futures
    <3> HIDE DEF i
    <3>3. \A q \in Seq(Ranks), r \in Seq(Answers) : Len(r) < Len(q) => q[Len(r) + 1] \in Ranks
      OBVIOUS
    <3> QED BY Zenon, <2>2, <3>2, <3>3 DEF NextMq
  <2>4. CASE future' = [future EXCEPT ![i].responses = Append(@, Head(response_mq[w]))] /\ UNCHANGED engine
    <3>1. AnswerTaken(i, w) BY <2>2, <2>4 DEF AnswerTaken
    <3> QED BY <2>1, <2>3, <3>1
  <2>5. CASE SetState(i, "error")
    <3>1. FutureEnds(i, "error") BY Zenon, <2>2, <2>3, <2>5 DEF FutureEnds
    <3> QED BY <2>1, <3>1
  <2> QED BY <2>2, <2>4, <2>5
<1>10. ASSUME GiveUp PROVE engine.popped \in 1..MaxCalls /\ FutureEnds(engine.popped, "error")
  BY <1>3, <1>10 DEF GiveUp, FutureEnds
<1>11. ASSUME SetResult
       PROVE  engine.popped \in 1..MaxCalls /\ \E st \in {"result", "error"} : FutureEnds(engine.popped, st)
  <2>1. PICK st \in {"result", "error"} : SetState(engine.popped, st)
    BY <1>11 DEF SetResult
  <2>2. FutureEnds(engine.popped, st)
    BY <1>11, <2>1 DEF SetResult, FutureEnds
  <2> QED BY <1>3, <1>11, <2>2 DEF SetResult
<1>12. ASSUME NEW w \in Ranks, Exit(w) \/ Crash(w) PROVE OthersMove
  <2>1. worker' = [worker EXCEPT ![w] = "dead"] /\ UNCHANGED <<log, received, async_output_queue,
                                                   response_mq, future_vars, engine, executor>>
    BY <1>12 DEF Exit, Crash, rpc!leave, rpc_vars
  <2>2. \A v \in Ranks : worker'[v] \in {worker[v], "dead"}
    BY <1>0, <2>1 DEF Typed
  <2> QED BY <2>1, <2>2 DEF OthersMove
<1>13. ASSUME monitor_workers PROVE OthersMove
  <2>1. executor'.has_response_mqs = executor.has_response_mqs
    BY <1>0, <1>13 DEF monitor_workers, Typed, Executors
  <2> QED BY <1>13, <2>1 DEF monitor_workers, OthersMove, rpc_vars, worker_vars
<1>14. ASSUME NEW t \in Threads, shutdown(t) PROVE OthersMove
  <2>1. executor'.has_response_mqs => executor.has_response_mqs
    BY Zenon, <1>0, <1>14 DEF shutdown, BeginShutdown, ensure_worker_termination, CloseRpcMq, DropResponseMqs,
       Typed, Executors
  <2>2. UNCHANGED <<log, received, async_output_queue, response_mq, future_vars, engine>>
    BY Zenon, <1>14 DEF shutdown, BeginShutdown, ensure_worker_termination, CloseRpcMq, DropResponseMqs,
       rpc_vars, worker_vars
  <2>3. \A w \in Ranks : worker'[w] \in {worker[w], "dead"}
    BY Zenon, <1>0, <1>14 DEF shutdown, BeginShutdown, ensure_worker_termination, CloseRpcMq, DropResponseMqs,
       worker_vars
  <2> QED BY <2>1, <2>2, <2>3 DEF OthersMove
<1>15. CASE UNCHANGED vars
  <2>1. OthersMove BY <1>0, <1>15 DEF vars, OthersMove, future_vars
  <2> QED BY <2>1
<1>16. CASE Next
  <2>1. CASE InCall
    BY Zenon, <1>5, <1>7, <1>9, <1>10, <1>11, <2>1 DEF InCall, EngineMoves
  <2>2. CASE \E w \in Ranks : Serving(w) \/ async_output(w) \/ Exit(w) \/ Crash(w)
    BY Zenon, <1>12, <2>2 DEF Serving
  <2> QED BY Zenon, <1>4, <1>6, <1>8, <1>13, <1>14, <1>16, <2>1, <2>2 DEF Next, EngineMoves
<1> QED
  BY <1>15, <1>16

------------------------------------------------------------------------------
(***************************************************************************)
(* What becomes of a future                                                *)
(***************************************************************************)

\* The future of a call is made once, when its call is the last one.
LEMMA MakeEffect ==
    ASSUME IInv, MakeFuture
    PROVE  /\ Len(log) \in 1..MaxCalls /\ engine.popped = 0 /\ engine'.popped = 0
           /\ engine'.pc /= "reply" /\ engine.call = log[Len(log)] /\ engine.call \in Calls
           /\ UNCHANGED <<rpc_vars, worker_vars, response_mq, executor, closing>>
           /\ \/ UNCHANGED future_vars /\ ~ executor.has_response_mqs
                 /\ engine'.pc \in {"idle", "stopped"}
              \/ /\ futures_queue' = Append(futures_queue, Len(log))
                 /\ DOMAIN future' = 1..MaxCalls
                 /\ future'[Len(log)].state = "pending" /\ future'[Len(log)].responses = <<>>
                 /\ future'[Len(log)].mqs = ResponseMqs(engine.call)
                 /\ \A j \in 1..MaxCalls : j /= Len(log) => future'[j] = future[j]
                 /\ engine' \in {Idle, [Idle EXCEPT !.pc = "wait", !.wanted = Len(log)]}
<1>0. Typed
  BY Typing DEF IInv
<1>1. engine.pc = "reply" /\ Len(log) > 0 /\ engine.call = log[Len(log)] /\ engine.call \in Calls
  BY DEF IInv, EnginePlace, MakeFuture
<1>2. Len(log) \in 1..MaxCalls
  BY <1>0, <1>1, Numbers DEF Typed
<1>3. engine.popped = 0
  BY <1>1 DEF IInv, EnginePlace
<1>4. UNCHANGED <<rpc_vars, worker_vars, response_mq, executor, closing>>
  BY DEF MakeFuture
<1>5. CASE ResponseMqs(engine.call) = <<>> /\ engine.call.output_rank /= None
  <2>1. Raise(engine.call) /\ UNCHANGED future_vars
    BY <1>5 DEF MakeFuture
  <2>2. engine'.pc \in {"idle", "stopped"} /\ engine'.popped = 0
    BY <2>1, RaiseType
  <2>3. ~ executor.has_response_mqs
    BY <1>1, <1>5, MqsType
  <2> QED BY <1>1, <1>2, <1>3, <1>4, <2>1, <2>2, <2>3
<1>6. CASE ~ (ResponseMqs(engine.call) = <<>> /\ engine.call.output_rank /= None)
  <2>1. /\ future' = [future EXCEPT ![Len(log)] =
                        [state |-> "pending", mqs |-> ResponseMqs(engine.call), responses |-> <<>>]]
        /\ futures_queue' = Append(futures_queue, Len(log))
        /\ engine' \in {Idle, [Idle EXCEPT !.pc = "wait", !.wanted = Len(log)]}
    BY <1>6 DEF MakeFuture
  <2>2. engine'.popped = 0 /\ engine'.pc /= "reply"
    <3>1. CASE engine' = Idle BY <3>1 DEF Idle
    <3>2. CASE engine' = [Idle EXCEPT !.pc = "wait", !.wanted = Len(log)] BY <3>2 DEF Idle
    <3> QED BY <2>1, <3>1, <3>2
  <2>3. /\ DOMAIN future' = 1..MaxCalls
        /\ future'[Len(log)] = [state |-> "pending", mqs |-> ResponseMqs(engine.call), responses |-> <<>>]
        /\ \A j \in 1..MaxCalls : j /= Len(log) => future'[j] = future[j]
    BY <1>0, <1>2, <2>1 DEF Typed
  <2> QED BY <1>1, <1>2, <1>3, <1>4, <2>1, <2>2, <2>3
<1> QED
  BY <1>5, <1>6

\* The future that is served gets one more answer, from the queue it waits on.
LEMMA TakenEffect ==
    ASSUME IInv, NEW i \in 1..MaxCalls, i = engine.popped, NEW w \in Ranks, AnswerTaken(i, w)
    PROVE  /\ DOMAIN future' = 1..MaxCalls
           /\ future'[i].state = "pending" /\ future[i].state = "pending"
           /\ future'[i].mqs = future[i].mqs
           /\ future'[i].responses = Append(future[i].responses, Head(response_mq[w]))
           /\ \A j \in 1..MaxCalls : j /= i => future'[j] = future[j]
<1>1. Typed
  BY Typing DEF IInv
<1>2. future \in [1..MaxCalls -> Futures] /\ future[i] \in Futures
  BY <1>1 DEF Typed
<1>3. future' = [future EXCEPT ![i] =
         [future[i] EXCEPT !.responses = Append(future[i].responses, Head(response_mq[w]))]]
  BY DEF AnswerTaken
<1>4. engine.popped /= 0
  OBVIOUS
<1>5. future[i].state = "pending"
  BY <1>4 DEF IInv, EnginePlace
<1>6. /\ DOMAIN future' = 1..MaxCalls /\ \A j \in 1..MaxCalls : j /= i => future'[j] = future[j]
      /\ future'[i] = [future[i] EXCEPT !.responses = Append(future[i].responses, Head(response_mq[w]))]
  BY <1>2, <1>3
<1> QED
  BY Zenon, <1>2, <1>5, <1>6 DEF Futures

\* The future that is served keeps what it has when it ends.
LEMMA EndsEffect ==
    ASSUME IInv, NEW i \in 1..MaxCalls, i = engine.popped, NEW st, FutureEnds(i, st)
    PROVE  /\ DOMAIN future' = 1..MaxCalls
           /\ future'[i].state = st /\ future[i].state = "pending"
           /\ future'[i].mqs = future[i].mqs /\ future'[i].responses = future[i].responses
           /\ \A j \in 1..MaxCalls : j /= i => future'[j] = future[j]
           /\ engine.pc = "wait" /\ future[engine.wanted].state = "pending"
           /\ engine'.pc = "wait" /\ engine'.wanted = engine.wanted /\ engine'.popped = 0
<1>1. Typed
  BY Typing DEF IInv
<1>2. future \in [1..MaxCalls -> Futures] /\ future[i] \in Futures /\ engine \in Engines
  BY <1>1 DEF Typed
<1>3. future' = [future EXCEPT ![i] = [future[i] EXCEPT !.state = st]]
  BY DEF FutureEnds, SetState
<1>4. engine' = [engine EXCEPT !.popped = 0]
  BY DEF FutureEnds, SetState
<1>5. engine.pc = "wait" /\ future[engine.wanted].state = "pending" /\ future[i].state = "pending"
  BY DEF IInv, EnginePlace
<1>6. /\ DOMAIN future' = 1..MaxCalls /\ \A j \in 1..MaxCalls : j /= i => future'[j] = future[j]
      /\ future'[i] = [future[i] EXCEPT !.state = st]
  BY <1>2, <1>3
<1>7. engine'.pc = "wait" /\ engine'.wanted = engine.wanted /\ engine'.popped = 0
  BY <1>2, <1>4, <1>5 DEF Engines
<1> QED
  BY Zenon, <1>2, <1>5, <1>6, <1>7 DEF Futures

------------------------------------------------------------------------------
(***************************************************************************)
(* Every step preserves the invariant                                      *)
(***************************************************************************)

LEMMA ShutdownStep == IInv /\ [Next]_vars => ShutdownOrder'
<1> SUFFICES ASSUME IInv, [Next]_vars PROVE ShutdownOrder'
  OBVIOUS
<1>0. Typed /\ ShutdownOrder
  BY Typing DEF IInv
<1>1. \/ UNCHANGED <<executor, closing>> \/ monitor_workers \/ \E t \in Threads : shutdown(t)
  <2>1. CASE UNCHANGED vars BY <2>1 DEF vars
  <2>2. CASE InCall
    BY Zenon, <2>2 DEF InCall, LoadQueue, enqueue, MakeFuture, PopFuture, Receive, GiveUp, SetResult, Return
  <2>3. ASSUME NEW w \in Ranks, Serving(w) \/ async_output(w) \/ Exit(w) \/ Crash(w)
        PROVE  UNCHANGED <<executor, closing>>
    BY Zenon, <2>3 DEF Serving, Dequeue, execute_worker_rpc, async_output, Exit, Crash
  <2>4. ASSUME NEW c \in Calls, collective_rpc(c) PROVE UNCHANGED <<executor, closing>>
    BY <2>4 DEF collective_rpc
  <2>5. ASSUME NEW i \in 1..Len(log), result(i) PROVE UNCHANGED <<executor, closing>>
    BY <2>5 DEF result
  <2>6. CASE Stop BY <2>6 DEF Stop
  <2>7. CASE Next
    BY Zenon, <2>2, <2>3, <2>4, <2>5, <2>6, <2>7 DEF Next
  <2> QED BY <2>1, <2>7
<1>2. closing \in [Threads -> {"no", "begin", "terminate", "close", "drop", "done"}] /\ executor \in Executors
  BY <1>0 DEF Typed
<1>3. CASE UNCHANGED <<executor, closing>>
  BY <1>0, <1>3 DEF ShutdownOrder
<1>4. CASE monitor_workers
  BY <1>0, <1>2, <1>4 DEF ShutdownOrder, monitor_workers, Executors, Threads
<1>5. ASSUME NEW t \in Threads, BeginShutdown(t) PROVE ShutdownOrder'
  BY <1>0, <1>2, <1>5 DEF ShutdownOrder, BeginShutdown, Executors, Threads
<1>6. ASSUME NEW t \in Threads, ensure_worker_termination(t) PROVE ShutdownOrder'
  BY <1>0, <1>2, <1>6 DEF ShutdownOrder, ensure_worker_termination, Executors, Threads
<1>7. ASSUME NEW t \in Threads, CloseRpcMq(t) PROVE ShutdownOrder'
  BY <1>0, <1>2, <1>7 DEF ShutdownOrder, CloseRpcMq, Executors, Threads
<1>8. ASSUME NEW t \in Threads, DropResponseMqs(t) PROVE ShutdownOrder'
  BY <1>0, <1>2, <1>8 DEF ShutdownOrder, DropResponseMqs, Executors, Threads
<1> QED
  BY Zenon, <1>1, <1>3, <1>4, <1>5, <1>6, <1>7, <1>8 DEF shutdown

\* The call of a future that is made is not lost when others are made.
LEMMA EnqueueEffect ==
    ASSUME IInv, enqueue
    PROVE  /\ engine.pc = "write" /\ engine.call \in Calls /\ engine.popped = 0
           /\ Len(log) \in Nat /\ Len(log) < MaxCalls
           /\ log' = Append(log, engine.call) /\ Len(log') = Len(log) + 1
           /\ log'[Len(log) + 1] = engine.call /\ \A j \in 1..Len(log) : log'[j] = log[j]
           /\ engine'.pc = "reply" /\ engine'.call = engine.call /\ engine'.popped = 0
           /\ UNCHANGED <<received, gone, worker_vars, response_mq, future_vars, executor, closing>>
<1>1. Typed
  BY Typing DEF IInv
<1>2. /\ engine.pc = "write" /\ engine' = [engine EXCEPT !.pc = "reply"]
      /\ UNCHANGED <<worker_vars, response_mq, future_vars, executor, closing>>
  BY DEF enqueue
<1>3. log' = Append(log, engine.call) /\ UNCHANGED <<received, gone>>
  BY DEF enqueue, rpc!enqueue
<1>4. engine.call \in Calls /\ engine.popped = 0 /\ Len(log) < MaxCalls
  BY <1>2 DEF IInv, EnginePlace
<1>5. log \in Seq(Calls)
  BY <1>1 DEF Typed
<1>6. /\ Len(log) \in Nat /\ Len(log') = Len(log) + 1
      /\ log'[Len(log) + 1] = engine.call /\ \A j \in 1..Len(log) : log'[j] = log[j]
  BY <1>3, <1>4, <1>5
<1>7. engine'.pc = "reply" /\ engine'.call = engine.call /\ engine'.popped = 0
  BY <1>1, <1>2, <1>4 DEF Typed, Engines
<1> QED
  BY <1>2, <1>3, <1>4, <1>6, <1>7

\* The oldest future of the queue becomes the one that is served.
LEMMA PopEffect ==
    ASSUME IInv, PopFuture
    PROVE  /\ engine.pc = "wait" /\ future[engine.wanted].state = "pending"
           /\ futures_queue \in Seq(1..MaxCalls) /\ futures_queue /= <<>>
           /\ Head(futures_queue) \in 1..MaxCalls /\ futures_queue' = Tail(futures_queue)
           /\ engine'.pc = "wait" /\ engine'.wanted = engine.wanted
           /\ engine'.popped = Head(futures_queue)
           /\ UNCHANGED <<rpc_vars, worker_vars, response_mq, future, executor, closing>>
<1>1. engine \in Engines /\ futures_queue \in Seq(1..MaxCalls)
  BY Typing DEF IInv, Typed
<1>2. /\ engine.pc = "wait" /\ future[engine.wanted].state = "pending" /\ engine.popped = 0
      /\ engine' = [engine EXCEPT !.popped = Head(futures_queue)]
      /\ futures_queue' = Tail(futures_queue)
      /\ UNCHANGED <<rpc_vars, worker_vars, response_mq, future, executor, closing>>
  BY DEF PopFuture, Waiting
<1>3. futures_queue /= <<>>
  BY <1>2, QueueNotEmpty DEF Waiting
<1>4. Head(futures_queue) \in 1..MaxCalls
  BY Zenon, <1>1, <1>3, HeadTail
<1>5. engine'.pc = "wait" /\ engine'.wanted = engine.wanted /\ engine'.popped = Head(futures_queue)
  BY <1>1, <1>2 DEF Engines
<1> QED
  BY <1>1, <1>2, <1>3, <1>4, <1>5

LEMMA FuturesStep == IInv /\ [Next]_vars => FuturesMade'
<1> SUFFICES ASSUME IInv, [Next]_vars PROVE FuturesMade'
  OBVIOUS
<1>0. Typed /\ FuturesMade
  BY Typing DEF IInv
<1>1. future \in [1..MaxCalls -> Futures] /\ Len(log) \in Nat /\ Len(log) <= MaxCalls /\ MaxCalls \in Nat
  BY <1>0, Numbers DEF Typed
<1>2. /\ \A j \in 1..MaxCalls : FutureOK(j)
      /\ executor.has_response_mqs => \A j \in 1..Len(log) : Made(j) => future[j].mqs /= <<>>
      /\ \A i \in 1..MaxCalls : future[i].mqs /= <<>> => \A j \in 1..(i - 1) : future[j].mqs /= <<>>
  BY <1>0 DEF FuturesMade
<1>3. ASSUME UNCHANGED <<log, future>>, engine'.pc = "reply" <=> engine.pc = "reply",
             executor'.has_response_mqs => executor.has_response_mqs
      PROVE  FuturesMade'
  <2>1. \A j : (Made(j)' <=> Made(j)) /\ AllMqs(j)' = AllMqs(j)
    BY <1>3 DEF Made, AllMqs
  <2>2. ASSUME NEW j \in 1..MaxCalls PROVE FutureOK(j)'
    BY Zenon, <1>2, <1>3, <2>1 DEF FutureOK
  <2> QED BY Zenon, <1>2, <1>3, <2>1, <2>2 DEF FuturesMade
<1>4. CASE enqueue
  <2>1. /\ engine.pc = "write" /\ Len(log') = Len(log) + 1 /\ engine'.pc = "reply"
        /\ \A j \in 1..Len(log) : log'[j] = log[j]
        /\ UNCHANGED <<future, executor>>
    BY <1>4, EnqueueEffect DEF future_vars
  <2>2. \A j \in 1..Len(log) : Made(j) /\ Made(j)' /\ AllMqs(j)' = AllMqs(j)
    BY <1>1, <2>1 DEF Made, AllMqs
  <2>3. \A j \in 1..Len(log) : j \in 1..Len(log')
    BY <1>1, <2>1
  <2>4. \A j \in 1..Len(log') : Made(j)' => j \in 1..Len(log)
    BY <1>1, <2>1 DEF Made
  <2>5. ASSUME NEW j \in 1..MaxCalls PROVE FutureOK(j)'
    BY Zenon, <1>2, <2>1, <2>2, <2>3 DEF FutureOK
  <2> QED BY Zenon, <1>2, <2>1, <2>2, <2>4, <2>5 DEF FuturesMade
<1>5. CASE MakeFuture
  <2>0. PICK n \in 1..MaxCalls : n = Len(log)
    BY <1>5, MakeEffect
  <2>1. /\ engine.pc = "reply" /\ engine'.pc /= "reply"
        /\ UNCHANGED <<log, executor>>
        /\ engine.call = log[n] /\ engine.call \in Calls
    BY <1>5, <2>0, MakeEffect DEF MakeFuture, rpc_vars
  <2>2. \A j \in 1..n : /\ Made(j)' /\ AllMqs(j)' = AllMqs(j) /\ (j /= n => Made(j))
                         /\ j \in 1..Len(log')
    BY <1>1, <2>0, <2>1 DEF Made, AllMqs
  <2>3. ~ Made(n)
    BY <2>0, <2>1 DEF Made
  <2>4. CASE UNCHANGED future_vars /\ ~ executor.has_response_mqs
    <3>1. ASSUME NEW j \in 1..MaxCalls PROVE FutureOK(j)'
      BY Zenon, <1>2, <2>0, <2>2, <2>4 DEF FutureOK, future_vars
    <3> QED BY Zenon, <1>2, <2>1, <2>4, <3>1 DEF FuturesMade, future_vars
  <2>5. CASE /\ future'[n].state = "pending" /\ future'[n].responses = <<>>
             /\ future'[n].mqs = ResponseMqs(engine.call)
             /\ \A j \in 1..MaxCalls : j /= n => future'[j] = future[j]
    <3>1. /\ ResponseMqs(engine.call) \in Seq(Ranks)
          /\ executor.has_response_mqs => ResponseMqs(engine.call) /= <<>>
      BY <2>1, MqsType
    <3>2. ResponseMqs(engine.call) /= <<>> =>
             executor.has_response_mqs /\ ResponseMqs(engine.call) = AllMqs(n)
      BY <2>1 DEF ResponseMqs, AllMqs
    <3>3. FutureOK(n)'
      <4>1. Len(future'[n].responses) <= Len(future'[n].mqs)
        BY <2>5, <3>1
      <4>2. n \in 1..n
        OBVIOUS
      <4>3. n \in 1..Len(log') /\ Made(n)' /\ (future'[n].mqs /= <<>> => future'[n].mqs = AllMqs(n)')
        BY Zenon, <2>2, <2>5, <3>2, <4>2
      <4>4. future'[n].state /= "none" /\ future'[n].state /= "result"
        BY <2>5
      <4> QED BY Zenon, <4>1, <4>3, <4>4 DEF FutureOK
    <3>4. ASSUME NEW j \in 1..MaxCalls, j /= n PROVE FutureOK(j)'
      BY Zenon, <1>2, <2>0, <2>2, <2>5, <3>4 DEF FutureOK
    <3>5. executor'.has_response_mqs => \A j \in 1..Len(log') : Made(j)' => future'[j].mqs /= <<>>
      <4>1. \A j \in 1..n : j \in 1..MaxCalls
        BY <1>1, <2>0
      <4> QED BY Zenon, <1>2, <2>0, <2>1, <2>2, <2>5, <3>1, <4>1
    <3>6. ASSUME NEW i \in 1..MaxCalls, future'[i].mqs /= <<>>, NEW j \in 1..(i - 1)
          PROVE  future'[j].mqs /= <<>>
      <4>1. j \in 1..MaxCalls /\ j < i
        BY <1>1
      <4>2. CASE i = n
        <5>1. executor.has_response_mqs /\ j \in 1..n /\ j /= n
          BY <1>1, <2>5, <3>2, <3>6, <4>1, <4>2
        <5> QED BY Zenon, <1>2, <2>0, <2>2, <2>5, <4>1, <5>1
      <4>3. CASE i /= n
        <5>1. future[i].mqs /= <<>> /\ future[j].mqs /= <<>>
          BY Zenon, <1>2, <2>5, <3>6, <4>3
        <5>2. i \in 1..Len(log)
          BY Zenon, <1>2, <5>1 DEF FutureOK
        <5>3. j /= n
          BY <1>1, <2>0, <4>1, <5>2
        <5> QED BY Zenon, <2>5, <4>1, <5>1, <5>3
      <4> QED BY <4>2, <4>3
    <3>7. ASSUME NEW j \in 1..MaxCalls PROVE FutureOK(j)'
      <4>1. CASE j = n BY <3>3, <4>1
      <4> QED BY <3>4, <4>1
    <3> QED BY Zenon, <3>5, <3>6, <3>7 DEF FuturesMade
  <2> QED BY Zenon, <1>5, <2>0, <2>4, <2>5, MakeEffect
<1>6. ASSUME NEW i \in 1..MaxCalls, UNCHANGED <<log, executor>>,
             engine'.pc = "reply" <=> engine.pc = "reply",
             \A j \in 1..MaxCalls : j /= i => future'[j] = future[j],
             future'[i].mqs = future[i].mqs, future[i].state = "pending", future'[i].state /= "none",
             Len(future'[i].responses) <= Len(future[i].mqs),
             future'[i].state = "result" => Len(future'[i].responses) = Len(future[i].mqs)
      PROVE  FuturesMade'
  <2>1. \A j : (Made(j)' <=> Made(j)) /\ AllMqs(j)' = AllMqs(j)
    BY <1>6 DEF Made, AllMqs
  <2>2. FutureOK(i)'
    BY <1>2, <1>6, <2>1 DEF FutureOK
  <2>3. ASSUME NEW j \in 1..MaxCalls, j /= i PROVE FutureOK(j)'
    BY Zenon, <1>2, <1>6, <2>1, <2>3 DEF FutureOK
  <2>4. \A j \in 1..MaxCalls : future'[j].mqs = future[j].mqs
    BY Zenon, <1>6
  <2>5. \A j \in 1..Len(log) : j \in 1..MaxCalls
    BY <1>1
  <2>6. \A j \in 1..MaxCalls : \A k \in 1..(j - 1) : k \in 1..MaxCalls
    BY <1>1
  <2> QED BY Zenon, <1>2, <1>6, <2>1, <2>2, <2>3, <2>4, <2>5, <2>6 DEF FuturesMade
<1>7. ASSUME NEW i \in 1..MaxCalls, i = engine.popped, NEW w \in Ranks, AnswerTaken(i, w)
      PROVE  FuturesMade'
  <2>1. UNCHANGED <<log, executor, engine>> /\ Len(future[i].responses) < Len(future[i].mqs)
    BY <1>7 DEF AnswerTaken, rpc_vars
  <2>2. Len(future'[i].responses) <= Len(future[i].mqs)
    <3>1. future'[i].responses = Append(future[i].responses, Head(response_mq[w]))
      BY <1>7, TakenEffect
    <3>2. future[i] \in Futures
      BY <1>1
    <3>3. future[i].responses \in Seq(Answers) /\ future[i].mqs \in Seq(Ranks)
      BY <3>2 DEF Futures
    <3> QED BY <2>1, <3>1, <3>3
  <2> QED BY Zenon, <1>6, <1>7, <2>1, <2>2, TakenEffect
<1>8. ASSUME NEW i \in 1..MaxCalls, i = engine.popped, NEW st \in {"result", "error"}, FutureEnds(i, st)
      PROVE  FuturesMade'
  <2>1. UNCHANGED <<log, executor>> /\ (st = "result" => Len(future[i].responses) = Len(future[i].mqs))
    BY <1>8 DEF FutureEnds, rpc_vars
  <2>2. Len(future[i].responses) <= Len(future[i].mqs)
    BY Zenon, <1>2 DEF FutureOK
  <2>3. st /= "none"
    OBVIOUS
  <2> QED BY <1>6, <1>8, <2>1, <2>2, <2>3, EndsEffect
<1>9. CASE PopFuture
  <2>1. UNCHANGED <<log, future, executor>> /\ engine.pc = "wait" /\ engine'.pc = "wait"
    BY <1>9, PopEffect DEF rpc_vars
  <2> QED BY <1>3, <2>1
<1>10. CASE EngineMoves
  <2>1. BetweenCalls BY <1>10 DEF EngineMoves
  <2> QED BY <1>3, <2>1 DEF BetweenCalls, rpc_vars, future_vars
<1>11. CASE OthersMove
  BY <1>3, <1>11 DEF OthersMove, future_vars
<1>12. ASSUME NEW w \in Ranks, Dequeue(w) \/ execute_worker_rpc(w) \/ async_output(w)
       PROVE  FuturesMade'
  <2>1. UNCHANGED <<log, future, engine, executor>>
    BY <1>12 DEF Dequeue, rpc!dequeue, execute_worker_rpc, async_output, rpc_vars, future_vars
  <2> QED BY <1>3, <2>1
<1> QED
  BY Zenon, Kinds, <1>4, <1>5, <1>7, <1>8, <1>9, <1>10, <1>11, <1>12

LEMMA OrderStep == IInv /\ [Next]_vars => ServedInOrder'
<1> SUFFICES ASSUME IInv, [Next]_vars PROVE ServedInOrder'
  OBVIOUS
<1>0. Typed /\ ServedInOrder /\ FuturesMade
  BY Typing DEF IInv
<1>1. /\ futures_queue \in Seq(1..MaxCalls) /\ Len(futures_queue) \in Nat
      /\ Len(log) \in Nat /\ Len(log) <= MaxCalls /\ MaxCalls \in Nat
      /\ \A k \in 1..Len(futures_queue) : futures_queue[k] \in 1..MaxCalls
  BY <1>0, Numbers DEF Typed
<1>2. /\ \A k \in 1..Len(futures_queue) : /\ future[futures_queue[k]].state = "pending"
                                          /\ future[futures_queue[k]].responses = <<>>
                                          /\ engine.popped < futures_queue[k]
      /\ \A k, l \in 1..Len(futures_queue) : k < l => futures_queue[k] < futures_queue[l]
      /\ \A i \in 1..MaxCalls : future[i].state = "pending" =>
            i = engine.popped \/ \E k \in 1..Len(futures_queue) : futures_queue[k] = i
      /\ \A i, j \in 1..MaxCalls : future[i].state = "pending" /\ future[j].state \in {"result", "error"} =>
            j < i
  BY <1>0 DEF ServedInOrder
<1>3. ASSUME UNCHANGED <<future, futures_queue>>, engine'.popped = engine.popped PROVE ServedInOrder'
  BY Zenon, <1>0, <1>3 DEF ServedInOrder
<1>4. CASE enqueue
  <2>1. UNCHANGED <<future, futures_queue>> /\ engine'.popped = engine.popped
    BY <1>4, EnqueueEffect DEF future_vars
  <2> QED BY <1>3, <2>1
<1>5. CASE MakeFuture
  <2>0. PICK n \in 1..MaxCalls : n = Len(log)
    BY <1>5, MakeEffect
  <2>1. engine.pc = "reply" /\ engine.popped = 0 /\ engine'.popped = 0
    BY <1>5, MakeEffect DEF MakeFuture
  <2>2. ASSUME NEW j \in 1..MaxCalls, future[j].state /= "none" PROVE j < n
    <3>1. j \in 1..Len(log) /\ Made(j)
      BY Zenon, <1>0, <2>2 DEF FuturesMade, FutureOK
    <3> QED BY <1>1, <2>0, <2>1, <3>1 DEF Made
  <2>3. CASE UNCHANGED future_vars
    BY <1>3, <2>1, <2>3 DEF future_vars
  <2>4. CASE /\ futures_queue' = Append(futures_queue, n)
             /\ future'[n].state = "pending" /\ future'[n].responses = <<>>
             /\ \A j \in 1..MaxCalls : j /= n => future'[j] = future[j]
    <3>1. /\ Len(futures_queue') = Len(futures_queue) + 1 /\ futures_queue'[Len(futures_queue) + 1] = n
          /\ \A k \in 1..Len(futures_queue) : futures_queue'[k] = futures_queue[k]
      BY <1>1, <2>4
    <3>2. \A k \in 1..Len(futures_queue) : futures_queue[k] < n /\ futures_queue[k] /= n
      <4>1. ASSUME NEW k \in 1..Len(futures_queue) PROVE futures_queue[k] < n
        <5>1. futures_queue[k] \in 1..MaxCalls /\ future[futures_queue[k]].state /= "none"
          BY <1>1, <1>2
        <5> QED BY <2>2, <5>1
      <4> QED BY <1>1, <4>1
    <3>3. ASSUME NEW k \in 1..Len(futures_queue')
          PROVE  \/ k = Len(futures_queue) + 1
                 \/ k \in 1..Len(futures_queue) /\ futures_queue'[k] = futures_queue[k]
      BY <1>1, <3>1
    <3>4. ASSUME NEW k \in 1..Len(futures_queue')
          PROVE  /\ future'[futures_queue'[k]].state = "pending"
                 /\ future'[futures_queue'[k]].responses = <<>> /\ engine'.popped < futures_queue'[k]
      <4>1. CASE k = Len(futures_queue) + 1
        <5>1. futures_queue'[k] = n /\ 0 < n
          BY <3>1, <4>1
        <5> QED BY Zenon, <2>1, <2>4, <5>1
      <4>2. CASE k \in 1..Len(futures_queue) /\ futures_queue'[k] = futures_queue[k]
        <5>1. future'[futures_queue[k]] = future[futures_queue[k]]
          BY Zenon, <1>1, <2>4, <3>2, <4>2
        <5>2. engine'.popped < futures_queue[k]
          BY <1>2, <2>1, <4>2
        <5>3. future[futures_queue[k]].state = "pending" /\ future[futures_queue[k]].responses = <<>>
          BY <1>2, <4>2
        <5> QED BY Zenon, <4>2, <5>1, <5>2, <5>3
      <4> QED BY <3>3, <4>1, <4>2
    <3>5. ASSUME NEW k \in 1..Len(futures_queue'), NEW l \in 1..Len(futures_queue'), k < l
          PROVE  futures_queue'[k] < futures_queue'[l]
      <4>1. k \in 1..Len(futures_queue) /\ futures_queue'[k] = futures_queue[k]
        BY <1>1, <3>1, <3>5
      <4>2. CASE l = Len(futures_queue) + 1
        <5>1. futures_queue'[l] = n
          BY <3>1, <4>2
        <5> QED BY Zenon, <3>2, <4>1, <5>1
      <4>3. CASE l \in 1..Len(futures_queue) /\ futures_queue'[l] = futures_queue[l]
        BY Zenon, <1>2, <3>5, <4>1, <4>3
      <4> QED BY <3>3, <4>2, <4>3
    <3>7. ASSUME NEW i \in 1..MaxCalls, future'[i].state = "pending"
          PROVE  i = engine'.popped \/ \E k \in 1..Len(futures_queue') : futures_queue'[k] = i
      <4>1. CASE i = n
        <5>1. Len(futures_queue) + 1 \in 1..Len(futures_queue')
          BY <1>1, <3>1
        <5> QED BY <3>1, <4>1, <5>1
      <4>2. CASE i /= n
        <5>1. \A k \in 1..Len(futures_queue) : k \in 1..Len(futures_queue')
          BY <1>1, <3>1
        <5>2. PICK k \in 1..Len(futures_queue) : futures_queue[k] = i
          <6>1. future[i].state = "pending" /\ i /= engine.popped
            BY <2>1, <2>4, <3>7, <4>2
          <6> QED BY Zenon, <1>2, <6>1
        <5> QED BY Zenon, <3>1, <5>1, <5>2
      <4> QED BY <4>1, <4>2
    <3>8. ASSUME NEW i \in 1..MaxCalls, NEW j \in 1..MaxCalls, future'[i].state = "pending",
                 future'[j].state \in {"result", "error"}
          PROVE  j < i
      <4>1. j /= n /\ future[j].state \in {"result", "error"}
        BY <2>4, <3>8
      <4>2. CASE i = n BY <2>2, <4>1, <4>2
      <4>3. CASE i /= n BY Zenon, <1>2, <2>4, <3>8, <4>1, <4>3
      <4> QED BY <4>2, <4>3
    <3> QED BY Zenon, <3>4, <3>5, <3>7, <3>8 DEF ServedInOrder
  <2> QED BY Zenon, <1>5, <2>0, <2>3, <2>4, MakeEffect
<1>6. CASE PopFuture
  <2>0. /\ futures_queue /= <<>> /\ futures_queue' = Tail(futures_queue)
        /\ engine'.popped = Head(futures_queue) /\ future' = future
    BY <1>6, PopEffect
  <2>1. engine.popped = 0
    BY <1>6 DEF PopFuture
  <2>2. /\ Len(futures_queue) >= 1 /\ Len(futures_queue') = Len(futures_queue) - 1
        /\ engine'.popped = futures_queue[1]
        /\ \A k \in 1..(Len(futures_queue) - 1) : futures_queue'[k] = futures_queue[k + 1]
    BY Zenon, <1>1, <2>0, HeadTail
  <2>3. ASSUME NEW k \in 1..Len(futures_queue')
        PROVE  k + 1 \in 1..Len(futures_queue) /\ futures_queue'[k] = futures_queue[k + 1] /\ 1 < k + 1
    BY <1>1, <2>2
  <2>4. ASSUME NEW k \in 1..Len(futures_queue')
        PROVE  future'[futures_queue'[k]].state = "pending" /\ future'[futures_queue'[k]].responses = <<>>
    <3>1. future[futures_queue[k + 1]].state = "pending" /\ future[futures_queue[k + 1]].responses = <<>>
      BY Zenon, <1>2, <2>3
    <3> QED BY Zenon, <2>0, <2>3, <3>1
  <2>5. ASSUME NEW k \in 1..Len(futures_queue'), NEW l \in 1..Len(futures_queue'), k < l
        PROVE  futures_queue'[k] < futures_queue'[l]
    <3>1. k + 1 < l + 1
      BY <1>1, <2>2, <2>5
    <3> QED BY <1>2, <2>3, <3>1
  <2>6. ASSUME NEW k \in 1..Len(futures_queue') PROVE engine'.popped < futures_queue'[k]
    <3>1. 1 \in 1..Len(futures_queue)
      BY <1>1, <2>2
    <3>2. futures_queue[1] < futures_queue[k + 1]
      BY <1>2, <2>3, <3>1
    <3> QED BY Zenon, <2>2, <2>3, <3>2
  <2>7. ASSUME NEW i \in 1..MaxCalls, future'[i].state = "pending"
        PROVE  i = engine'.popped \/ \E k \in 1..Len(futures_queue') : futures_queue'[k] = i
    <3>1. PICK k \in 1..Len(futures_queue) : futures_queue[k] = i
      BY <1>2, <2>0, <2>1, <2>7
    <3>2. CASE k = 1 BY <2>2, <3>1, <3>2
    <3>3. CASE k /= 1
      <4>1. k - 1 \in 1..Len(futures_queue') /\ futures_queue'[k - 1] = futures_queue[k]
        BY <1>1, <2>2, <3>3
      <4> QED BY <3>1, <4>1
    <3> QED BY <3>2, <3>3
  <2>8. \A i, j \in 1..MaxCalls : future'[i].state = "pending" /\ future'[j].state \in {"result", "error"} =>
           j < i
    BY Zenon, <1>2, <2>0
  <2> QED BY Zenon, <2>4, <2>5, <2>6, <2>7, <2>8 DEF ServedInOrder
<1>7. ASSUME NEW i \in 1..MaxCalls, i = engine.popped, NEW w \in Ranks, AnswerTaken(i, w)
      PROVE  ServedInOrder'
  <2>1. UNCHANGED <<futures_queue, engine>>
    BY <1>7 DEF AnswerTaken
  <2>2. \A k \in 1..Len(futures_queue) : futures_queue[k] /= i
    BY <1>1, <1>2, <1>7
  <2>3. \A j \in 1..MaxCalls : future'[j].state = future[j].state /\ (j /= i => future'[j] = future[j])
    BY Zenon, <1>7, TakenEffect
  <2>4. \A k \in 1..Len(futures_queue) :
           future'[futures_queue[k]].state = "pending" /\ future'[futures_queue[k]].responses = <<>>
    BY Zenon, <1>1, <1>2, <2>2, <2>3
  <2> QED BY Zenon, <1>2, <2>1, <2>3, <2>4 DEF ServedInOrder
<1>8. ASSUME NEW i \in 1..MaxCalls, i = engine.popped, NEW st \in {"result", "error"}, FutureEnds(i, st)
      PROVE  ServedInOrder'
  <2>1. UNCHANGED futures_queue /\ engine'.popped = 0
    BY <1>8, EndsEffect DEF FutureEnds
  <2>2. \A k \in 1..Len(futures_queue) : i < futures_queue[k] /\ futures_queue[k] /= i
    BY <1>1, <1>2, <1>8
  <2>3. /\ \A j \in 1..MaxCalls : j /= i => future'[j] = future[j]
        /\ future'[i].state /= "pending"
    BY <1>8, EndsEffect
  <2>4. \A k \in 1..Len(futures_queue) :
           future'[futures_queue[k]].state = "pending" /\ future'[futures_queue[k]].responses = <<>>
    BY Zenon, <1>1, <1>2, <2>2, <2>3
  <2>5. \A k \in 1..Len(futures_queue) : engine'.popped < futures_queue[k]
    BY <1>1, <2>1
  <2>6. ASSUME NEW j \in 1..MaxCalls, future'[j].state = "pending"
        PROVE  /\ j /= i /\ future[j].state = "pending" /\ i < j
               /\ \E k \in 1..Len(futures_queue) : futures_queue[k] = j
    <3>1. j /= i /\ future[j].state = "pending"
      BY <2>3, <2>6
    <3>2. PICK k \in 1..Len(futures_queue) : futures_queue[k] = j
      BY <1>2, <1>8, <3>1
    <3> QED BY <2>2, <3>1, <3>2
  <2>7. ASSUME NEW j \in 1..MaxCalls, NEW h \in 1..MaxCalls, future'[j].state = "pending",
               future'[h].state \in {"result", "error"}
        PROVE  h < j
    <3>1. CASE h = i BY <2>6, <2>7, <3>1
    <3>2. CASE h /= i BY Zenon, <1>2, <2>3, <2>6, <2>7, <3>2
    <3> QED BY <3>1, <3>2
  <2> QED BY Zenon, <1>2, <2>1, <2>4, <2>5, <2>6, <2>7 DEF ServedInOrder
<1>9. CASE EngineMoves
  <2>1. BetweenCalls BY <1>9 DEF EngineMoves
  <2> QED BY <1>3, <2>1 DEF BetweenCalls, future_vars
<1>10. CASE OthersMove
  BY <1>3, <1>10 DEF OthersMove, future_vars
<1>11. ASSUME NEW w \in Ranks, Dequeue(w) \/ execute_worker_rpc(w) \/ async_output(w)
       PROVE  ServedInOrder'
  <2>1. UNCHANGED <<future, futures_queue, engine>>
    BY <1>11 DEF Dequeue, execute_worker_rpc, async_output, future_vars
  <2> QED BY Zenon, <1>3, <2>1
<1> QED
  BY Zenon, Kinds, <1>4, <1>5, <1>6, <1>7, <1>8, <1>9, <1>10, <1>11

LEMMA PlaceStep == IInv /\ [Next]_vars => EnginePlace'
<1> SUFFICES ASSUME IInv, [Next]_vars PROVE EnginePlace'
  OBVIOUS
<1>0. Typed /\ EnginePlace /\ FuturesMade /\ ServedInOrder
  BY Typing DEF IInv
<1>1. /\ Len(log) \in Nat /\ Len(log) <= MaxCalls /\ MaxCalls \in Nat
      /\ engine \in Engines
  BY <1>0, Numbers DEF Typed
<1>2. /\ engine.pc \in {"send", "write", "reply"} => engine.call \in Calls
      /\ engine.pc \in {"send", "write"} => Len(log) < MaxCalls
      /\ engine.pc = "reply" => Len(log) > 0 /\ engine.call = log[Len(log)]
      /\ engine.pc = "wait" => engine.wanted \in 1..Len(log) /\ future[engine.wanted].state /= "none"
      /\ engine.popped /= 0 => /\ engine.pc = "wait" /\ future[engine.wanted].state = "pending"
                               /\ future[engine.popped].state = "pending"
  BY <1>0 DEF EnginePlace
<1>3. ASSUME UNCHANGED <<log, future, engine>> PROVE EnginePlace'
  BY Zenon, <1>0, <1>3 DEF EnginePlace
<1>4. ASSUME engine'.pc \in {"idle", "stopped"}, engine'.popped = 0 PROVE EnginePlace'
  BY <1>4 DEF EnginePlace
<1>5. ASSUME NEW c \in Calls, collective_rpc(c) PROVE EnginePlace'
  <2>1. CASE Raise(c) BY <1>4, <2>1, RaiseType
  <2>2. CASE engine' = [Idle EXCEPT !.pc = "send", !.call = c]
    <3>1. engine'.pc = "send" /\ engine'.call = c /\ engine'.popped = 0
      BY <2>2 DEF Idle
    <3>2. Len(log) < MaxCalls /\ log' = log
      BY <1>5 DEF collective_rpc, rpc_vars
    <3> QED BY <3>1, <3>2 DEF EnginePlace
  <2> QED BY <1>5, <2>1, <2>2 DEF collective_rpc
<1>6. CASE LoadQueue
  <2>1. CASE Raise(engine.call) BY <1>4, <2>1, RaiseType
  <2>2. CASE engine' = [engine EXCEPT !.pc = "write"]
    <3>1. engine'.pc = "write" /\ engine'.call = engine.call /\ engine'.popped = engine.popped
      BY <1>1, <2>2 DEF Engines
    <3>2. log' = log /\ engine.pc = "send"
      BY <1>6 DEF LoadQueue, rpc_vars
    <3> QED BY <1>2, <3>1, <3>2 DEF EnginePlace
  <2> QED BY <1>6, <2>1, <2>2 DEF LoadQueue
<1>7. CASE enqueue
  <2>1. /\ engine'.pc = "reply" /\ engine'.call \in Calls /\ engine'.popped = 0
        /\ Len(log') > 0 /\ engine'.call = log'[Len(log')]
    <3>1. /\ engine.call \in Calls /\ engine'.pc = "reply" /\ engine'.call = engine.call /\ engine'.popped = 0
          /\ Len(log') = Len(log) + 1 /\ log'[Len(log) + 1] = engine.call
      BY Zenon, <1>7, EnqueueEffect
    <3> QED BY <1>1, <3>1
  <2> QED BY <2>1 DEF EnginePlace
<1>8. CASE MakeFuture
  <2>1. /\ Len(log) \in 1..MaxCalls /\ engine'.popped = 0 /\ log' = log
        /\ \/ engine'.pc \in {"idle", "stopped"}
           \/ /\ future'[Len(log)].state = "pending"
              /\ engine' \in {Idle, [Idle EXCEPT !.pc = "wait", !.wanted = Len(log)]}
    BY Zenon, <1>8, MakeEffect DEF rpc_vars
  <2>2. CASE engine'.pc \in {"idle", "stopped"} BY Zenon, <1>4, <2>1, <2>2
  <2>3. CASE engine' = Idle BY Zenon, <1>4, <2>3, IdleType
  <2>4. CASE future'[Len(log)].state = "pending" /\ engine' = [Idle EXCEPT !.pc = "wait", !.wanted = Len(log)]
    <3>1. engine'.pc = "wait" /\ engine'.wanted = Len(log)
      BY <2>4 DEF Idle
    <3>2. engine'.wanted \in 1..Len(log') /\ future'[engine'.wanted].state /= "none"
      BY <2>1, <2>4, <3>1
    <3> QED BY <2>1, <3>1, <3>2 DEF EnginePlace
  <2> QED BY Zenon, <2>1, <2>2, <2>3, <2>4
<1>9. ASSUME NEW i \in 1..Len(log), result(i) PROVE EnginePlace'
  <2>1. /\ engine' = [Idle EXCEPT !.pc = "wait", !.wanted = i] /\ future[i].state /= "none"
        /\ UNCHANGED <<log, future>>
    BY <1>9 DEF result, rpc_vars, future_vars
  <2>2. engine'.pc = "wait" /\ engine'.wanted = i /\ engine'.popped = 0
    BY <2>1 DEF Idle
  <2> QED BY <2>1, <2>2 DEF EnginePlace
<1>10. CASE PopFuture
  <2>1. /\ engine'.pc = "wait" /\ engine'.wanted = engine.wanted
        /\ engine'.popped = Head(futures_queue) /\ futures_queue \in Seq(1..MaxCalls)
        /\ futures_queue /= <<>> /\ future[engine.wanted].state = "pending" /\ engine.pc = "wait"
        /\ UNCHANGED <<log, future>>
    BY <1>10, PopEffect DEF rpc_vars
  <2>2. 1 \in 1..Len(futures_queue) /\ engine'.popped = futures_queue[1]
    BY <2>1
  <2>3. future[engine'.popped].state = "pending"
    BY Zenon, <1>0, <2>2 DEF ServedInOrder
  <2> QED BY <1>2, <2>1, <2>3 DEF EnginePlace
<1>11. ASSUME NEW i \in 1..MaxCalls, i = engine.popped, NEW w \in Ranks, AnswerTaken(i, w)
       PROVE  EnginePlace'
  <2>1. UNCHANGED <<log, engine>>
    BY <1>11 DEF AnswerTaken, rpc_vars
  <2>2. \A j \in 1..MaxCalls : future'[j].state = future[j].state
    BY Zenon, <1>11, TakenEffect
  <2>3. engine.pc = "wait" /\ engine.wanted \in 1..MaxCalls
    <3>1. engine.popped /= 0
      BY <1>11
    <3>2. engine.pc = "wait" /\ engine.wanted \in 1..Len(log)
      BY Zenon, <1>2, <3>1
    <3> QED BY <1>1, <3>2
  <2> QED BY <1>2, <1>11, <2>1, <2>2, <2>3 DEF EnginePlace
<1>12. ASSUME NEW i \in 1..MaxCalls, i = engine.popped, NEW st \in {"result", "error"}, FutureEnds(i, st)
       PROVE  EnginePlace'
  <2>1. /\ engine.pc = "wait" /\ engine'.pc = "wait" /\ engine'.wanted = engine.wanted /\ engine'.popped = 0
        /\ future'[i].state = st /\ \A j \in 1..MaxCalls : j /= i => future'[j] = future[j]
    BY Zenon, <1>12, EndsEffect
  <2>2. log' = log
    BY <1>12 DEF FutureEnds, rpc_vars
  <2>3. engine.wanted \in 1..MaxCalls
    BY <1>1, <1>2, <2>1
  <2>4. future'[engine.wanted].state /= "none"
    <3>1. CASE engine.wanted = i BY <2>1, <3>1
    <3>2. CASE engine.wanted /= i BY <1>2, <2>1, <2>3, <3>2
    <3> QED BY <3>1, <3>2
  <2> QED BY <1>2, <2>1, <2>2, <2>4 DEF EnginePlace
<1>13. CASE Return
  <2>1. CASE Raise(log[engine.wanted]) BY Zenon, <1>4, <2>1, RaiseType
  <2>2. CASE engine' = Idle BY Zenon, <1>4, <2>2, IdleType
  <2> QED BY <1>13, <2>1, <2>2 DEF Return
<1>14. CASE Stop
  <2>1. engine.pc = "idle" /\ engine' = [engine EXCEPT !.pc = "stopped"]
    BY <1>14 DEF Stop
  <2>2. engine'.pc = "stopped" /\ engine'.popped = engine.popped
    BY <1>1, <2>1 DEF Engines
  <2> QED BY <1>2, <1>4, <2>1, <2>2
<1>15. CASE OthersMove
  BY <1>3, <1>15 DEF OthersMove, future_vars
<1>16. ASSUME NEW w \in Ranks, Dequeue(w) \/ execute_worker_rpc(w) \/ async_output(w)
       PROVE  EnginePlace'
  <2>1. UNCHANGED <<log, future, engine>>
    BY <1>16 DEF Dequeue, rpc!dequeue, execute_worker_rpc, async_output, rpc_vars, future_vars
  <2> QED BY <1>3, <2>1
<1>17. CASE EngineMoves
  BY Zenon, <1>5, <1>6, <1>9, <1>13, <1>14, <1>17 DEF EngineMoves
<1> QED
  BY Zenon, Kinds, <1>7, <1>8, <1>10, <1>11, <1>12, <1>15, <1>16, <1>17

------------------------------------------------------------------------------
(***************************************************************************)
(* Answers on their way                                                    *)
(***************************************************************************)

LEMMA AnsweredAppend ==
    ASSUME NEW q \in Seq(Answers), NEW w, NEW lg, NEW n \in Nat, Answered(q, w, lg, n),
           NEW a \in Answers, a.rank = w, a.call = n + 1, lg[n + 1].output_rank \in {None, w}
    PROVE  Answered(Append(q, a), w, lg, n + 1)
<1>1. /\ \A k \in 1..Len(q) : q[k].rank = w /\ q[k].call \in 1..n /\ lg[q[k].call].output_rank \in {None, w}
      /\ \A k, l \in 1..Len(q) : k < l => q[k].call < q[l].call
  BY DEF Answered
<1> DEFINE r == Append(q, a)
<1>3. /\ Len(q) \in Nat /\ Len(r) = Len(q) + 1 /\ r[Len(q) + 1] = a
      /\ \A k \in 1..Len(q) : r[k] = q[k]
  OBVIOUS
<1> HIDE DEF r
<1>4. ASSUME NEW k \in 1..Len(r)
      PROVE  (k = Len(q) + 1 /\ r[k] = a) \/ (k \in 1..Len(q) /\ r[k] = q[k])
  BY <1>3
<1>5. ASSUME NEW k \in 1..Len(r)
      PROVE  r[k].rank = w /\ r[k].call \in 1..(n + 1) /\ lg[r[k].call].output_rank \in {None, w}
  <2>1. CASE r[k] = a BY <2>1
  <2>2. CASE k \in 1..Len(q) /\ r[k] = q[k] BY <1>1, <2>2
  <2> QED BY <1>4, <2>1, <2>2
<1>6. ASSUME NEW k \in 1..Len(r), NEW l \in 1..Len(r), k < l PROVE r[k].call < r[l].call
  <2>1. k \in 1..Len(q) /\ r[k] = q[k]
    BY <1>3, <1>6
  <2>2. CASE r[l] = a BY <1>1, <2>1, <2>2
  <2>3. CASE l \in 1..Len(q) /\ r[l] = q[l] BY <1>1, <1>6, <2>1, <2>3
  <2> QED BY <1>4, <2>2, <2>3
<1>7. Answered(r, w, lg, n + 1)
  BY <1>5, <1>6 DEF Answered
<1> QED
  BY <1>7 DEF r

LEMMA AnsweredTail ==
    ASSUME NEW q \in Seq(Answers), NEW w, NEW lg, NEW n, Answered(q, w, lg, n), q /= <<>>
    PROVE  Answered(Tail(q), w, lg, n)
<1>1. /\ \A k \in 1..Len(q) : q[k].rank = w /\ q[k].call \in 1..n /\ lg[q[k].call].output_rank \in {None, w}
      /\ \A k, l \in 1..Len(q) : k < l => q[k].call < q[l].call
  BY DEF Answered
<1>2. PICK r \in Seq(Answers) : r = Tail(q)
  BY Zenon, HeadTail
<1>3. ASSUME NEW k \in 1..Len(r) PROVE k + 1 \in 1..Len(q) /\ r[k] = q[k + 1]
  <2>1. /\ Len(q) \in Nat /\ Len(r) = Len(q) - 1
        /\ \A l \in 1..(Len(q) - 1) : r[l] = q[l + 1]
    BY Zenon, <1>2, HeadTail
  <2> QED BY <2>1
<1>4. ASSUME NEW k \in 1..Len(r), NEW l \in 1..Len(r), k < l PROVE r[k].call < r[l].call
  <2>1. k + 1 < l + 1
    BY <1>4
  <2> QED BY <1>1, <1>3, <2>1
<1>5. Answered(r, w, lg, n)
  BY Zenon, <1>1, <1>3, <1>4 DEF Answered
<1> QED
  BY <1>2, <1>5

LEMMA AnsweredMore ==
    ASSUME NEW q, NEW w, NEW lg, NEW n \in Int, Answered(q, w, lg, n),
           NEW lg2, NEW m \in Int, n <= m, \A j \in 1..n : lg2[j] = lg[j]
    PROVE  Answered(q, w, lg2, m)
<1>1. \A j \in 1..n : j \in 1..m
  OBVIOUS
<1> QED
  BY Zenon, <1>1 DEF Answered

\* Whether an answer is a success does not matter here.
LEMMA AnsweredSame ==
    ASSUME NEW q, NEW w, NEW lg, NEW n, Answered(q, w, lg, n), NEW r, Len(r) = Len(q),
           \A k \in 1..Len(q) : r[k].call = q[k].call /\ r[k].rank = q[k].rank
    PROVE  Answered(r, w, lg, n) /\ \A j : Holds(r, j) <=> Holds(q, j)
<1>1. Answered(r, w, lg, n)
  BY Zenon DEF Answered
<1>2. \A j : Holds(r, j) <=> Holds(q, j)
  BY Zenon DEF Holds
<1> QED
  BY <1>1, <1>2

LEMMA HoldsAppend ==
    ASSUME NEW q \in Seq(Answers), NEW a \in Answers, NEW j
    PROVE  Holds(Append(q, a), j) <=> Holds(q, j) \/ a.call = j
<1> DEFINE r == Append(q, a)
<1>2. /\ Len(q) \in Nat /\ Len(r) = Len(q) + 1 /\ r[Len(q) + 1] = a
      /\ \A k \in 1..Len(q) : r[k] = q[k]
  OBVIOUS
<1> HIDE DEF r
<1>3. /\ \A k \in 1..Len(r) : k = Len(q) + 1 \/ k \in 1..Len(q)
      /\ \A k \in 1..Len(q) : k \in 1..Len(r)
      /\ Len(q) + 1 \in 1..Len(r)
  BY <1>2
<1>4. Holds(r, j) <=> Holds(q, j) \/ a.call = j
  BY Zenon, <1>2, <1>3 DEF Holds
<1> QED
  BY <1>4 DEF r

\* Each call is answered once, so the answer that is taken away is missing.
LEMMA HoldsTail ==
    ASSUME NEW q \in Seq(Answers), NEW w, NEW lg, NEW n, Answered(q, w, lg, n), q /= <<>>, NEW j
    PROVE  /\ Holds(Tail(q), j) <=> Holds(q, j) /\ j /= Head(q).call
           /\ Holds(q, Head(q).call) /\ (Holds(q, j) => Head(q).call <= j)
           /\ Head(q).rank = w /\ Head(q).call \in 1..n
           /\ lg[Head(q).call].output_rank \in {None, w}
<1>1. /\ \A k \in 1..Len(q) : q[k].rank = w /\ q[k].call \in 1..n /\ lg[q[k].call].output_rank \in {None, w}
      /\ \A k, l \in 1..Len(q) : k < l => q[k].call < q[l].call
  BY DEF Answered
<1>2. /\ Len(q) \in Nat /\ Len(q) >= 1 /\ Head(q) = q[1] /\ Len(Tail(q)) = Len(q) - 1
      /\ \A k \in 1..(Len(q) - 1) : Tail(q)[k] = q[k + 1]
  BY Zenon, HeadTail
<1>3. 1 \in 1..Len(q)
  BY <1>2
<1>4. \A k \in 1..Len(q) : k /= 1 => q[1].call < q[k].call /\ q[1].call /= q[k].call
  <2>1. \A k \in 1..Len(q) : k /= 1 => 1 < k
    BY <1>2
  <2>2. \A k \in 1..Len(q) : q[k].call \in Int
    BY <1>1
  <2>3. ASSUME NEW k \in 1..Len(q), k /= 1 PROVE q[1].call < q[k].call
    BY Zenon, <1>1, <1>3, <2>1, <2>3
  <2> QED BY <1>3, <2>2, <2>3
<1>5. Holds(q, Head(q).call)
  BY <1>2, <1>3 DEF Holds
<1>6. Holds(q, j) => Head(q).call <= j
  <2> SUFFICES ASSUME NEW k \in 1..Len(q) PROVE q[1].call <= q[k].call
    BY <1>2 DEF Holds
  <2>1. q[1].call \in Int /\ q[k].call \in Int
    BY <1>1, <1>3
  <2> QED BY <1>4, <2>1
<1>7. ASSUME Holds(Tail(q), j) PROVE Holds(q, j) /\ j /= Head(q).call
  <2>1. PICK k \in 1..(Len(q) - 1) : q[k + 1].call = j
    BY <1>2, <1>7 DEF Holds
  <2>2. k + 1 \in 1..Len(q) /\ k + 1 /= 1
    BY <1>2
  <2> QED BY Zenon, <1>2, <1>4, <2>1, <2>2 DEF Holds
<1>8. ASSUME Holds(q, j), j /= Head(q).call PROVE Holds(Tail(q), j)
  <2>1. PICK k \in 1..Len(q) : q[k].call = j
    BY <1>8 DEF Holds
  <2>2. k /= 1
    BY <1>2, <1>8, <2>1
  <2>3. k - 1 \in 1..Len(Tail(q)) /\ Tail(q)[k - 1] = q[k]
    BY <1>2, <2>2
  <2> QED BY Zenon, <2>1, <2>3 DEF Holds
<1> QED
  BY Zenon, <1>1, <1>2, <1>3, <1>5, <1>6, <1>7, <1>8

LEMMA TailOf ==
    ASSUME NEW S, NEW q \in Seq(S), NEW r \in Seq(S), q /= <<>>
    PROVE  q \o r \in Seq(S) /\ q \o r /= <<>> /\ Head(q \o r) = Head(q) /\ Tail(q \o r) = Tail(q) \o r
OBVIOUS

Appends(q, r, a) == /\ q \o Append(r, a) = Append(q \o r, a)
                    /\ r = <<>> => Append(q, a) \o r = Append(q \o r, a)

LEMMA AppendOf ==
    ASSUME NEW S, NEW q \in Seq(S), NEW r \in Seq(S), NEW a \in S
    PROVE  Appends(q, r, a)
BY DEF Appends

Moves(q, r, a) ==
    /\ Len(Append(q, a) \o Tail(r)) = Len(q \o r)
    /\ \A k \in 1..Len(q \o r) : \/ (Append(q, a) \o Tail(r))[k] = a /\ (q \o r)[k] = Head(r)
                                 \/ (Append(q, a) \o Tail(r))[k] = (q \o r)[k]

LEMMA MoveOf ==
    ASSUME NEW S, NEW q \in Seq(S), NEW r \in Seq(S), r /= <<>>, NEW a \in S
    PROVE  Moves(q, r, a)
BY DEF Moves

LEMMA UnderwayFacts ==
    ASSUME IInv, NEW w \in Ranks
    PROVE  /\ response_mq[w] \in Seq(Answers) /\ async_output_queue[w] \in Seq(Answers)
           /\ Underway(w) \in Seq(Answers) /\ received[w] \in Seq(Calls)
           /\ Len(received[w]) \in Nat /\ Len(received[w]) <= Len(log) /\ Len(log) \in Nat
           /\ Served(w) \in Nat /\ Served(w) <= Len(received[w])
           /\ worker[w] \in {"loop", "call", "dead"}
           /\ worker[w] = "call" => Len(received[w]) > 0 /\ Served(w) = Len(received[w]) - 1
           /\ worker[w] /= "call" => Served(w) = Len(received[w])
           /\ ~ use_async_scheduling => async_output_queue[w] = <<>>
           /\ Answered(Underway(w), w, log, Served(w))
<1>1. Typed /\ AnswersOK(w)
  BY Typing DEF IInv, AnswersInOrder
<1>2. /\ response_mq[w] \in Seq(Answers) /\ async_output_queue[w] \in Seq(Answers)
      /\ received[w] \in Seq(Calls) /\ log \in Seq(Calls) /\ worker[w] \in {"loop", "call", "dead"}
  BY <1>1 DEF Typed
<1>3. Underway(w) \in Seq(Answers)
  BY <1>2 DEF Underway
<1>4. Len(received[w]) \in Nat /\ Len(log) \in Nat
  BY <1>2
<1>5. /\ Len(received[w]) <= Len(log) /\ (worker[w] = "call" => Len(received[w]) > 0)
      /\ ~ use_async_scheduling => async_output_queue[w] = <<>>
      /\ Answered(Underway(w), w, log, Served(w))
  BY <1>1 DEF AnswersOK
<1>6. /\ Served(w) \in Nat /\ Served(w) <= Len(received[w])
      /\ worker[w] = "call" => Served(w) = Len(received[w]) - 1
      /\ worker[w] /= "call" => Served(w) = Len(received[w])
  BY <1>4, <1>5 DEF Served
<1> QED
  BY Zenon, <1>2, <1>3, <1>4, <1>5, <1>6

\* A worker that the step does not concern, but for its death.
LEMMA KeptAnswers ==
    ASSUME IInv, Len(log') \in Nat, Len(log) <= Len(log'), \A j \in 1..Len(log) : log'[j] = log[j],
           NEW v \in Ranks, received'[v] = received[v], worker'[v] \in {worker[v], "dead"},
           response_mq'[v] = response_mq[v], async_output_queue'[v] = async_output_queue[v]
    PROVE  AnswersOK(v)' /\ Underway(v)' = Underway(v) /\ Served(v)' \in Nat /\ Served(v) <= Served(v)'
<1>1. /\ Len(received[v]) \in Nat /\ Len(received[v]) <= Len(log) /\ Len(log) \in Nat
      /\ Served(v) \in Nat /\ Served(v) <= Len(received[v])
      /\ worker[v] = "call" => Len(received[v]) > 0 /\ Served(v) = Len(received[v]) - 1
      /\ worker[v] /= "call" => Served(v) = Len(received[v])
      /\ ~ use_async_scheduling => async_output_queue[v] = <<>>
      /\ Answered(Underway(v), v, log, Served(v))
  BY Zenon, UnderwayFacts
<1>2. Underway(v)' = Underway(v)
  BY DEF Underway
<1>3. Served(v)' \in Nat /\ Served(v) <= Served(v)'
  BY <1>1 DEF Served
<1>4. Answered(Underway(v), v, log', Served(v)')
  <2>1. \A j \in 1..Served(v) : log'[j] = log[j]
    BY <1>1
  <2>2. Served(v) \in Int /\ Served(v)' \in Int
    BY <1>1, <1>3
  <2> QED BY Zenon, <1>1, <1>3, <2>1, <2>2, AnsweredMore
<1>5. Len(received'[v]) <= Len(log') /\ (worker'[v] = "call" => Len(received'[v]) > 0)
  BY <1>1
<1>6. AnswersOK(v)'
  BY Zenon, <1>1, <1>2, <1>4, <1>5 DEF AnswersOK
<1> QED
  BY <1>2, <1>3, <1>6

\* The engine takes the oldest answer of worker w.
LEMMA TakeAnswer ==
    ASSUME IInv, NEW w \in Ranks, response_mq[w] /= <<>>,
           response_mq' = [response_mq EXCEPT ![w] = Tail(@)], UNCHANGED <<log, received, worker_vars>>
    PROVE  /\ AnswersInOrder' /\ Underway(w) /= <<>> /\ Head(Underway(w)) = Head(response_mq[w])
           /\ Underway(w)' = Tail(Underway(w)) /\ \A v \in Ranks : v /= w => Underway(v)' = Underway(v)
           /\ \A v \in Ranks : Served(v)' = Served(v)
<1>1. response_mq \in [Ranks -> Seq(Answers)]
  BY Typing DEF IInv, Typed
<1>2. /\ response_mq[w] \in Seq(Answers) /\ async_output_queue[w] \in Seq(Answers)
      /\ Underway(w) \in Seq(Answers) /\ Len(log) \in Nat
      /\ Answered(Underway(w), w, log, Served(w))
  BY Zenon, UnderwayFacts
<1>3. response_mq'[w] = Tail(response_mq[w]) /\ \A v \in Ranks : v /= w => response_mq'[v] = response_mq[v]
  BY <1>1
<1>4. /\ Underway(w) /= <<>> /\ Head(Underway(w)) = Head(response_mq[w])
      /\ Underway(w)' = Tail(Underway(w))
  <2>1. /\ Underway(w) /= <<>> /\ Head(Underway(w)) = Head(response_mq[w])
        /\ Tail(Underway(w)) = Tail(response_mq[w]) \o async_output_queue[w]
    BY Zenon, <1>2, TailOf DEF Underway
  <2> QED BY Zenon, <1>3, <2>1 DEF Underway, worker_vars
<1>5. \A v \in Ranks : Served(v)' = Served(v)
  BY DEF Served, worker_vars
<1>6. \A v \in Ranks : v /= w => Underway(v)' = Underway(v) /\ AnswersOK(v)'
  <2>1. \A v \in Ranks : async_output_queue'[v] = async_output_queue[v] /\ worker'[v] = worker[v]
    BY DEF worker_vars
  <2>2. /\ Len(log') \in Nat /\ Len(log) <= Len(log') /\ \A j \in 1..Len(log) : log'[j] = log[j]
        /\ received' = received
    BY <1>2
  <2> QED BY Zenon, <1>3, <2>1, <2>2, KeptAnswers
<1>7. AnswersOK(w)'
  <2>1. Answered(Tail(Underway(w)), w, log, Served(w))
    BY Zenon, <1>2, <1>4, AnsweredTail
  <2>2. AnswersOK(w)
    BY DEF IInv, AnswersInOrder
  <2> QED BY Zenon, <1>4, <1>5, <2>1, <2>2 DEF AnswersOK, worker_vars
<1> QED
  BY Zenon, <1>4, <1>5, <1>6, <1>7 DEF AnswersInOrder

LEMMA DequeueEffect ==
    ASSUME IInv, NEW w \in Ranks, Dequeue(w)
    PROVE  /\ AnswersInOrder' /\ UNCHANGED <<log, future_vars>> /\ worker[w] = "loop" /\ worker'[w] = "call"
           /\ Len(received'[w]) = Len(received[w]) + 1
           /\ \A v \in Ranks : /\ Underway(v)' = Underway(v)
                               /\ v /= w => received'[v] = received[v] /\ worker'[v] = worker[v]
<1>1. received \in [Ranks -> Seq(Calls)] /\ worker \in [Ranks -> {"loop", "call", "dead"}] /\ log \in Seq(Calls)
  BY Typing DEF IInv, Typed
<1>2. /\ worker[w] = "loop" /\ worker' = [worker EXCEPT ![w] = "call"] /\ Len(received[w]) < Len(log)
      /\ received' = [received EXCEPT ![w] = Append(@, log[Len(@) + 1])]
      /\ UNCHANGED <<log, async_output_queue, response_mq, future_vars>>
  BY DEF Dequeue, rpc!dequeue
<1>3. /\ worker'[w] = "call" /\ received'[w] = Append(received[w], log[Len(received[w]) + 1])
      /\ \A v \in Ranks : v /= w => received'[v] = received[v] /\ worker'[v] = worker[v]
  BY <1>1, <1>2
<1>4. /\ Len(received[w]) \in Nat /\ Len(log) \in Nat /\ Served(w) = Len(received[w])
      /\ ~ use_async_scheduling => async_output_queue[w] = <<>>
      /\ Answered(Underway(w), w, log, Served(w))
  BY <1>2, UnderwayFacts
<1>5. Len(received'[w]) = Len(received[w]) + 1
  <2>1. received[w] \in Seq(Calls)
    BY <1>1
  <2> QED BY <1>3, <2>1
<1>6. \A v \in Ranks : Underway(v)' = Underway(v)
  BY <1>2 DEF Underway
<1>7. \A v \in Ranks : v /= w => AnswersOK(v)'
  <2>1. Len(log') \in Nat /\ Len(log) <= Len(log') /\ \A j \in 1..Len(log) : log'[j] = log[j]
    BY <1>2, <1>4
  <2>2. response_mq' = response_mq /\ async_output_queue' = async_output_queue
    BY <1>2
  <2> QED BY Zenon, <1>3, <2>1, <2>2, KeptAnswers
<1>8. AnswersOK(w)'
  <2>1. Served(w)' = Served(w)
    BY <1>3, <1>4, <1>5 DEF Served
  <2>2. Len(received'[w]) <= Len(log') /\ Len(received'[w]) > 0
    <3>1. Len(log') = Len(log) /\ Len(received[w]) < Len(log)
      BY Zenon, <1>2
    <3> QED BY <1>4, <1>5, <3>1
  <2> QED BY Zenon, <1>2, <1>4, <1>6, <2>1, <2>2 DEF AnswersOK
<1> QED
  BY Zenon, <1>2, <1>3, <1>5, <1>6, <1>7, <1>8 DEF AnswersInOrder

\* A worker answers the call it is working on, if it was asked to.
LEMMA ExecuteEffect ==
    ASSUME IInv, NEW w \in Ranks, execute_worker_rpc(w)
    PROVE  /\ AnswersInOrder' /\ UNCHANGED <<log, received, future_vars>>
           /\ worker[w] = "call" /\ worker'[w] = "loop" /\ Served(w)' = Len(received[w])
           /\ \A v \in Ranks : v /= w => worker'[v] = worker[v] /\ Underway(v)' = Underway(v)
           /\ \A j : Holds(Underway(w)', j) <=>
                     Holds(Underway(w), j) \/ (j = Len(received[w]) /\ Asked(j, w))
<1>0. PICK n : n = Len(received[w])
  BY Zenon
<1>1. /\ worker \in [Ranks -> {"loop", "call", "dead"}] /\ response_mq \in [Ranks -> Seq(Answers)]
      /\ async_output_queue \in [Ranks -> Seq(Answers)] /\ Len(log) <= MaxCalls
  BY Typing DEF IInv, Typed
<1>2. /\ worker[w] = "call" /\ worker' = [worker EXCEPT ![w] = "loop"] /\ UNCHANGED <<rpc_vars, future_vars>>
      /\ IF Asked(n, w)
         THEN \E success \in BOOLEAN : handle_output(w, [call |-> n, rank |-> w, success |-> success])
         ELSE UNCHANGED <<async_output_queue, response_mq>>
  BY Zenon, <1>0 DEF execute_worker_rpc, Asked
<1>3. /\ response_mq[w] \in Seq(Answers) /\ async_output_queue[w] \in Seq(Answers)
      /\ Underway(w) \in Seq(Answers)
      /\ n \in Nat /\ n > 0 /\ n <= Len(log) /\ Len(log) \in Nat /\ Served(w) = n - 1
      /\ ~ use_async_scheduling => async_output_queue[w] = <<>>
      /\ Answered(Underway(w), w, log, n - 1)
  BY <1>0, <1>2, UnderwayFacts
<1>4. worker'[w] = "loop" /\ \A v \in Ranks : v /= w => worker'[v] = worker[v]
  BY <1>1, <1>2
<1>5. UNCHANGED <<log, received>>
  BY <1>2 DEF rpc_vars
<1>6. Served(w)' = n
  <2>1. worker'[w] /= "call" /\ Len(received'[w]) = n
    BY Zenon, <1>0, <1>4, <1>5
  <2> QED BY Zenon, <2>1 DEF Served
<1>7. ASSUME \A v \in Ranks : v /= w => /\ response_mq'[v] = response_mq[v]
                                        /\ async_output_queue'[v] = async_output_queue[v]
      PROVE  \A v \in Ranks : v /= w => AnswersOK(v)' /\ Underway(v)' = Underway(v)
  <2>1. Len(log') \in Nat /\ Len(log) <= Len(log') /\ \A j \in 1..Len(log) : log'[j] = log[j]
    BY <1>3, <1>5
  <2> QED BY Zenon, <1>4, <1>5, <1>7, <2>1, KeptAnswers
<1>8. ASSUME Answered(Underway(w)', w, log, n), ~ use_async_scheduling => async_output_queue'[w] = <<>>
      PROVE  AnswersOK(w)'
  <2>1. Len(received'[w]) <= Len(log') /\ ~ worker'[w] = "call"
    BY <1>0, <1>3, <1>4, <1>5
  <2> QED BY Zenon, <1>5, <1>6, <1>8, <2>1 DEF AnswersOK
<1>9. CASE Asked(n, w)
  <2>1. PICK success \in BOOLEAN : handle_output(w, [call |-> n, rank |-> w, success |-> success])
    BY <1>2, <1>9
  <2>2. PICK a \in Answers : a = [call |-> n, rank |-> w, success |-> success]
    <3>1. n \in 1..MaxCalls
      BY <1>1, <1>3, Numbers
    <3>2. [call |-> n, rank |-> w, success |-> success] \in Answers
      BY Zenon, <3>1 DEF Answers
    <3> QED BY Zenon, <3>2
  <2>3. a.call = n /\ a.rank = w
    BY <2>2
  <2>4. handle_output(w, a)
    BY <2>1, <2>2
  <2>5. Appends(response_mq[w], async_output_queue[w], a)
    BY Zenon, <1>3, AppendOf
  <2>6. /\ Underway(w)' = Append(Underway(w), a) /\ (~ use_async_scheduling => async_output_queue'[w] = <<>>)
        /\ \A v \in Ranks : v /= w => /\ response_mq'[v] = response_mq[v]
                                      /\ async_output_queue'[v] = async_output_queue[v]
    <3>1. CASE use_async_scheduling
      <4>1. async_output_queue' = [async_output_queue EXCEPT ![w] = Append(@, a)] /\ UNCHANGED response_mq
        BY <2>4, <3>1 DEF handle_output
      <4>2. /\ async_output_queue'[w] = Append(async_output_queue[w], a) /\ response_mq'[w] = response_mq[w]
            /\ \A v \in Ranks : v /= w => /\ response_mq'[v] = response_mq[v]
                                          /\ async_output_queue'[v] = async_output_queue[v]
        BY Zenon, <1>1, <4>1
      <4>3. Underway(w)' = Append(Underway(w), a)
        BY Zenon, <2>5, <4>2 DEF Underway, Appends
      <4> QED BY Zenon, <3>1, <4>2, <4>3
    <3>2. CASE ~ use_async_scheduling
      <4>1. response_mq' = [response_mq EXCEPT ![w] = Append(@, a)] /\ UNCHANGED async_output_queue
        BY <2>4, <3>2 DEF handle_output
      <4>2. /\ response_mq'[w] = Append(response_mq[w], a) /\ async_output_queue'[w] = async_output_queue[w]
            /\ \A v \in Ranks : v /= w => /\ response_mq'[v] = response_mq[v]
                                          /\ async_output_queue'[v] = async_output_queue[v]
        BY Zenon, <1>1, <4>1
      <4>3. Underway(w)' = Append(Underway(w), a)
        BY Zenon, <1>3, <2>5, <3>2, <4>2 DEF Underway, Appends
      <4> QED BY Zenon, <1>3, <3>2, <4>2, <4>3
    <3> QED BY <3>1, <3>2
  <2>7. \A v \in Ranks : v /= w => AnswersOK(v)' /\ Underway(v)' = Underway(v)
    BY Zenon, <1>7, <2>6
  <2>8. Answered(Underway(w)', w, log, n)
    <3>1. PICK m \in Nat : m = n - 1 /\ n = m + 1
      BY <1>3
    <3>2. Answered(Underway(w), w, log, m) /\ a.call = m + 1 /\ log[m + 1].output_rank \in {None, w}
      BY <1>3, <1>9, <2>3, <3>1 DEF Asked
    <3>3. Answered(Append(Underway(w), a), w, log, m + 1)
      BY Zenon, <1>3, <2>3, <3>2, AnsweredAppend
    <3> QED BY Zenon, <2>6, <3>1, <3>3
  <2>9. \A j : Holds(Underway(w)', j) <=> Holds(Underway(w), j) \/ (j = n /\ Asked(j, w))
    <3>1. \A j : Holds(Append(Underway(w), a), j) <=> Holds(Underway(w), j) \/ a.call = j
      BY Zenon, <1>3, HoldsAppend
    <3> QED BY Zenon, <1>9, <2>3, <2>6, <3>1
  <2> QED BY Zenon, <1>0, <1>2, <1>4, <1>5, <1>6, <1>8, <2>6, <2>7, <2>8, <2>9 DEF AnswersInOrder
<1>10. CASE ~ Asked(n, w)
  <2>1. UNCHANGED <<async_output_queue, response_mq>>
    BY <1>2, <1>10
  <2>2. Underway(w)' = Underway(w)
    BY <2>1 DEF Underway
  <2>3. Answered(Underway(w)', w, log, n)
    <3>1. n - 1 \in Int /\ n \in Int /\ n - 1 <= n
      BY <1>3
    <3>2. Answered(Underway(w), w, log, n)
      BY Zenon, <1>3, <3>1, AnsweredMore
    <3> QED BY <2>2, <3>2
  <2>4. \A j : Holds(Underway(w)', j) <=> Holds(Underway(w), j) \/ (j = n /\ Asked(j, w))
    BY Zenon, <1>10, <2>2
  <2> QED BY Zenon, <1>0, <1>2, <1>3, <1>4, <1>5, <1>6, <1>7, <1>8, <2>1, <2>3, <2>4 DEF AnswersInOrder
<1> QED
  BY <1>9, <1>10

\* The output thread sends an answer, which stays where it is in the order.
LEMMA OutputEffect ==
    ASSUME IInv, NEW w \in Ranks, async_output(w)
    PROVE  /\ AnswersInOrder' /\ UNCHANGED <<log, received, worker, future_vars>>
           /\ \A v \in Ranks, j \in 1..MaxCalls : Holds(Underway(v)', j) <=> Holds(Underway(v), j)
           /\ \A v \in Ranks : Served(v)' = Served(v)
<1>0. PICK a : a = Head(async_output_queue[w])
  BY Zenon
<1>1. /\ response_mq \in [Ranks -> Seq(Answers)] /\ async_output_queue \in [Ranks -> Seq(Answers)]
  BY Typing DEF IInv, Typed
<1>2. /\ async_output_queue[w] /= <<>> /\ UNCHANGED <<rpc_vars, worker, future_vars>>
      /\ async_output_queue' = [async_output_queue EXCEPT ![w] = Tail(@)]
      /\ \E success \in {a.success, a.success /\ log[a.call].kind /= "step"} :
            response_mq' = [response_mq EXCEPT ![w] = Append(@, [a EXCEPT !.success = success])]
  BY Zenon, <1>0 DEF async_output
<1>3. /\ response_mq[w] \in Seq(Answers) /\ async_output_queue[w] \in Seq(Answers) /\ Len(log) \in Nat
      /\ ~ use_async_scheduling => async_output_queue[w] = <<>>
      /\ Answered(Underway(w), w, log, Served(w))
  BY Zenon, UnderwayFacts
<1>4. a \in Answers
  BY Zenon, <1>0, <1>2, <1>3, HeadTail
<1>5. PICK b \in Answers : /\ b.call = a.call /\ b.rank = a.rank
                           /\ response_mq' = [response_mq EXCEPT ![w] = Append(@, b)]
  <2>1. PICK success \in {a.success, a.success /\ log[a.call].kind /= "step"} :
            response_mq' = [response_mq EXCEPT ![w] = Append(@, [a EXCEPT !.success = success])]
    BY Zenon, <1>2
  <2>2. success \in BOOLEAN
    BY Zenon, <1>4 DEF Answers
  <2>3. /\ [a EXCEPT !.success = success] \in Answers /\ [a EXCEPT !.success = success].call = a.call
        /\ [a EXCEPT !.success = success].rank = a.rank
    BY <1>4, <2>2 DEF Answers
  <2> QED BY Zenon, <2>1, <2>3
<1>6. /\ response_mq'[w] = Append(response_mq[w], b) /\ async_output_queue'[w] = Tail(async_output_queue[w])
      /\ \A v \in Ranks : v /= w => /\ response_mq'[v] = response_mq[v]
                                    /\ async_output_queue'[v] = async_output_queue[v]
  BY <1>1, <1>2, <1>5
<1>7. UNCHANGED <<log, received>>
  BY <1>2 DEF rpc_vars
<1>8. \A v \in Ranks : Served(v)' = Served(v)
  BY Zenon, <1>2, <1>7 DEF Served
<1>9. \A v \in Ranks : v /= w => AnswersOK(v)' /\ Underway(v)' = Underway(v)
  <2>1. Len(log') \in Nat /\ Len(log) <= Len(log') /\ \A j \in 1..Len(log) : log'[j] = log[j]
    BY <1>3, <1>7
  <2>2. worker' = worker
    BY <1>2
  <2> QED BY Zenon, <1>6, <1>7, <2>1, <2>2, KeptAnswers
<1>10. /\ Len(Underway(w)') = Len(Underway(w))
       /\ \A k \in 1..Len(Underway(w)) : /\ Underway(w)'[k].call = Underway(w)[k].call
                                         /\ Underway(w)'[k].rank = Underway(w)[k].rank
  <2> DEFINE new == Append(response_mq[w], b) \o Tail(async_output_queue[w])
             old == response_mq[w] \o async_output_queue[w]
  <2>0. Moves(response_mq[w], async_output_queue[w], b)
    BY Zenon, <1>2, <1>3, <1>5, MoveOf
  <2>1. Underway(w)' = new /\ Underway(w) = old
    BY <1>6 DEF Underway
  <2>2. ASSUME NEW k \in 1..Len(old)
        PROVE  (new[k] = b /\ old[k] = a) \/ new[k] = old[k]
    BY Zenon, <1>0, <2>0 DEF Moves
  <2>3. Len(new) = Len(old)
    BY Zenon, <2>0 DEF Moves
  <2> HIDE DEF new, old
  <2> QED BY Zenon, <1>5, <2>1, <2>2, <2>3
<1>11. /\ Answered(Underway(w)', w, log, Served(w))
       /\ \A j : Holds(Underway(w)', j) <=> Holds(Underway(w), j)
  BY Zenon, <1>3, <1>10, AnsweredSame
<1>12. AnswersOK(w)'
  <2>1. AnswersOK(w)
    BY Zenon DEF IInv, AnswersInOrder
  <2>2. use_async_scheduling
    BY <1>2, <1>3
  <2> QED BY Zenon, <1>2, <1>7, <1>8, <1>11, <2>1, <2>2 DEF AnswersOK
<1> QED
  BY Zenon, <1>2, <1>7, <1>8, <1>9, <1>11, <1>12 DEF AnswersInOrder

LEMMA AnswersStep == IInv /\ [Next]_vars => AnswersInOrder'
<1> SUFFICES ASSUME IInv, [Next]_vars PROVE AnswersInOrder'
  OBVIOUS
<1>0. Typed
  BY Typing DEF IInv
<1>1. Len(log) \in Nat
  BY <1>0 DEF Typed
<1>2. ASSUME UNCHANGED <<log, received, async_output_queue, response_mq>>,
             \A w \in Ranks : worker'[w] \in {worker[w], "dead"}
      PROVE  AnswersInOrder'
  <2>1. Len(log') \in Nat /\ Len(log) <= Len(log') /\ \A j \in 1..Len(log) : log'[j] = log[j]
    BY <1>1, <1>2
  <2> QED BY Zenon, <1>2, <2>1, KeptAnswers DEF AnswersInOrder
<1>3. ASSUME UNCHANGED <<rpc_vars, worker_vars, response_mq>> PROVE AnswersInOrder'
  <2>1. /\ UNCHANGED <<log, received, async_output_queue, response_mq>>
        /\ \A w \in Ranks : worker'[w] \in {worker[w], "dead"}
    BY <1>3 DEF rpc_vars, worker_vars
  <2> QED BY <1>2, <2>1
<1>4. CASE enqueue
  <2>1. /\ Len(log') = Len(log) + 1 /\ \A j \in 1..Len(log) : log'[j] = log[j]
        /\ UNCHANGED <<received, worker, async_output_queue, response_mq>>
    BY Zenon, <1>4, EnqueueEffect DEF worker_vars
  <2>2. Len(log') \in Nat /\ Len(log) <= Len(log')
    BY <1>1, <2>1
  <2>3. ASSUME NEW w \in Ranks PROVE worker'[w] \in {worker[w], "dead"}
    BY <2>1
  <2> QED BY Zenon, <2>1, <2>2, <2>3, KeptAnswers DEF AnswersInOrder
<1>5. CASE MakeFuture
  BY Zenon, <1>3, <1>5, MakeEffect
<1>6. CASE PopFuture
  BY Zenon, <1>3, <1>6, PopEffect
<1>7. ASSUME NEW i \in 1..MaxCalls, NEW w \in Ranks, AnswerTaken(i, w) PROVE AnswersInOrder'
  <2>1. /\ response_mq[w] /= <<>> /\ response_mq' = [response_mq EXCEPT ![w] = Tail(@)]
        /\ UNCHANGED <<log, received, worker_vars>>
    BY Zenon, <1>7 DEF AnswerTaken, rpc_vars
  <2> QED BY Zenon, <2>1, TakeAnswer
<1>8. ASSUME NEW i \in 1..MaxCalls, NEW st, FutureEnds(i, st) PROVE AnswersInOrder'
  <2>1. UNCHANGED <<log, received, rpc_vars, worker_vars>>
    BY Zenon, <1>8 DEF FutureEnds, rpc_vars
  <2>2. CASE UNCHANGED response_mq BY Zenon, <1>3, <2>1, <2>2
  <2>3. ASSUME NEW w \in Ranks, response_mq[w] /= <<>>, response_mq' = [response_mq EXCEPT ![w] = Tail(@)]
        PROVE  AnswersInOrder'
    BY Zenon, <2>1, <2>3, TakeAnswer
  <2> QED BY Zenon, <1>8, <2>2, <2>3 DEF FutureEnds
<1>9. CASE EngineMoves
  BY Zenon, <1>3, <1>9 DEF EngineMoves, BetweenCalls
<1>10. CASE OthersMove
  BY Zenon, <1>2, <1>10 DEF OthersMove
<1>11. ASSUME NEW w \in Ranks, Dequeue(w) \/ execute_worker_rpc(w) \/ async_output(w)
       PROVE  AnswersInOrder'
  BY Zenon, <1>11, DequeueEffect, ExecuteEffect, OutputEffect
<1> QED
  BY Zenon, Kinds, <1>4, <1>5, <1>6, <1>7, <1>8, <1>9, <1>10, <1>11

------------------------------------------------------------------------------
(***************************************************************************)
(* The answer that is taken is the one to the call that is served          *)
(***************************************************************************)

\* No queue is read twice for a call.
LEMMA MqsDistinct ==
    ASSUME IInv, NEW i \in 1..MaxCalls
    PROVE  /\ \A k, l \in 1..Len(future[i].mqs) : future[i].mqs[k] = future[i].mqs[l] => k = l
           /\ \A k \in 1..Len(future[i].mqs) : future[i].mqs[k] \in Ranks /\ Asked(i, future[i].mqs[k])
           /\ \A w \in Ranks : future[i].mqs /= <<>> /\ Asked(i, w) =>
                 \E k \in 1..Len(future[i].mqs) : future[i].mqs[k] = w
<1>1. CASE future[i].mqs = <<>>
  <2>1. Len(future[i].mqs) = 0
    BY <1>1
  <2>2. \A k \in 1..Len(future[i].mqs) : FALSE
    BY <2>1
  <2> QED BY Zenon, <1>1, <2>2
<1>2. CASE future[i].mqs /= <<>>
  <2>1. i \in 1..Len(log) /\ future[i].mqs = AllMqs(i)
    BY Zenon, <1>2 DEF IInv, FuturesMade, FutureOK
  <2>2. log \in Seq(Calls)
    BY Typing DEF IInv, Typed
  <2>3. log[i] \in Calls
    BY <2>1, <2>2
  <2>4. log[i].output_rank \in Ranks \cup {None} /\ None \notin Ranks
    BY <2>3, ExecutorAssumption
  <2>5. CASE log[i].output_rank = None
    <3>1. future[i].mqs = [k \in 1..world_size |-> k - 1]
      BY <2>1, <2>5 DEF AllMqs
    <3>2. Len(future[i].mqs) = world_size /\ \A k \in 1..world_size : future[i].mqs[k] = k - 1
      BY <3>1, Numbers
    <3>3. \A k \in 1..world_size : k - 1 \in Ranks
      BY Numbers DEF Ranks
    <3>4. \A w \in Ranks : w + 1 \in 1..world_size /\ (w + 1) - 1 = w
      BY Numbers DEF Ranks
    <3>5. \A k, l \in 1..world_size : k - 1 = l - 1 => k = l
      BY Numbers
    <3>6. \A w : Asked(i, w)
      BY <2>5 DEF Asked
    <3>7. \A w \in Ranks : future[i].mqs[w + 1] = w
      BY <3>2, <3>4
    <3>8. \A k, l \in 1..Len(future[i].mqs) : future[i].mqs[k] = future[i].mqs[l] => k = l
      BY Zenon, <3>2, <3>5
    <3>9. \A w \in Ranks : \E k \in 1..Len(future[i].mqs) : future[i].mqs[k] = w
      BY Zenon, <3>2, <3>4, <3>7
    <3>10. \A k \in 1..Len(future[i].mqs) : future[i].mqs[k] \in Ranks
      BY Zenon, <3>2, <3>3
    <3> QED BY Zenon, <3>6, <3>8, <3>9, <3>10
  <2>6. CASE log[i].output_rank /= None
    <3>1. future[i].mqs = <<log[i].output_rank>>
      BY <2>1, <2>6 DEF AllMqs
    <3>2. Len(future[i].mqs) = 1 /\ future[i].mqs[1] = log[i].output_rank
      BY <3>1
    <3>3. \A k \in 1..Len(future[i].mqs) : k = 1
      BY <3>2
    <3>4. 1 \in 1..Len(future[i].mqs)
      BY <3>2
    <3>5. \A w \in Ranks : Asked(i, w) <=> w = log[i].output_rank
      BY <2>4, <2>6 DEF Asked
    <3>6. log[i].output_rank \in Ranks
      BY <2>4, <2>6
    <3> QED BY Zenon, <3>2, <3>3, <3>4, <3>5, <3>6
  <2> QED BY <2>5, <2>6
<1> QED
  BY <1>1, <1>2

\* A finished call has all the answers it asked for, and a later answer is
\* behind those to the call that is served.
LEMMA HeadIsOwn ==
    ASSUME IInv, Clean, NEW i \in 1..MaxCalls, i = engine.popped, NEW w \in Ranks, AnswerTaken(i, w)
    PROVE  Head(response_mq[w]).call = i /\ Head(response_mq[w]).rank = w
<1> DEFINE len == Len(future[i].responses)
<1>0. Typed
  BY Typing DEF IInv
<1>1. /\ \A j \in 1..MaxCalls : future[j].responses \in Seq(Answers) /\ future[j].mqs \in Seq(Ranks)
      /\ MaxCalls \in Nat /\ Len(log) \in Nat /\ Len(log) <= MaxCalls
  <2>1. \A j \in 1..MaxCalls : future[j] \in Futures
    BY Zenon, <1>0 DEF Typed
  <2>2. \A j \in 1..MaxCalls : future[j].responses \in Seq(Answers) /\ future[j].mqs \in Seq(Ranks)
    BY Zenon, <2>1 DEF Futures
  <2>3. MaxCalls \in Nat /\ Len(log) \in Nat /\ Len(log) <= MaxCalls
    BY <1>0, Numbers DEF Typed
  <2> QED BY Zenon, <2>2, <2>3
<1>2. /\ len < Len(future[i].mqs) /\ w = future[i].mqs[len + 1] /\ response_mq[w] /= <<>>
      /\ response_mq' = [response_mq EXCEPT ![w] = Tail(@)] /\ UNCHANGED <<log, received, worker_vars>>
  BY Zenon DEF AnswerTaken, NextMq, rpc_vars
<1>3. /\ len + 1 \in 1..Len(future[i].mqs) /\ future[i].mqs /= <<>>
      /\ \A k \in 1..len : k \in 1..Len(future[i].mqs) /\ k /= len + 1
  BY Zenon, <1>1, <1>2, NextPlace
<1>a. \A k, l \in 1..Len(future[i].mqs) : future[i].mqs[k] = future[i].mqs[l] => k = l
  BY Zenon, MqsDistinct
<1>b. /\ \A j \in 1..MaxCalls : FutureOK(j)
      /\ \A j \in 1..(i - 1) : future[j].mqs /= <<>>
  BY Zenon, <1>3 DEF IInv, FuturesMade
<1>c. /\ \A j \in 1..MaxCalls : future[j].state = "pending" =>
            j = engine.popped \/ \E k \in 1..Len(futures_queue) : futures_queue[k] = j
      /\ \A k \in 1..Len(futures_queue) : engine.popped < futures_queue[k]
  BY Zenon DEF IInv, ServedInOrder
<1>4. Asked(i, w)
  BY Zenon, <1>2, <1>3, MqsDistinct
<1>5. future[i].state = "pending"
  BY DEF IInv, EnginePlace
<1>6. PICK h : h = Head(response_mq[w]).call
  BY Zenon
<1>7. /\ Underway(w) \in Seq(Answers) /\ Answered(Underway(w), w, log, Served(w))
      /\ Served(w) \in Nat /\ Served(w) <= Len(received[w]) /\ Len(received[w]) <= Len(log)
      /\ Len(received[w]) \in Nat
  BY Zenon, UnderwayFacts
<1>8. Underway(w) /= <<>> /\ Head(Underway(w)) = Head(response_mq[w])
  BY Zenon, <1>2, TakeAnswer
<1>9. /\ Holds(Underway(w), h) /\ \A j : Holds(Underway(w), j) => h <= j
      /\ Head(response_mq[w]).rank = w /\ h \in 1..Served(w) /\ Asked(h, w)
  BY Zenon, <1>6, <1>7, <1>8, HoldsTail DEF Asked
<1>10. h \in 1..MaxCalls /\ h \in 1..Len(received[w])
  BY <1>1, <1>7, <1>9
<1>11. \A j \in 1..MaxCalls : Once(j, w)
  BY Zenon DEF IInv, NothingLost
<1>12. ~ h < i
  <2> SUFFICES ASSUME h < i PROVE FALSE
    OBVIOUS
  <2>0. future[h].mqs /= <<>>
    <3>1. h \in 1..(i - 1)
      BY <1>10
    <3> QED BY Zenon, <1>b, <3>1
  <2>1. future[h].state = "result"
    <3>1. future[h].state \in States
      <4>1. future[h] \in Futures BY <1>0, <1>10 DEF Typed
      <4> QED BY <4>1 DEF Futures
    <3>2. future[h].state /= "error"
      BY Zenon, <1>10 DEF Clean
    <3>5. future[h].state /= "none"
      BY Zenon, <1>b, <1>10, <2>0 DEF FutureOK
    <3>6. future[h].state /= "pending"
      <4> SUFFICES ASSUME future[h].state = "pending" PROVE FALSE
        OBVIOUS
      <4>1. h /= engine.popped
        BY <1>10
      <4>2. PICK k \in 1..Len(futures_queue) : futures_queue[k] = h
        BY Zenon, <1>c, <1>10, <4>1
      <4>3. engine.popped < h
        BY Zenon, <1>c, <4>2
      <4> QED BY <1>10, <4>3
    <3> QED BY <3>1, <3>2, <3>5, <3>6 DEF States
  <2>2. Len(future[h].responses) = Len(future[h].mqs)
    BY Zenon, <1>b, <1>10, <2>1 DEF FutureOK
  <2>3. \E k \in 1..Len(future[h].mqs) : future[h].mqs[k] = w
    BY Zenon, <1>9, <1>10, <2>0, MqsDistinct
  <2>4. Taken(h, w)
    BY Zenon, <2>2, <2>3 DEF Taken
  <2> QED BY Zenon, <1>9, <1>10, <1>11, <2>4 DEF Once
<1>13. ~ i < h
  <2> SUFFICES ASSUME i < h PROVE FALSE
    OBVIOUS
  <2>1. i \in 1..Len(received[w]) /\ i < Len(received[w])
    BY <1>7, <1>10
  <2>2. ~ Taken(i, w)
    <3> SUFFICES ASSUME NEW k \in 1..len, future[i].mqs[k] = w PROVE FALSE
      BY DEF Taken
    <3> QED BY Zenon, <1>2, <1>3, <1>a
  <2>3. Holds(Underway(w), i)
    BY Zenon, <1>4, <1>11, <2>1, <2>2 DEF Once
  <2>4. h <= i
    BY Zenon, <1>9, <2>3
  <2> QED BY <1>10, <2>4
<1>14. h = i
  BY <1>10, <1>12, <1>13
<1> QED
  BY <1>6, <1>9, <1>14

LEMMA LostStep == IInv /\ [Next]_vars => NothingLost'
<1> SUFFICES ASSUME IInv, [Next]_vars, Clean' PROVE \A w \in Ranks, j \in 1..MaxCalls : Once(j, w)'
  BY DEF NothingLost
<1>0. Typed
  BY Typing DEF IInv
<1>1. /\ Len(log) \in Nat /\ Len(log) <= MaxCalls /\ MaxCalls \in Nat
      /\ \A w \in Ranks : Len(received[w]) <= Len(log) /\ Len(received[w]) \in Nat
  <2>1. Len(log) \in Nat /\ Len(log) <= MaxCalls /\ MaxCalls \in Nat
    BY <1>0, Numbers DEF Typed
  <2> QED BY Zenon, <2>1, UnderwayFacts
<1>2. ASSUME Clean PROVE \A w \in Ranks, j \in 1..MaxCalls : Once(j, w)
  BY Zenon, <1>2 DEF IInv, NothingLost
<1>3. ASSUME NEW w \in Ranks, NEW j \in 1..MaxCalls, Once(j, w), Taken(j, w)' <=> Taken(j, w),
             Holds(Underway(w)', j) <=> Holds(Underway(w), j),
             received'[w] = received[w], worker'[w] \in {worker[w], "dead"},
             \A k \in 1..Len(log) : log'[k] = log[k]
      PROVE  Once(j, w)'
  <2>1. /\ Served(w) \in Nat /\ Served(w) <= Len(received[w]) /\ Len(received[w]) \in Nat
        /\ worker[w] = "call" => Served(w) = Len(received[w]) - 1
        /\ worker[w] /= "call" => Served(w) = Len(received[w])
    BY Zenon, UnderwayFacts
  <2>2. j <= Served(w) => j <= Served(w)'
    BY <1>3, <2>1 DEF Served
  <2>3. j \in 1..Len(received'[w]) => (Asked(j, w)' <=> Asked(j, w))
    <3>1. j \in 1..Len(received'[w]) => j \in 1..Len(log)
      BY <1>1, <1>3
    <3> QED BY Zenon, <1>3, <3>1 DEF Asked
  <2>4. worker'[w] = "loop" => worker[w] = "loop"
    BY <1>3
  <2> QED BY Zenon, <1>3, <2>2, <2>3, <2>4 DEF Once
<1>4. ASSUME UNCHANGED <<received, async_output_queue, response_mq, future>>,
             \A w \in Ranks : worker'[w] \in {worker[w], "dead"},
             \A k \in 1..Len(log) : log'[k] = log[k]
      PROVE  \A w \in Ranks, j \in 1..MaxCalls : Once(j, w)'
  <2>1. Clean
    BY Zenon, <1>4 DEF Clean
  <2>2. \A w \in Ranks, j \in 1..MaxCalls : /\ Taken(j, w)' <=> Taken(j, w)
                                            /\ Underway(w)' = Underway(w)
    BY Zenon, <1>4 DEF Taken, Underway
  <2> QED BY Zenon, <1>2, <1>3, <1>4, <2>1, <2>2
<1>5. CASE enqueue
  <2>1. /\ \A k \in 1..Len(log) : log'[k] = log[k]
        /\ UNCHANGED <<received, worker, async_output_queue, response_mq, future>>
    BY Zenon, <1>5, EnqueueEffect DEF worker_vars, future_vars
  <2>2. \A w \in Ranks : worker'[w] \in {worker[w], "dead"}
    BY <2>1
  <2> QED BY Zenon, <1>4, <2>1, <2>2
<1>6. CASE MakeFuture
  <2>0. PICK n \in 1..MaxCalls : n = Len(log)
    BY Zenon, <1>6, MakeEffect
  <2>1. UNCHANGED <<log, received, worker, async_output_queue, response_mq>>
    BY Zenon, <1>6, MakeEffect DEF rpc_vars, worker_vars
  <2>2. \A w \in Ranks : worker'[w] \in {worker[w], "dead"}
    BY <2>1
  <2>3. CASE UNCHANGED future_vars
    BY Zenon, <1>4, <2>1, <2>2, <2>3 DEF future_vars
  <2>4. CASE /\ future'[n].state = "pending" /\ future'[n].responses = <<>>
             /\ \A j \in 1..MaxCalls : j /= n => future'[j] = future[j]
    <3>1. future[n].state = "none" /\ future[n].responses = <<>>
      <4>1. engine.pc = "reply" BY <1>6 DEF MakeFuture
      <4>2. ~ Made(n) BY <2>0, <4>1 DEF Made
      <4> QED BY Zenon, <4>2 DEF IInv, FuturesMade, FutureOK
    <3>2. Clean
      <4>1. future[n].state /= "error" BY <3>1
      <4> QED BY Zenon, <2>4, <4>1 DEF Clean
    <3>3. Len(<<>>) = 0 /\ \A k \in 1..0 : FALSE
      OBVIOUS
    <3>4. ASSUME NEW w \in Ranks, NEW j \in 1..MaxCalls PROVE Taken(j, w)' <=> Taken(j, w)
      <4>1. CASE j = n
        <5>1. ~ Taken(n, w) /\ ~ (\E k \in 1..Len(future'[n].responses) : future'[n].mqs[k] = w)
          BY Zenon, <2>4, <3>1, <3>3 DEF Taken
        <5> QED BY Zenon, <4>1, <5>1 DEF Taken
      <4>2. CASE j /= n BY Zenon, <2>4, <4>2 DEF Taken
      <4> QED BY <4>1, <4>2
    <3>5. \A w \in Ranks : Underway(w)' = Underway(w)
      BY Zenon, <2>1 DEF Underway
    <3> QED BY Zenon, <1>2, <1>3, <2>1, <2>2, <3>2, <3>4, <3>5
  <2> QED BY Zenon, <1>6, <2>0, <2>3, <2>4, MakeEffect
<1>7. CASE PopFuture
  <2>1. UNCHANGED <<log, received, worker, async_output_queue, response_mq, future>>
    BY Zenon, <1>7, PopEffect DEF rpc_vars, worker_vars
  <2>2. \A w \in Ranks : worker'[w] \in {worker[w], "dead"}
    BY <2>1
  <2> QED BY Zenon, <1>4, <2>1, <2>2
<1>8. ASSUME NEW i \in 1..MaxCalls, i = engine.popped, NEW w \in Ranks, AnswerTaken(i, w),
             NEW v \in Ranks, NEW j \in 1..MaxCalls
      PROVE  Once(j, v)'
  <2>1. /\ Len(future[i].responses) < Len(future[i].mqs) /\ w = future[i].mqs[Len(future[i].responses) + 1]
        /\ response_mq[w] /= <<>> /\ response_mq' = [response_mq EXCEPT ![w] = Tail(@)]
        /\ UNCHANGED <<log, received, worker_vars>>
    BY Zenon, <1>8 DEF AnswerTaken, NextMq, rpc_vars
  <2>2. /\ future'[i].state = future[i].state /\ future'[i].mqs = future[i].mqs
        /\ future'[i].responses = Append(future[i].responses, Head(response_mq[w]))
        /\ \A h \in 1..MaxCalls : h /= i => future'[h] = future[h]
    BY Zenon, <1>8, TakenEffect
  <2>3. Clean
    BY Zenon, <2>2 DEF Clean
  <2>4. Head(response_mq[w]).call = i /\ Head(response_mq[w]).rank = w
    BY Zenon, <1>8, <2>3, HeadIsOwn
  <2>5. /\ Underway(w) /= <<>> /\ Head(Underway(w)) = Head(response_mq[w])
        /\ Underway(w)' = Tail(Underway(w)) /\ \A u \in Ranks : u /= w => Underway(u)' = Underway(u)
        /\ Served(w)' = Served(w)
    BY Zenon, <2>1, TakeAnswer
  <2>6. /\ Underway(w) \in Seq(Answers) /\ Answered(Underway(w), w, log, Served(w)) /\ Served(w) \in Nat
    BY Zenon, UnderwayFacts
  <2>7. /\ Holds(Underway(w)', j) <=> Holds(Underway(w), j) /\ j /= i
        /\ i \in 1..Served(w)
    <3>1. Head(Underway(w)).call = i
      BY Zenon, <2>4, <2>5
    <3>2. /\ Holds(Tail(Underway(w)), j) <=> Holds(Underway(w), j) /\ j /= Head(Underway(w)).call
          /\ Head(Underway(w)).call \in 1..Served(w)
      BY Zenon, <2>5, <2>6, HoldsTail
    <3> QED BY Zenon, <2>5, <3>1, <3>2
  <2>8. /\ Len(future'[i].responses) = Len(future[i].responses) + 1 /\ Len(future[i].responses) \in Nat
    <3>1. future[i] \in Futures
      BY Zenon, <1>0 DEF Typed
    <3>2. future[i].responses \in Seq(Answers)
      BY Zenon, <3>1 DEF Futures
    <3> QED BY <2>2, <3>2
  <2>9. worker'[v] \in {worker[v], "dead"} /\ received'[v] = received[v]
    BY <2>1 DEF worker_vars
  <2>10. CASE j = i /\ v = w
    <3>1. Taken(i, w)'
      <4>1. Len(future[i].responses) + 1 \in 1..Len(future'[i].responses)
        BY <2>8
      <4> QED BY Zenon, <2>1, <2>2, <4>1 DEF Taken
    <3>2. ~ Holds(Underway(w)', i)
      BY Zenon, <2>7, <2>10
    <3>3. i <= Served(w)'
      BY <2>5, <2>6, <2>7
    <3> QED BY Zenon, <2>10, <3>1, <3>2, <3>3 DEF Once
  <2>11. CASE ~ (j = i /\ v = w)
    <3>1. Taken(j, v)' <=> Taken(j, v)
      <4>1. CASE j /= i BY Zenon, <2>2, <4>1 DEF Taken
      <4>2. CASE j = i /\ v /= w
        <5>1. \A k \in 1..Len(future'[i].responses) : \/ k \in 1..Len(future[i].responses)
                                                      \/ k = Len(future[i].responses) + 1
          BY <2>8
        <5>2. \A k \in 1..Len(future[i].responses) : k \in 1..Len(future'[i].responses)
          BY <2>8
        <5> QED BY Zenon, <2>1, <2>2, <4>2, <5>1, <5>2 DEF Taken
      <4> QED BY <2>11, <4>1, <4>2
    <3>2. Holds(Underway(v)', j) <=> Holds(Underway(v), j)
      BY Zenon, <2>5, <2>7, <2>11
    <3> QED BY Zenon, <1>2, <1>3, <2>1, <2>3, <2>9, <3>1, <3>2
  <2> QED BY <2>10, <2>11
<1>9. ASSUME NEW i \in 1..MaxCalls, i = engine.popped, NEW st \in {"result", "error"}, FutureEnds(i, st)
      PROVE  \A w \in Ranks, j \in 1..MaxCalls : Once(j, w)'
  <2>1. /\ future'[i].state = st /\ future'[i].mqs = future[i].mqs /\ future'[i].responses = future[i].responses
        /\ future[i].state = "pending" /\ \A h \in 1..MaxCalls : h /= i => future'[h] = future[h]
    BY Zenon, <1>9, EndsEffect
  <2>2. st /= "error"
    BY Zenon, <2>1 DEF Clean
  <2>3. UNCHANGED <<log, received, worker, async_output_queue, response_mq>>
    BY <1>9, <2>2 DEF FutureEnds, rpc_vars, worker_vars
  <2>4. Clean
    <3>1. future[i].state /= "error" BY <2>1
    <3> QED BY Zenon, <2>1, <3>1 DEF Clean
  <2>5. \A w \in Ranks, j \in 1..MaxCalls : Taken(j, w)' <=> Taken(j, w)
    BY Zenon, <2>1 DEF Taken
  <2>6. \A w \in Ranks : Underway(w)' = Underway(w) /\ worker'[w] \in {worker[w], "dead"}
    BY <2>3 DEF Underway
  <2> QED BY Zenon, <1>2, <1>3, <2>3, <2>4, <2>5, <2>6
<1>10. CASE EngineMoves
  <2>1. BetweenCalls BY <1>10 DEF EngineMoves
  <2>2. UNCHANGED <<log, received, worker, async_output_queue, response_mq, future>>
    BY Zenon, <2>1 DEF BetweenCalls, rpc_vars, worker_vars, future_vars
  <2>3. \A w \in Ranks : worker'[w] \in {worker[w], "dead"}
    BY <2>2
  <2> QED BY Zenon, <1>4, <2>2, <2>3
<1>11. CASE OthersMove
  BY Zenon, <1>4, <1>11 DEF OthersMove, future_vars
<1>12. ASSUME NEW w \in Ranks, Dequeue(w), NEW v \in Ranks, NEW j \in 1..MaxCalls PROVE Once(j, v)'
  <2>1. /\ UNCHANGED <<log, future_vars>> /\ worker[w] = "loop" /\ worker'[w] = "call"
        /\ Len(received'[w]) = Len(received[w]) + 1
        /\ \A u \in Ranks : /\ Underway(u)' = Underway(u)
                            /\ u /= w => received'[u] = received[u] /\ worker'[u] = worker[u]
    BY Zenon, <1>12, DequeueEffect
  <2>2. future' = future
    BY <2>1 DEF future_vars
  <2>3. Clean
    BY Zenon, <2>2 DEF Clean
  <2>4. Taken(j, v)' <=> Taken(j, v)
    BY Zenon, <2>2 DEF Taken
  <2>5. CASE v /= w
    <3>1. worker'[v] \in {worker[v], "dead"} /\ received'[v] = received[v] /\ Underway(v)' = Underway(v)
      BY Zenon, <2>1, <2>5
    <3> QED BY Zenon, <1>2, <1>3, <2>1, <2>3, <2>4, <3>1
  <2>6. CASE v = w
    <3>1. Once(j, w)
      BY Zenon, <1>2, <2>3
    <3>2. Served(w) = Len(received[w]) /\ Served(w)' = Len(received[w])
      BY <1>1, <2>1 DEF Served
    <3>3. j \in 1..Len(received'[w]) /\ j < Len(received'[w]) => j \in 1..Len(received[w])
      BY <1>1, <2>1
    <3>4. worker'[w] /= "loop"
      BY <2>1
    <3>5. Asked(j, w)' <=> Asked(j, w)
      BY Zenon, <2>1 DEF Asked
    <3>6. Once(j, w)'
      BY Zenon, <2>1, <2>4, <2>6, <3>1, <3>2, <3>3, <3>4, <3>5 DEF Once
    <3> QED BY <2>6, <3>6
  <2> QED BY <2>5, <2>6
<1>13. ASSUME NEW w \in Ranks, execute_worker_rpc(w), NEW v \in Ranks, NEW j \in 1..MaxCalls PROVE Once(j, v)'
  <2>1. /\ UNCHANGED <<log, received, future_vars>>
        /\ worker[w] = "call" /\ worker'[w] = "loop" /\ Served(w)' = Len(received[w])
        /\ \A u \in Ranks : u /= w => worker'[u] = worker[u] /\ Underway(u)' = Underway(u)
        /\ Holds(Underway(w)', j) <=> Holds(Underway(w), j) \/ (j = Len(received[w]) /\ Asked(j, w))
    BY Zenon, <1>13, ExecuteEffect
  <2>2. future' = future
    BY <2>1 DEF future_vars
  <2>3. Clean
    BY Zenon, <2>2 DEF Clean
  <2>4. Taken(j, v)' <=> Taken(j, v)
    BY Zenon, <2>2 DEF Taken
  <2>5. CASE v /= w
    <3>1. worker'[v] \in {worker[v], "dead"} /\ received'[v] = received[v] /\ Underway(v)' = Underway(v)
      BY Zenon, <2>1, <2>5
    <3> QED BY Zenon, <1>2, <1>3, <2>1, <2>3, <2>4, <3>1
  <2>6. CASE v = w
    <3>1. Once(j, w)
      BY Zenon, <1>2, <2>3
    <3>2. Served(w) = Len(received[w]) - 1
      BY <2>1 DEF Served
    <3>3. j <= Served(w) => j <= Len(received[w]) /\ j /= Len(received[w])
      BY <1>1, <3>2
    <3>4. j \in 1..Len(received[w]) => j = Len(received[w]) \/ j < Len(received[w])
      BY <1>1
    <3>5. Asked(j, w)' <=> Asked(j, w)
      BY Zenon, <2>1 DEF Asked
    <3>6. Holds(Underway(w)', j) => ~ Taken(j, w)'
      BY Zenon, <2>1, <2>4, <2>6, <3>1, <3>3 DEF Once
    <3>7. Taken(j, w)' => j <= Served(w)'
      BY Zenon, <2>1, <2>4, <2>6, <3>1, <3>3 DEF Once
    <3>8. j \in 1..Len(received'[w]) /\ Asked(j, w)' => Holds(Underway(w)', j) \/ Taken(j, w)'
      BY Zenon, <2>1, <2>4, <2>6, <3>1, <3>4, <3>5 DEF Once
    <3>9. Once(j, w)'
      BY Zenon, <3>6, <3>7, <3>8 DEF Once
    <3> QED BY <2>6, <3>9
  <2> QED BY <2>5, <2>6
<1>14. ASSUME NEW w \in Ranks, async_output(w), NEW v \in Ranks, NEW j \in 1..MaxCalls PROVE Once(j, v)'
  <2>1. /\ UNCHANGED <<log, received, worker, future_vars>>
        /\ Holds(Underway(v)', j) <=> Holds(Underway(v), j)
    BY Zenon, <1>14, OutputEffect
  <2>2. future' = future
    BY <2>1 DEF future_vars
  <2>3. Clean
    BY Zenon, <2>2 DEF Clean
  <2>4. Taken(j, v)' <=> Taken(j, v)
    BY Zenon, <2>2 DEF Taken
  <2>5. worker'[v] \in {worker[v], "dead"} /\ received'[v] = received[v]
    BY Zenon, <2>1
  <2> QED BY Zenon, <1>2, <1>3, <2>1, <2>3, <2>4, <2>5
<1> QED
  BY Zenon, Kinds, <1>5, <1>6, <1>7, <1>8, <1>9, <1>10, <1>11, <1>12, <1>13, <1>14

LEMMA PairedStep == IInv /\ [Next]_vars => Paired'
<1> SUFFICES ASSUME IInv, [Next]_vars, NEW i \in 1..MaxCalls,
                    \A j \in 1..(i - 1) : future'[j].state /= "error",
                    NEW k \in 1..Len(future'[i].responses)
             PROVE  future'[i].responses[k].call = i /\ future'[i].responses[k].rank = future'[i].mqs[k]
  BY Zenon DEF Paired
<1>0. Typed /\ Paired
  BY Typing DEF IInv
<1>1. MaxCalls \in Nat /\ \A j \in 1..(i - 1) : j \in 1..MaxCalls
  BY Numbers
<1>2. ASSUME \A j \in 1..MaxCalls : future[j].state = "error" => future'[j].state = "error",
             future'[i].responses = future[i].responses, future'[i].mqs = future[i].mqs
      PROVE  future'[i].responses[k].call = i /\ future'[i].responses[k].rank = future'[i].mqs[k]
  <2>1. \A j \in 1..(i - 1) : future[j].state /= "error"
    BY Zenon, <1>1, <1>2
  <2>2. \A l \in 1..Len(future[i].responses) :
           future[i].responses[l].call = i /\ future[i].responses[l].rank = future[i].mqs[l]
    BY Zenon, <1>0, <2>1 DEF Paired
  <2> QED BY Zenon, <1>2, <2>2
<1>3. CASE UNCHANGED future
  BY Zenon, <1>2, <1>3
<1>4. CASE enqueue
  <2>1. UNCHANGED future BY Zenon, <1>4, EnqueueEffect DEF future_vars
  <2> QED BY <1>3, <2>1
<1>5. CASE MakeFuture
  <2>0. PICK n \in 1..MaxCalls : n = Len(log)
    BY Zenon, <1>5, MakeEffect
  <2>1. CASE UNCHANGED future_vars
    <3>1. UNCHANGED future BY <2>1 DEF future_vars
    <3> QED BY <1>3, <3>1
  <2>2. CASE /\ future'[n].responses = <<>>
             /\ \A j \in 1..MaxCalls : j /= n => future'[j] = future[j]
    <3>1. i /= n
      <4> SUFFICES ASSUME i = n PROVE FALSE
        OBVIOUS
      <4>1. k \in 1..Len(<<>>) BY Zenon, <2>2
      <4> QED BY <4>1
    <3>2. future[n].state = "none"
      <4>1. engine.pc = "reply" BY <1>5 DEF MakeFuture
      <4>2. ~ Made(n) BY <2>0, <4>1 DEF Made
      <4> QED BY Zenon, <4>2 DEF IInv, FuturesMade, FutureOK
    <3>3. \A j \in 1..MaxCalls : future[j].state = "error" => future'[j].state = "error"
      <4>1. future[n].state /= "error" BY <3>2
      <4> QED BY Zenon, <2>2, <4>1
    <3> QED BY Zenon, <1>2, <2>2, <3>1, <3>3
  <2> QED BY Zenon, <1>5, <2>0, <2>1, <2>2, MakeEffect
<1>6. CASE PopFuture
  <2>1. UNCHANGED future BY Zenon, <1>6, PopEffect
  <2> QED BY <1>3, <2>1
<1>7. ASSUME NEW p \in 1..MaxCalls, p = engine.popped, NEW w \in Ranks, AnswerTaken(p, w)
      PROVE  future'[i].responses[k].call = i /\ future'[i].responses[k].rank = future'[i].mqs[k]
  <2>1. /\ future'[p].state = "pending" /\ future[p].state = "pending" /\ future'[p].mqs = future[p].mqs
        /\ future'[p].responses = Append(future[p].responses, Head(response_mq[w]))
        /\ \A h \in 1..MaxCalls : h /= p => future'[h] = future[h]
    BY Zenon, <1>7, TakenEffect
  <2>2. \A j \in 1..MaxCalls : future'[j].state = future[j].state
    BY Zenon, <2>1
  <2>3. CASE i /= p
    BY Zenon, <1>2, <2>1, <2>2, <2>3
  <2>4. CASE i = p
    <3>1. w = future[p].mqs[Len(future[p].responses) + 1]
      BY Zenon, <1>7 DEF AnswerTaken, NextMq
    <3>2. Clean
      <4> SUFFICES ASSUME NEW j \in 1..MaxCalls, future[j].state = "error" PROVE FALSE
        BY Zenon DEF Clean
      <4>1. j < p
        BY <2>1 DEF IInv, ServedInOrder
      <4>2. j \in 1..(i - 1)
        BY <2>4, <4>1
      <4> QED BY Zenon, <2>2, <4>2
    <3>3. Head(response_mq[w]).call = p /\ Head(response_mq[w]).rank = w
      BY Zenon, <1>7, <3>2, HeadIsOwn
    <3>4. future[p].responses \in Seq(Answers)
      <4>1. future[p] \in Futures BY Zenon, <1>0 DEF Typed
      <4> QED BY Zenon, <4>1 DEF Futures
    <3>5. \/ k = Len(future[p].responses) + 1 /\ future'[p].responses[k] = Head(response_mq[w])
          \/ k \in 1..Len(future[p].responses) /\ future'[p].responses[k] = future[p].responses[k]
      <4>1. k \in 1..Len(Append(future[p].responses, Head(response_mq[w])))
        BY Zenon, <2>1, <2>4
      <4>2. \/ k = Len(future[p].responses) + 1
               /\ Append(future[p].responses, Head(response_mq[w]))[k] = Head(response_mq[w])
            \/ k \in 1..Len(future[p].responses)
               /\ Append(future[p].responses, Head(response_mq[w]))[k] = future[p].responses[k]
        BY <3>4, <4>1
      <4> QED BY Zenon, <2>1, <4>2
    <3>6. CASE k = Len(future[p].responses) + 1 /\ future'[p].responses[k] = Head(response_mq[w])
      BY Zenon, <2>1, <2>4, <3>1, <3>3, <3>6
    <3>7. CASE k \in 1..Len(future[p].responses) /\ future'[p].responses[k] = future[p].responses[k]
      <4>1. \A j \in 1..(p - 1) : future[j].state /= "error"
        BY Zenon, <1>1, <2>2, <2>4
      <4>2. future[p].responses[k].call = p /\ future[p].responses[k].rank = future[p].mqs[k]
        BY Zenon, <1>0, <3>7, <4>1 DEF Paired
      <4> QED BY Zenon, <2>1, <2>4, <3>7, <4>2
    <3> QED BY Zenon, <3>5, <3>6, <3>7
  <2> QED BY <2>3, <2>4
<1>8. ASSUME NEW p \in 1..MaxCalls, p = engine.popped, NEW st \in {"result", "error"}, FutureEnds(p, st)
      PROVE  future'[i].responses[k].call = i /\ future'[i].responses[k].rank = future'[i].mqs[k]
  <2>1. /\ future[p].state = "pending" /\ future'[p].mqs = future[p].mqs
        /\ future'[p].responses = future[p].responses
        /\ \A h \in 1..MaxCalls : h /= p => future'[h] = future[h]
    BY Zenon, <1>8, EndsEffect
  <2>2. future[p].state /= "error"
    BY <2>1
  <2>3. \A j \in 1..MaxCalls : /\ future[j].state = "error" => future'[j].state = "error"
                               /\ future'[j].responses = future[j].responses /\ future'[j].mqs = future[j].mqs
    BY Zenon, <2>1, <2>2
  <2> QED BY Zenon, <1>2, <2>3
<1>9. CASE EngineMoves
  <2>1. UNCHANGED future BY Zenon, <1>9 DEF EngineMoves, BetweenCalls, future_vars
  <2> QED BY <1>3, <2>1
<1>10. CASE OthersMove
  <2>1. UNCHANGED future BY Zenon, <1>10 DEF OthersMove, future_vars
  <2> QED BY <1>3, <2>1
<1>11. ASSUME NEW w \in Ranks, Dequeue(w) \/ execute_worker_rpc(w) \/ async_output(w)
       PROVE  UNCHANGED future
  BY Zenon, <1>11 DEF Dequeue, execute_worker_rpc, async_output, future_vars
<1> QED
  BY Zenon, Kinds, <1>3, <1>4, <1>5, <1>6, <1>7, <1>8, <1>9, <1>10, <1>11

------------------------------------------------------------------------------
(***************************************************************************)
(* Theorems                                                                *)
(***************************************************************************)

LEMMA InitIInv == Init => IInv
<1> SUFFICES ASSUME Init PROVE IInv
  OBVIOUS
<1>1. /\ log = <<>> /\ received = [w \in Ranks |-> <<>>] /\ gone = {}
      /\ worker = [w \in Ranks |-> "loop"] /\ async_output_queue = [w \in Ranks |-> <<>>]
      /\ response_mq = [w \in Ranks |-> <<>>] /\ future = [i \in 1..MaxCalls |-> NoFuture]
      /\ futures_queue = <<>> /\ engine = Idle /\ closing = [t \in Threads |-> "no"]
      /\ executor = [is_failed |-> FALSE, shutting_down |-> FALSE, has_rpc_mq |-> TRUE,
                     has_response_mqs |-> TRUE, cancelled |-> FALSE]
  BY DEF Init, rpc!Init
<1>2. /\ NoFuture \in Futures /\ NoFuture.state = "none" /\ NoFuture.mqs = <<>> /\ NoFuture.responses = <<>>
  BY DEF NoFuture, Futures, States
<1>3. executor \in Executors
  BY <1>1 DEF Executors
<1>4. Len(log) = 0 /\ Len(futures_queue) = 0 /\ (\A k \in 1..0 : FALSE) /\ Len(<<>>) = 0
  BY <1>1
<1>5. /\ \A i \in 1..MaxCalls : /\ future[i].state = "none" /\ future[i].mqs = <<>>
                                /\ future[i].responses = <<>>
      /\ \A w \in Ranks : /\ received[w] = <<>> /\ worker[w] = "loop" /\ response_mq[w] = <<>>
                          /\ async_output_queue[w] = <<>>
  <2>1. \A i \in 1..MaxCalls : future[i] = NoFuture
    BY Zenon, <1>1
  <2>2. \A w \in Ranks : /\ received[w] = <<>> /\ worker[w] = "loop" /\ response_mq[w] = <<>>
                         /\ async_output_queue[w] = <<>>
    BY Zenon, <1>1
  <2> QED BY Zenon, <1>2, <2>1, <2>2
<1>6. engine.pc = "idle" /\ engine.popped = 0 /\ engine \in Engines
  BY Zenon, <1>1, IdleType
<1>7. Typed
  <2>1. log \in Seq(Calls) /\ futures_queue \in Seq(1..MaxCalls) /\ Len(log) <= MaxCalls
    BY <1>1, <1>4, Numbers
  <2>2. /\ received \in [Ranks -> Seq(Calls)] /\ response_mq \in [Ranks -> Seq(Answers)]
        /\ async_output_queue \in [Ranks -> Seq(Answers)] /\ gone \subseteq Ranks
        /\ worker \in [Ranks -> {"loop", "call", "dead"}]
        /\ closing \in [Threads -> {"no", "begin", "terminate", "close", "drop", "done"}]
    BY <1>1
  <2>3. future \in [1..MaxCalls -> Futures]
    BY Zenon, <1>1, <1>2
  <2> QED BY Zenon, <1>3, <1>6, <2>1, <2>2, <2>3 DEF Typed
<1>8. TypeOK
  BY Zenon, <1>7 DEF TypeOK, Typed, States, Futures, Engines, Executors
<1>9. ShutdownOrder
  BY <1>1 DEF ShutdownOrder
<1>10. FuturesMade
  <2>1. \A i \in 1..MaxCalls : FutureOK(i)
    BY <1>5 DEF FutureOK
  <2> QED BY Zenon, <1>4, <1>5, <2>1 DEF FuturesMade
<1>11. ServedInOrder
  BY <1>4, <1>5 DEF ServedInOrder
<1>12. EnginePlace
  BY <1>6 DEF EnginePlace
<1>13. \A w \in Ranks : Underway(w) = <<>> /\ Served(w) = 0 /\ Len(Underway(w)) = 0
  <2>1. <<>> \o <<>> = <<>>
    OBVIOUS
  <2>2. ASSUME NEW w \in Ranks PROVE Underway(w) = <<>> /\ Len(Underway(w)) = 0
    BY Zenon, <1>4, <1>5, <2>1, <2>2 DEF Underway
  <2>3. ASSUME NEW w \in Ranks PROVE Served(w) = 0
    <3>1. worker[w] /= "call" /\ Len(received[w]) = 0
      BY <1>4, <1>5
    <3> QED BY <3>1 DEF Served
  <2> QED BY Zenon, <2>2, <2>3
<1>14. AnswersInOrder
  <2>1. ASSUME NEW w \in Ranks PROVE AnswersOK(w)
    <3>1. Answered(Underway(w), w, log, Served(w))
      BY Zenon, <1>4, <1>13 DEF Answered
    <3>2. Len(received[w]) <= Len(log) /\ ~ worker[w] = "call"
      BY <1>4, <1>5
    <3> QED BY Zenon, <1>5, <3>1, <3>2 DEF AnswersOK
  <2> QED BY <2>1 DEF AnswersInOrder
<1>15. NothingLost
  <2>1. ASSUME NEW w \in Ranks, NEW j \in 1..MaxCalls PROVE Once(j, w)
    BY Zenon, <1>4, <1>5, <1>13 DEF Once, Holds, Taken
  <2> QED BY <2>1 DEF NothingLost
<1>16. Paired
  BY Zenon, <1>4, <1>5 DEF Paired
<1> QED
  BY <1>8, <1>9, <1>10, <1>11, <1>12, <1>14, <1>15, <1>16 DEF IInv

(***************************************************************************)
(* The inductive invariant holds in every reachable state: collective_rpc  *)
(* and FutureWrapper.result serve the calls in their order, the workers'   *)
(* queues keep the answers in that order, and until a call fails each      *)
(* answer is either on its way or with the future of its call.             *)
(***************************************************************************)
THEOREM ExecutorInvariance == Spec => []IInv
<1>1. Init => IInv
  BY InitIInv
<1>2. IInv /\ [Next]_vars => IInv'
  BY Zenon, TypeStep, ShutdownStep, FuturesStep, OrderStep, PlaceStep, AnswersStep, LostStep, PairedStep DEF IInv
<1> QED
  BY <1>1, <1>2, PTL DEF Spec

(***************************************************************************)
(* Calls, futures, answers and the fields that the engine thread, the      *)
(* monitor thread and the workers share keep their types.                  *)
(***************************************************************************)
THEOREM ExecutorTypes == Spec => []TypeOK
<1>1. IInv => TypeOK
  BY DEF IInv
<1> QED
  BY <1>1, ExecutorInvariance, PTL

LEMMA InvariantPairs == IInv => AnswersPaired
<1> SUFFICES ASSUME IInv, NEW i \in 1..Len(log), \A j \in 1..(i - 1) : future[j].state /= "error"
             PROVE  /\ \A k \in 1..Len(future[i].responses) :
                          future[i].responses[k].call = i /\ future[i].responses[k].rank = future[i].mqs[k]
                    /\ future[i].state = "result" /\ ~ executor.shutting_down =>
                          Len(future[i].responses) = IF log[i].output_rank = None THEN world_size ELSE 1
  BY Zenon DEF AnswersPaired
<1>1. Typed
  BY Typing DEF IInv
<1>2. i \in 1..MaxCalls
  BY <1>1, Numbers DEF Typed
<1>3. \A k \in 1..Len(future[i].responses) :
         future[i].responses[k].call = i /\ future[i].responses[k].rank = future[i].mqs[k]
  BY Zenon, <1>2 DEF IInv, Paired
<1>4. ASSUME future[i].state = "result", ~ executor.shutting_down
      PROVE  Len(future[i].responses) = IF log[i].output_rank = None THEN world_size ELSE 1
  <2>1. executor.has_response_mqs
    BY Zenon, <1>4 DEF IInv, ShutdownOrder
  <2>2. FutureOK(i) /\ future[i].state /= "none"
    BY <1>2, <1>4 DEF IInv, FuturesMade
  <2>3. Made(i)
    BY Zenon, <2>2 DEF FutureOK
  <2>4. future[i].mqs /= <<>>
    BY Zenon, <2>1, <2>3 DEF IInv, FuturesMade
  <2>5. Len(future[i].responses) = Len(AllMqs(i))
    BY Zenon, <1>4, <2>2, <2>4 DEF FutureOK
  <2>6. Len(AllMqs(i)) = IF log[i].output_rank = None THEN world_size ELSE 1
    BY Numbers DEF AllMqs
  <2> QED BY <2>5, <2>6
<1> QED
  BY <1>3, <1>4

(***************************************************************************)
(* FutureWrapper._wait_for_response dequeues whatever comes next from the  *)
(* queue of each worker.  Although results may be asked for in any order,  *)
(* while workers fail or die and the monitor shuts the executor down,      *)
(* what it dequeues answers its own call, from the worker it asks, until a *)
(* call has ended in an error.                                             *)
(***************************************************************************)
THEOREM AnswersAlwaysPaired == Spec => []AnswersPaired
BY InvariantPairs, ExecutorInvariance, PTL

==============================================================================
