-------------------------- MODULE MultiprocExecutor -------------------------
(***************************************************************************)
(* Remote calls of the engine thread to its worker processes.  A call goes *)
(* to all workers through rpc_broadcast_mq; one worker, or each of them,   *)
(* answers on a queue of its own.  Calls do not wait: a FutureWrapper      *)
(* fetches the answers when somebody asks, after those of older futures.   *)
(* A monitor thread shuts the executor down when a worker dies.            *)
(* rpc_broadcast_mq is the BroadcastQueue that MessageQueue implements.    *)
(***************************************************************************)
EXTENDS Naturals, Sequences, FiniteSets

CONSTANTS
    world_size, use_async_scheduling,
    max_chunks,      \* slots of each queue
    Calls,           \* what the engine calls: kind, output_rank, non_block, timed
    None,            \* the output_rank of calls that every worker answers
    BatchQueueSize,  \* futures the engine keeps
    MaxCalls, MaxDeaths

Ranks == 0..(world_size - 1)

ASSUME ExecutorAssumption ==
    /\ world_size \in Nat \ {0} /\ max_chunks \in Nat \ {0}
    /\ use_async_scheduling \in BOOLEAN
    /\ MaxCalls \in Nat /\ MaxDeaths \in Nat /\ BatchQueueSize \in Nat
    /\ Calls \subseteq [kind : {"step", "utility"}, output_rank : Ranks \cup {None},
                        non_block : BOOLEAN, timed : BOOLEAN]
    /\ None \notin Ranks

VARIABLES
    log, received, gone,   \* rpc_broadcast_mq
    worker,                \* what each process is doing
    async_output_queue, response_mq,
    future,                \* per call: the queues it reads, what it has read, its state
    futures_queue,         \* calls whose answers are not fetched, oldest first
    engine,                \* the thread that calls
    executor,              \* the fields both threads use
    closing                \* how far each thread is in shutdown()

rpc_vars == <<log, received, gone>>
worker_vars == <<worker, async_output_queue>>
future_vars == <<future, futures_queue>>
vars == <<log, received, gone, worker, async_output_queue, response_mq, future,
          futures_queue, engine, executor, closing>>

rpc == INSTANCE BroadcastQueue WITH
         Readers <- Ranks, Remotes <- {}, Messages <- Calls, Capacity <- max_chunks

NoFuture == [state |-> "none", mqs |-> <<>>, responses |-> <<>>]
Idle == [pc |-> "idle", call |-> None, wanted |-> 0, popped |-> 0]
Threads == {"engine", "monitor"}

Init ==
    /\ rpc!Init
    /\ worker = [w \in Ranks |-> "loop"]
    /\ async_output_queue = [w \in Ranks |-> <<>>]
    /\ response_mq = [w \in Ranks |-> <<>>]
    /\ future = [i \in 1..MaxCalls |-> NoFuture]
    /\ futures_queue = <<>>
    /\ engine = Idle
    /\ executor = [is_failed |-> FALSE, shutting_down |-> FALSE, has_rpc_mq |-> TRUE,
                   has_response_mqs |-> TRUE, cancelled |-> FALSE]
    /\ closing = [t \in Threads |-> "no"]

------------------------------------------------------------------------------
(***************************************************************************)
(* The engine thread                                                       *)
(***************************************************************************)

\* An exception ends the engine loop; that of a utility call is reported to
\* the client and the loop goes on.
Raise(c) == engine' = IF c.kind = "utility" THEN Idle ELSE [Idle EXCEPT !.pc = "stopped"]

collective_rpc(c) ==
    /\ engine.pc = "idle" /\ Len(log) < MaxCalls
    /\ Len(futures_queue) < BatchQueueSize \/ ~ c.non_block
    /\ IF executor.is_failed \/ ~ executor.has_rpc_mq
       THEN Raise(c)
       ELSE engine' = [Idle EXCEPT !.pc = "send", !.call = c]
    /\ UNCHANGED <<rpc_vars, worker_vars, response_mq, future_vars, executor, closing>>

\* The monitor may have dropped the queue since the check.
LoadQueue ==
    /\ engine.pc = "send"
    /\ IF executor.has_rpc_mq THEN engine' = [engine EXCEPT !.pc = "write"]
                              ELSE Raise(engine.call)
    /\ UNCHANGED <<rpc_vars, worker_vars, response_mq, future_vars, executor, closing>>

enqueue ==
    /\ engine.pc = "write"
    /\ rpc!enqueue(engine.call)
    /\ engine' = [engine EXCEPT !.pc = "reply"]
    /\ UNCHANGED <<worker_vars, response_mq, future_vars, executor, closing>>

\* The queues a call with this output_rank reads, in rank order.
ResponseMqs(c) ==
    IF ~ executor.has_response_mqs THEN <<>>
    ELSE IF c.output_rank = None THEN [i \in 1..world_size |-> i - 1]
    ELSE <<c.output_rank>>

\* Indexing the dropped list raises; iterating over it does not.
MakeFuture ==
    /\ engine.pc = "reply"
    /\ LET c == engine.call
           mqs == ResponseMqs(c)
       IN IF mqs = <<>> /\ c.output_rank /= None
          THEN Raise(c) /\ UNCHANGED future_vars
          ELSE /\ future' = [future EXCEPT ![Len(log)] =
                               [state |-> "pending", mqs |-> mqs, responses |-> <<>>]]
               /\ futures_queue' = Append(futures_queue, Len(log))
               /\ engine' = IF c.non_block THEN Idle
                            ELSE [Idle EXCEPT !.pc = "wait", !.wanted = Len(log)]
    /\ UNCHANGED <<rpc_vars, worker_vars, response_mq, executor, closing>>

\* Somebody asks for the result of a call made earlier.
result(i) ==
    /\ engine.pc = "idle"
    /\ log[i].non_block /\ future[i].state \in {"pending", "error"}
    /\ engine' = [Idle EXCEPT !.pc = "wait", !.wanted = i]
    /\ UNCHANGED <<rpc_vars, worker_vars, response_mq, future_vars, executor, closing>>

Waiting == engine.pc = "wait" /\ future[engine.wanted].state = "pending"

(* Mutant: the newest future is served first. *)
PopNewestFuture ==
    /\ Waiting /\ engine.popped = 0
    /\ engine' = [engine EXCEPT !.popped = futures_queue[Len(futures_queue)]]
    /\ futures_queue' = SubSeq(futures_queue, 1, Len(futures_queue) - 1)
    /\ UNCHANGED <<rpc_vars, worker_vars, response_mq, future, executor, closing>>

\* Older futures are served first.
PopFuture ==
    /\ Waiting /\ engine.popped = 0
    /\ engine' = [engine EXCEPT !.popped = Head(futures_queue)]
    /\ futures_queue' = Tail(futures_queue)
    /\ UNCHANGED <<rpc_vars, worker_vars, response_mq, future, executor, closing>>

\* The queue get_response waits on.
NextMq(f) == f.mqs[Len(f.responses) + 1]

SetState(i, state) ==
    /\ future' = [future EXCEPT ![i].state = state]
    /\ engine' = [engine EXCEPT !.popped = 0]

\* The first failure ends get_response, whatever the other queues hold.
Receive ==
    /\ engine.pc = "wait" /\ engine.popped /= 0
    /\ LET i == engine.popped
           f == future[i]
           w == NextMq(f)
       IN /\ Len(f.responses) < Len(f.mqs) /\ response_mq[w] /= <<>>
          /\ response_mq' = [response_mq EXCEPT ![w] = Tail(@)]
          /\ IF Head(response_mq[w]).success
             THEN /\ future' = [future EXCEPT ![i].responses =
                                  Append(@, Head(response_mq[w]))]
                  /\ UNCHANGED engine
             ELSE SetState(i, "error")
    /\ UNCHANGED <<rpc_vars, worker_vars, futures_queue, executor, closing>>

\* dequeue finds nothing, and times out or is cancelled.
GiveUp ==
    /\ engine.pc = "wait" /\ engine.popped /= 0
    /\ LET f == future[engine.popped] IN
          /\ Len(f.responses) < Len(f.mqs) /\ response_mq[NextMq(f)] = <<>>
          /\ executor.cancelled \/ log[engine.popped].timed
    /\ SetState(engine.popped, "error")
    /\ UNCHANGED <<rpc_vars, worker_vars, response_mq, futures_queue, executor, closing>>

\* The aggregator of a step cannot index an empty list.
SetResult ==
    /\ engine.pc = "wait" /\ engine.popped /= 0
    /\ LET f == future[engine.popped] IN
          /\ Len(f.responses) = Len(f.mqs)
          /\ SetState(engine.popped,
                IF f.mqs = <<>> /\ log[engine.popped].kind = "step" THEN "error" ELSE "result")
    /\ UNCHANGED <<rpc_vars, worker_vars, response_mq, futures_queue, executor, closing>>

Return ==
    /\ engine.pc = "wait" /\ future[engine.wanted].state /= "pending"
    /\ IF future[engine.wanted].state = "result" THEN engine' = Idle
                                                 ELSE Raise(log[engine.wanted])
    /\ UNCHANGED <<rpc_vars, worker_vars, response_mq, future_vars, executor, closing>>

\* The engine is told to stop, or that the executor has failed.
Stop ==
    /\ engine.pc = "idle"
    /\ engine' = [engine EXCEPT !.pc = "stopped"]
    /\ UNCHANGED <<rpc_vars, worker_vars, response_mq, future_vars, executor, closing>>

InCall == LoadQueue \/ enqueue \/ MakeFuture \/ PopFuture \/ Receive \/ GiveUp
          \/ SetResult \/ Return

------------------------------------------------------------------------------
(***************************************************************************)
(* The worker processes                                                    *)
(***************************************************************************)

Dequeue(w) ==
    /\ worker[w] = "loop"
    /\ rpc!dequeue(w)
    /\ worker' = [worker EXCEPT ![w] = "call"]
    /\ UNCHANGED <<async_output_queue, response_mq, future_vars, engine, executor, closing>>

\* Answers go the same way whether they are results or exceptions, or they
\* would overtake each other.
handle_output(w, answer) ==
    IF use_async_scheduling
    THEN /\ async_output_queue' = [async_output_queue EXCEPT ![w] = Append(@, answer)]
         /\ UNCHANGED response_mq
    ELSE /\ Len(response_mq[w]) < max_chunks
         /\ response_mq' = [response_mq EXCEPT ![w] = Append(@, answer)]
         /\ UNCHANGED async_output_queue

execute_worker_rpc(w) ==
    /\ worker[w] = "call"
    /\ LET i == Len(received[w])
           c == log[i]
       IN IF c.output_rank \in {None, w}
          THEN \E success \in BOOLEAN :
                  handle_output(w, [call |-> i, rank |-> w, success |-> success])
          ELSE UNCHANGED <<async_output_queue, response_mq>>
    /\ worker' = [worker EXCEPT ![w] = "loop"]
    /\ UNCHANGED <<rpc_vars, future_vars, engine, executor, closing>>

(* Mutant: the bare output is sent, without its status. *)
async_output_bare(w) ==
    /\ worker[w] /= "dead" /\ async_output_queue[w] /= <<>>
    /\ Len(response_mq[w]) < max_chunks
    /\ LET answer == Head(async_output_queue[w]) IN
          response_mq' = [response_mq EXCEPT ![w] =
                            Append(@, [call |-> answer.call, rank |-> answer.rank])]
    /\ async_output_queue' = [async_output_queue EXCEPT ![w] = Tail(@)]
    /\ UNCHANGED <<rpc_vars, worker, future_vars, engine, executor, closing>>

\* The thread that waits for the device and sends the output of a step; the
\* wait may raise.
async_output(w) ==
    /\ worker[w] /= "dead" /\ async_output_queue[w] /= <<>>
    /\ Len(response_mq[w]) < max_chunks
    /\ LET answer == Head(async_output_queue[w]) IN
          \E success \in {answer.success,
                          answer.success /\ log[answer.call].kind /= "step"} :
             response_mq' = [response_mq EXCEPT ![w] =
                               Append(@, [answer EXCEPT !.success = success])]
    /\ async_output_queue' = [async_output_queue EXCEPT ![w] = Tail(@)]
    /\ UNCHANGED <<rpc_vars, worker, future_vars, engine, executor, closing>>

\* The death pipe is closed, and the worker's dequeue is cancelled.
Exit(w) ==
    /\ worker[w] = "loop" /\ executor.shutting_down
    /\ rpc!leave(w)
    /\ worker' = [worker EXCEPT ![w] = "dead"]
    /\ UNCHANGED <<async_output_queue, response_mq, future_vars, engine, executor, closing>>

Dead == {w \in Ranks : worker[w] = "dead"}

Crash(w) ==
    /\ worker[w] /= "dead" /\ Cardinality(Dead) < MaxDeaths
    /\ worker' = [worker EXCEPT ![w] = "dead"]
    /\ UNCHANGED <<rpc_vars, async_output_queue, response_mq, future_vars, engine,
                   executor, closing>>

Serving(w) == Dequeue(w) \/ execute_worker_rpc(w)

------------------------------------------------------------------------------
(***************************************************************************)
(* shutdown(), by the engine thread or by the monitor                      *)
(***************************************************************************)

(* Mutant: the failure is recorded, but the executor is not shut down. *)
monitor_workers_records ==
    /\ closing["monitor"] = "no" /\ Dead /= {}
    /\ executor' = [executor EXCEPT !.is_failed = @ \/ ~ executor.shutting_down]
    /\ closing' = [closing EXCEPT !["monitor"] = "done"]
    /\ UNCHANGED <<rpc_vars, worker_vars, response_mq, future_vars, engine>>

\* A death that shutdown() caused is no failure.
monitor_workers ==
    /\ closing["monitor"] = "no" /\ Dead /= {}
    /\ executor' = [executor EXCEPT !.is_failed = @ \/ ~ executor.shutting_down]
    /\ closing' = [closing EXCEPT !["monitor"] =
                     IF executor.shutting_down THEN "done" ELSE "begin"]
    /\ UNCHANGED <<rpc_vars, worker_vars, response_mq, future_vars, engine>>

\* The engine thread shuts down after its last call, the monitor after a
\* failure; the second of the two leaves the workers to the first.
BeginShutdown(t) ==
    /\ \/ closing[t] = "begin"
       \/ t = "engine" /\ closing[t] = "no" /\ engine.pc = "stopped"
    /\ executor' = [executor EXCEPT !.shutting_down = TRUE]
    /\ closing' = [closing EXCEPT ![t] =
                     IF executor.shutting_down THEN "close" ELSE "terminate"]
    /\ UNCHANGED <<rpc_vars, worker_vars, response_mq, future_vars, engine>>

\* After the grace periods nobody is left.
ensure_worker_termination(t) ==
    /\ closing[t] = "terminate"
    /\ worker' = [w \in Ranks |-> "dead"]
    /\ executor' = [executor EXCEPT !.cancelled = TRUE]
    /\ closing' = [closing EXCEPT ![t] = "close"]
    /\ UNCHANGED <<rpc_vars, async_output_queue, response_mq, future_vars, engine>>

CloseRpcMq(t) ==
    /\ closing[t] = "close"
    /\ executor' = [executor EXCEPT !.has_rpc_mq = FALSE]
    /\ closing' = [closing EXCEPT ![t] = "drop"]
    /\ UNCHANGED <<rpc_vars, worker_vars, response_mq, future_vars, engine>>

DropResponseMqs(t) ==
    /\ closing[t] = "drop"
    /\ executor' = [executor EXCEPT !.has_response_mqs = FALSE, !.cancelled = TRUE]
    /\ closing' = [closing EXCEPT ![t] = "done"]
    /\ UNCHANGED <<rpc_vars, worker_vars, response_mq, future_vars, engine>>

shutdown(t) == BeginShutdown(t) \/ ensure_worker_termination(t) \/ CloseRpcMq(t)
               \/ DropResponseMqs(t)

Next == \/ \E c \in Calls : collective_rpc(c)
        \/ \E i \in 1..Len(log) : result(i)
        \/ InCall \/ Stop
        \/ \E w \in Ranks : Serving(w) \/ async_output(w) \/ Exit(w) \/ Crash(w)
        \/ monitor_workers
        \/ \E t \in Threads : shutdown(t)

\* A call that has begun runs on; so do the monitor and a shutdown.  A worker
\* runs on while all live: the peers of a dead one may be stuck in a collective.
Fairness ==
    /\ WF_vars(InCall)
    /\ \A w \in Ranks : /\ WF_vars(Serving(w) /\ Dead = {})
                        /\ WF_vars(async_output(w))
    /\ WF_vars(monitor_workers)
    /\ \A t \in Threads : WF_vars(shutdown(t))

Spec == Init /\ [][Next]_vars /\ Fairness

------------------------------------------------------------------------------
(***************************************************************************)
(* Properties                                                              *)
(***************************************************************************)

Answers == [call : 1..MaxCalls, rank : Ranks, success : BOOLEAN]

TypeOK ==
    /\ log \in Seq(Calls) /\ Len(log) <= MaxCalls
    /\ received \in [Ranks -> Seq(Calls)] /\ gone \subseteq Ranks
    /\ worker \in [Ranks -> {"loop", "call", "dead"}]
    /\ async_output_queue \in [Ranks -> Seq(Answers)]
    /\ response_mq \in [Ranks -> Seq(Answers)]
    /\ future \in [1..MaxCalls -> [state : {"none", "pending", "result", "error"},
                                   mqs : Seq(Ranks), responses : Seq(Answers)]]
    /\ futures_queue \in Seq(1..MaxCalls)
    /\ engine \in [pc : {"idle", "send", "write", "reply", "wait", "stopped"},
                   call : Calls \cup {None}, wanted : 0..MaxCalls, popped : 0..MaxCalls]
    /\ executor \in [is_failed : BOOLEAN, shutting_down : BOOLEAN, has_rpc_mq : BOOLEAN,
                     has_response_mqs : BOOLEAN, cancelled : BOOLEAN]
    /\ closing \in [Threads -> {"no", "begin", "terminate", "close", "drop", "done"}]

\* Nothing on the queues says which call an answer is for.  Until a call ends
\* in an error, which may leave answers behind, the order of the queues alone
\* gives every future the answers to its own call, one from each worker asked,
\* in whatever order the results are asked for; a list is short only if the
\* executor has been shut down under the call.
AnswersPaired ==
    \A i \in 1..Len(log) :
        LET f == future[i] IN
        (\A j \in 1..(i - 1) : future[j].state /= "error") =>
            /\ \A k \in 1..Len(f.responses) :
                  f.responses[k].call = i /\ f.responses[k].rank = f.mqs[k]
            /\ f.state = "result" /\ ~ executor.shutting_down =>
                  Len(f.responses) = IF log[i].output_rank = None THEN world_size ELSE 1

\* rpc_broadcast_mq is full, and a dead worker has not read its oldest slot:
\* acquire_write, which has no timeout and does not look at shutting_down,
\* waits for it.
WaitsForTheDead ==
    /\ engine.pc = "write"
    /\ \E w \in Dead : Len(log) - Len(received[w]) = max_chunks

\* A call comes back, with or without a result, although workers fail, answer
\* late or die while it waits for them, although it has to wait for a slot, and
\* although the monitor takes the queues down in the middle of it; unless it
\* comes to wait for a slot that a dead worker leaves unread, which is forever.
CallsReturn ==
    engine.pc \in {"send", "write", "reply", "wait"} ~>
        engine.pc \in {"idle", "stopped"} \/ WaitsForTheDead

\* What collective_rpc documents: a list of the results from each worker.  A
\* call that a failure ends leaves later answers queued, and the next call
\* takes them for its own.
ResultsFromEachWorker ==
    \A i \in 1..Len(log) :
        LET f == future[i] IN
        f.state = "result" /\ log[i].output_rank = None =>
            /\ Len(f.responses) = world_size
            /\ \A k \in 1..world_size :
                  f.responses[k].call = i /\ f.responses[k].rank = k - 1

=============================================================================
