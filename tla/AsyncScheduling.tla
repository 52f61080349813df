-------------------------- MODULE AsyncScheduling ---------------------------
(***************************************************************************)
(* Decoding with several steps in flight: EngineCore.step_with_batch_queue *)
(* schedules the next step before the output of the previous ones is known *)
(* (vllm/v1/engine/core.py, vllm/v1/core/sched/scheduler.py and            *)
(* async_scheduler.py).  The scheduler counts tokens it has not seen       *)
(* (num_output_placeholders), recognises by counting the output of steps   *)
(* that predate a preemption (num_stale_output_tokens), and keeps the      *)
(* blocks such steps still write away from the pool (deferred_frees).      *)
(*                                                                         *)
(* schedule() is a loop over the running and then the waiting requests;    *)
(* the actions named after its parts run one iteration each, and `pass`    *)
(* holds its local variables.  Nothing else of the engine thread runs      *)
(* while a pass is open.                                                   *)
(*                                                                         *)
(* FCFS policy, chunked prefill, no prefix-cache hits, no encoder inputs,  *)
(* no structured output.  The KV connector, where there is one, neither    *)
(* loads nor delays the freeing of blocks.                                 *)
(***************************************************************************)
EXTENDS Integers, FiniteSets, FiniteSetsExt, Sequences, SequencesExt

CONSTANTS Requests,               \* numbered in the order of arrival
          num_prompt_tokens, max_tokens,      \* per request
          Blocks,                 \* the blocks of the pool
          block_size,
          max_model_len,
          max_num_scheduled_tokens,
          max_num_running_reqs,
          num_spec_tokens,        \* drafts per step
          num_lookahead_tokens,   \* slots the drafter needs beyond the step
          pp_size,                \* pipeline stages
          Roles,                  \* the kv_role of the connector, one of KVRoles
          EarlyStops,             \* BOOLEAN: outputs may contain a stop token
          MaxAborts,              \* bound on finish_requests calls
          MaxResets               \* bound on reset_prefix_cache calls

(* Async scheduling keeps one step more in flight than there are stages. *)
batch_queue_size == pp_size + 1

KVRoles == {"none", "kv_producer", "kv_consumer", "kv_both"}

CeilDiv(n, d) == (n + d - 1) \div d

(* The engine refuses to start when a request of max_model_len tokens does  *)
(* not fit in the pool, and refuses a prompt that leaves no room for output.*)
ASSUME AsyncSchedulingAssumption ==
    /\ IsFiniteSet(Requests) /\ Requests \subseteq Nat /\ IsFiniteSet(Blocks)
    /\ {block_size, max_model_len, max_num_scheduled_tokens, max_num_running_reqs,
        pp_size} \subseteq Nat \ {0}
    /\ {num_spec_tokens, num_lookahead_tokens, MaxAborts, MaxResets} \subseteq Nat
    /\ num_prompt_tokens \in [Requests -> 1..(max_model_len - 1)]
    /\ max_tokens \in [Requests -> Nat \ {0}]
    /\ Roles \subseteq KVRoles /\ EarlyStops \in BOOLEAN
    /\ CeilDiv(max_model_len, block_size) <= Cardinality(Blocks)

VARIABLES kv_role,          \* chosen at start-up
          request,          \* the Request objects
          running, waiting, skipped_waiting,
          free_blocks,      \* the blocks of the pool nobody holds
          deferred_frees,
          sched_step_seq,
          finished_req_ids,
          batch_queue,      \* steps in flight, oldest first
          turn,             \* where the engine thread is
          pass,             \* the local variables of schedule()
          worker,           \* the model runner's view of each request
          aborts, resets

vars == <<kv_role, request, running, waiting, skipped_waiting, free_blocks, deferred_frees,
          sched_step_seq, finished_req_ids, batch_queue, turn, pass, worker,
          aborts, resets>>
outside == <<kv_role, aborts, resets>>   \* what no engine step changes

(* With several steps in flight, a consumer's connector may load into freed *)
(* blocks that a step still writes; a producer must not end a request whose *)
(* blocks a preemption has freed.                                           *)
defer_block_free == kv_role \in {"kv_consumer", "kv_both"}
requires_kv_delivery == kv_role \in {"kv_producer", "kv_both"}

(* A request.  `blocks` is its block table; `spec_token_ids` the number of  *)
(* drafts its next step may carry.  Counters that never stop are relative,  *)
(* and 0 once reached: last_sched_seq, sched_step_seq and the fences count  *)
(* from processed_step_seq, next_decode_eligible_step from current_step.    *)
Request == [status : {"new", "waiting", "preempted", "running", "finished"},
            num_output_tokens : Nat,
            num_computed_tokens : Nat,
            num_in_flight_tokens : Nat,
            num_stale_output_tokens : Nat,
            drop_stale_output : BOOLEAN,
            num_output_placeholders : Nat,
            is_prefill_chunk : BOOLEAN,
            spec_token_ids : Nat,
            last_sched_seq : Nat,
            next_decode_eligible_step : Nat,
            blocks : SUBSET Blocks]

(* What a step does for one request: n tokens, `spec` of them drafts; the   *)
(* length of the token list sent along when the request is new or resumed   *)
(* (0: the runner continues on its own copy); the blocks the step uses; and *)
(* whether the request was preempted since.  n = 0: not in the step.        *)
Entry == [n : Nat, spec : Nat, sent : Nat, blocks : SUBSET Blocks, stale : BOOLEAN]
NoEntry == [n |-> 0, spec |-> 0, sent |-> 0, blocks |-> {}, stale |-> FALSE]
Step == [Requests -> Entry]
EmptyStep == [r \in Requests |-> NoEntry]
In(r, step) == step[r].n > 0
Users(step) == {r \in Requests : In(r, step)}
Empty(step) == Users(step) = {}

(* req_index (from 1), token_budget, num_scheduled_tokens with              *)
(* scheduled_spec_decode_tokens, step_skipped_waiting, preempted_reqs # []  *)
(* and prefill_scheduled.                                                   *)
Pass == [index : Nat \ {0}, budget : Nat, step : Step, skipped : Seq(Requests),
         preempted : BOOLEAN, prefill : BOOLEAN]
NewPass == [index |-> 1, budget |-> max_num_scheduled_tokens, step |-> EmptyStep,
            skipped |-> <<>>, preempted |-> FALSE, prefill |-> FALSE]

num_tokens(r) == num_prompt_tokens[r] + request[r].num_output_tokens
is_finished(r) == request[r].status = "finished"

Init ==
    /\ kv_role \in Roles
    /\ request = [r \in Requests |->
          [status |-> "new", num_output_tokens |-> 0, num_computed_tokens |-> 0,
           num_in_flight_tokens |-> 0, num_stale_output_tokens |-> 0,
           drop_stale_output |-> FALSE, num_output_placeholders |-> 0,
           is_prefill_chunk |-> FALSE, spec_token_ids |-> 0, last_sched_seq |-> 0,
           next_decode_eligible_step |-> 0, blocks |-> {}]]
    /\ running = <<>> /\ waiting = <<>> /\ skipped_waiting = <<>>
    /\ free_blocks = Blocks /\ deferred_frees = <<>> /\ sched_step_seq = 0
    /\ finished_req_ids = {}
    /\ batch_queue = <<>> /\ turn = "input" /\ pass = NewPass
    /\ worker = [r \in Requests |-> [computed |-> 0, len |-> 0]]
    /\ aborts = 0 /\ resets = 0

----------------------------------------------------------------------------
(* Freeing, preempting *)

(* Mutant: the fence is the last step but one. *)
FencedTooEarly(R, req, free, deferred, seq) ==
    LET now   == {r \in R : ~defer_block_free \/ req[r].last_sched_seq <= 1}
        later == UNION {req[r].blocks : r \in R \ now}
    IN /\ free_blocks' = free \cup UNION {req[r].blocks : r \in now}
       /\ deferred_frees' = IF later = {} THEN deferred
                            ELSE Append(deferred, [fence |-> seq - 1, blocks |-> later])

(* _free_request_blocks for each of the requests R of `req`, which share a  *)
(* fence: blocks a step in flight may still write wait in deferred_frees.   *)
_free_request_blocks(R, req, free, deferred, seq) ==
    LET now   == {r \in R : ~defer_block_free \/ req[r].last_sched_seq = 0}
        later == UNION {req[r].blocks : r \in R \ now}
    IN /\ free_blocks' = free \cup UNION {req[r].blocks : r \in now}
       /\ deferred_frees' = IF later = {} THEN deferred
                            ELSE Append(deferred, [fence |-> seq, blocks |-> later])

(* Mutant: tokens already stale are counted again. *)
StaleAccumulates(q, drop) ==
    [q EXCEPT !.status = "preempted", !.num_computed_tokens = 0, !.spec_token_ids = 0,
              !.drop_stale_output = drop \/ (@ /\ q.num_stale_output_tokens > 0),
              !.num_stale_output_tokens = @ + q.num_in_flight_tokens,
              !.num_output_placeholders = 0, !.blocks = {}]

(* Mutant: the block table outlives the preemption. *)
BlocksKept(q, drop) ==
    [q EXCEPT !.status = "preempted", !.num_computed_tokens = 0, !.spec_token_ids = 0,
              !.drop_stale_output = drop \/ (@ /\ q.num_stale_output_tokens > 0),
              !.num_stale_output_tokens = q.num_in_flight_tokens,
              !.num_output_placeholders = 0]

(* The fields _preempt_request resets. *)
Preempted(q, drop) ==
    [q EXCEPT !.status = "preempted",
              !.num_computed_tokens = 0,
              !.spec_token_ids = 0,
              !.drop_stale_output = drop \/ (@ /\ q.num_stale_output_tokens > 0),
              !.num_stale_output_tokens = q.num_in_flight_tokens,
              !.num_output_placeholders = 0,
              !.blocks = {}]

(* What the steps in flight return for R is stale from now on. *)
MarkStale(R) ==
    batch_queue' = [i \in DOMAIN batch_queue |->
        [r \in Requests |->
            [batch_queue[i][r] EXCEPT !.stale = @ \/ (r \in R /\ In(r, batch_queue[i]))]]]

(* _preempt_request for the requests R, in the order of `order`, which ends *)
(* with the first to be preempted.                                          *)
_preempt_request(order, drop) ==
    LET R == Range(order)
    IN /\ _free_request_blocks(R, request, free_blocks, deferred_frees, sched_step_seq)
       /\ request' = [r \in Requests |->
                        IF r \in R THEN Preempted(request[r], drop) ELSE request[r]]
       /\ waiting' = order \o waiting
       /\ MarkStale(R)

(* What is left of a request once it is deleted from self.requests. *)
Gone(q) ==
    [q EXCEPT !.status = "finished", !.num_computed_tokens = 0,
              !.num_in_flight_tokens = 0, !.num_stale_output_tokens = 0,
              !.drop_stale_output = FALSE, !.num_output_placeholders = 0,
              !.is_prefill_chunk = FALSE, !.spec_token_ids = 0,
              !.last_sched_seq = 0, !.next_decode_eligible_step = 0, !.blocks = {}]

Without(queue, R) == SelectSeq(queue, LAMBDA r : r \notin R)

----------------------------------------------------------------------------
(* schedule() *)

(* A relative counter when its base advances by `ticks`. *)
Behind(n, ticks) == IF n > ticks THEN n - ticks ELSE 0

has_unfinished_requests == running # <<>> \/ waiting # <<>> \/ skipped_waiting # <<>>
has_requests == has_unfinished_requests \/ finished_req_ids # {}

BlocksFor(n) ==
    CeilDiv(Min({n + num_lookahead_tokens, max_model_len}), block_size)

(* The blocks allocate_slots adds to a block table, and whether the pool    *)
(* has them.                                                                *)
Shortfall(r, blocks) ==
    IF blocks > Cardinality(request[r].blocks)
    THEN blocks - Cardinality(request[r].blocks) ELSE 0
Fits(r, blocks) == Shortfall(r, blocks) <= Cardinality(free_blocks)
Allocated(r, blocks) ==
    CHOOSE B \in kSubset(Shortfall(r, blocks), free_blocks) : TRUE

(* Sure to reach max_tokens with what is in flight. *)
AllScheduled(r) ==
    /\ request[r].num_output_placeholders > 0
    /\ request[r].num_computed_tokens + 2
          >= num_prompt_tokens[r] + max_tokens[r] + request[r].num_output_placeholders

num_new_tokens(r) ==
    LET q == request[r]
    IN Min({num_tokens(r) + q.spec_token_ids + q.num_output_placeholders
              - q.num_computed_tokens,
            pass.budget, max_model_len - q.num_computed_tokens - 1})

Current == running[pass.index]
AtRunning == turn = "running" /\ pass.index <= Len(running) /\ pass.budget > 0

(* step_with_batch_queue calls schedule() whenever there is a request;      *)
(* current_step advances.                                                   *)
BeginSchedule ==
    /\ turn = "input" /\ has_requests
    /\ turn' = "running"
    /\ request' = [r \in Requests |->
                     [request[r] EXCEPT !.next_decode_eligible_step = Behind(@, 1)]]
    /\ UNCHANGED <<running, waiting, skipped_waiting, free_blocks,
                   deferred_frees, sched_step_seq, finished_req_ids, batch_queue,
                   pass, worker, outside>>

(* Sure to end with what is in flight, or, with several pipeline stages,    *)
(* too early for its next decode.                                           *)
PassedOver(r) == AllScheduled(r) \/ request[r].next_decode_eligible_step > 0

(* A running request with nothing to schedule is passed over. *)
SkipRunning ==
    /\ AtRunning
    /\ PassedOver(Current) \/ num_new_tokens(Current) = 0
    /\ pass' = [pass EXCEPT !.index = @ + 1]
    /\ UNCHANGED <<request, running, waiting, skipped_waiting, free_blocks,
                   deferred_frees, sched_step_seq, finished_req_ids, batch_queue,
                   turn, worker, outside>>

(* The drafts among the n tokens scheduled for a running request. *)
SpecTokens(r, n) ==
    LET q == request[r]
        beyond == n + q.num_computed_tokens - num_tokens(r) - q.num_output_placeholders
    IN IF beyond > 0 THEN Min({beyond, q.spec_token_ids}) ELSE 0

ScheduleRunning ==
    /\ AtRunning /\ ~PassedOver(Current)
    /\ LET r == Current
           n == num_new_tokens(r)
           blocks == BlocksFor(request[r].num_computed_tokens + n)
           table == request[r].blocks \cup Allocated(r, blocks)
       IN /\ n > 0 /\ Fits(r, blocks)
          /\ free_blocks' = free_blocks \ table
          /\ request' = [request EXCEPT ![r].blocks = table, ![r].spec_token_ids = 0]
          /\ pass' = [pass EXCEPT
                !.step[r] = [n |-> n, spec |-> SpecTokens(r, n), sent |-> 0,
                             blocks |-> table, stale |-> FALSE],
                !.budget = @ - n, !.index = @ + 1,
                !.prefill = @ \/ request[r].is_prefill_chunk]
    /\ UNCHANGED <<running, waiting, skipped_waiting, deferred_frees, sched_step_seq,
                   finished_req_ids, batch_queue, turn, worker, outside>>

(* Out of blocks: the last running request is preempted, and then the next, *)
(* until the blocks suffice or the request itself has been preempted.       *)
PreemptLast ==
    /\ AtRunning /\ ~PassedOver(Current)
    /\ LET n == num_new_tokens(Current)
       IN n > 0 /\ ~Fits(Current, BlocksFor(request[Current].num_computed_tokens + n))
    /\ _preempt_request(<<Last(running)>>, requires_kv_delivery)
    /\ running' = Front(running)
    /\ pass' = [pass EXCEPT !.preempted = TRUE]
    /\ turn' = IF Last(running) = Current THEN "closing" ELSE turn
    /\ UNCHANGED <<skipped_waiting, sched_step_seq, finished_req_ids, worker, outside>>

(* Waiting requests are considered only if nothing was preempted. *)
EndRunning ==
    /\ turn = "running" /\ ~AtRunning
    /\ turn' = IF pass.preempted THEN "closing" ELSE "waiting"
    /\ UNCHANGED <<request, running, waiting, skipped_waiting, free_blocks,
                   deferred_frees, sched_step_seq, finished_req_ids, batch_queue,
                   pass, worker, outside>>

(* _select_waiting_queue_for_scheduling under FCFS. *)
FromSkipped == skipped_waiting # <<>>
Candidate == IF FromSkipped THEN Head(skipped_waiting) ELSE Head(waiting)
PopCandidate ==
    /\ skipped_waiting' = IF FromSkipped THEN Tail(skipped_waiting) ELSE skipped_waiting
    /\ waiting' = IF FromSkipped THEN waiting ELSE Tail(waiting)

AtWaiting ==
    /\ turn = "waiting" /\ (FromSkipped \/ waiting # <<>>) /\ pass.budget > 0
    /\ Len(running) < max_num_running_reqs

(* Mutant: a preempted request is resumed as soon as there is room. *)
NeverAwaitsOutput(r) == FALSE

(* Output of the request that will still be delivered is in flight: to      *)
(* resume it now would sample the same positions again.                     *)
AwaitsStaleOutput(r) ==
    request[r].num_stale_output_tokens > 0 /\ ~request[r].drop_stale_output

SkipWaiting ==
    /\ AtWaiting /\ AwaitsStaleOutput(Candidate)
    /\ PopCandidate
    /\ pass' = [pass EXCEPT !.skipped = <<Candidate>> \o @]
    /\ UNCHANGED <<request, running, free_blocks, deferred_frees, sched_step_seq,
                   finished_req_ids, batch_queue, turn, worker, outside>>

(* A single token is padded with placeholder drafts, so that a batch of     *)
(* decodes stays uniform.                                                   *)
Pads(r) ==
    /\ num_spec_tokens > 0 /\ num_tokens(r) = 1
    /\ ~Empty([q \in Requests |-> IF pass.step[q].sent = 0 THEN pass.step[q] ELSE NoEntry])
    /\ ~pass.prefill
    /\ 2 + num_spec_tokens <= max_model_len
AdmittedTokens(r) ==
    IF Pads(r) THEN 1 + num_spec_tokens ELSE Min({num_tokens(r), pass.budget})

(* The whole sequence must fit, then the chunk with its lookahead. *)
Admissible(r) ==
    /\ AdmittedTokens(r) <= pass.budget
    /\ Fits(r, CeilDiv(num_tokens(r), block_size))
    /\ Fits(r, BlocksFor(AdmittedTokens(r)))

AdmitWaiting ==
    /\ AtWaiting /\ ~AwaitsStaleOutput(Candidate) /\ Admissible(Candidate)
    /\ PopCandidate
    /\ LET r == Candidate
           n == AdmittedTokens(r)
           table == Allocated(r, BlocksFor(n))
       IN /\ running' = Append(running, r)
          /\ free_blocks' = free_blocks \ table
          /\ request' = [request EXCEPT ![r].status = "running", ![r].blocks = table]
          /\ pass' = [pass EXCEPT
                !.step[r] = [n |-> n, spec |-> IF Pads(r) THEN num_spec_tokens ELSE 0,
                             sent |-> num_tokens(r), blocks |-> table, stale |-> FALSE],
                !.budget = @ - n]
    /\ UNCHANGED <<deferred_frees, sched_step_seq, finished_req_ids, batch_queue, turn,
                   worker, outside>>

(* Mutant: the requests skipped in this pass are not queued again. *)
EndWaitingWithoutSkipped ==
    /\ turn = "waiting"
    /\ AtWaiting => ~AwaitsStaleOutput(Candidate) /\ ~Admissible(Candidate)
    /\ turn' = "closing"
    /\ UNCHANGED <<request, running, waiting, skipped_waiting, free_blocks,
                   deferred_frees, sched_step_seq, finished_req_ids, batch_queue, pass,
                   worker, outside>>

(* The loop ends; the requests skipped in this pass go ahead of the ones    *)
(* skipped before.                                                          *)
EndWaiting ==
    /\ turn = "waiting"
    /\ AtWaiting => ~AwaitsStaleOutput(Candidate) /\ ~Admissible(Candidate)
    /\ skipped_waiting' = Reverse(pass.skipped) \o skipped_waiting
    /\ turn' = "closing"
    /\ UNCHANGED <<request, running, waiting, free_blocks, deferred_frees,
                   sched_step_seq, finished_req_ids, batch_queue, pass, worker, outside>>

(* _update_after_schedule of both schedulers, for a request of the step. *)
Scheduled(r, seq) ==
    LET q == request[r]
        e == pass.step[r]
        chunk == q.num_computed_tokens + e.n < num_tokens(r) + q.num_output_placeholders
    IN [q EXCEPT !.num_computed_tokens = @ + e.n,
                 !.num_in_flight_tokens = @ + e.n,
                 !.last_sched_seq = IF defer_block_free THEN seq ELSE @,
                 !.is_prefill_chunk = chunk,
                 !.num_output_placeholders = IF chunk THEN @ ELSE @ + 1 + e.spec,
                 !.spec_token_ids = IF chunk THEN @ ELSE num_spec_tokens,
                 !.next_decode_eligible_step = IF chunk THEN @ ELSE pp_size]

(* The end of schedule(), execute_model, and the decision of                *)
(* step_with_batch_queue to block on the oldest step or to return.          *)
EndSchedule ==
    LET seq == sched_step_seq + IF defer_block_free /\ ~Empty(pass.step) THEN 1 ELSE 0
    IN /\ turn = "closing"
       /\ sched_step_seq' = seq
       /\ request' = [r \in Requests |->
                        IF In(r, pass.step) THEN Scheduled(r, seq) ELSE request[r]]
       /\ batch_queue' = Append(batch_queue, pass.step)
       /\ finished_req_ids' = {}
       /\ pass' = NewPass
       /\ turn' = IF /\ Len(batch_queue) + 1 < batch_queue_size
                     /\ ~Empty(pass.step) \/ has_unfinished_requests
                  THEN "input" ELSE "update"
       /\ UNCHANGED <<running, waiting, skipped_waiting, free_blocks, deferred_frees,
                      worker, outside>>

(* Without requests the step only waits for the oldest output. *)
BeginUpdate ==
    /\ turn = "input" /\ ~has_requests /\ batch_queue # <<>>
    /\ turn' = "update"
    /\ UNCHANGED <<request, running, waiting, skipped_waiting, free_blocks,
                   deferred_frees, sched_step_seq, finished_req_ids, batch_queue,
                   pass, worker, outside>>

----------------------------------------------------------------------------
(* update_from_output() *)

(* The model runner, which executes the steps in order: its token list is   *)
(* replaced by what was sent with the step, the n tokens are computed, and  *)
(* unless some of the list is left over it samples one token more than it   *)
(* accepts drafts.  They follow position SampledAt of the sequence and are  *)
(* appended to the list.                                                    *)
View(r, e) == IF e.sent > 0 THEN [computed |-> 0, len |-> e.sent] ELSE worker[r]
Samples(r, e) == View(r, e).computed + e.n >= View(r, e).len
SampledAt(r, e) == View(r, e).computed + e.n - e.spec
Executed(r, e, accepted) ==
    LET view == View(r, e)
    IN IF Samples(r, e)
       THEN [computed |-> view.computed + e.n - (e.spec - accepted),
             len |-> view.len + 1 + accepted]
       ELSE [view EXCEPT !.computed = @ + e.n]

is_stale(r) == request[r].num_stale_output_tokens > 0
Delivers(r, e) ==
    ~is_finished(r) /\ ~(is_stale(r) /\ request[r].drop_stale_output) /\ Samples(r, e)

(* What a step can return for a request: how many drafts are accepted, how  *)
(* many tokens are appended to the output, and whether check_stop ends it.  *)
(* What it returns for a request that ignores it makes no difference.       *)
Room(r) == Min({max_tokens[r] - request[r].num_output_tokens,
                max_model_len - num_tokens(r)})
Ignored == [accepted |-> 0, appended |-> 0, stopped |-> FALSE]
Outcomes(r, e) ==
    IF ~Delivers(r, e) THEN {Ignored}
    ELSE {o \in [accepted : 0..e.spec, appended : 1..Room(r), stopped : BOOLEAN] :
            /\ o.appended <= 1 + o.accepted
            /\ \/ o.appended = Min({1 + o.accepted, Room(r)})
                  /\ o.stopped = (o.appended = Room(r))
               \/ EarlyStops /\ o.stopped}

(* Mutant: stale output takes back placeholders. *)
StaleOutputCounted(r, e, outcome) ==
    [request[r] EXCEPT
        !.num_in_flight_tokens = @ - e.n,
        !.num_stale_output_tokens = IF is_stale(r) THEN @ - e.n ELSE @,
        !.num_output_placeholders = @ - outcome.appended,
        !.num_output_tokens = @ + outcome.appended]

(* Mutant: rejected drafts stay counted as computed. *)
DraftsStayComputed(r, e, outcome) ==
    LET rejected == IF Delivers(r, e) /\ ~is_stale(r) THEN e.spec - outcome.accepted ELSE 0
        appended == IF is_stale(r) THEN 0 ELSE outcome.appended
    IN [request[r] EXCEPT
          !.num_in_flight_tokens = @ - e.n,
          !.num_stale_output_tokens = IF is_stale(r) THEN @ - e.n ELSE @,
          !.num_output_placeholders = @ - rejected - appended,
          !.num_output_tokens = @ + outcome.appended]

(* A request after the loop body of update_from_output and, in it,          *)
(* _update_request_with_output of both schedulers.                          *)
Updated(r, e, outcome) ==
    LET rejected == IF Delivers(r, e) /\ ~is_stale(r) THEN e.spec - outcome.accepted ELSE 0
        appended == IF is_stale(r) THEN 0 ELSE outcome.appended
    IN [request[r] EXCEPT
          !.num_in_flight_tokens = @ - e.n,
          !.num_stale_output_tokens = IF is_stale(r) THEN @ - e.n ELSE @,
          !.num_computed_tokens = IF @ > 0 THEN @ - rejected ELSE @,
          !.num_output_placeholders = (IF @ > 0 THEN @ - rejected ELSE @) - appended,
          !.num_output_tokens = @ + outcome.appended]

(* _drain_deferred_frees: the entries up to the first pending fence. *)
Drained(deferred) == {i \in DOMAIN deferred : \A j \in 1..i : deferred[j].fence = 0}

update_from_output ==
    LET step == Head(batch_queue)
        ticks == IF defer_block_free /\ ~Empty(step) THEN 1 ELSE 0
        deferred == [i \in DOMAIN deferred_frees |->
                        [deferred_frees[i] EXCEPT !.fence = Behind(@, ticks)]]
        drained == Drained(deferred)
    IN /\ turn = "update"
       /\ \E chosen \in [Users(step) -> UNION {Outcomes(r, step[r]) : r \in Users(step)}] :
            /\ \A r \in Users(step) : chosen[r] \in Outcomes(r, step[r])
            /\ LET outcome == [r \in Requests |->
                                 IF In(r, step) THEN chosen[r] ELSE Ignored]
                   req == [r \in Requests |->
                             [(IF In(r, step) /\ ~is_finished(r)
                               THEN Updated(r, step[r], outcome[r]) ELSE request[r])
                              EXCEPT !.last_sched_seq = Behind(@, ticks)]]
                   stopped == {r \in Requests : outcome[r].stopped}
               IN /\ request' = [r \in Requests |->
                                   IF r \in stopped THEN Gone(req[r]) ELSE req[r]]
                  /\ _free_request_blocks(stopped, req,
                        free_blocks \cup UNION {deferred[i].blocks : i \in drained},
                        SubSeq(deferred, Cardinality(drained) + 1, Len(deferred)),
                        sched_step_seq - ticks)
                  /\ running' = Without(running, stopped)
                  /\ waiting' = Without(waiting, stopped)
                  /\ skipped_waiting' = Without(skipped_waiting, stopped)
                  /\ finished_req_ids' = finished_req_ids \cup stopped
                  /\ worker' = [r \in Requests |->
                                  IF In(r, step)
                                  THEN Executed(r, step[r], outcome[r].accepted)
                                  ELSE worker[r]]
       /\ sched_step_seq' = sched_step_seq - ticks
       /\ batch_queue' = Tail(batch_queue)
       /\ turn' = "input"
       /\ UNCHANGED <<pass, outside>>

----------------------------------------------------------------------------
(* Calls from outside *)

add_request(r) ==
    /\ turn = "input" /\ request[r].status = "new"
    /\ \A q \in Requests : q < r => request[q].status # "new"
    /\ request' = [request EXCEPT ![r].status = "waiting"]
    /\ waiting' = Append(waiting, r)
    /\ UNCHANGED <<running, skipped_waiting, free_blocks, deferred_frees,
                   sched_step_seq, finished_req_ids, batch_queue, turn, pass, worker,
                   outside>>

(* An abort, handled with the other inputs or, while the engine was blocked *)
(* on a step, right before its output.                                      *)
finish_requests(r) ==
    /\ turn \in {"input", "update"} /\ aborts < MaxAborts
    /\ request[r].status \notin {"new", "finished"}
    /\ request' = [request EXCEPT ![r] = Gone(@)]
    /\ _free_request_blocks({r}, request, free_blocks, deferred_frees, sched_step_seq)
    /\ running' = Without(running, {r})
    /\ waiting' = Without(waiting, {r})
    /\ skipped_waiting' = Without(skipped_waiting, {r})
    /\ finished_req_ids' = finished_req_ids \cup {r}
    /\ aborts' = aborts + 1
    /\ UNCHANGED <<sched_step_seq, batch_queue, turn, pass, worker, kv_role, resets>>

(* reset_prefix_cache(reset_running_requests=True): the last running        *)
(* request is preempted first, so the queue ends up in running order.       *)
reset_prefix_cache ==
    /\ turn = "input" /\ resets < MaxResets
    /\ _preempt_request(running, TRUE)
    /\ running' = <<>>
    /\ resets' = resets + 1
    /\ UNCHANGED <<skipped_waiting, sched_step_seq, finished_req_ids, turn, pass,
                   worker, kv_role, aborts>>

Engine ==
    \/ BeginSchedule \/ SkipRunning \/ ScheduleRunning \/ PreemptLast \/ EndRunning
    \/ SkipWaiting \/ AdmitWaiting \/ EndWaiting \/ EndSchedule
    \/ BeginUpdate \/ update_from_output

Next ==
    \/ Engine
    \/ \E r \in Requests : add_request(r) \/ finish_requests(r)
    \/ reset_prefix_cache

(* The engine thread never stops while it has work. *)
Spec == Init /\ [][Next]_vars /\ WF_vars(Engine)

----------------------------------------------------------------------------
(* Properties *)

BetweenCalls == turn \in {"input", "update"}
Live == {r \in Requests : request[r].status \notin {"new", "finished"}}

(* Every variable has its type; the batch queue never exceeds its size, and *)
(* has room whenever a step begins, as step_with_batch_queue asserts.       *)
TypeOK ==
    /\ kv_role \in Roles /\ request \in [Requests -> Request]
    /\ {running, waiting, skipped_waiting} \subseteq Seq(Requests)
    /\ free_blocks \subseteq Blocks
    /\ deferred_frees \in Seq([fence : Nat \ {0}, blocks : SUBSET Blocks])
    /\ sched_step_seq \in Nat /\ finished_req_ids \subseteq Requests
    /\ batch_queue \in Seq(Step) /\ pass \in Pass
    /\ turn \in {"input", "running", "waiting", "closing", "update"}
    /\ worker \in [Requests -> [computed : Nat, len : Nat]]
    /\ aborts \in 0..MaxAborts /\ resets \in 0..MaxResets
    /\ Len(batch_queue) + (IF turn = "update" THEN 0 ELSE 1) <= batch_queue_size

InFlight(r, test(_)) ==
    MapThenSumSet(LAMBDA i : batch_queue[i][r].n,
                  {i \in DOMAIN batch_queue : test(batch_queue[i][r])})

(* update_from_output recognises the output that predates a preemption by   *)
(* counting tokens alone; the counts agree with the steps really in flight, *)
(* however preemptions, resets, resumptions and outputs follow each other.  *)
StaleCountExact ==
    \A r \in Live :
        /\ request[r].num_in_flight_tokens = InFlight(r, LAMBDA e : TRUE)
        /\ request[r].num_stale_output_tokens = InFlight(r, LAMBDA e : e.stale)

(* The tokens of a step that will be appended to a request's output were    *)
(* sampled for exactly the next position of its sequence, which is also     *)
(* where the model runner stores them: none is lost, delivered twice or out *)
(* of order, through rejected drafts, preemption with deliverable and with  *)
(* dropped output, and resumption.                                          *)
OutputsInPlace ==
    batch_queue # <<>> =>
        \A r \in Requests :
            LET e == Head(batch_queue)[r]
            IN e.n > 0 /\ Delivers(r, e) =>
                 SampledAt(r, e) = num_tokens(r) /\ View(r, e).len = num_tokens(r)

(* What AsyncScheduler hands to cache_blocks, num_computed_tokens less      *)
(* num_output_placeholders, covers only tokens whose values are known, and  *)
(* for a decoding request all of them but the last.                         *)
CommittedAreKnown ==
    BetweenCalls => \A i \in DOMAIN running :
        LET q == request[running[i]]
            committed == q.num_computed_tokens - q.num_output_placeholders
        IN IF q.is_prefill_chunk
           THEN q.num_output_placeholders = 0 /\ committed < num_tokens(running[i])
           ELSE committed = num_tokens(running[i]) - 1

(* With a connector that loads into freed blocks, no block that a step in   *)
(* flight still uses is in the pool (_free_request_blocks).                 *)
InFlightBlocksFenced ==
    defer_block_free =>
        \A i \in DOMAIN batch_queue, r \in Requests :
            batch_queue[i][r].blocks \cap free_blocks = {}

(* Every block is in the pool, in one block table or in one deferred free;  *)
(* preemption, abort, stop and drain neither lose nor duplicate one.        *)
BlocksOwnedOnce ==
    LET owned == [r \in Requests |-> request[r].blocks]
        parked == [i \in DOMAIN deferred_frees |-> deferred_frees[i].blocks]
    IN /\ free_blocks \cup UNION Range(owned) \cup UNION Range(parked) = Blocks
       /\ Cardinality(Blocks) =
            Cardinality(free_blocks)
            + MapThenSumSet(LAMBDA r : Cardinality(owned[r]), Requests)
            + MapThenSumSet(LAMBDA i : Cardinality(parked[i]), DOMAIN parked)

(* Every request that is added ends: preemption, staleness and fences hold  *)
(* nobody up forever.                                                       *)
RequestsEnd ==
    \A r \in Requests : (request[r].status = "waiting") ~> is_finished(r)
=============================================================================
