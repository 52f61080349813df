------------------------- MODULE EncoderScheduling --------------------------
(***************************************************************************)
(* Multimodal prefill: the scheduler decides in each pass which items the  *)
(* workers encode, the encoder cache manager decides which outputs are     *)
(* kept, and a worker executes the passes in order, some way behind        *)
(* (vllm/v1/core/sched/scheduler.py, vllm/v1/worker/gpu_model_runner.py).  *)
(*                                                                         *)
(* schedule() is a loop over the running and then the waiting requests;    *)
(* the actions named after its parts run one iteration each, and `pass`    *)
(* holds its local variables.  Nothing else of the engine thread runs      *)
(* while a pass is open.  The worker is a process of its own.              *)
(*                                                                         *)
(* Left open: whether allocate_slots finds KV blocks, and the length of a  *)
(* prefix-cache hit.  A request ends with its first sampled token          *)
(* (max_tokens = 1).  No KV or EC connector, no encoder-decoder model.     *)
(***************************************************************************)
EXTENDS EncoderCacheManager

CONSTANTS num_tokens,             \* prompt length of each request
          Priority,               \* its rank, lower first; all different
          PolicyIsPriority,       \* scheduling policy: priority or fcfs
          num_prefill_lookahead,  \* how far the drafter reads ahead
          disable_chunked_mm_input,
          max_num_batched_tokens,
          max_num_encoder_input_tokens,
          PrefixHits,             \* possible lengths of a prefix-cache hit
          PipelineDepth,          \* size of the batch queue
          MaxKvFailures,          \* bound on failed allocate_slots calls
          MaxResets               \* bound on reset_encoder_cache calls

ASSUME SchedulingAssumption ==
    /\ num_tokens \in [Requests -> Nat \ {0}]
    /\ Priority \in [Requests -> Nat] /\ IsInjective(Priority)
    /\ PolicyIsPriority \in BOOLEAN /\ disable_chunked_mm_input \in BOOLEAN
    /\ {num_prefill_lookahead, MaxKvFailures, MaxResets} \subseteq Nat
    /\ {max_num_batched_tokens, PipelineDepth} \subseteq Nat \ {0}
    /\ 0 \in PrefixHits /\ PrefixHits \subseteq Nat
    /\ \A r \in Requests : \A i \in InputIds(r) :
          /\ EndOf(mm_features[r][i]) <= num_tokens[r]
          /\ get_num_encoder_embeds(r, i) <= max_num_encoder_input_tokens

VARIABLES ec,                   \* the EncoderCacheManager
          running, waiting, skipped_waiting,
          num_computed_tokens,
          finished,
          pass,                 \* the open scheduling pass, or Idle
          inflight,             \* scheduled steps whose output is not processed yet
          executed,             \* how many of them the worker has executed
          encoder_cache,        \* the worker's encoder outputs
          kv_failures, resets

vars == <<ec, running, waiting, skipped_waiting, num_computed_tokens, finished, pass,
          inflight, executed, encoder_cache, kv_failures, resets>>
queues == <<running, waiting, skipped_waiting>>
worker == <<inflight, executed, encoder_cache>>
bounds == <<kv_failures, resets>>

(* What a request gets in a pass: the tokens start .. start + n - 1 and the *)
(* inputs to encode, its entries in num_scheduled_tokens and                *)
(* scheduled_encoder_inputs.                                                *)
Grants == [r : Requests, start : Nat, n : Nat \ {0}, inputs : Seq(Nat)]

(* The attempt to schedule a request, between _try_schedule_encoder_inputs  *)
(* and allocate_slots; budget is new_encoder_compute_budget.                *)
Attempts == [grant : Grants, budget : Nat]
NoAttempt == [grant |-> "none"]

(* The local variables of schedule(): req_index (from 1), token_budget,     *)
(* encoder_compute_budget, num_scheduled_tokens with                        *)
(* scheduled_encoder_inputs, step_skipped_waiting, preempted_reqs # [].     *)
Passes == [phase     : {"running", "waiting", "closing"},
           index     : Nat \ {0},
           tokens    : Nat,
           budget    : Nat,
           granted   : Seq(Grants),
           skipped   : Seq(Requests),
           preempted : BOOLEAN,
           attempt   : Attempts \cup {NoAttempt}]
Idle == [phase |-> "idle"]

(* A SchedulerOutput. *)
Steps == [granted                : Seq(Grants),
          free_encoder_mm_hashes : SUBSET Identifiers]

Init ==
    /\ ec = InitManager
    /\ running = <<>> /\ waiting = <<>> /\ skipped_waiting = <<>> /\ finished = {}
    /\ num_computed_tokens = [r \in Requests |-> 0]
    /\ pass = Idle
    /\ inflight = <<>> /\ executed = 0 /\ encoder_cache = {}
    /\ kv_failures = 0 /\ resets = 0

----------------------------------------------------------------------------
(* Which inputs of a request to encode.                                    *)

(* get_mm_features_in_window: the inputs that overlap [from, to). *)
Window(r, from, to) ==
    {i \in InputIds(r) : EndOf(mm_features[r][i]) > from /\ mm_features[r][i].offset < to}

(* The input has embeddings among the positions [from, to). *)
HasEmbedsIn(r, i, from, to) ==
    \E x \in mm_features[r][i].is_embed :
        mm_features[r][i].offset + x \in from..(to - 1)

(* One iteration of the loop of _try_schedule_encoder_inputs.  a is the    *)
(* state of the loop; a.stop is set by break.  CutTo is the number of      *)
(* tokens that remain when input i cannot be encoded in this step.         *)

(* Mutant: the drafter's lookahead is forgotten. *)
CutToBoundary(r, i, start, n) == Max({0, mm_features[r][i].offset - start})

(* Mutant: the range is not shortened. *)
CutNothing(r, i, start, n) == n

CutTo(r, i, start, n) ==
    Max({0, mm_features[r][i].offset - (start + num_prefill_lookahead)})

TryInput(a, r, i, start, window_end) ==
    LET f == mm_features[r][i]
        room == get_num_encoder_embeds(r, i) + a.embeds
        blocked == \/ /\ disable_chunked_mm_input
                      /\ start < f.offset
                      /\ start + a.n < EndOf(f)
                   \/ ~CanAllocate(a.ec, r, i, a.budget, a.embeds)
    IN  IF a.stop \/ f.identifier \in a.hashes THEN a
        ELSE IF IsCached(a.ec, r, i) THEN [a EXCEPT !.ec = check_and_update_cache(@, r, i)]
        ELSE IF blocked THEN [a EXCEPT !.n = CutTo(r, i, start, @), !.stop = TRUE]
        ELSE IF ~HasEmbedsIn(r, i, start, window_end) THEN [a EXCEPT !.ec = MakeRoom(@, room)]
        ELSE [a EXCEPT !.ec = MakeRoom(@, room),
                       !.embeds = room,
                       !.budget = @ - get_num_encoder_embeds(r, i),
                       !.hashes = @ \cup {f.identifier},
                       !.inputs = Append(@, i)]

(* _try_schedule_encoder_inputs, then _reserve_prefill_lookahead. *)
TryInputs(r, start, n, budget) ==
    LET window_end == start + n + num_prefill_lookahead
        none == [ec |-> ec, n |-> n, budget |-> budget, embeds |-> 0, hashes |-> {},
                 inputs |-> <<>>, stop |-> FALSE]
        Try(a, i) == TryInput(a, r, i, start, window_end)
        tried == IF n = 0 THEN none
                 ELSE FoldLeft(Try, none, SetToSortSeq(Window(r, start, window_end), <))
        remaining == num_tokens[r] - start - tried.n
        reserved == IF remaining \in 1..(num_prefill_lookahead - 1)
                    THEN tried.n - (num_prefill_lookahead - remaining) ELSE tried.n
    IN  [tried EXCEPT !.n = Max({reserved, 0})]

----------------------------------------------------------------------------
(* The scheduling pass.                                                    *)

Unfinished == ToSet(running) \cup ToSet(waiting) \cup ToSet(skipped_waiting)

MayStart == pass = Idle /\ Unfinished # {} /\ Len(inflight) < PipelineDepth

StartPass ==
    /\ MayStart
    /\ pass' = [phase |-> "running", index |-> 1, tokens |-> max_num_batched_tokens,
                budget |-> max_num_encoder_input_tokens, granted |-> <<>>,
                skipped |-> <<>>, preempted |-> FALSE, attempt |-> NoAttempt]
    /\ UNCHANGED <<ec, queues, num_computed_tokens, finished, worker, bounds>>

(* The loop over running, up to allocate_slots. *)
TryRunning ==
    /\ pass.phase = "running" /\ pass.attempt = NoAttempt
    /\ pass.index <= Len(running) /\ pass.tokens > 0
    /\ LET r == running[pass.index]
           start == num_computed_tokens[r]
           tried == TryInputs(r, start, Min({num_tokens[r] - start, pass.tokens}), pass.budget)
       IN  /\ ec' = tried.ec
           /\ pass' = IF tried.n = 0 THEN [pass EXCEPT !.index = @ + 1]
                      ELSE [pass EXCEPT !.attempt =
                              [grant |-> [r |-> r, start |-> start, n |-> tried.n,
                                          inputs |-> tried.inputs],
                               budget |-> tried.budget]]
    /\ UNCHANGED <<queues, num_computed_tokens, finished, worker, bounds>>

(* The grant is recorded and its inputs are given cache space. *)
Grant(p) ==
    LET g == p.attempt.grant
    IN  [p EXCEPT !.attempt = NoAttempt,
                  !.granted = Append(@, g),
                  !.tokens = @ - g.n,
                  !.budget = IF g.inputs = <<>> THEN @ ELSE p.attempt.budget]

AllocateInputs(e, g) ==
    LET One(m, i) == allocate(m, g.r, i)
    IN  FoldLeft(One, e, g.inputs)

(* allocate_slots found blocks for a running request. *)
ScheduleRunning ==
    /\ pass.phase = "running" /\ pass.attempt # NoAttempt
    /\ pass' = [Grant(pass) EXCEPT !.index = @ + 1]
    /\ ec' = AllocateInputs(ec, pass.attempt.grant)
    /\ UNCHANGED <<queues, num_computed_tokens, finished, worker, bounds>>

(* The running request that gives way. *)
Victim == IF PolicyIsPriority
          THEN CHOOSE r \in ToSet(running) : \A s \in ToSet(running) : Priority[s] <= Priority[r]
          ELSE Last(running)

(* The pass after what it had granted to the victim is taken back. *)
Revoke(p, v) ==
    LET of_v(g) == g.r = v
        theirs == SelectSeq(p.granted, of_v)
        Embeds(x, i) == x + get_num_encoder_embeds(v, i)
    IN  IF theirs = <<>> THEN p
        ELSE [p EXCEPT !.granted = SelectSeq(@, LAMBDA g : g.r # v),
                       !.tokens = @ + theirs[1].n,
                       !.budget = FoldLeft(Embeds, @, theirs[1].inputs)]

(* allocate_slots found no blocks: one request is preempted.  The attempt   *)
(* is repeated unless it was the preempted request's own.                   *)
PreemptRunning ==
    /\ pass.phase = "running" /\ pass.attempt # NoAttempt
    /\ kv_failures < MaxKvFailures
    /\ LET v == Victim
           at == SelectInSeq(running, LAMBDA r : r = v)
           p == [Revoke(pass, v) EXCEPT !.index = IF at < @ THEN @ - 1 ELSE @,
                                        !.preempted = TRUE]
       IN  /\ pass' = IF v = pass.attempt.grant.r
                      THEN [p EXCEPT !.phase = "closing", !.attempt = NoAttempt] ELSE p
           /\ running' = RemoveAt(running, at)
           /\ waiting' = <<v>> \o waiting
           /\ num_computed_tokens' = [num_computed_tokens EXCEPT ![v] = 0]
           /\ ec' = free(ec, v)
    /\ kv_failures' = kv_failures + 1
    /\ UNCHANGED <<skipped_waiting, finished, worker, resets>>

(* The loop over running is over; a pass that preempted admits nobody. *)
EndRunning ==
    /\ pass.phase = "running" /\ pass.attempt = NoAttempt
    /\ pass.index > Len(running) \/ pass.tokens = 0
    /\ pass' = [pass EXCEPT !.phase = IF pass.preempted THEN "closing" ELSE "waiting"]
    /\ UNCHANGED <<ec, queues, num_computed_tokens, finished, worker, bounds>>

----------------------------------------------------------------------------

(* peek_request of a queue. *)
Peek(queue) ==
    IF PolicyIsPriority
    THEN CHOOSE r \in ToSet(queue) : \A s \in ToSet(queue) : Priority[r] <= Priority[s]
    ELSE queue[1]

(* _select_waiting_queue_for_scheduling: is it skipped_waiting? *)
FromSkipped ==
    /\ skipped_waiting # <<>>
    /\ PolicyIsPriority /\ waiting # <<>>
          => Priority[Peek(skipped_waiting)] <= Priority[Peek(waiting)]

Candidate == IF FromSkipped THEN Peek(skipped_waiting) ELSE Peek(waiting)

PopCandidate ==
    IF FromSkipped
    THEN skipped_waiting' = Remove(skipped_waiting, Candidate) /\ UNCHANGED waiting
    ELSE waiting' = Remove(waiting, Candidate) /\ UNCHANGED skipped_waiting

(* Output of the request from before its preemption is still in flight. *)
Stale(r) == \E k \in DOMAIN inflight : \E j \in DOMAIN inflight[k].granted :
                inflight[k].granted[j].r = r

InWaitingLoop ==
    /\ pass.phase = "waiting" /\ pass.attempt = NoAttempt
    /\ Len(waiting) + Len(skipped_waiting) > 0 /\ pass.tokens > 0

SkipStale ==
    /\ InWaitingLoop
    /\ Stale(Candidate)
    /\ pass' = [pass EXCEPT !.skipped = <<Candidate>> \o @]
    /\ PopCandidate
    /\ UNCHANGED <<ec, running, num_computed_tokens, finished, worker, bounds>>

(* A prefix-cache lookup finds `hit` tokens, then as for a running request. *)
TryWaiting(hit) ==
    /\ InWaitingLoop
    /\ ~Stale(Candidate)
    /\ LET r == Candidate
           tried == TryInputs(r, hit, Min({num_tokens[r] - hit, pass.tokens}), pass.budget)
       IN  /\ hit < num_tokens[r]
           /\ ec' = tried.ec
           /\ pass' = IF tried.n = 0 THEN [pass EXCEPT !.phase = "closing"]
                      ELSE [pass EXCEPT !.attempt =
                              [grant |-> [r |-> r, start |-> hit, n |-> tried.n,
                                          inputs |-> tried.inputs],
                               budget |-> tried.budget]]
    /\ UNCHANGED <<queues, num_computed_tokens, finished, worker, bounds>>

(* allocate_slots found blocks: the request is admitted. *)
ScheduleWaiting ==
    /\ pass.phase = "waiting" /\ pass.attempt # NoAttempt
    /\ LET g == pass.attempt.grant
       IN  /\ pass' = Grant(pass)
           /\ ec' = AllocateInputs(ec, g)
           /\ running' = Append(running, g.r)
           /\ num_computed_tokens' = [num_computed_tokens EXCEPT ![g.r] = g.start]
    /\ PopCandidate
    /\ UNCHANGED <<finished, worker, bounds>>

(* allocate_slots found no blocks: the references just taken are dropped. *)
RefuseWaiting ==
    /\ pass.phase = "waiting" /\ pass.attempt # NoAttempt
    /\ kv_failures < MaxKvFailures
    /\ pass' = [pass EXCEPT !.phase = "closing", !.attempt = NoAttempt]
    /\ ec' = free(ec, pass.attempt.grant.r)
    /\ kv_failures' = kv_failures + 1
    /\ UNCHANGED <<queues, num_computed_tokens, finished, worker, resets>>

(* The output of the pass goes to the worker; _update_after_schedule. *)
EndPass ==
    /\ pass # Idle /\ pass.attempt = NoAttempt
    /\ \/ pass.phase = "closing"
       \/ pass.phase = "waiting" /\ (Len(waiting) + Len(skipped_waiting) = 0 \/ pass.tokens = 0)
    /\ skipped_waiting' = Reverse(pass.skipped) \o skipped_waiting
    /\ inflight' = Append(inflight, [granted |-> pass.granted,
                                     free_encoder_mm_hashes |-> FreedHashes(ec)])
    /\ ec' = get_freed_mm_hashes(ec)
    /\ num_computed_tokens' =
          [r \in Requests |->
             num_computed_tokens[r]
             + SumSet({pass.granted[k].n : k \in {j \in DOMAIN pass.granted : pass.granted[j].r = r}})]
    /\ pass' = Idle
    /\ UNCHANGED <<running, waiting, finished, executed, encoder_cache, bounds>>

----------------------------------------------------------------------------
(* The rest of the engine.                                                 *)

add_request(r) ==
    /\ pass = Idle
    /\ r \notin Unfinished \cup finished
    /\ waiting' = Append(waiting, r)
    /\ UNCHANGED <<ec, running, skipped_waiting, num_computed_tokens, finished, pass, worker, bounds>>

(* Take requests out of the queues. *)
Leave(S) ==
    LET stays(r) == r \notin S
    IN  /\ running' = SelectSeq(running, stays)
        /\ waiting' = SelectSeq(waiting, stays)
        /\ skipped_waiting' = SelectSeq(skipped_waiting, stays)
        /\ finished' = finished \cup S

(* Mutant: the references of an aborted request are kept. *)
finish_requests_leaky(r) ==
    /\ pass = Idle
    /\ r \in Unfinished
    /\ Leave({r})
    /\ UNCHANGED <<ec, num_computed_tokens, pass, worker, bounds>>

(* The client aborts. *)
finish_requests(r) ==
    /\ pass = Idle
    /\ r \in Unfinished
    /\ Leave({r})
    /\ ec' = free(ec, r)
    /\ UNCHANGED <<num_computed_tokens, pass, worker, bounds>>

(* Mutant: an item is kept one token longer than it is read. *)
PassedInputsStrict(e, r) ==
    {i \in e.request_cached_ids[r] :
        EndOf(mm_features[r][i]) + num_prefill_lookahead < num_computed_tokens[r]}

(* _free_encoder_inputs: the inputs that no later step reads. *)
PassedInputs(e, r) ==
    {i \in e.request_cached_ids[r] :
        EndOf(mm_features[r][i]) + num_prefill_lookahead <= num_computed_tokens[r]}

(* The grant of the step that computes the last prompt token and samples.  *)
IsLast(g) == g.start + g.n = num_tokens[g.r]

(* The outputs of the oldest step, request by request. *)
update_from_output ==
    /\ pass = Idle
    /\ executed > 0
    /\ LET live(g) == g.r \in Unfinished
           granted == SelectSeq(inflight[1].granted, live)
           Process(e, g) ==
              LET passed == FreeInputs(e, g.r, PassedInputs(e, g.r))
              IN  IF IsLast(g) THEN free(passed, g.r) ELSE passed
       IN  /\ ec' = FoldLeft(Process, ec, granted)
           /\ Leave({granted[k].r : k \in {j \in DOMAIN granted : IsLast(granted[j])}})
    /\ inflight' = Tail(inflight)
    /\ executed' = executed - 1
    /\ UNCHANGED <<num_computed_tokens, pass, encoder_cache, bounds>>

(* The engine blocks until the worker, done with all earlier steps, has     *)
(* reset too.                                                               *)
reset_encoder_cache ==
    /\ pass = Idle
    /\ resets < MaxResets
    /\ executed = Len(inflight)
    /\ ec' = InitManager
    /\ encoder_cache' = {}
    /\ resets' = resets + 1
    /\ UNCHANGED <<queues, num_computed_tokens, finished, pass, inflight, executed, kv_failures>>

(* What the worker holds when it comes to the forward pass of a step. *)
Encoded(step) ==
    UNION {{mm_features[g.r][i].identifier : i \in ToSet(g.inputs)} : g \in ToSet(step.granted)}

(* Mutant: the worker ignores free_encoder_mm_hashes. *)
CacheDuringGrowing(step) == encoder_cache \cup Encoded(step)

CacheDuring(step) == (encoder_cache \ step.free_encoder_mm_hashes) \cup Encoded(step)

(* execute_model: drop the freed outputs, then encode. *)
execute_model ==
    /\ executed < Len(inflight)
    /\ encoder_cache' = CacheDuring(inflight[executed + 1])
    /\ executed' = executed + 1
    /\ UNCHANGED <<ec, queues, num_computed_tokens, finished, pass, inflight, bounds>>

schedule ==
    \/ StartPass \/ TryRunning \/ ScheduleRunning \/ PreemptRunning \/ EndRunning
    \/ SkipStale \/ (\E hit \in PrefixHits : TryWaiting(hit))
    \/ ScheduleWaiting \/ RefuseWaiting \/ EndPass

Next ==
    \/ schedule \/ update_from_output \/ execute_model \/ reset_encoder_cache
    \/ \E r \in Requests : add_request(r) \/ finish_requests(r)

(* The engine thread keeps scheduling and processing outputs while there    *)
(* are requests, and the worker keeps executing: weak fairness of schedule, *)
(* update_from_output and execute_model.  The first two are written out: an *)
(* open pass can always go on, a step of schedule is one that changes pass, *)
(* and only update_from_output shortens inflight.                           *)
Fairness ==
    /\ []<>(pass = Idle /\ ~MayStart) \/ []<><<pass' # pass>>_vars
    /\ []<>(pass # Idle \/ executed = 0) \/ []<><<Len(inflight') < Len(inflight)>>_vars
    /\ WF_vars(execute_model)

Spec == Init /\ [][Next]_vars /\ Fairness

----------------------------------------------------------------------------
(* Properties.                                                             *)

(* Type correctness.  In particular the manager's slot counters stay         *)
(* natural numbers, and the worker has never executed more steps than are    *)
(* in flight.                                                                *)
TypeOK ==
    /\ ec \in Managers
    /\ {running, waiting, skipped_waiting} \subseteq Seq(Requests)
    /\ num_computed_tokens \in [Requests -> Nat] /\ finished \subseteq Requests
    /\ pass \in Passes \cup {Idle}
    /\ inflight \in Seq(Steps) /\ executed \in 0..Len(inflight)
    /\ encoder_cache \subseteq Identifiers

(* The two slot counters of the manager agree with its entries: the free    *)
(* slots are what the cached items leave, the freeable list holds exactly   *)
(* the entries nobody refers to, once each, and num_freeable_slots counts   *)
(* the free slots and theirs.                                               *)
SlotsExact ==
    /\ ec.num_free_slots = cache_size - SumEmbeds(ec.cached)
    /\ ToSet(ec.freeable) = {h \in ec.cached : ec.refs[h] = {}}
    /\ Len(ec.freeable) = Cardinality(ToSet(ec.freeable))
    /\ ec.num_freeable_slots = ec.num_free_slots + SumEmbeds(ToSet(ec.freeable))

(* References are neither lost nor leaked: a request refers to an entry     *)
(* exactly as long as one of its inputs with that identifier is listed for  *)
(* it, and only requests of the scheduler refer to anything.                *)
RefsExact ==
    /\ \A r \in Requests :
          {h \in Identifiers : r \in ec.refs[h]}
             = {mm_features[r][i].identifier : i \in ec.request_cached_ids[r]}
    /\ \A h \in Identifiers : ec.refs[h] # {} => h \in ec.cached
    /\ \A r \in Requests : ec.request_cached_ids[r] # {} => r \in Unfinished

(* No "Encoder cache miss" in the worker: when it comes to the forward pass *)
(* of a step, it holds the output of every item that has an embedding among *)
(* the scheduled tokens or the tokens that the drafter reads beyond them.   *)
(* This is what lets the scheduler skip an input that                       *)
(* check_and_update_cache reports, "already computed and cached from a      *)
(* previous step".                                                          *)
EncoderOutputsReady ==
    executed < Len(inflight) =>
        LET step == inflight[executed + 1]
            read_end(g) == g.start + g.n + num_prefill_lookahead
        IN  \A g \in ToSet(step.granted) :
               \A i \in Window(g.r, g.start, read_end(g)) :
                  HasEmbedsIn(g.r, i, g.start, read_end(g))
                     => mm_features[g.r][i].identifier \in CacheDuring(step)

(* The worker never stores more embeddings than the manager budgets for,    *)
(* although it hears of evictions only with the next step.                  *)
WorkerWithinBudget == SumEmbeds(encoder_cache) <= cache_size

(* A request does not wait forever for encoder cache space: every request   *)
(* that is added ends.                                                      *)
RequestsEnd == \A r \in Requests : r \in Unfinished ~> r \in finished
=============================================================================
