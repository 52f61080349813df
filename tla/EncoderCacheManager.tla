------------------------ MODULE EncoderCacheManager -------------------------
(***************************************************************************)
(* The scheduler's bookkeeping of encoder outputs                          *)
(* (vllm/v1/core/encoder_cache_manager.py): which multimodal items are     *)
(* cached, which requests refer to them, which may be evicted, and which   *)
(* the workers still have to be told to drop.                              *)
(*                                                                         *)
(* Each method is an operator from manager to manager.  EncoderScheduling  *)
(* composes them into the scheduler's handlers.                            *)
(*                                                                         *)
(* The dict `cached` is the set `cached` of its keys with the function     *)
(* `refs`; the OrderedDict `freeable` is the sequence of its keys, because *)
(* its values are the sizes of the items.  The order of the list `freed`   *)
(* is not observable and the list is a set.                                *)
(***************************************************************************)
EXTENDS Integers, FiniteSets, FiniteSetsExt, Sequences, SequencesExt, Functions

CONSTANTS Requests,      \* request ids
          Identifiers,   \* mm_hash values
          mm_features,   \* for each request its MultiModalFeatureSpec list
          cache_size     \* capacity in encoder embeddings

(* A feature occupies the prompt positions offset .. offset + length - 1;  *)
(* is_embed holds the relative positions that carry an embedding.          *)
Features == [offset : Nat, length : Nat \ {0}, identifier : Identifiers, is_embed : SUBSET Nat]

InputIds(r) == DOMAIN mm_features[r]

EndOf(f) == f.offset + f.length

get_num_encoder_embeds(r, i) == Cardinality(mm_features[r][i].is_embed)

ASSUME FeatureAssumption ==
    /\ mm_features \in [Requests -> Seq(Features)]
    /\ \A r \in Requests : \A i \in InputIds(r) :
          LET f == mm_features[r][i]
          IN  /\ f.is_embed # {} /\ f.is_embed \subseteq 0..(f.length - 1)
              /\ \A j \in InputIds(r) : i < j => EndOf(f) <= mm_features[r][j].offset
              /\ \A s \in Requests : \A j \in InputIds(s) :
                    f.identifier = mm_features[s][j].identifier
                       => get_num_encoder_embeds(r, i) = get_num_encoder_embeds(s, j)

(* compute_mm_encoder_budget: the cache holds the largest item. *)
ASSUME CacheSizeAssumption ==
    /\ cache_size \in Nat
    /\ \A r \in Requests : \A i \in InputIds(r) : get_num_encoder_embeds(r, i) <= cache_size

(* The embeddings of an item, the same wherever it occurs. *)
EmbedsOf ==
    [h \in Identifiers |->
       Max({0} \cup UNION {{get_num_encoder_embeds(r, i) : i \in
               {j \in InputIds(r) : mm_features[r][j].identifier = h}} : r \in Requests})]

SumEmbeds(S) == SumFunctionOnSet(EmbedsOf, S)

Managers == [cached             : SUBSET Identifiers,
             refs               : [Identifiers -> SUBSET Requests],
             request_cached_ids : [Requests -> SUBSET Nat],
             freeable           : Seq(Identifiers),
             freed              : SUBSET Identifiers,
             num_free_slots     : 0..cache_size,
             num_freeable_slots : 0..cache_size]

(* EncoderCacheManager(); also what reset() restores. *)
InitManager ==
    [cached             |-> {},
     refs               |-> [h \in Identifiers |-> {}],
     request_cached_ids |-> [r \in Requests |-> {}],
     freeable           |-> <<>>,
     freed              |-> {},
     num_free_slots     |-> cache_size,
     num_freeable_slots |-> cache_size]

----------------------------------------------------------------------------

(* The request's reference to input i, taken by a hit or an allocation. *)
AddReference(ec, r, i) ==
    LET h == mm_features[r][i].identifier
    IN  [ec EXCEPT !.refs[h] = @ \cup {r},
                   !.request_cached_ids[r] = @ \cup {i}]

(* check_and_update_cache returns IsCached and has this effect. *)
IsCached(ec, r, i) == mm_features[r][i].identifier \in ec.cached

(* Mutant: a hit does not take the entry off the freeable list. *)
check_and_update_cache_lazy(ec, r, i) ==
    IF ~IsCached(ec, r, i) THEN ec ELSE AddReference(ec, r, i)

check_and_update_cache(ec, r, i) ==
    LET h == mm_features[r][i].identifier
        used == IF ec.refs[h] # {} THEN ec
                ELSE [ec EXCEPT !.freeable = Remove(@, h),
                                !.num_freeable_slots = @ - get_num_encoder_embeds(r, i)]
    IN  IF ~IsCached(ec, r, i) THEN ec ELSE AddReference(used, r, i)

(* can_allocate returns CanAllocate and has the effect MakeRoom.            *)
CanAllocate(ec, r, i, encoder_compute_budget, num_embeds_to_schedule) ==
    LET num_embeds == get_num_encoder_embeds(r, i)
    IN  /\ num_embeds <= encoder_compute_budget
        /\ \/ num_embeds + num_embeds_to_schedule <= ec.num_free_slots
           \/ num_embeds + num_embeds_to_schedule <= ec.num_freeable_slots

(* Evict the oldest freeable entries, as few as make enough room. *)
MakeRoom(ec, num_embeds) ==
    LET Oldest(k) == ToSet(SubSeq(ec.freeable, 1, k))
        k == Min({j \in 0..Len(ec.freeable) :
                     num_embeds <= ec.num_free_slots + SumEmbeds(Oldest(j))})
    IN  [ec EXCEPT !.freeable = SubSeq(@, k + 1, Len(@)),
                   !.cached = @ \ Oldest(k),
                   !.refs = [h \in Identifiers |-> IF h \in Oldest(k) THEN {} ELSE @[h]],
                   !.freed = @ \cup Oldest(k),
                   !.num_free_slots = @ + SumEmbeds(Oldest(k))]

(* Mutant: the slots of the new entry are still counted as reclaimable. *)
allocate_reclaimable(ec, r, i) ==
    LET h == mm_features[r][i].identifier
    IN  AddReference([ec EXCEPT !.cached = @ \cup {h},
                                !.num_free_slots = @ - get_num_encoder_embeds(r, i)], r, i)

allocate(ec, r, i) ==
    LET h == mm_features[r][i].identifier
    IN  AddReference([ec EXCEPT !.cached = @ \cup {h},
                                !.num_free_slots = @ - get_num_encoder_embeds(r, i),
                                !.num_freeable_slots = @ - get_num_encoder_embeds(r, i)], r, i)

(* Mutant: the reference is dropped with the first occurrence of the item. *)
free_encoder_input_first(ec, r, i) ==
    LET h == mm_features[r][i].identifier
        e == [ec EXCEPT !.request_cached_ids[r] = @ \ {i}]
        unreferenced == e.refs[h] = {r}
    IN  IF h \notin e.cached \/ e.refs[h] = {} THEN e
        ELSE [e EXCEPT !.refs[h] = @ \ {r},
                       !.freeable = IF unreferenced THEN Append(@, h) ELSE @,
                       !.num_freeable_slots = IF unreferenced THEN @ + EmbedsOf[h] ELSE @]

free_encoder_input(ec, r, i) ==
    LET h == mm_features[r][i].identifier
        e == [ec EXCEPT !.request_cached_ids[r] = @ \ {i}]
        occurs_again == \E j \in e.request_cached_ids[r] : mm_features[r][j].identifier = h
        dropped == [e EXCEPT !.refs[h] = @ \ {r}]
    IN  IF h \notin e.cached \/ e.refs[h] = {} \/ occurs_again THEN e
        ELSE IF dropped.refs[h] # {} THEN dropped
        ELSE [dropped EXCEPT !.freeable = IF Contains(@, h) THEN @ ELSE Append(@, h),
                             !.num_freeable_slots = @ + get_num_encoder_embeds(r, i)]

(* free_encoder_input for the inputs in ids.  The set of small integers is  *)
(* iterated in increasing order.                                            *)
FreeInputs(ec, r, ids) ==
    LET FreeOne(e, i) == free_encoder_input(e, r, i)
    IN  FoldLeft(FreeOne, ec, SetToSortSeq(ids, <))

free(ec, r) == FreeInputs(ec, r, ec.request_cached_ids[r])

(* get_freed_mm_hashes returns FreedHashes and clears the list. *)
FreedHashes(ec) == ec.freed \ ec.cached

get_freed_mm_hashes(ec) == [ec EXCEPT !.freed = {}]
=============================================================================
