------------------------ MODULE MCEncoderScheduling -------------------------
(* Instances of EncoderScheduling for TLC. *)
EXTENDS EncoderScheduling
CONSTANTS r1, r2, ha, hb, hc

Image(offset, length, identifier) ==
    [offset |-> offset, length |-> length, identifier |-> identifier,
     is_embed |-> 0..(length - 1)]

(* An item of two embeddings between marker tokens without embedding. *)
Framed(offset, identifier) ==
    [offset |-> offset, length |-> 4, identifier |-> identifier, is_embed |-> {1, 2}]

(* Two requests that share an item; one of them repeats it. *)
SharedFeatures == r1 :> <<Image(0, 2, ha), Image(2, 2, ha), Image(4, 1, hb)>>
               @@ r2 :> <<Framed(0, ha), Image(4, 1, hc)>>
SharedTokens == r1 :> 5 @@ r2 :> 5

(* Items far enough apart for a lookahead of 2, which do not fit in the     *)
(* cache together.                                                          *)
SpacedFeatures == r1 :> <<Image(0, 2, ha), Image(6, 1, hb)>> @@ r2 :> <<Image(2, 2, hc)>>
SpacedTokens == r1 :> 8 @@ r2 :> 6

(* Two items that do not fit in the cache together, back to back. *)
AdjacentFeatures == r1 :> <<Image(0, 2, ha), Image(2, 2, hb)>> @@ r2 :> <<>>

(* An item as long as max_num_batched_tokens. *)
FullBatchFeatures == r1 :> <<Image(2, 3, ha)>> @@ r2 :> <<>>

(* The last item of r1 is r2's as well, and comes up when both are running. *)
MeetingFeatures == r1 :> <<Image(0, 1, ha), Image(1, 2, hb), Image(3, 1, hc)>>
                @@ r2 :> <<Image(3, 1, hc)>>

Ranks == r1 :> 2 @@ r2 :> 1
=============================================================================
