------------------------- MODULE MCAsyncScheduling --------------------------
(* Instances of AsyncScheduling for TLC. *)
EXTENDS AsyncScheduling

(* Two requests that outgrow the pool together; the second is padded. *)
PromptTokens == <<3, 1>>
OutputTokens == <<3, 3>>

(* Two whose prompts fill the pool. *)
FullPrompts == <<2, 2>>
TwoOutputs == <<2, 2>>
=============================================================================
