---------------------------- MODULE MCInference -----------------------------
(* Prompts shorter than, as long as and longer than the context, one with   *)
(* the end-of-sequence token in it; fewer, as many and more steps than the  *)
(* context has positions; a fingerprint that outruns it.                    *)
EXTENDS Inference

MCHashToken(s) == (s * 2 + 1) % vocab_size

MCPrompts == {<<1>>, <<1, 0>>, <<1, 2, 0>>, <<1, 0, 0, 0>>}
MCSteps == {-1, 2, 5}
=============================================================================
