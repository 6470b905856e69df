----------------------------- MODULE MCSampler ------------------------------
(* Every vector of five logits over four values, the likeliest at 0, since  *)
(* only differences count; a greedy sampler, two without topp and one       *)
(* without scratch arrays, and four nuclei, warm and cold.                  *)
EXTENDS Sampler

MCLogits == {v \in [Tokens -> -3 .. 0] : \E t \in Tokens : v[t] = 0}

Sampling(inv_t, topp) == [inv_t |-> inv_t, topp |-> topp, scratch |-> TRUE]

MCSettings ==
    { Sampling(0, 9), Sampling(1, 10), Sampling(1, 0), Sampling(2, 8),
      [inv_t |-> 1, topp |-> 6, scratch |-> FALSE] }
      \cup {Sampling(1, p) : p \in {3, 6, 9}}
=============================================================================
