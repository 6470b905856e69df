--------------------------- MODULE MCRuntimeInit ----------------------------
(***************************************************************************)
(* RuntimeInit for TLC: shapes whose vectors are not multiples of 16 bytes *)
(* (a head of one float, an odd vocabulary, an odd number of blocks), an   *)
(* activation arena at any address, and a KV cache at an aligned one.      *)
(***************************************************************************)
EXTENDS RuntimeInit

MCModels ==
    { [dim |-> d, hidden_dim |-> 96, n_layers |-> l, n_heads |-> h,
       head_size |-> d \div h, n_kv_heads |-> k, kv_dim |-> (d \div h) * k,
       vocab_size |-> v, seq_len |-> 3]
      : d \in {32}, l \in {1, 3}, h \in {2, 32}, k \in {1, 2}, v \in {1, 7} }

MCMaxSeqs    == 0 .. 4
MCFastBases  == 0 .. 15
MCCacheBases == {0, 64}
=============================================================================
