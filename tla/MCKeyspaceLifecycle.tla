-------------------------- MODULE MCKeyspaceLifecycle --------------------------
(* Small instances of KeyspaceLifecycle for TLC.                           *)
EXTENDS KeyspaceLifecycle, KeyspaceOptions

\* Key-value separation, FIFO compaction with a time to live, and policies of every length the
\* width allows.
BlobOptions ==
    With(DefaultOptions,
         [filter_policy |-> <<[kind |-> "none"], [kind |-> "bits", figure |-> 1], [kind |-> "none"],
                              [kind |-> "rate", figure |-> 0]>>,
          data_block_size_policy |-> <<1, 2, 3, 4, 5, 6, 7>>,
          data_block_restart_interval_policy |-> <<0>>],
         [strategy |-> [name |-> "fifo", limit |-> 9, ttl |-> <<0>>], hits |-> TRUE, manual |-> TRUE,
          blob |-> <<[age |-> 1, compression |-> 1, file |-> 64, separation |-> 1, staleness |-> 2]>>])

MCOptions == {DefaultOptions, BlobOptions}

\* Threads are interchangeable, and so are names.
Symmetry == Permutations(Threads) \cup Permutations(Names)
=============================================================================
