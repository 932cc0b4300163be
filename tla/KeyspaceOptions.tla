---------------------------- MODULE KeyspaceOptions ----------------------------
(***************************************************************************)
(* How the options of a keyspace are stored in the meta keyspace and read  *)
(* back by recovery: CreateOptions::encode_kvs and from_kvs                *)
(* (src/src/keyspace/options.rs) over the policy codecs of                 *)
(* src/src/keyspace/config/.  A stored value is a sequence of numbers, each *)
(* standing for one fixed-width field; the length of a policy has          *)
(* LenWidth bits.                                                          *)
(***************************************************************************)
EXTENDS Integers, SequencesExt

CONSTANT LenWidth   \* bits of a policy's length field, 8 in the code

ASSUME LenWidthAssumption == LenWidth \in Nat \ {0}

FlagPolicies ==
    {"filter_block_partitioning_policy", "index_block_partitioning_policy",
     "filter_block_pinning_policy", "index_block_pinning_policy"}
RestartPolicies == {"data_block_restart_interval_policy", "index_block_restart_interval_policy"}
CompressionPolicies == {"data_block_compression_policy", "index_block_compression_policy"}
Policies ==
    FlagPolicies \cup RestartPolicies \cup CompressionPolicies
    \cup {"data_block_size_policy", "data_block_hash_ratio_policy", "filter_policy"}

Bit(b) == IF b THEN 1 ELSE 0

-----------------------------------------------------------------------------
\* The policy codecs (EncodeConfig, DecodeConfig): the number of entries, then the
\* entries; decode reads as many as the first field says.
Counted(entries) == <<Len(entries) % 2^LenWidth>> \o FlattenSeq(entries)

EncodeBlockSizes(p) == Counted([i \in DOMAIN p |-> <<p[i]>>])
DecodeBlockSizes(b) == [i \in 1..b[1] |-> b[i + 1]]

EncodeRestartIntervals(p) == Counted([i \in DOMAIN p |-> <<p[i]>>])
DecodeRestartIntervals(b) == [i \in 1..b[1] |-> b[i + 1]]

EncodeHashRatios(p) == Counted([i \in DOMAIN p |-> <<p[i]>>])
DecodeHashRatios(b) == [i \in 1..b[1] |-> b[i + 1]]

\* A compression type writes itself (lsm_tree, external) as one tag.
EncodeCompressions(p) == Counted([i \in DOMAIN p |-> <<IF p[i] = "none" THEN 0 ELSE 1>>])
DecodeCompressions(b) == [i \in 1..b[1] |-> IF b[i + 1] = 0 THEN "none" ELSE "lz4"]

EncodeFlags(p) == Counted([i \in DOMAIN p |-> <<Bit(p[i])>>])
DecodeFlags(b) == [i \in 1..b[1] |-> b[i + 1] = 1]

\* A filter entry is no filter, or a Bloom filter of one of two kinds with its figure.
EncodeFilters(p) ==
    Counted([i \in DOMAIN p |->
        IF p[i].kind = "none" THEN <<0>>
        ELSE <<1, IF p[i].kind = "bits" THEN 0 ELSE 1, p[i].figure>>])

DecodeFilters(b) ==
    LET Take(s, i) ==
            IF s.rest[1] = 0
            THEN [rest |-> Tail(s.rest), out |-> Append(s.out, [kind |-> "none"])]
            ELSE [rest |-> SubSeq(s.rest, 4, Len(s.rest)),
                  out |-> Append(s.out, [kind |-> IF s.rest[2] = 0 THEN "bits" ELSE "rate",
                                         figure |-> s.rest[3]])]
    IN  FoldLeft(Take, [rest |-> Tail(b), out |-> <<>>], [i \in 1..b[1] |-> i]).out

EncodePolicy(name, p) ==
    CASE name \in FlagPolicies -> EncodeFlags(p)
      [] name \in RestartPolicies -> EncodeRestartIntervals(p)
      [] name \in CompressionPolicies -> EncodeCompressions(p)
      [] name = "data_block_size_policy" -> EncodeBlockSizes(p)
      [] name = "data_block_hash_ratio_policy" -> EncodeHashRatios(p)
      [] name = "filter_policy" -> EncodeFilters(p)

DecodePolicy(name, b) ==
    CASE name \in FlagPolicies -> DecodeFlags(b)
      [] name \in RestartPolicies -> DecodeRestartIntervals(b)
      [] name \in CompressionPolicies -> DecodeCompressions(b)
      [] name = "data_block_size_policy" -> DecodeBlockSizes(b)
      [] name = "data_block_hash_ratio_policy" -> DecodeHashRatios(b)
      [] name = "filter_policy" -> DecodeFilters(b)

-----------------------------------------------------------------------------
\* CreateOptions::default; a number stands for a size or ratio of the code's default.
DefaultOptions ==
    [policies |->
        [data_block_size_policy |-> <<4>>, data_block_hash_ratio_policy |-> <<0>>,
         data_block_restart_interval_policy |-> <<10, 16>>, index_block_restart_interval_policy |-> <<1>>,
         index_block_pinning_policy |-> <<TRUE, TRUE, FALSE>>, filter_block_pinning_policy |-> <<TRUE, FALSE>>,
         index_block_partitioning_policy |-> <<FALSE, FALSE, FALSE, TRUE>>,
         filter_block_partitioning_policy |-> <<FALSE, FALSE, FALSE, TRUE>>,
         filter_policy |-> <<[kind |-> "rate", figure |-> 1], [kind |-> "bits", figure |-> 10]>>,
         data_block_compression_policy |-> <<"none", "none", "lz4">>,
         index_block_compression_policy |-> <<"none">>],
     strategy |-> [name |-> "leveled", l0 |-> 4, target |-> 64, ratios |-> <<10>>],
     blob |-> <<>>, levels |-> 7, hits |-> FALSE, manual |-> FALSE, memtable |-> 64]

\* The setters of CreateOptions: a changed copy.
With(o, policies, fields) ==
    [f \in DOMAIN o |->
        IF f = "policies" THEN policies @@ o.policies
        ELSE IF f \in DOMAIN fields THEN fields[f] ELSE o[f]]

\* apply_to_base_config: what the LSM-tree is opened with.
TreeConfig(o) ==
    [policies |-> [n \in Policies \ {"index_block_restart_interval_policy"} |-> o.policies[n]],
     hits |-> o.hits, blob |-> o.blob]

\* What a compaction strategy (lsm_tree, external) stores about itself: get_config.
StrategyKvs(s) ==
    IF s.name = "leveled"
    THEN [leveled_l0_threshold |-> <<s.l0>>, leveled_target_size |-> <<s.target>>,
          leveled_level_ratio_policy |-> <<Len(s.ratios)>> \o s.ratios]
    ELSE [fifo_limit |-> <<s.limit>>, fifo_ttl |-> <<Len(s.ttl)>>]
         @@ IF s.ttl = <<>> THEN <<>> ELSE [fifo_ttl_seconds |-> s.ttl]

BlobKvs(b) ==
    IF b = <<>> THEN <<>>
    ELSE [blob |-> <<1>>, blob_age_cutoff |-> <<b[1].age>>, blob_compression |-> <<b[1].compression>>,
          blob_file_target_size |-> <<b[1].file>>, blob_separation_threshold |-> <<b[1].separation>>,
          blob_staleness_threshold |-> <<b[1].staleness>>]

\* CreateOptions::encode_kvs.
EncodeKvs(o) ==
    [n \in Policies |-> EncodePolicy(n, o.policies[n])]
    @@ [compaction_strategy |-> o.strategy.name, level_count |-> <<o.levels>>,
        expect_point_read_hits |-> <<Bit(o.hits)>>, manual_journal_persist |-> <<Bit(o.manual)>>,
        max_memtable_size |-> <<o.memtable>>, version |-> <<3>>]
    @@ StrategyKvs(o.strategy) @@ BlobKvs(o.blob)

-----------------------------------------------------------------------------
\* Mutant: the time to live of FIFO compaction is not restored.
DecodeStrategyNoTtl(kvs) ==
    IF kvs.compaction_strategy = "leveled"
    THEN [name |-> "leveled", l0 |-> kvs.leveled_l0_threshold[1], target |-> kvs.leveled_target_size[1],
          ratios |-> SubSeq(kvs.leveled_level_ratio_policy, 2, kvs.leveled_level_ratio_policy[1] + 1)]
    ELSE [name |-> "fifo", limit |-> kvs.fifo_limit[1], ttl |-> <<>>]

\* The parts of CreateOptions::from_kvs; a value that has to exist and does not
\* makes it panic.
DecodeStrategy(kvs) ==
    IF kvs.compaction_strategy = "leveled"
    THEN [name |-> "leveled", l0 |-> kvs.leveled_l0_threshold[1], target |-> kvs.leveled_target_size[1],
          ratios |-> SubSeq(kvs.leveled_level_ratio_policy, 2, kvs.leveled_level_ratio_policy[1] + 1)]
    ELSE [name |-> "fifo", limit |-> kvs.fifo_limit[1],
          ttl |-> IF kvs.fifo_ttl = <<1>> THEN kvs.fifo_ttl_seconds ELSE <<>>]

DecodeBlob(kvs) ==
    IF "blob" \notin DOMAIN kvs THEN <<>>
    ELSE <<[age |-> kvs.blob_age_cutoff[1], compression |-> kvs.blob_compression[1],
            file |-> kvs.blob_file_target_size[1], separation |-> kvs.blob_separation_threshold[1],
            staleness |-> kvs.blob_staleness_threshold[1]]>>

FromKvs(kvs) ==
    [policies |-> [n \in Policies |-> DecodePolicy(n, kvs[n])],
     strategy |-> DecodeStrategy(kvs), blob |-> DecodeBlob(kvs),
     levels |-> 7,
     hits |-> kvs.expect_point_read_hits = <<1>>, manual |-> kvs.manual_journal_persist = <<1>>,
     memtable |-> kvs.max_memtable_size[1]]
=============================================================================
