--------------------------- MODULE MCOptimisticTx ---------------------------
(* Instance of OptimisticTx for TLC.                                        *)
EXTENDS OptimisticTx, TLC

TxSymmetry == Permutations(Tx)

\* Each shape of range that the two keys 1 and 2 tell apart.
AllRanges ==
    ({Included(1), Excluded(1), Unbounded} \X {Included(2), Excluded(2), Unbounded})
    \cup {<<Unbounded, Included(1)>>, <<Included(2), Unbounded>>}

TwoTx == {[ranges |-> {<<Unbounded, Unbounded>>}, retries |-> FALSE, transactions |-> 2]}
ThreeTxOrRanges ==
    {[ranges |-> {}, retries |-> FALSE, transactions |-> 3],
     [ranges |-> AllRanges, retries |-> TRUE, transactions |-> 2]}
=============================================================================
