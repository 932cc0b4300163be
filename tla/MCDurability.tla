---------------------------- MODULE MCDurability ----------------------------
(* Instance of Durability for TLC.                                         *)
EXTENDS Durability, TLC

KeyspaceSymmetry == Permutations(Keyspace) \cup Permutations(Worker)

\* Every write persisted, clears, two workers.
Synced == [persisted |-> {TRUE}, clears |-> TRUE, ingests |-> FALSE, workers |-> 2, crashes |-> 1]

\* Some writes persisted, ingestions, a crash during recovery.
Bulk == [persisted |-> BOOLEAN, clears |-> FALSE, ingests |-> TRUE, workers |-> 1, crashes |-> 2]

SyncedAndBulk == {Synced, Bulk}

\* Outside the run (README, further disagreements): clears and ingestions
\* together, and clears followed by two crashes, which takes MaxOps = 4.
ClearsAndIngests == {[Synced EXCEPT !.ingests = TRUE]}
ClearsTwoCrashes == {[Synced EXCEPT !.crashes = 2, !.workers = 1]}
=============================================================================
