------------------------------ MODULE MCJournal ------------------------------
(* Instance of Journal for TLC.                                            *)
EXTENDS Journal
=============================================================================
