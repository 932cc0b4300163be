----------------------------- MODULE MCWritePath -----------------------------
(* Instance of WritePath for TLC.                                          *)
EXTENDS WritePath, TLC

WriterKeySymmetry == Permutations(Writer) \cup Permutations(Key) \cup Permutations(Snap)
=============================================================================
