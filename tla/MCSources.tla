---------------------------------- MODULE MCSources -------------------------------
(* Small instances of Sources for TLC.                                            *)
EXTENDS Sources, TLC

SourceSymmetry == Permutations(Users) \cup Permutations(Ids) \cup Permutations(Names)
===============================================================================
