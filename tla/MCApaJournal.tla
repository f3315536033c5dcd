---------------------------- MODULE MCApaJournal ----------------------------
(* Small instances of ApaJournal for TLC.                                  *)
EXTENDS ApaJournal, TLC

symmetry == Permutations(Sector) \cup Permutations(Data)
=============================================================================
