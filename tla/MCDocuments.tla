---------------------------- MODULE MCDocuments ----------------------------
(* A small instance of Documents for TLC.                                  *)
EXTENDS Documents, TLC

\* The model gives any call any arguments, and any section any order.
Symmetry == Permutations(Calls) \cup Permutations(SectionIds)
=============================================================================
