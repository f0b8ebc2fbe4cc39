---------------------------- MODULE MCJobArchive ----------------------------
(* Instances of JobArchive for TLC: the purging threads are alike. *)
EXTENDS JobArchive

Alike == Permutations(Purgers)
=============================================================================
