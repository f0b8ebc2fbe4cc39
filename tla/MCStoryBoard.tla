---------------------------- MODULE MCStoryBoard ----------------------------
(***************************************************************************)
(* StoryBoard for TLC: the jobs are interchangeable.                       *)
(***************************************************************************)
EXTENDS StoryBoard, TLC

Alike == Permutations(Jobs)
=============================================================================
