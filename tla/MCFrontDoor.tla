---------------------------- MODULE MCFrontDoor -----------------------------
(* Handler threads and sources are interchangeable, and so are nonces. *)
EXTENDS FrontDoor, TLC

Alike == Permutations(Handler) \union Permutations(Source)
             \union Permutations(State) \union Permutations(Token)
=============================================================================
