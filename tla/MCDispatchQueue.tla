--------------------------- MODULE MCDispatchQueue ---------------------------
(* Instances of DispatchQueue for TLC: which job works on which repository. *)
EXTENDS DispatchQueue

CONSTANTS a1, a2, a3, b1, RepoA, RepoB, w1, w2, w3

\* Three jobs that compete for one repository.
SameJobs   == {a1, a2, a3}
SameRepos  == {RepoA}
SameRepoOf == (a1 :> RepoA) @@ (a2 :> RepoA) @@ (a3 :> RepoA)

\* Two jobs that compete for one repository and one that has its own.
MixedJobs   == {a1, a2, b1}
MixedCancellable == {a1, b1}
MixedRepos  == {RepoA, RepoB}
MixedRepoOf == (a1 :> RepoA) @@ (a2 :> RepoA) @@ (b1 :> RepoB)

\* Workers are alike, and so are the jobs of one repository (safety runs only).
Alike == Permutations({w1, w2, w3}) \cup Permutations({a1, a2, a3})
=============================================================================
