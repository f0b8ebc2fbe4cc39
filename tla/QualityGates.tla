---------------------------- MODULE QualityGates ----------------------------
(***************************************************************************)
(* One attempt at a task in a described workspace, file by file            *)
(* (engine.py, _integrate): the engineer's files are applied, reviewed and *)
(* joined by QA's tests; the gates run; then the product files are         *)
(* reverted to see whether the tests notice, and one of them is mutated.   *)
(* An attempt that is not accepted is undone from a snapshot.  A write may *)
(* fail half way through any of this.                                      *)
(*                                                                         *)
(* Paths are normalised names; a path may be written by both.              *)
(***************************************************************************)
EXTENDS Process, FiniteSets

CONSTANTS Path,
          Product,      \* the paths that are not tests
          Missing       \* the content of a file that is not there

ASSUME QualityGatesAssumption == Product \subseteq Path /\ IsFiniteSet(Path)

VARIABLES
    file,      \* path -> content
    change,    \* what the engineer describes: path -> content
    suite,     \* QA's files: path -> content
    snap,      \* the snapshot: path -> content before
    kept,      \* product files to put back after a check
    tried,     \* attempts
    ioFault,   \* bound: whether a write has failed in this attempt
    before,    \* history: the workspace before the attempt
    reviewed   \* history: the workspace that the reviewer saw

gateVars == <<file, change, suite, snap, kept, tried, ioFault, before, reviewed>>

Nothing == [p \in {} |-> Missing]
Files(content) == UNION {[S -> content] : S \in SUBSET Path}

\* ChangeApplier.apply, and every loop that writes files one by one.
Written(f) == [p \in Path |-> IF p \in DOMAIN f THEN f[p] ELSE file[p]]
Cut(f, S) == [p \in DOMAIN f \intersect S |-> f[p]]

\* The writes of f all succeed, or one raises with some of them done.
Writes(f, next) ==
    \/ file' = Written(f) /\ Goto(next) /\ UNCHANGED ioFault
    \/ /\ ~ioFault /\ f # Nothing /\ ioFault' = TRUE /\ Goto("raised")
       /\ \E S \in SUBSET DOMAIN f : S # DOMAIN f /\ file' = Written(Cut(f, S))

Stays == UNCHANGED <<file, ioFault>>

-----------------------------------------------------------------------------
\* The workspace as the task finds it.
Open ==
    /\ at = "develop" /\ Goto("attempt")
    /\ file' \in [Path -> {"old", Missing}] /\ before' = file' /\ reviewed' = file'
    /\ UNCHANGED <<change, suite, snap, kept, tried, ioFault>> /\ Free

\* The engineer answers with the files to change.
Describe ==
    /\ at = "attempt" /\ tried < Attempts
    /\ change' \in Files({"new", Missing}) \ {Nothing} /\ before' = file
    /\ suite' = Nothing /\ snap' = Nothing /\ kept' = Nothing
    /\ reviewed' = file /\ tried' = tried + 1 /\ ioFault' = FALSE
    /\ Goto("apply")
    /\ UNCHANGED file /\ Free

\* _snapshot, then apply.
Apply ==
    /\ at = "apply" /\ snap' = [p \in DOMAIN change |-> file[p]]
    /\ Writes(change, "review")
    /\ UNCHANGED <<change, suite, kept, tried, before, reviewed>> /\ Free

\* Static findings, the review and a debate; the call may raise.
ReviewChange ==
    /\ at = "review" /\ reviewed' = file
    /\ \/ Goto("tests") \/ Goto("rejected") \/ Goto("raised")
    /\ Stays
    /\ UNCHANGED <<change, suite, snap, kept, tried, before>> /\ Free

\* As AddTests, with QA's files put into the snapshot a second time.
AddTestsAfresh ==
    /\ at = "tests" /\ suite' \in Files({"test"})
    /\ snap' = [p \in DOMAIN snap \union DOMAIN suite' |->
                    IF p \in DOMAIN suite' THEN file[p] ELSE snap[p]]
    /\ Writes(suite', "gates")
    /\ UNCHANGED <<change, kept, tried, before, reviewed>> /\ Free

\* QA's files join the snapshot, those that are not in it yet.
AddTests ==
    /\ at = "tests" /\ suite' \in Files({"test"})
    /\ snap' = [p \in DOMAIN snap \union DOMAIN suite' |->
                    IF p \in DOMAIN snap THEN snap[p] ELSE file[p]]
    /\ Writes(suite', "gates")
    /\ UNCHANGED <<change, kept, tried, before, reviewed>> /\ Free

TestsRaise ==
    /\ at = "tests" /\ Goto("raised") /\ Stays
    /\ UNCHANGED <<change, suite, snap, kept, tried, before, reviewed>> /\ Free

\* The definition of done, where failures that the baseline had are forgiven.
RunGates ==
    /\ at = "gates"
    /\ \/ Goto("revert") \/ Goto("rejected") \/ Goto("raised")
    /\ Stays
    /\ UNCHANGED <<change, suite, snap, kept, tried, before, reviewed>> /\ Free

\* impl_paths
Reverted == {p \in DOMAIN change \intersect Product : file[p] # Missing}

\* Fail-to-pass: the product files as they were, the tests as they are.
RevertProduct ==
    /\ at = "revert" /\ Reverted # {}
    /\ kept' = [p \in Reverted |-> file[p]]
    /\ Writes([p \in Reverted |-> snap[p]], "reverted")
    /\ UNCHANGED <<change, suite, snap, tried, before, reviewed>> /\ Free

\* Nothing to revert, a dry run, remote gates, or switched off.
SkipRevert ==
    /\ at = "revert" /\ Goto("mutate") /\ Stays
    /\ UNCHANGED <<change, suite, snap, kept, tried, before, reviewed>> /\ Free

\* The gates have run, or raised; the change is put back in any case.  Tests
\* that still pass are vacuous.
RestoreProduct ==
    /\ at = "reverted"
    /\ \E next \in {"mutate", "rejected", "raised"} : Writes(kept, next)
    /\ UNCHANGED <<change, suite, snap, kept, tried, before, reviewed>> /\ Free

\* The mutation check takes an attempt with one product file.
Mutate ==
    /\ at = "mutate" /\ Cardinality(Reverted) = 1
    /\ kept' = [p \in Reverted |-> file[p]]
    /\ Writes([p \in Reverted |-> "mutant"], "mutated")
    /\ UNCHANGED <<change, suite, snap, tried, before, reviewed>> /\ Free

SkipMutation ==
    /\ at = "mutate" /\ Goto("accepted") /\ Stays
    /\ UNCHANGED <<change, suite, snap, kept, tried, before, reviewed>> /\ Free

\* Whatever became of the mutant, the file is put back; if that fails the
\* attempt is rejected.
Unmutate ==
    /\ at = "mutated"
    /\ \/ Writes(kept, "accepted") \/ Writes(kept, "raised")
    /\ UNCHANGED <<change, suite, snap, kept, tried, before, reviewed>> /\ Free

\* _rollback
RollBack ==
    /\ at \in {"rejected", "raised"}
    /\ file' = Written(snap) /\ Goto("undone")
    /\ UNCHANGED <<change, suite, snap, kept, tried, ioFault, before, reviewed>> /\ Free

\* Another attempt, or the end of the task.
NextAttempt ==
    /\ at = "undone" /\ Goto(IF tried < Attempts THEN "attempt" ELSE "delivered")
    /\ UNCHANGED gateVars /\ Free

TaskDone ==
    /\ at = "accepted" /\ Goto("delivered")
    /\ UNCHANGED gateVars /\ Free

GatesInit ==
    /\ file = [p \in Path |-> Missing] /\ before = file /\ reviewed = file
    /\ change = Nothing /\ suite = Nothing /\ snap = Nothing /\ kept = Nothing
    /\ tried = 0 /\ ioFault = FALSE

GatesStep ==
    \/ Open \/ Describe \/ Apply \/ ReviewChange \/ AddTests \/ TestsRaise \/ RunGates
    \/ RevertProduct \/ SkipRevert \/ RestoreProduct \/ Mutate \/ SkipMutation
    \/ Unmutate \/ RollBack \/ NextAttempt \/ TaskDone

-----------------------------------------------------------------------------
\* An attempt that is not accepted leaves the workspace as it found it, and
\* one that is accepted leaves what the reviewer saw, apart from the files
\* that QA wrote, even though the product files were reverted and mutated in
\* between and a write may have failed (engine.py, _integrate).
AllOrReviewed ==
    /\ at = "undone" => file = before
    /\ at = "accepted" =>
           \A p \in Path \ DOMAIN suite : file[p] = reviewed[p]

=============================================================================
