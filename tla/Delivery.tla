------------------------------ MODULE Delivery ------------------------------
(***************************************************************************)
(* The delivery engine (engine.py): one feature from a plan of tasks to    *)
(* one feature commit.  Tasks are attempted side by side; an attempt is    *)
(* written, reviewed, tested and either banked as a WIP commit or rolled   *)
(* back.  Failed tasks may be re-planned; then come the visual fixes, the  *)
(* security review, the documents and the squash of the WIP commits.  The  *)
(* process may crash at any moment; the operator then runs it again, and   *)
(* the checkpoint says what is already done.                               *)
(*                                                                         *)
(* An edit stands for all that one task (or stage) wrote in one run; it is *)
(* gated once the quality gates have passed over it.                       *)
(***************************************************************************)
EXTENDS Metering, FiniteSets, Sequences

CONSTANTS Task,           \* ids a first plan may use
          Spare,          \* ids a re-plan may add
          Nobody,
          Visual, Docs,   \* authors that are not tasks
          Plans,          \* plans the manager may propose
          Modes,          \* among "agentic", "worktree" and "described"
          MaxAttempts, MaxConcurrency, ReplanRounds, FixRounds,
          MaxAsked,       \* bound: retries the human grants in a run
          MaxStale,       \* bound: entries left behind on the stash
          MaxRuns         \* bound: times the operator starts the feature

Ids == Task \union Spare

ASSUME DeliveryAssumption ==
    /\ IsFiniteSet(Ids)
    /\ Nobody \notin Ids /\ Visual \notin Ids /\ Docs \notin Ids
    /\ Visual # Docs
    /\ Modes \subseteq {"agentic", "worktree", "described"}
    /\ MaxAttempts \in Nat \ {0} /\ MaxConcurrency \in Nat \ {0}
    /\ {ReplanRounds, FixRounds, MaxAsked, MaxStale, MaxRuns} \subseteq Nat
    /\ \A p \in Plans :
          \E S \in SUBSET Task : S # {} /\ p \in [S -> SUBSET Task]
    /\ Reserve < Limit

VARIABLES
    branch,    \* commits of the delivery branch
    tree,      \* uncommitted edits in the working directory
    staged,    \* what a soft reset has put into the index
    stash,     \* tasks whose work is shelved, the newest first
    ckpt,      \* checkpoint file: tasks done, baseline, plan
    mode,      \* how tasks share the working directory
    runs,      \* runs started so far
    phase,     \* stage of the run, "idle" between runs
    base,      \* _baseline_sha, as a length of the branch
    plan,      \* task -> dependencies
    pc,        \* where each task's worker is
    tries,     \* attempts since the last retry was granted
    asked,     \* retries granted by the human
    lock,      \* _integration_lock
    stashLock, \* _stash_lock
    snap,      \* the tree before a described change was applied
    starved,   \* _budget_exhausted
    rounds,    \* re-plan rounds left
    todo,      \* failed tasks this re-plan round has still to propose for
    mutated,   \* whether the round has changed the plan
    fixes,     \* visual fix rounds used
    verdict,   \* security verdict
    head,      \* the branch before the soft reset
    landed,    \* what became of the last final commit
    vetted,    \* history: work an approving security review has seen
    shipped    \* history: work that was put into a feature commit

disk   == <<branch, tree, staged, stash, ckpt>>
purse  == <<spent, reserved>>
crew   == <<pc, tries, asked, lock, stashLock, snap>>
replan == <<plan, rounds, todo, mutated>>
tail   == <<fixes, verdict, head, landed>>
run    == <<mode, runs, base>>
past   == <<vetted, shipped>>
vars == <<disk, purse, crew, replan, tail, run, past, phase, starved>>

-----------------------------------------------------------------------------
(* Edits and commits *)

Author == Ids \union {Visual, Docs}
Edit == [by : Author, run : 1..MaxRuns, gated : BOOLEAN]
Commit == [kind : {"user", "wip", "fix", "feature"}, work : SUBSET Edit]

Raw(a) == [by |-> a, run |-> runs, gated |-> FALSE]
Gated(E) == {[e EXCEPT !.gated = TRUE] : e \in E}
Authors(E) == {e.by : e \in E}
WorkOf(E) == {[by |-> e.by, run |-> e.run] : e \in E}

\* The commits after the first n, flattened.
Since(n) == UNION {branch[i].work : i \in (n + 1)..Len(branch)}

Committed(k, E) == Append(branch, [kind |-> k, work |-> E])

NoCheckpoint == [done |-> {}, base |-> 0, plan |-> <<>>]

\* The baseline that the next save of the checkpoint carries.
SavedBase == IF ckpt.base # 0 THEN ckpt.base ELSE base

\* No task has been attempted in this run.
Untouched == asked = 0 /\ \A t \in Ids : tries[t] = 0

InFlight == {t \in Ids : pc[t] \in {"engineer", "review", "qa"}}
Active == {t \in Ids : pc[t] \notin {"idle", "done", "failed"}}
Planned(s) == {t \in DOMAIN plan : pc[t] = s}

-----------------------------------------------------------------------------
Init ==
    /\ branch = <<[kind |-> "user", work |-> {}]>>
    /\ tree = {} /\ staged = {} /\ stash = <<>> /\ ckpt = NoCheckpoint
    /\ mode \in Modes /\ runs = 0 /\ base = 0
    /\ phase = "idle" /\ starved = FALSE
    /\ plan = <<>> /\ rounds = 0 /\ todo = {} /\ mutated = FALSE
    /\ pc = [t \in Ids |-> "idle"] /\ tries = [t \in Ids |-> 0] /\ asked = 0
    /\ lock = Nobody /\ stashLock = Nobody /\ snap = {}
    /\ fixes = 0 /\ verdict = "none" /\ head = <<>> /\ landed = "no"
    /\ spent = 0 /\ reserved = 0
    /\ vetted = {} /\ shipped = {}

\* The process is gone, or the run has returned: its memory is reset.  Its
\* budget goes with the process; a chat keeps it for the next run.
Leave ==
    /\ phase' = "idle" /\ starved' = FALSE /\ base' = 0
    /\ plan' = <<>> /\ rounds' = 0 /\ todo' = {} /\ mutated' = FALSE
    /\ pc' = [t \in Ids |-> "idle"] /\ tries' = [t \in Ids |-> 0] /\ asked' = 0
    /\ lock' = Nobody /\ stashLock' = Nobody /\ snap' = {}
    /\ fixes' = 0 /\ verdict' = "none" /\ head' = <<>> /\ reserved' = 0
    /\ UNCHANGED <<mode, runs>>

Purse(amount) == spent' \in {0, amount}

\* _prepare_git_baseline halts a run over uncommitted work.
CleanTree == tree = {} /\ staged = {}

\* A checkpoint with work done makes the run resume: it keeps the baseline of
\* the interrupted run and its plan.
Resuming == ckpt.done # {}

\* The baseline is set, and planning begins, with whatever the process has
\* already spent.
Begin ==
    /\ phase = "idle" /\ runs < MaxRuns /\ CleanTree
    /\ phase' = "planning" /\ runs' = runs + 1 /\ landed' = "no"
    /\ base' = IF Resuming THEN ckpt.base ELSE Len(branch)
    /\ UNCHANGED <<disk, purse, crew, replan, mode, fixes, verdict, head, past, starved>>

\* The plan, its revision after the lint, and each one a human asks for:
\* nothing is held back yet.
PlanCall ==
    /\ phase = "planning" /\ ~Resuming /\ ~Exhausted
    /\ \E c \in Cost : ~Blows(c) /\ Charge(c)
    /\ UNCHANGED <<disk, crew, replan, tail, run, past, phase, starved>>

\* The architect's design is the last call before the reserve is set aside
\* and the tasks are scheduled.
PlanReady ==
    /\ phase = "planning" /\ phase' = "tasks"
    /\ ~Exhausted /\ \E c \in Cost : ~Blows(c) /\ spent' = spent + c
    /\ reserved' = Reserve /\ rounds' = ReplanRounds
    /\ IF Resuming THEN plan' = ckpt.plan ELSE plan' \in Plans
    /\ pc' = [t \in Ids |-> IF t \in ckpt.done THEN "done" ELSE "idle"]
    /\ UNCHANGED <<disk, tries, asked, lock, stashLock, snap, todo, mutated,
                   tail, run, past, starved>>

\* The run is halted: by the gates or the baseline, an agent's error, a human
\* who rejects the plan, or the budget.
PlanHalts ==
    /\ phase = "planning"
    /\ \E c \in Cost : (c > 0 => ~Exhausted) /\ Purse(spent + c)
    /\ Leave /\ UNCHANGED <<disk, landed, past>>

-----------------------------------------------------------------------------
(* A task's worker *)

Needs(t) == (plan[t] \intersect DOMAIN plan) \ {t}

Launchable(t) ==
    /\ pc[t] = "idle" /\ \A d \in Needs(t) : pc[d] = "done"
    /\ Cardinality(Active) < MaxConcurrency

\* An exhausted budget fails the task before its first attempt.
Launch(t) ==
    /\ phase = "tasks" /\ t \in DOMAIN plan /\ Launchable(t)
    /\ LET dry == starved \/ Exhausted IN
          /\ pc' = [pc EXCEPT ![t] = IF dry THEN "failed" ELSE "begin"]
          /\ starved' = dry
    /\ UNCHANGED <<disk, purse, tries, asked, lock, stashLock, snap, replan,
                   tail, run, past, phase>>

\* What a rolled-back attempt leaves in the working directory: nothing when
\* the task edits it in place, the snapshot when its changes were applied, and
\* all of it otherwise.
Restored(t) ==
    IF mode = "agentic" THEN {} ELSE IF lock = t THEN snap ELSE tree

Unlocked(t) == IF lock = t THEN Nobody ELSE lock

\* The attempt is rolled back and its worker goes to s.
Undo(t, s) ==
    /\ tree' = Restored(t) /\ lock' = Unlocked(t)
    /\ snap' = IF lock = t THEN {} ELSE snap
    /\ pc' = [pc EXCEPT ![t] = s]
    /\ UNCHANGED <<branch, staged, ckpt, tries, asked>>

\* BudgetExceededError ends the task.
Abandon(t) == Undo(t, "failed") /\ starved' = TRUE

\* The engineer is called.  In place, the attempt holds the lock to its end
\* and edits the working directory as it goes.
Attempt(t) ==
    /\ pc[t] = "begin" /\ tries[t] < MaxAttempts /\ ~Exhausted
    /\ mode = "agentic" => lock = Nobody
    /\ pc' = [pc EXCEPT ![t] = "engineer"]
    /\ tries' = [tries EXCEPT ![t] = @ + 1]
    /\ lock' = IF mode = "agentic" THEN t ELSE lock
    /\ tree' = IF mode = "agentic" THEN tree \union {Raw(t)} ELSE tree
    /\ UNCHANGED <<branch, staged, stash, ckpt, purse, asked, stashLock, snap,
                   replan, tail, run, past, phase, starved>>

\* The check before a call raises: in place, under the lock, where it too is
\* rolled back.
Starve(t) ==
    /\ \/ pc[t] = "begin" /\ tries[t] < MaxAttempts
          /\ (mode = "agentic" => lock = Nobody)
       \/ pc[t] = "drafted" /\ (mode = "described" => lock = Nobody)
    /\ Exhausted /\ Abandon(t)
    /\ UNCHANGED <<stash, purse, stashLock, replan, tail, run, past, phase>>

\* The call's own cost passes the ceiling.
Overspend(t) ==
    /\ t \in InFlight /\ \E c \in Cost : Blows(c) /\ Charge(c)
    /\ Abandon(t)
    /\ UNCHANGED <<stash, stashLock, replan, tail, run, past, phase>>

\* Mutant of AgentError: only the lock is given back.
AgentErrorKeeping(t) ==
    /\ t \in InFlight /\ \E c \in Cost : ~Blows(c) /\ Charge(c)
    /\ pc' = [pc EXCEPT ![t] = "begin"] /\ lock' = Unlocked(t)
    /\ UNCHANGED <<disk, tries, asked, stashLock, snap, replan, tail, run, past,
                   phase, starved>>

\* The agent never answers in the form asked for.
AgentError(t) ==
    /\ t \in InFlight /\ \E c \in Cost : ~Blows(c) /\ Charge(c)
    /\ Undo(t, "begin")
    /\ UNCHANGED <<stash, stashLock, replan, tail, run, past, phase, starved>>

EngineerAnswers(t) ==
    /\ pc[t] = "engineer" /\ \E c \in Cost : ~Blows(c) /\ Charge(c)
    /\ pc' = [pc EXCEPT ![t] = "drafted"]
    /\ UNCHANGED <<disk, tries, asked, lock, stashLock, snap, replan, tail, run,
                   past, phase, starved>>

\* Mutant of Integrate: the reviewer is called whatever has been spent.
IntegrateUnchecked(t) ==
    /\ pc[t] = "drafted"
    /\ IF mode = "described"
       THEN /\ lock = Nobody /\ lock' = t /\ snap' = tree
            /\ tree' = tree \union {Raw(t)}
       ELSE UNCHANGED <<lock, snap, tree>>
    /\ pc' = [pc EXCEPT ![t] = "review"]
    /\ UNCHANGED <<branch, staged, stash, ckpt, purse, tries, asked, stashLock,
                   replan, tail, run, past, phase, starved>>

\* A described change is applied under the lock; the reviewer is called.
Integrate(t) ==
    /\ pc[t] = "drafted" /\ ~Exhausted
    /\ IF mode = "described"
       THEN /\ lock = Nobody /\ lock' = t /\ snap' = tree
            /\ tree' = tree \union {Raw(t)}
       ELSE UNCHANGED <<lock, snap, tree>>
    /\ pc' = [pc EXCEPT ![t] = "review"]
    /\ UNCHANGED <<branch, staged, stash, ckpt, purse, tries, asked, stashLock,
                   replan, tail, run, past, phase, starved>>

\* Approved, or overturned in the debate: QA is called for the tests.
Approve(t) ==
    /\ pc[t] = "review"
    /\ \E c \in Cost :
          /\ ~Blows(c) /\ Charge(c)
          /\ IF ExhaustedAfter(c) THEN Abandon(t)
             ELSE /\ pc' = [pc EXCEPT ![t] = "qa"]
                  /\ UNCHANGED <<branch, tree, staged, ckpt, tries, asked, lock,
                                 snap, starved>>
    /\ UNCHANGED <<stash, stashLock, replan, tail, run, past, phase>>

\* Rejected.  A debate that exhausts the budget upholds the rejection.
Reject(t) ==
    /\ pc[t] = "review"
    /\ \/ \E c \in Cost : ~Blows(c) /\ Charge(c) /\ UNCHANGED starved
       \/ \E c \in Cost : (Blows(c) \/ ExhaustedAfter(c)) /\ Charge(c)
                          /\ starved' = TRUE
    /\ Undo(t, "begin")
    /\ UNCHANGED <<stash, stashLock, replan, tail, run, past, phase>>

SuiteWritten(t) ==
    /\ pc[t] = "qa" /\ \E c \in Cost : ~Blows(c) /\ Charge(c)
    /\ pc' = [pc EXCEPT ![t] = "gates"]
    /\ UNCHANGED <<disk, tries, asked, lock, stashLock, snap, replan, tail, run,
                   past, phase, starved>>

\* The gates pass over the directory the task works in.
GatesPass(t) ==
    /\ pc[t] = "gates"
    /\ tree' = IF lock = t THEN Gated(tree) ELSE tree
    /\ pc' = [pc EXCEPT ![t] = "verify"]
    /\ UNCHANGED <<branch, staged, stash, ckpt, purse, tries, asked, lock,
                   stashLock, snap, replan, tail, run, past, phase, starved>>

\* The gates fail; or, without a stash, the tests pass without the change.
GatesFail(t) ==
    /\ pc[t] = "gates" \/ (pc[t] = "verify" /\ mode = "described")
    /\ Undo(t, "begin")
    /\ UNCHANGED <<stash, purse, stashLock, replan, tail, run, past, phase,
                   starved>>

\* Mutant of Shelve: the push and the pop are not one critical section.
ShelveUnlocked(t) ==
    /\ pc[t] = "verify" /\ mode # "described"
    /\ stash' = <<t>> \o stash
    /\ pc' = [pc EXCEPT ![t] = "shelved"]
    /\ UNCHANGED <<branch, tree, staged, ckpt, purse, tries, asked, lock,
                   stashLock, snap, replan, tail, run, past, phase, starved>>

\* The fail-to-pass check shelves the change under _stash_lock.
Shelve(t) ==
    /\ pc[t] = "verify" /\ mode # "described" /\ stashLock = Nobody
    /\ stashLock' = t /\ stash' = <<t>> \o stash
    /\ pc' = [pc EXCEPT ![t] = "shelved"]
    /\ UNCHANGED <<branch, tree, staged, ckpt, purse, tries, asked, lock, snap,
                   replan, tail, run, past, phase, starved>>

\* The check is off or the stash denied; a described change is reverted and
\* rewritten in one step.
PassCheck(t) ==
    /\ pc[t] = "verify" /\ pc' = [pc EXCEPT ![t] = "bank"]
    /\ UNCHANGED <<disk, purse, tries, asked, lock, stashLock, snap, replan,
                   tail, run, past, phase, starved>>

\* The tests fail without the change, as they should.
Unshelve(t) ==
    /\ pc[t] = "shelved" /\ stash' = Tail(stash) /\ stashLock' = Nobody
    /\ pc' = [pc EXCEPT ![t] = "bank"]
    /\ UNCHANGED <<branch, tree, staged, ckpt, purse, tries, asked, lock, snap,
                   replan, tail, run, past, phase, starved>>

\* The tests pass without the change, or the pop conflicts and leaves its entry.
FailCheck(t) ==
    /\ pc[t] = "shelved" /\ stashLock' = Nobody
    /\ stash' = Tail(stash) \/ (Len(stash) <= MaxStale /\ stash' = stash)
    /\ Undo(t, "begin")
    /\ UNCHANGED <<purse, replan, tail, run, past, phase, starved>>

\* The accepted work becomes a WIP commit.
Bank(t) ==
    /\ pc[t] = "bank" /\ mode # "worktree"
    /\ branch' = Committed("wip", tree) /\ tree' = {}
    /\ lock' = Unlocked(t) /\ snap' = {}
    /\ pc' = [pc EXCEPT ![t] = "record"]
    /\ UNCHANGED <<staged, stash, ckpt, purse, tries, asked, stashLock, replan,
                   tail, run, past, phase, starved>>

\* Mutant of BankFails: the worker leaves without the lock's release.
BankFailsLocked(t) ==
    /\ pc[t] = "bank"
    /\ pc' = [pc EXCEPT ![t] = IF mode = "worktree" THEN "failed" ELSE "begin"]
    /\ UNCHANGED <<disk, purse, tries, asked, lock, snap, stashLock, replan,
                   tail, run, past, phase, starved>>

\* git refuses the commit: the attempt has failed, but nothing is rolled back.
\* In a worktree the error ends the task.
BankFails(t) ==
    /\ pc[t] = "bank"
    /\ pc' = [pc EXCEPT ![t] = IF mode = "worktree" THEN "failed" ELSE "begin"]
    /\ lock' = Unlocked(t) /\ snap' = IF lock = t THEN {} ELSE snap
    /\ UNCHANGED <<disk, purse, tries, asked, stashLock, replan, tail, run,
                   past, phase, starved>>

\* A worktree's work is squash-merged, for the gates to run again.
Merge(t) ==
    /\ pc[t] = "bank" /\ mode = "worktree" /\ lock = Nobody
    /\ lock' = t /\ tree' = tree \union {Raw(t)}
    /\ pc' = [pc EXCEPT ![t] = "merge"]
    /\ UNCHANGED <<branch, staged, stash, ckpt, purse, tries, asked, stashLock,
                   snap, replan, tail, run, past, phase, starved>>

MergePasses(t) ==
    /\ pc[t] = "merge"
    /\ branch' = Committed("wip", Gated(tree)) /\ tree' = {}
    /\ lock' = Nobody /\ pc' = [pc EXCEPT ![t] = "record"]
    /\ UNCHANGED <<staged, stash, ckpt, purse, tries, asked, stashLock, snap,
                   replan, tail, run, past, phase, starved>>

\* The merge conflicts or breaks the gates: it is discarded.
MergeFails(t) ==
    /\ pc[t] = "merge" /\ tree' = {}
    /\ lock' = Nobody /\ pc' = [pc EXCEPT ![t] = "begin"]
    /\ UNCHANGED <<branch, staged, stash, ckpt, purse, tries, asked, stashLock,
                   snap, replan, tail, run, past, phase, starved>>

\* git refuses the commit of a merge that passed: the task fails, the merged
\* files stay.
MergeBreaks(t) ==
    /\ pc[t] = "merge" /\ tree' = Gated(tree)
    /\ lock' = Nobody /\ pc' = [pc EXCEPT ![t] = "failed"]
    /\ UNCHANGED <<branch, staged, stash, ckpt, purse, tries, asked, stashLock,
                   snap, replan, tail, run, past, phase, starved>>

\* The checkpoint learns of the task, after its commit.
Record(t) ==
    /\ pc[t] = "record" /\ pc' = [pc EXCEPT ![t] = "done"]
    /\ ckpt' = [done |-> ckpt.done \union {t}, base |-> SavedBase, plan |-> plan]
    /\ UNCHANGED <<branch, tree, staged, stash, purse, tries, asked, lock,
                   stashLock, snap, replan, tail, run, past, phase, starved>>

\* All attempts are used up: the task fails, or the human grants a new round.
OutOfTries(t) ==
    /\ pc[t] = "begin" /\ tries[t] = MaxAttempts
    /\ \/ pc' = [pc EXCEPT ![t] = "failed"] /\ UNCHANGED <<tries, asked>>
       \/ /\ asked < MaxAsked /\ ~Exhausted /\ asked' = asked + 1
          /\ tries' = [tries EXCEPT ![t] = 0] /\ UNCHANGED pc
    /\ UNCHANGED <<disk, purse, lock, stashLock, snap, replan, tail, run, past,
                   phase, starved>>

WorkerStep(t) ==
    \/ Launch(t) \/ Attempt(t) \/ Starve(t) \/ Overspend(t) \/ AgentError(t)
    \/ EngineerAnswers(t) \/ Integrate(t) \/ Approve(t) \/ Reject(t)
    \/ SuiteWritten(t) \/ GatesPass(t) \/ GatesFail(t) \/ Shelve(t)
    \/ PassCheck(t) \/ Unshelve(t) \/ FailCheck(t) \/ Bank(t) \/ BankFails(t)
    \/ Merge(t) \/ MergePasses(t) \/ MergeFails(t) \/ MergeBreaks(t)
    \/ Record(t) \/ OutOfTries(t)

-----------------------------------------------------------------------------
(* Re-planning *)

\* The reserve is released however the task phase ends.
CloseTasks == phase' = "visual" /\ reserved' = 0 /\ todo' = {} /\ mutated' = FALSE

\* schedule() returns: the plan's failed tasks are re-planned, if any rounds
\* and budget are left.
TasksEnd ==
    /\ phase = "tasks" /\ Active = {}
    /\ \A t \in Planned("idle") : ~Launchable(t)
    /\ IF rounds = 0 \/ starved \/ Exhausted \/ Planned("failed") = {}
       THEN CloseTasks
       ELSE /\ phase' = "replan" /\ todo' = Planned("failed")
            /\ mutated' = FALSE /\ UNCHANGED reserved
    /\ UNCHANGED <<disk, crew, plan, rounds, spent, tail, run, past, starved>>

\* apply_replan: R takes t's place, and whatever depended on t depends on R.
\* A replacement may be given t's own id again.
Replaced(t, R) ==
    [u \in (DOMAIN plan \ {t}) \union R |->
        IF u \in R THEN plan[t] \ {t}
        ELSE IF t \in plan[u] THEN (plan[u] \ {t}) \union R ELSE plan[u]]

Replacements(t) ==
    {R \in SUBSET ({t} \union (Spare \ DOMAIN plan)) :
        (DOMAIN plan \ {t}) \union R # {}}

\* The manager's proposal for one failed task is applied, or it is rejected by
\* the human or found invalid.
ReplanTask(t) ==
    /\ phase = "replan" /\ t \in todo /\ todo' = todo \ {t} /\ ~Exhausted
    /\ \E c \in Cost : ~Blows(c) /\ Charge(c)
    /\ \/ /\ \E R \in Replacements(t) : plan' = Replaced(t, R)
          /\ mutated' = TRUE
       \/ UNCHANGED <<plan, mutated>>
    /\ UNCHANGED <<disk, crew, rounds, tail, run, past, phase, starved>>

\* The budget dies: no more proposals.
ReplanStarves ==
    /\ phase = "replan" /\ todo # {} /\ todo' = {} /\ starved' = TRUE
    /\ \/ Exhausted /\ UNCHANGED purse
       \/ ~Exhausted /\ \E c \in Cost : Blows(c) /\ Charge(c)
    /\ UNCHANGED <<disk, crew, plan, rounds, mutated, tail, run, past, phase>>

\* The manager never answers in form: the error leaves deliver().
ReplanRaises ==
    /\ phase = "replan" /\ todo # {} /\ ~Exhausted
    /\ \E c \in Cost : ~Blows(c) /\ Purse(spent + c)
    /\ Leave /\ UNCHANGED <<disk, landed, past>>

\* A changed plan is saved and scheduled again, if it has anything new.
EndRound ==
    /\ phase = "replan" /\ todo = {}
    /\ IF ~mutated THEN CloseTasks /\ UNCHANGED <<rounds, ckpt>>
       ELSE /\ ckpt' = [done |-> ckpt.done, base |-> SavedBase, plan |-> plan]
            /\ rounds' = rounds - 1
            /\ IF Planned("idle") = {} THEN CloseTasks
               ELSE phase' = "tasks" /\ mutated' = FALSE /\ UNCHANGED <<todo, reserved>>
    /\ UNCHANGED <<branch, tree, staged, stash, crew, plan, spent, tail, run,
                   past, starved>>

-----------------------------------------------------------------------------
(* The stages after the tasks *)

Late(p, q) ==
    /\ phase = p /\ phase' = q
    /\ UNCHANGED <<ckpt, stash, staged, crew, replan, run, reserved>>

\* A call that fits the ceiling, and one that a specialist stage dies of.
Answered == ~Exhausted /\ (\E c \in Cost : ~Blows(c) /\ Charge(c)) /\ UNCHANGED starved
Died == \/ Exhausted /\ starved' = TRUE /\ UNCHANGED spent
        \/ ~Exhausted /\ starved' = TRUE /\ \E c \in Cost : Blows(c) /\ Charge(c)
        \/ Answered

\* Nothing to look at, no budget, a failed or clean review: no (more) fixes.
VisualDone ==
    /\ Late("visual", "security") /\ \/ UNCHANGED <<spent, starved>> \/ Died
    /\ UNCHANGED <<branch, tree, tail, past>>

\* Findings, and rounds left: the engineer edits the working directory.
VisualFindings ==
    /\ Late("visual", "fix") /\ Planned("done") # {} /\ ~starved
    /\ fixes < FixRounds /\ Answered /\ spent' < Ceiling
    /\ tree' = tree \union {Raw(Visual)}
    /\ UNCHANGED <<branch, tail, past>>

\* The engineer's call raises: _specialist takes the error, the edits stay.
FixRaises ==
    /\ Late("fix", "security") /\ Died
    /\ UNCHANGED <<branch, tree, tail, past>>

FixKept ==
    /\ Late("fix", "visual") /\ Answered
    /\ branch' = Committed("fix", Gated(tree)) /\ tree' = {}
    /\ fixes' = fixes + 1 /\ UNCHANGED <<verdict, head, landed, past>>

\* The fix breaks the gates: the working directory is discarded.
FixDropped ==
    /\ Late("fix", "security") /\ Answered /\ tree' = {}
    /\ UNCHANGED <<branch, tail, past>>

\* git refuses the commit of a fix that passed.
FixCommitFails ==
    /\ Late("fix", "security") /\ Answered /\ tree' = Gated(tree)
    /\ UNCHANGED <<branch, tail, past>>

\* Mutant of SecurityReview: only this run's tasks are shown.
SecurityReviewOwnRun ==
    /\ Late("security", "artifacts") /\ Answered
    /\ \E v \in {"approved", "blocked"} :
          /\ verdict' = v
          /\ vetted' = IF v = "approved"
                       THEN vetted \union {w \in WorkOf(Since(base) \union tree) : w.run = runs}
                       ELSE vetted
    /\ UNCHANGED <<branch, tree, fixes, head, landed, shipped>>

\* Everything changed since the baseline is shown to the security engineer.
SecurityReview ==
    /\ Late("security", "artifacts") /\ Answered
    /\ \E v \in {"approved", "blocked"} :
          /\ verdict' = v
          /\ vetted' = IF v = "approved"
                       THEN vetted \union WorkOf(Since(base) \union tree)
                       ELSE vetted
    /\ UNCHANGED <<branch, tree, fixes, head, landed, shipped>>

SecurityDies ==
    /\ Late("security", "artifacts") /\ Died
    /\ UNCHANGED <<branch, tree, tail, past>>

\* Deployment files and documents are written, as far as the budget goes.
Artifacts ==
    /\ Late("artifacts", "commit") /\ Died
    /\ tree' \in {tree, tree \union {Raw(Docs)}}
    /\ UNCHANGED <<branch, tail, past>>

\* Nothing done, no approval by security or by the policy, or nothing banked.
\* The guard is that of _commit_if_approved.
Withhold ==
    /\ Late("commit", "finish")
    /\ UNCHANGED <<branch, tree, spent, starved, tail, past>>

\* The soft reset: the WIP commits leave the branch for the index.
Squash ==
    /\ phase = "commit" /\ phase' = "squash"
    /\ Planned("done") # {} /\ verdict = "approved" /\ Len(branch) > base
    /\ head' = branch /\ branch' = SubSeq(branch, 1, base)
    /\ staged' = Since(base)
    /\ UNCHANGED <<tree, stash, ckpt, crew, replan, run, purse, fixes, verdict,
                   landed, past, starved>>

\* The feature commit.
Land ==
    /\ phase = "squash" /\ phase' = "finish"
    /\ branch' = Committed("feature", staged \union tree)
    /\ staged' = {} /\ tree' = {} /\ head' = <<>> /\ landed' = "feature"
    /\ shipped' = shipped \union
                     {w \in WorkOf(staged \union tree) : w.by # Docs}
    /\ UNCHANGED <<stash, ckpt, crew, replan, run, purse, fixes, verdict,
                   vetted, starved>>

\* Mutant of LandFails: the branch stays at the baseline.
LandFailsShort ==
    /\ phase = "squash" /\ phase' = "finish" /\ landed' = "failed"
    /\ staged' = {} /\ tree' = {} /\ head' = <<>>
    /\ UNCHANGED <<branch, stash, ckpt, crew, replan, run, purse, fixes,
                   verdict, past, starved>>

\* git refuses the commit: a hard reset brings the WIP commits back.
LandFails ==
    /\ phase = "squash" /\ phase' = "finish" /\ landed' = "failed"
    /\ branch' = head /\ staged' = {} /\ tree' = {} /\ head' = <<>>
    /\ UNCHANGED <<stash, ckpt, crew, replan, run, purse, fixes, verdict, past,
                   starved>>

\* Every task done, security's approval, and no objection from operations:
\* whatever became of the commit, the checkpoint is cleared.
Finish ==
    /\ phase = "finish"
    /\ LET good == Planned("done") = DOMAIN plan /\ verdict = "approved" IN
          \E success \in {FALSE, good} :
             ckpt' = IF success THEN NoCheckpoint ELSE ckpt
    /\ Purse(spent)
    /\ Leave /\ UNCHANGED <<branch, tree, staged, stash, landed, past>>

-----------------------------------------------------------------------------
(* The process and its operator *)

Crash ==
    /\ phase # "idle" /\ spent' = 0
    /\ Leave /\ UNCHANGED <<disk, landed, past>>

\* What else the process spends between runs: an intake's triage, a
\* simulation asked for in the chat.
SpendElsewhere ==
    /\ phase = "idle" /\ ~Exhausted /\ \E c \in Cost : Charge(c)
    /\ UNCHANGED <<disk, crew, replan, tail, run, past, phase, starved>>

\* The operator commits what a run left behind, or has the next run sweep it
\* into its baseline (allow_dirty_baseline); half-written edits become the
\* operator's own work and are followed no further.
OperatorCommits ==
    /\ phase = "idle" /\ tree \union staged # {}
    /\ branch' = Committed("user", staged \union {e \in tree : e.gated})
    /\ tree' = {} /\ staged' = {}
    /\ UNCHANGED <<stash, ckpt, purse, crew, replan, tail, run, past, phase, starved>>

\* The operator throws away what is not staged.
OperatorDiscards ==
    /\ phase = "idle" /\ tree # {} /\ tree' = {}
    /\ UNCHANGED <<branch, staged, stash, ckpt, purse, crew, replan, tail, run,
                   past, phase, starved>>

Engine ==
    \/ PlanCall \/ PlanReady \/ PlanHalts
    \/ \E t \in Ids : WorkerStep(t) \/ ReplanTask(t)
    \/ TasksEnd \/ ReplanStarves \/ ReplanRaises \/ EndRound
    \/ VisualDone \/ VisualFindings \/ FixRaises \/ FixKept \/ FixDropped
    \/ FixCommitFails \/ SecurityReview \/ SecurityDies \/ Artifacts
    \/ Withhold \/ Squash \/ Land \/ LandFails \/ Finish

Next == Engine \/ Begin \/ Crash \/ SpendElsewhere \/ OperatorCommits \/ OperatorDiscards

Spec == Init /\ [][Next]_vars

\* The event loop goes on, agents and git return; crashes and the operator owe
\* nothing.
FairSpec == Spec /\ WF_vars(Engine)

-----------------------------------------------------------------------------
(* Properties *)

Stages == {"idle", "planning", "tasks", "replan", "visual", "fix", "security", "artifacts",
           "commit", "squash", "finish"}
WorkerStates == {"idle", "begin", "engineer", "drafted", "review", "qa", "gates",
                 "verify", "shelved", "bank", "merge", "record", "done", "failed"}
Graphs == UNION {[S -> SUBSET Ids] : S \in SUBSET Ids}

\* Every variable keeps its type.
TypeOK ==
    /\ branch \in Seq(Commit) /\ head \in Seq(Commit)
    /\ tree \subseteq Edit /\ staged \subseteq Edit /\ snap \subseteq Edit
    /\ stash \in Seq(Ids) /\ mode \in Modes /\ runs \in 0..MaxRuns
    /\ ckpt.done \subseteq Ids /\ ckpt.base \in Nat /\ ckpt.plan \in Graphs
    /\ phase \in Stages /\ base \in Nat /\ plan \in Graphs
    /\ pc \in [Ids -> WorkerStates] /\ tries \in [Ids -> 0..MaxAttempts]
    /\ asked \in 0..MaxAsked /\ rounds \in 0..ReplanRounds /\ todo \subseteq Ids
    /\ {lock, stashLock} \subseteq Ids \union {Nobody}
    /\ {starved, mutated} \subseteq BOOLEAN /\ fixes \in 0..FixRounds
    /\ verdict \in {"none", "approved", "blocked"}
    /\ landed \in {"no", "feature", "failed"}
    /\ spent \in Nat /\ reserved \in {0, Reserve}
    /\ vetted \union shipped \subseteq [by : Author, run : 1..MaxRuns]

\* Whatever fails or crashes, and whenever the operator starts again: work the
\* checkpoint calls done is among the commits that a resumed run will review
\* and squash, or in the index of a squash that was cut short.
ResumableWork == ckpt.done \subseteq Authors(Since(ckpt.base) \union staged)

\* The commits that the engine makes hold no task's work that the gates have
\* not passed, whatever else lay in the working directory.
OnlyGatedWork ==
    \A i \in 1..Len(branch) : \A e \in branch[i].work : e.by \in Ids => e.gated

\* The same of the visual fixes, which are kept only when the gates pass.
OnlyGatedFixes ==
    \A i \in 1..Len(branch) : \A e \in branch[i].work : e.by = Visual => e.gated

\* Spending, with what the calls in flight may still cost, passes the limit by
\* less than one call for each slot, over all that one process does.  While
\* tasks run it passes what the reserve leaves of the limit by no more,
\* unless planning had passed it already: then no task is attempted.
SpendingBounded ==
    LET most == spent + MaxCost * Cardinality(InFlight) IN
    /\ most < Limit + MaxCost * MaxConcurrency
    /\ most < Ceiling + MaxCost * MaxConcurrency \/ Untouched

\* Tasks in different worktrees share one stash: a task restores its own entry.
PopsOwn == \A t \in Ids : pc[t] = "shelved" => stash # <<>> /\ Head(stash) = t

\* A run whose final commit git refused leaves a checkpoint to resume from.
FailedCommitIsResumable ==
    phase = "idle" /\ landed = "failed" => ckpt.done # {}

\* Banked work stays on the branch, and only reviewed work becomes the feature;
\* documents are written after the review and are not followed.
Tracked(W) == {w \in W : w.by # Docs}

Ledger == INSTANCE DeliveryLedger WITH Work <- [by : Ids \union {Visual}, run : 1..MaxRuns],
                                       banked <- Tracked(WorkOf(Since(0) \union staged)),
                                       vetted <- Tracked(vetted), shipped <- shipped

ImplementsLedger == Ledger!LedgerSpec

\* Every run returns or dies: no lock, retry or round keeps it for ever.
RunsEnd == phase # "idle" ~> phase = "idle"
=============================================================================
