--------------------------- MODULE TaskScheduler ----------------------------
(***************************************************************************)
(* The task phase of a delivery: schedule() of dev_team/scheduler.py, and  *)
(* what becomes of it when the job that awaits it runs into its time limit *)
(* (Dispatcher._worker_loop of dev_team/dispatch.py).                      *)
(*                                                                         *)
(* schedule() is a coroutine.  In a turn it first skips what depends on a  *)
(* failed or skipped task, then launches what is ready as long as fewer    *)
(* than max_concurrency tasks are in flight, and then awaits the first of  *)
(* them.  Only while it awaits do launched tasks proceed, and several may  *)
(* end before it takes its next turn.                                      *)
(*                                                                         *)
(* A task is named by its position in the plan.                            *)
(***************************************************************************)
EXTENDS Naturals, FiniteSets

CONSTANTS
    PlanLength,     \* how many tasks the plan has
    MaxConcurrency  \* max_concurrency

ASSUME SchedulerAssumption ==
    /\ PlanLength \in Nat
    /\ MaxConcurrency \in Nat \ {0}

VARIABLES
    deps,       \* the dependencies of each task that name another of the plan
    status,     \* the terminal status of each task, or "open"
    started,    \* the tasks launched so far
    inFlight,   \* in_flight: launched and not yet seen to have ended
    pc,         \* where schedule() is
    serving     \* after an abort: the event loop runs another job

vars == <<deps, status, started, inFlight, pc, serving>>

Tasks == 1..PlanLength

TypeOK ==
    /\ deps \in [Tasks -> SUBSET Tasks]
    /\ status \in [Tasks -> {"open", "done", "failed", "skipped"}]
    /\ started \subseteq Tasks
    /\ inFlight \subseteq started
    /\ pc \in {"turn", "waiting", "returned", "cycle", "aborted"}
    /\ serving \in BOOLEAN

\* Any plan: neither a revision nor a checkpoint is known to be acyclic.
Init ==
    /\ deps \in [Tasks -> SUBSET Tasks]
    /\ \A t \in Tasks : t \notin deps[t]
    /\ status = [t \in Tasks |-> "open"]
    /\ started = {}
    /\ inFlight = {}
    /\ pc = "turn"
    /\ serving = FALSE

Open    == {t \in Tasks : status[t] = "open"}
Fresh   == Open \ started
Running == Open \cap started

(***************************************************************************)
(* A turn of schedule().                                                   *)
(***************************************************************************)

Doomed == {t \in Fresh : \E d \in deps[t] : status[d] \in {"failed", "skipped"}}

\* Mutant of Ready: any dependency is enough.
ReadyOnAny ==
    {t \in Fresh : deps[t] = {} \/ \E d \in deps[t] : status[d] = "done"}

Ready == {t \in Fresh : \A d \in deps[t] : status[d] = "done"}

\* Mutant of Skip: whatever has an unfinished dependency is skipped.
SkipBlocked(t) ==
    /\ pc = "turn"
    /\ t \in Fresh \ Ready
    /\ status' = [status EXCEPT ![t] = "skipped"]
    /\ UNCHANGED <<deps, started, inFlight, pc, serving>>

\* The cascade: passes over the plan until one of them skips nothing.
Skip(t) ==
    /\ pc = "turn"
    /\ t \in Doomed
    /\ status' = [status EXCEPT ![t] = "skipped"]
    /\ UNCHANGED <<deps, started, inFlight, pc, serving>>

HasCapacity == Cardinality(inFlight) < MaxConcurrency

\* Mutant of Launch: the task is in flight but not noted as started.
LaunchUnmarked(t) ==
    /\ pc = "turn"
    /\ Doomed = {}
    /\ HasCapacity
    /\ t \in Ready
    /\ \A u \in Ready : t <= u
    /\ inFlight' = inFlight \cup {t}
    /\ UNCHANGED <<deps, status, started, pc, serving>>

\* The first ready task of the plan is launched.
Launch(t) ==
    /\ pc = "turn"
    /\ Doomed = {}
    /\ HasCapacity
    /\ t \in Ready
    /\ \A u \in Ready : t <= u
    /\ started' = started \cup {t}
    /\ inFlight' = inFlight \cup {t}
    /\ UNCHANGED <<deps, status, pc, serving>>

\* The scans are over and tasks remain.
Scanned == Doomed = {} /\ Open # {} /\ (HasCapacity => Ready = {})

Await ==
    /\ pc = "turn"
    /\ Scanned
    /\ inFlight # {}
    /\ pc' = "waiting"
    /\ UNCHANGED <<deps, status, started, inFlight, serving>>

\* Mutant of RaiseCycle: raised although tasks are in flight.
RaiseCycleEarly ==
    /\ pc = "turn"
    /\ Scanned
    /\ Ready = {}
    /\ pc' = "cycle"
    /\ UNCHANGED <<deps, status, started, inFlight, serving>>

\* DependencyCycleError.
RaiseCycle ==
    /\ pc = "turn"
    /\ Scanned
    /\ inFlight = {}
    /\ pc' = "cycle"
    /\ UNCHANGED <<deps, status, started, inFlight, serving>>

Return ==
    /\ pc = "turn"
    /\ Open = {}
    /\ pc' = "returned"
    /\ UNCHANGED <<deps, status, started, inFlight, serving>>

\* Mutant of Wake: the next turn waits for the whole wave.
WakeAfterWave ==
    /\ pc = "waiting"
    /\ inFlight \cap Open = {}
    /\ inFlight' = {}
    /\ pc' = "turn"
    /\ UNCHANGED <<deps, status, started, serving>>

\* asyncio.wait returns: at least one task in flight has ended.
Wake ==
    /\ pc = "waiting"
    /\ ~ inFlight \subseteq Open
    /\ inFlight' = inFlight \cap Open
    /\ pc' = "turn"
    /\ UNCHANGED <<deps, status, started, serving>>

(***************************************************************************)
(* The launched tasks.                                                     *)
(***************************************************************************)

\* run_one: the worker succeeds, or fails or raises.  It proceeds while
\* schedule() awaits, and also when another job runs on the same loop later.
Resolve(t, outcome) ==
    /\ pc = "waiting" \/ serving
    /\ t \in Running
    /\ status' = [status EXCEPT ![t] = outcome]
    /\ UNCHANGED <<deps, started, inFlight, pc, serving>>

\* The job's time limit: wait_for cancels the coroutine that awaits, and
\* asyncio.wait does not cancel the tasks it waits for.
Abort ==
    /\ pc = "waiting"
    /\ pc' = "aborted"
    /\ UNCHANGED <<deps, status, started, inFlight, serving>>

\* The worker thread keeps its loop: another job starts or ends on it.
ServeNextJob ==
    /\ pc = "aborted"
    /\ serving' = ~serving
    /\ UNCHANGED <<deps, status, started, inFlight, pc>>

Turn ==
    \/ \E t \in Tasks : Skip(t) \/ Launch(t)
    \/ Await
    \/ RaiseCycle
    \/ Return
    \/ Wake

Next ==
    \/ Turn
    \/ \E t \in Tasks, outcome \in {"done", "failed"} : Resolve(t, outcome)
    \/ Abort
    \/ ServeNextJob

Spec == Init /\ [][Next]_vars

(***************************************************************************)
(* The event loop resumes schedule() when a task it awaits has ended.  No  *)
(* task has to end: an agent may hang.                                     *)
(***************************************************************************)
FairSpec == Spec /\ WF_vars(Turn)

(***************************************************************************)
(* Properties.                                                             *)
(***************************************************************************)

\* Never more than max_concurrency workers run, although a turn launches
\* with what it knew when asyncio.wait returned.
Bounded == Cardinality(Running) <= MaxConcurrency

\* A task is launched only if everything it depends on is done, and this
\* stays so (_replan_loop: a dependent of a failed task "is cascade-skipped
\* rather than run on work that never succeeded").
BuildsOnDone == \A t \in started : \A d \in deps[t] : status[d] = "done"

\* A task is skipped only if a chain of skips leads to a failed task, and
\* conversely no task survives a failed or skipped dependency in a finished
\* schedule: the cascade is exact.
ExactCascade ==
    /\ \A t \in Tasks : status[t] = "skipped" =>
          /\ t \notin started
          /\ \E d \in deps[t] : status[d] \in {"failed", "skipped"}
    /\ pc = "returned" =>
          \A t \in Tasks : (\E d \in deps[t] : status[d] # "done") => status[t] = "skipped"

\* A cycle is reported only of tasks that really wait for each other: each
\* remaining task has a remaining dependency, and nothing is in flight.
CycleIsReal ==
    pc = "cycle" =>
        /\ Open # {}
        /\ Running = {}
        /\ \A t \in Open : deps[t] \cap Open # {}

\* A plan whose tasks can be put in an order is never reported as a cycle,
\* whatever fails on the way (schedule(): DependencyCycleError is raised "if
\* remaining tasks can never become ready").
Sortable ==
    \E rank \in [Tasks -> Tasks] :
        \A t \in Tasks : \A d \in deps[t] : rank[d] < rank[t]

SortableReturns == pc = "cycle" => ~Sortable

\* A ready task does not wait for a slow sibling: a spare slot is filled or
\* nothing is ready any more, even if no running task ever ends (schedule():
\* "a fast task's dependents start without waiting for a slow sibling").
Spare ==
    /\ pc \in {"turn", "waiting"}
    /\ Ready # {}
    /\ Cardinality(Running) < MaxConcurrency

SlotsAreFilled == Spare ~> ~Spare

\* Refuted.  A run that hit its time limit does nothing any more
\* (_fail_timed_out: the job "exceeded the ... time limit and was aborted").
AbortedRunStops == [][pc = "aborted" => status' = status]_vars
=============================================================================
