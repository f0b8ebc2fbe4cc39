------------------------------ MODULE Classic -------------------------------
(***************************************************************************)
(* The development workflow without a repository (workflow.py): plan, let  *)
(* a human revise the plan, design, then each task in the order of its     *)
(* dependencies through implementation, review and tests, and at last a    *)
(* deployment plan.  The meter stops it in the middle of anything.         *)
(***************************************************************************)
EXTENDS AgentCall

CONSTANTS Agent,       \* whoever's turn it is: the workflow asks one at a time
          Task,
          Graphs,      \* bound: task -> its real dependencies, per plan
          Revisions    \* bound: plans that a human sends back

ASSUME ClassicAssumption ==
    /\ Agent \in Caller /\ Revisions \in Nat
    /\ Graphs \subseteq [Task -> SUBSET Task]
    /\ \A g \in Graphs, t \in Task : t \notin g[t]

VARIABLES
    deps,      \* the plan
    status,    \* task -> status
    doing,     \* the task in hand
    goes,      \* task -> attempts, as far as its result reports them
    vetted,    \* history: task -> what accepted its present implementation
    guided,    \* whether a human reviews plans
    revised    \* plans sent back

classicVars == <<deps, status, doing, goes, vetted, guided, revised>>

Idle == "no task"
AskAgent == Asked({Agent})
Answered == call[Agent].st = "good"

\* BudgetExceededError outside the tasks: a partial result.
Stopped == call[Agent].st = "broke"
Garbled == call[Agent].st = "garbled"

AllDone == Task # {} /\ \A t \in Task : status[t] = "done"

-----------------------------------------------------------------------------
BeginWork ==
    /\ at = "simulate" /\ call' = AskAgent /\ Goto("planning")
    /\ deps' \in Graphs /\ guided' \in BOOLEAN
    /\ status' = [t \in Task |-> "todo"] /\ goes' = [t \in Task |-> 0]
    /\ vetted' = [t \in Task |-> {}] /\ doing' = Idle /\ revised' = 0
    /\ Free

\* As StopsEarly, without a handler for the budget's error.
StopsByRaising ==
    /\ at \in {"planning", "designing"} /\ Stopped
    /\ call' = Settled(Agent) /\ Raise("DevTeamError")
    /\ UNCHANGED classicVars /\ Free

\* The result of a run that the budget stopped before its tasks.
StopsEarly ==
    /\ at \in {"planning", "designing"} /\ Stopped
    /\ call' = Settled(Agent) /\ Return("1")
    /\ UNCHANGED classicVars /\ Free

\* An answer that never parses, from anyone: nothing catches it.
AnswerUnusable ==
    /\ at \in {"planning", "designing", "implementing", "reviewing", "testing",
               "deploying"}
    /\ Garbled
    /\ call' = Settled(Agent) /\ Raise("DevTeamError")
    /\ UNCHANGED classicVars /\ Free

Planned ==
    /\ at = "planning" /\ Answered
    /\ IF guided THEN call' = Settled(Agent) /\ Goto("planreview")
                 ELSE call' = AskAgent /\ Goto("designing")
    /\ UNCHANGED classicVars /\ Free

\* _reviewed_plan: approve, abort (a WorkflowError), or revise.
ReviewPlan ==
    /\ at = "planreview"
    /\ \/ call' = AskAgent /\ Goto("designing") /\ UNCHANGED <<deps, revised>>
       \/ UNCHANGED <<call, deps, revised>> /\ Raise("DevTeamError")
       \/ /\ revised < Revisions /\ revised' = revised + 1
          /\ deps' \in Graphs /\ call' = AskAgent /\ Goto("planning")
    /\ UNCHANGED <<status, doing, goes, vetted, guided>> /\ Free

\* topological_order: what cannot be put in order is refused before any task.
Sortable == \A S \in SUBSET Task \ {{}} : \E t \in S : deps[t] \intersect S = {}

Designed ==
    /\ at = "designing" /\ Answered
    /\ call' = Settled(Agent)
    /\ IF Sortable THEN Goto("tasks") ELSE Raise("DevTeamError")
    /\ UNCHANGED classicVars /\ Free

\* The next task in order: all it depends on has had its turn.
Upcoming(t) == status[t] = "todo" /\ \A d \in deps[t] : status[d] # "todo"

SkipTask ==
    /\ at = "tasks" /\ Goto("tasks")
    /\ \E t \in Task :
          /\ Upcoming(t) /\ ((\E d \in deps[t] : status[d] # "done") \/ Exhausted)
          /\ status' = [status EXCEPT ![t] = "failed"]
    /\ UNCHANGED <<call, deps, doing, goes, vetted, guided, revised>> /\ Free

StartTask ==
    /\ at = "tasks" /\ ~Exhausted
    /\ \E t \in Task :
          /\ Upcoming(t) /\ \A d \in deps[t] : status[d] = "done"
          /\ doing' = t /\ goes' = [goes EXCEPT ![t] = 1]
    /\ call' = AskAgent /\ Goto("implementing")
    /\ UNCHANGED <<deps, status, vetted, guided, revised>> /\ Free

\* The engineer's answer replaces whatever was there before.
Implemented ==
    /\ at = "implementing" /\ Answered
    /\ vetted' = [vetted EXCEPT ![doing] = {}]
    /\ call' = AskAgent /\ Goto("reviewing")
    /\ UNCHANGED <<deps, status, doing, goes, guided, revised>> /\ Free

Accept(by) == vetted' = [vetted EXCEPT ![doing] = @ \union {by}]

ReviewPasses ==
    /\ at = "reviewing" /\ Answered /\ Accept("review")
    /\ call' = AskAgent /\ Goto("testing")
    /\ UNCHANGED <<deps, status, doing, goes, guided, revised>> /\ Free

TestsPass ==
    /\ at = "testing" /\ Answered /\ Accept("tests")
    /\ status' = [status EXCEPT ![doing] = "done"] /\ doing' = Idle
    /\ call' = Settled(Agent) /\ Goto("tasks")
    /\ UNCHANGED <<deps, goes, guided, revised>> /\ Free

\* Changes requested, tests failed or coverage too low: again, or no more.
SentBack ==
    /\ at \in {"reviewing", "testing"} /\ Answered
    /\ IF goes[doing] < Attempts
       THEN /\ goes' = [goes EXCEPT ![doing] = @ + 1]
            /\ call' = AskAgent /\ Goto("implementing") /\ UNCHANGED <<status, doing>>
       ELSE /\ status' = [status EXCEPT ![doing] = "failed"] /\ doing' = Idle
            /\ call' = Settled(Agent) /\ Goto("tasks") /\ UNCHANGED goes
    /\ UNCHANGED <<deps, vetted, guided, revised>> /\ Free

\* The budget ends within a task: the task has failed, and the loop goes on.
TaskStopped ==
    /\ at \in {"implementing", "reviewing", "testing"} /\ Stopped
    /\ status' = [status EXCEPT ![doing] = "failed"]
    /\ goes' = [goes EXCEPT ![doing] = 0] /\ doing' = Idle
    /\ call' = Settled(Agent) /\ Goto("tasks")
    /\ UNCHANGED <<deps, vetted, guided, revised>> /\ Free

TasksOver ==
    /\ at = "tasks" /\ \A t \in Task : status[t] # "todo"
    /\ call' = AskAgent /\ Goto("deploying")
    /\ UNCHANGED classicVars /\ Free

\* The deployment plan, or no budget for it: success is that of the tasks.
EndWork ==
    /\ at = "deploying" /\ (Answered \/ Stopped)
    /\ call' = Settled(Agent) /\ Return(IF AllDone THEN "0" ELSE "1")
    /\ UNCHANGED classicVars /\ Free

ClassicInit ==
    /\ deps = [t \in Task |-> {}] /\ guided = FALSE
    /\ status = [t \in Task |-> "todo"] /\ goes = [t \in Task |-> 0]
    /\ vetted = [t \in Task |-> {}] /\ doing = Idle /\ revised = 0

ClassicStep ==
    \/ BeginWork \/ StopsEarly \/ AnswerUnusable \/ Planned \/ ReviewPlan
    \/ Designed \/ SkipTask \/ StartTask \/ Implemented \/ ReviewPasses
    \/ TestsPass \/ SentBack \/ TaskStopped \/ TasksOver \/ EndWork

-----------------------------------------------------------------------------
\* Nothing is built on work that did not hold: a task that got an agent has
\* dependencies that are all done, and what is done passed both its review
\* and its tests in its present implementation; a run that fails a task says
\* so in its exit code (workflow.py, _develop_tasks).
SoundFoundations ==
    /\ \A t \in Task : goes[t] > 0 \/ status[t] = "done" =>
           \A d \in deps[t] : status[d] = "done"
    /\ \A t \in Task : status[t] = "done" => vetted[t] = {"review", "tests"}
=============================================================================
