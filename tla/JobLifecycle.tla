---------------------------- MODULE JobLifecycle ----------------------------
(***************************************************************************)
(* What the dispatch service promises about one job, whatever the queue,   *)
(* the worker pool and the parking of busy repositories do about it:       *)
(*                                                                         *)
(*    queued -> running -> succeeded | failed        queued -> cancelled   *)
(*                                                                         *)
(* No state is ever left backwards, two jobs of one repository never run   *)
(* at the same time, and the completion event of a job is set only once    *)
(* its outcome is in the registry (Dispatcher.wait returns on that event). *)
(***************************************************************************)

CONSTANTS
    Jobs,       \* the jobs that may be submitted
    Repos,      \* the serialisation keys (normalised repository slugs)
    RepoOf      \* the repository each job works on

VARIABLES
    state,      \* JobRecord.state; "absent" before the job is registered
    done        \* jobs whose completion threading.Event is set

lifecycleVars == <<state, done>>

Terminal == {"succeeded", "failed", "cancelled"}
States   == {"absent", "queued", "running"} \cup Terminal

LifecycleInit ==
    /\ state = [j \in Jobs |-> "absent"]
    /\ done = {}

Register(j) ==
    /\ state[j] = "absent"
    /\ state' = [state EXCEPT ![j] = "queued"]
    /\ UNCHANGED done

Run(j) ==
    /\ state[j] = "queued"
    /\ \A k \in Jobs : RepoOf[k] = RepoOf[j] => state[k] # "running"
    /\ state' = [state EXCEPT ![j] = "running"]
    /\ UNCHANGED done

Conclude(j) ==
    /\ \/ /\ state[j] = "queued"
          /\ state' = [state EXCEPT ![j] = "cancelled"]
       \/ /\ state[j] = "running"
          /\ \E result \in {"succeeded", "failed"} :
                state' = [state EXCEPT ![j] = result]
    /\ UNCHANGED done

Announce(j) ==
    /\ state[j] \in Terminal
    /\ done' = done \cup {j}
    /\ UNCHANGED state

LifecycleNext ==
    \E j \in Jobs : Register(j) \/ Run(j) \/ Conclude(j) \/ Announce(j)

LifecycleSpec == LifecycleInit /\ [][LifecycleNext]_lifecycleVars
=============================================================================
