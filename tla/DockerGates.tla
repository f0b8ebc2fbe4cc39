----------------------------- MODULE DockerGates ----------------------------
(***************************************************************************)
(* The advisory container checks after a deployment has been provisioned   *)
(* (engine.py, _docker_build_gate and _docker_run_gate): build the image,  *)
(* start it, look whether it stays up, ask for its health, and clean up.   *)
(* Any command may fail, and one that times out may have had its effect    *)
(* all the same.                                                           *)
(***************************************************************************)
EXTENDS Process

VARIABLES
    docker,  \* the gates that are switched on
    image,   \* whether the image exists
    box,     \* whether the container runs
    score,   \* the scorecard's keys: build, run and health
    slips    \* history: commands that failed to remove what they should,
             \* or reported a failure after they had taken effect

dockerVars == <<docker, image, box, score, slips>>

\* The scorecard gets a key only when its step was reached.
Score(key, ok) == score' = [score EXCEPT ![key] = IF ok THEN "yes" ELSE "no"]

NoDockerfile ==
    /\ at = "deploy" /\ Goto("delivered")
    /\ UNCHANGED dockerVars /\ Free

\* docker build; without the run gate the image goes at once.
Build ==
    /\ at = "deploy"
    /\ docker' \in {"build", "build and run"}
    /\ \E ok \in BOOLEAN :
          /\ image' \in {TRUE, ok} /\ Score("build", ok)
          /\ Goto(IF ok /\ docker' = "build and run" THEN "start" ELSE "remove")
    /\ UNCHANGED <<box, slips>> /\ Free

\* As Start, without the clean-up of a start that failed.
StartAndLeave ==
    /\ at = "start"
    /\ \/ box' = TRUE /\ Goto("inspect") /\ UNCHANGED <<score, slips>>
       \/ /\ box' \in BOOLEAN /\ slips' = (slips \/ box')
          /\ Score("run", FALSE) /\ Goto("delivered")
    /\ UNCHANGED <<docker, image>> /\ Free

\* docker run -d --rm; after a start that reports failure nothing is stopped.
Start ==
    /\ at = "start"
    /\ \/ box' = TRUE /\ Goto("inspect") /\ UNCHANGED <<score, slips>>
       \/ /\ box' \in BOOLEAN /\ slips' = (slips \/ box')
          /\ Score("run", FALSE) /\ Goto("remove")
    /\ UNCHANGED <<docker, image>> /\ Free

\* The container exits by itself; --rm removes it.
BoxExits ==
    /\ box /\ box' = FALSE
    /\ UNCHANGED <<processVars, docker, image, score, slips>>

\* docker inspect, after the grace period.
Inspect ==
    /\ at = "inspect"
    /\ \E up \in {FALSE, box} :
          Score("run", up) /\ Goto(IF up THEN "health" ELSE "stop")
    /\ UNCHANGED <<docker, image, box, slips>> /\ Free

\* docker exec, if the plan names a health check.
Health ==
    /\ at = "health" /\ Goto("stop")
    /\ \/ \E ok \in {FALSE, box} : Score("health", ok)
       \/ UNCHANGED score
    /\ UNCHANGED <<docker, image, box, slips>> /\ Free

\* docker stop: best effort.
Stop ==
    /\ at = "stop" /\ Goto("remove")
    /\ \/ box' = FALSE /\ UNCHANGED slips
       \/ UNCHANGED box /\ slips' = (slips \/ box)
    /\ UNCHANGED <<docker, image, score>> /\ Free

\* docker rmi: best effort, and refused while a container runs.
RemoveImage ==
    /\ at = "remove" /\ Goto("delivered")
    /\ \/ ~box /\ image' = FALSE /\ UNCHANGED slips
       \/ UNCHANGED image /\ slips' = (slips \/ image)
    /\ UNCHANGED <<docker, box, score>> /\ Free

DockerInit ==
    /\ docker = "none" /\ image = FALSE /\ box = FALSE /\ slips = FALSE
    /\ score = [k \in {"build", "run", "health"} |-> "unset"]

DockerStep == NoDockerfile \/ Build \/ Start \/ Inspect \/ Health \/ Stop \/ RemoveImage

-----------------------------------------------------------------------------
\* Whatever the image does, the gates leave no container and no image behind
\* unless a clean-up command itself failed or a start that took effect was
\* reported as failed; and health is reported only of a container that was
\* seen running (engine.py, _docker_run_gate).
LeavesNothing ==
    /\ at = "delivered" => slips \/ (~image /\ ~box)
    /\ score.health # "unset" => score.run = "yes"
=============================================================================
