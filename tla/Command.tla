------------------------------ MODULE Command -------------------------------
(***************************************************************************)
(* The command line program (cli.py, _run and main): it reads its options, *)
(* enters one of its commands, may pass from one to another, spends from   *)
(* one meter, and ends with an exit code.  The engine of a delivery is a   *)
(* module of its own (Delivery); two of its stages that work on data that  *)
(* Delivery does not look at, the files of one attempt and the containers  *)
(* of a deployment, are entered here at places of their own.               *)
(***************************************************************************)
EXTENDS Launch, Publication, QualityGates, DockerGates, Audit, Classic, Conversation,
        Reports, Scan

vars == <<processVars, call, line, pubVars, gateVars, dockerVars, auditVars,
          classicVars, talk, reportVars, scanVars>>

\* Where the program waits for a human, and where it is done.
Humans == {"viewing", "serving", "asking", "scope", "planreview", "confirm", "chat", "brief"}
Ends == {"end", "delivered"}

Init ==
    /\ at = "typing" /\ exit = "running" /\ chat = [open |-> FALSE, last |-> "0"]
    /\ spent = 0 /\ reserved = 0 /\ call = [c \in Caller |-> CallIdle]
    /\ LaunchInit /\ PublicationInit /\ GatesInit /\ DockerInit /\ AuditInit /\ ClassicInit
    /\ ConversationInit /\ ReportsInit /\ ScanInit

-----------------------------------------------------------------------------
Publishing == PublicationStep
              /\ UNCHANGED <<gateVars, dockerVars, auditVars, classicVars, talk>>
Gating == GatesStep
          /\ UNCHANGED <<call, pubVars, dockerVars, auditVars, classicVars, talk>>
Deploying == DockerStep
             /\ UNCHANGED <<call, pubVars, gateVars, auditVars, classicVars, talk>>
Auditing == AuditStep
            /\ UNCHANGED <<pubVars, gateVars, dockerVars, classicVars, talk>>
Simulating == ClassicStep
              /\ UNCHANGED <<pubVars, gateVars, dockerVars, auditVars, talk>>
Talking == ConversationStep
           /\ UNCHANGED <<pubVars, gateVars, dockerVars, auditVars, classicVars>>
Turning == Turn /\ UNCHANGED <<pubVars, gateVars, dockerVars, auditVars, classicVars,
                               talk>>

Launching == LaunchStep
             /\ UNCHANGED <<reportVars, scanVars, pubVars, gateVars, dockerVars, auditVars,
                            classicVars, talk>>
Reporting == ReportsStep
             /\ UNCHANGED <<line, call, scanVars, pubVars, gateVars, dockerVars, auditVars,
                            classicVars, talk>>
Scanning == ScanStep
            /\ UNCHANGED <<line, reportVars, pubVars, gateVars, dockerVars, auditVars,
                           classicVars, talk>>

Working == \/ Launching \/ Reporting \/ Scanning
           \/ /\ UNCHANGED <<line, reportVars, scanVars>>
              /\ \/ Publishing \/ Gating \/ Deploying \/ Auditing \/ Simulating
                 \/ Talking \/ Turning

World == /\ UNCHANGED <<line, reportVars, scanVars>>
         /\ \/ GitHub
               /\ UNCHANGED <<gateVars, dockerVars, auditVars, classicVars, talk>>
            \/ BoxExits
               /\ UNCHANGED <<call, pubVars, gateVars, auditVars, classicVars, talk>>

Next == Working \/ World

Spec == Init /\ [][Next]_vars

\* The program runs on by itself: every call it makes returns or times out.
FairSpec == Spec /\ WF_vars(at \notin Humans /\ Working)

-----------------------------------------------------------------------------
\* A ceiling stops a run and does not break it: the step that learns that an
\* agent's call ran into the budget never ends the program with an error, in
\* any command and at any place but the triage of a request, where nothing
\* has been done yet (workflow.py, run; assessment.py, _phase; cli.py,
\* _run_ci_fix_loop).
StopsGracefully ==
    [][\A c \in Caller :
          call[c].st = "broke" /\ call'[c] # call[c] /\ at # "triage"
              => exit' \notin {"2", "traceback"}]_vars

\* Unless it waits for a human, the program ends or comes to wait for one:
\* retries, votes, polls and fix rounds all run out (cli.py, main).
CommandEnds == []<>(at \in Ends \union Humans)
=============================================================================
