--------------------------- MODULE Command_proofs ---------------------------
(***************************************************************************)
(* Theorems about a run of the command line, for all values of its         *)
(* constants.  The parts of a run share the place that it has reached, so  *)
(* the first lemmas say from where to where each part goes; an invariant   *)
(* of one part then survives the steps of the others, which leave its      *)
(* variables alone and cannot bring the run to one of its places.          *)
(***************************************************************************)
EXTENDS Command, WellFoundedInduction, SequenceTheorems, TLAPS

Done == {"end", "chat"}   \* where Return and Raise lead to

LaunchPlaces == {"typing", "credentials", "clone", "viewing", "serving"}
FirstPlaces == {"viewing", "backlog", "serving", "talk", "deliver", "develop", "deploy",
            "simulate", "assess", "verify", "intake"}
PublicationPlaces == {"publish", "open", "runs", "status", "round", "asking", "fix",
                      "fixing", "gating", "repush", "finish"}
GatePlaces == {"attempt", "apply", "review", "tests", "gates", "revert", "reverted",
               "mutate", "mutated", "rejected", "raised", "undone", "accepted"}
DockerPlaces == {"start", "inspect", "health", "stop", "remove"}
AuditPlaces == {"inventory", "scope", "wide", "verdict", "summary", "report", "result",
                "stories", "voting", "tally"}
ClassicPlaces == {"planning", "planreview", "designing", "tasks", "implementing",
                  "reviewing", "testing", "deploying"}
ScanPlaces == {"manifests", "groups", "osv", "runtimes", "endoflife", "terms"}
TalkPlaces == {"triage", "confirm", "chat", "brief"}

-----------------------------------------------------------------------------
(* Calls of agents *)

\* A call is in one of its states, with the retries that are left.
CallsInv == call \in [Caller -> CallState]

\* To ask and to settle keep that.
LEMMA CallsTyped ==
    ASSUME CallsInv
    PROVE  /\ CallIdle \in CallState
           /\ \A C : Asked(C) \in [Caller -> CallState]
           /\ \A C : SettledAll(C) \in [Caller -> CallState]
           /\ \A c : Settled(c) \in [Caller -> CallState]
<1>1. \A s \in {"idle", "out", "good", "garbled", "broke"}, n \in 0..JsonRetries :
          [st |-> s, left |-> n] \in CallState
  BY DEF CallState
<1>2. 0 \in 0..JsonRetries /\ JsonRetries \in 0..JsonRetries
  BY AgentCallAssumption
<1>3. CallIdle \in CallState
  BY <1>1, <1>2 DEF CallIdle
<1>4. \A C : Asked(C) \in [Caller -> CallState]
  BY <1>1, <1>2 DEF CallsInv, Asked
<1>5. \A C : SettledAll(C) \in [Caller -> CallState]
  BY <1>1, <1>2 DEF CallsInv, SettledAll
<1>6. \A c : Settled(c) \in [Caller -> CallState]
  BY <1>1, <1>2 DEF CallsInv, Settled, Entered
<1> QED BY <1>3, <1>4, <1>5, <1>6

\* The end of a turn keeps it.
LEMMA TurnKeepsCalls == ASSUME CallsInv, Turn PROVE CallsInv'
BY AgentCallAssumption
   DEF CallsInv, CallState, Turn, TurnBlows, TurnAnswers, TurnUnusable, Entered

\* And so does every step of every part.
LEMMA StepKeepsCalls == ASSUME CallsInv, [Next]_vars PROVE CallsInv'
<1> USE CallsTyped DEF CallsInv
<1>1. CASE PublicationStep
  BY <1>1 DEF PublicationStep, Delivered, PublishRefused, PushBranch, OpenPullRequest,
              ReadRuns, ReadStatus, ReadFails, RoundsOver, BeginRound, HumanReplies,
              Remediate, FixReturns, GateFix, RepushFix, RepushRefused, Finish
<1>2. CASE AuditStep
  <2>1. CASE Survey \/ InventoryDone \/ CheckScope
    BY <1>2, <2>1 DEF Survey, InventoryDone, CheckScope
  <2>2. CASE WideDone \/ VerdictDone \/ SummaryDone
    BY <1>2, <2>2 DEF WideDone, VerdictDone, SummaryDone
  <2>3. CASE WriteReport \/ WriteResult \/ WriteStories \/ AuditFails \/ MakeBacklog
    BY <2>3 DEF WriteReport, WriteResult, WriteStories, AuditFails, MakeBacklog
  <2>4. CASE BeginVerify \/ VotesIn \/ VoteBreaks \/ Tally
    BY <2>4 DEF BeginVerify, VotesIn, VoteBreaks, Tally
  <2> QED BY <1>2, <2>1, <2>2, <2>3, <2>4 DEF AuditStep
<1>3. CASE ClassicStep
  BY <1>3 DEF ClassicStep, BeginWork, StopsEarly, AnswerUnusable, Planned, ReviewPlan,
              Designed, SkipTask, StartTask, Implemented, ReviewPasses, TestsPass, SentBack,
              TaskStopped, TasksOver, EndWork, AskAgent
<1>4. CASE ConversationStep
  BY <1>4 DEF ConversationStep, BeginIntake, TriageDies, TriageDecides, Confirm, EnterChat,
              HandOff, Cancel, GoAhead, LeaveChat, BackendFails
<1>5. CASE UNCHANGED call
  BY <1>5
<1>6. LaunchStep \/ ScanStep \/ GitHub => UNCHANGED call
  BY DEF LaunchStep, Validate, Preflight, Clone, StopServing, ScanStep, BeginScan,
         ReadManifest, ScanRaises, NextGroup, ExpandGroup, GroupsResolved, Supersede, QueryOsv,
         SkipOsv, DetectRuntimes, QueryEol, EolFails, EolAnswered, EndScan, GitHub, TokenAges,
         HumanPushes, CheckMoves
<1> QED BY <1>1, <1>2, <1>3, <1>4, <1>5, <1>6, TurnKeepsCalls
       DEF Next, Working, World, Launching, Reporting, Scanning, Publishing, Gating,
           Deploying, Auditing, Simulating, Talking, Turning, vars

-----------------------------------------------------------------------------
(* From where to where *)

\* The command in force is one of those that there are.
LEMMA ChosenIsCommand == Chosen \in Mode \union {"simulate"}
BY DEF Chosen, Mode

\* Every command begins at a place of its own.
LEMMA PlacesAreEntries == \A p \in Place(Chosen) : p \in FirstPlaces
<1>1. \A c \in Mode \union {"simulate"} : Place(c) \subseteq FirstPlaces
  BY DEF Mode, Place, FirstPlaces
<1> QED BY <1>1, ChosenIsCommand

\* Launch: from the first place of a run to the first of a command.
LEMMA LaunchMoves ==
    ASSUME LaunchStep
    PROVE  at \in LaunchPlaces /\ at' \in LaunchPlaces \union FirstPlaces \union Done
<1>1. CASE Validate
  BY <1>1 DEF Validate, Goto, LaunchPlaces, Done
<1>2. CASE Enter /\ at \in LaunchPlaces
  BY <1>2, PlacesAreEntries DEF Enter, Goto
<1>3. CASE Preflight
  BY <1>2, <1>3 DEF Preflight, Goto, Raise, LaunchPlaces, Done
<1>4. CASE Clone
  BY <1>2, <1>4 DEF Clone, Goto, Raise, LaunchPlaces, Done
<1>5. CASE StopServing
  BY <1>5 DEF StopServing, Return, LaunchPlaces, Done
<1> QED BY <1>1, <1>3, <1>4, <1>5 DEF LaunchStep

\* Publication: from the delivery on.
LEMMA PublicationMoves ==
    ASSUME CallsInv, PublicationStep
    PROVE  at \in PublicationPlaces \union {"deliver"} /\ at' \in PublicationPlaces \union Done
<1> USE DEF PublicationPlaces, Done
<1>1. CASE Delivered \/ PublishRefused \/ PushBranch \/ OpenPullRequest \/ Finish
  BY <1>1 DEF Delivered, PublishRefused, PushBranch, OpenPullRequest, Finish, Unpublished,
              Goto, Raise, Return
<1>2. CASE ReadRuns \/ ReadStatus \/ ReadFails
  BY <1>2 DEF ReadRuns, ReadStatus, ReadFails, Goto, Raise
<1>3. CASE RoundsOver \/ BeginRound \/ HumanReplies \/ Remediate
  BY <1>3 DEF RoundsOver, BeginRound, HumanReplies, Remediate, Goto, Raise
<1>5. CASE FixReturns
  <2>1. call[Engineer].st \in {"good", "broke", "garbled"}
    BY <1>5, PublicationAssumption DEF FixReturns, CallsInv, CallState
  <2> QED BY <1>5, <2>1 DEF FixReturns, Goto, Raise
<1>4. CASE GateFix \/ RepushFix \/ RepushRefused
  BY <1>4 DEF GateFix, RepushFix, RepushRefused, Goto, Raise
<1> QED BY <1>1, <1>2, <1>3, <1>4, <1>5 DEF PublicationStep

\* The quality gates: from the opened workspace to the end of the task.
LEMMA GatesMoves ==
    ASSUME GatesStep
    PROVE  at \in GatePlaces \union {"develop"} /\ at' \in GatePlaces \union {"delivered"}
BY DEF GatesStep, Open, Describe, Apply, ReviewChange, AddTests, TestsRaise, RunGates,
       RevertProduct, SkipRevert, RestoreProduct, Mutate, SkipMutation, Unmutate, RollBack,
       NextAttempt, TaskDone, Writes, Goto, GatePlaces

\* The docker gates: from the provisioned deployment to the end.
LEMMA DockerMoves ==
    ASSUME DockerStep
    PROVE  at \in DockerPlaces \union {"deploy"} /\ at' \in DockerPlaces \union {"delivered"}
<1> USE DEF DockerPlaces
<1>1. CASE NoDockerfile \/ Build \/ Start
  BY <1>1 DEF NoDockerfile, Build, Start, Goto
<1>2. CASE Inspect \/ Health \/ Stop \/ RemoveImage
  BY <1>2 DEF Inspect, Health, Stop, RemoveImage, Goto
<1> QED BY <1>1, <1>2 DEF DockerStep

\* The commands that read a repository.
LEMMA AuditMoves ==
    ASSUME AuditStep
    PROVE  /\ at \in AuditPlaces \union {"survey", "backlog", "verify"}
           /\ at' \in AuditPlaces \union Done
<1> USE DEF AuditPlaces, Done
<1>1. CASE Survey \/ InventoryDone \/ CheckScope \/ WideDone
  BY <1>1 DEF Survey, InventoryDone, CheckScope, WideDone, Goto, Raise, Return
<1>2. CASE VerdictDone \/ SummaryDone \/ WriteReport \/ WriteResult \/ WriteStories \/ AuditFails
  BY <1>2 DEF VerdictDone, SummaryDone, WriteReport, WriteResult, WriteStories, AuditFails,
              Goto, Raise, Return
<1>3. CASE MakeBacklog \/ BeginVerify \/ VotesIn \/ VoteBreaks \/ Tally
  BY <1>3 DEF MakeBacklog, BeginVerify, VotesIn, VoteBreaks, Tally, Goto, Raise, Return
<1> QED BY <1>1, <1>2, <1>3 DEF AuditStep

\* The workflow without a repository.
LEMMA ClassicMoves ==
    ASSUME ClassicStep
    PROVE  at \in ClassicPlaces \union {"simulate"} /\ at' \in ClassicPlaces \union Done
<1> USE DEF ClassicPlaces, Done
<1>1. CASE BeginWork \/ StopsEarly \/ AnswerUnusable \/ Planned \/ ReviewPlan \/ Designed
  BY <1>1 DEF BeginWork, StopsEarly, AnswerUnusable, Planned, ReviewPlan, Designed, Goto,
              Raise, Return
<1>2. CASE SkipTask \/ StartTask \/ Implemented \/ ReviewPasses \/ TestsPass
  BY <1>2 DEF SkipTask, StartTask, Implemented, ReviewPasses, TestsPass, Goto
<1>3. CASE SentBack \/ TaskStopped \/ TasksOver \/ EndWork
  BY <1>3 DEF SentBack, TaskStopped, TasksOver, EndWork, Goto, Return
<1> QED BY <1>1, <1>2, <1>3 DEF ClassicStep

\* The commands that talk; they may hand over to a command that works.
LEMMA TalkMoves ==
    ASSUME ConversationStep
    PROVE  /\ at \in TalkPlaces \union {"intake", "talk"}
           /\ at' \in TalkPlaces \union {"end", "deliver", "assess", "simulate"}
<1> USE DEF TalkPlaces
<1>1. CASE BeginIntake \/ TriageDies \/ TriageDecides \/ Confirm
  BY <1>1 DEF BeginIntake, TriageDies, TriageDecides, Confirm, Routed, OpenChat, Goto, Raise,
              Return
<1>2. CASE EnterChat \/ HandOff \/ Cancel \/ GoAhead \/ LeaveChat \/ BackendFails
  BY <1>2 DEF EnterChat, HandOff, Cancel, GoAhead, LeaveChat, BackendFails, OpenChat, Goto,
              Raise
<1> QED BY <1>1, <1>2 DEF ConversationStep

\* The scans before an audit.
LEMMA ScanMoves ==
    ASSUME ScanStep
    PROVE  at \in ScanPlaces \union {"assess"} /\ at' \in ScanPlaces \union {"survey"} \union Done
BY DEF ScanStep, BeginScan, ReadManifest, ScanRaises, NextGroup, ExpandGroup, GroupsResolved,
       Supersede, QueryOsv, SkipOsv, DetectRuntimes, QueryEol, EolFails, EolAnswered, EndScan,
       Goto, Raise, ScanPlaces, Done

\* What a step belongs to, and what it leaves alone.
LEMMA StepBelongs ==
    ASSUME [Next]_vars
    PROVE  \/ (LaunchStep \/ AuditStep \/ ClassicStep \/ ScanStep)
                /\ UNCHANGED <<pubVars, gateVars, dockerVars, talk>>
           \/ ConversationStep /\ UNCHANGED <<pubVars, gateVars, dockerVars>>
           \/ PublicationStep /\ UNCHANGED <<gateVars, dockerVars, talk>>
           \/ GatesStep /\ UNCHANGED <<pubVars, dockerVars, talk>>
           \/ DockerStep /\ UNCHANGED <<pubVars, gateVars, talk>>
           \/ GitHub /\ UNCHANGED <<at, exit, chat, gateVars, dockerVars, talk>>
           \/ BoxExits /\ UNCHANGED <<at, exit, chat, pubVars, gateVars, talk>>
           \/ UNCHANGED <<at, exit, chat, pubVars, gateVars, dockerVars, talk>>
<1>1. CASE Publishing \/ Gating \/ Deploying \/ Auditing \/ Simulating \/ Talking
  BY <1>1 DEF Publishing, Gating, Deploying, Auditing, Simulating, Talking
<1>2. CASE Turning \/ Reporting \/ UNCHANGED vars
  BY <1>2 DEF Turning, Turn, Reporting, ReportsStep, processVars, vars
<1>3. CASE Launching \/ Scanning
  BY <1>3 DEF Launching, Scanning
<1>4. CASE World
  BY <1>4 DEF World, GitHub, TokenAges, HumanPushes, CheckMoves, BoxExits, processVars
<1> QED BY <1>1, <1>2, <1>3, <1>4 DEF Next, Working

-----------------------------------------------------------------------------
(* The files of an attempt *)

\* A step of the gates, or one that leaves the files alone and goes neither
\* from nor to a place where the gates are at work.
LEMMA GatesElsewhere ==
    ASSUME CallsInv, [Next]_vars
    PROVE  \/ GatesStep
           \/ /\ UNCHANGED gateVars
              /\ at' = at \/ (at \notin GatePlaces /\ at' \notin GatePlaces)
<1> USE DEF GatePlaces, Done
<1>1. CASE LaunchStep \/ ConversationStep \/ PublicationStep
  BY <1>1, StepBelongs, LaunchMoves, TalkMoves, PublicationMoves
     DEF LaunchPlaces, FirstPlaces, TalkPlaces, PublicationPlaces
<1>2. CASE AuditStep \/ ClassicStep
  BY <1>2, StepBelongs, AuditMoves, ClassicMoves DEF AuditPlaces, ClassicPlaces
<1>3. CASE ScanStep \/ DockerStep
  BY <1>3, StepBelongs, ScanMoves, DockerMoves DEF ScanPlaces, DockerPlaces
<1> QED BY <1>1, <1>2, <1>3, StepBelongs

\* A step of the docker gates, the container's own end, or a step that leaves
\* both alone and does not come from where the gates are at work.
LEMMA DockerElsewhere ==
    ASSUME CallsInv, [Next]_vars
    PROVE  \/ DockerStep \/ BoxExits
           \/ /\ UNCHANGED dockerVars
              /\ \/ at' = at
                 \/ at \notin DockerPlaces \union {"delivered"} /\ at' \notin DockerPlaces
<1> USE DEF DockerPlaces, Done
<1>1. CASE LaunchStep \/ ConversationStep \/ PublicationStep
  BY <1>1, StepBelongs, LaunchMoves, TalkMoves, PublicationMoves
     DEF LaunchPlaces, FirstPlaces, TalkPlaces, PublicationPlaces
<1>2. CASE AuditStep \/ ClassicStep
  BY <1>2, StepBelongs, AuditMoves, ClassicMoves DEF AuditPlaces, ClassicPlaces
<1>3. CASE ScanStep \/ GatesStep
  BY <1>3, StepBelongs, ScanMoves, GatesMoves DEF ScanPlaces, GatePlaces
<1> QED BY <1>1, <1>2, <1>3, StepBelongs

-----------------------------------------------------------------------------
(* The container and its image *)

DockerTypeOK ==
    /\ image \in BOOLEAN /\ box \in BOOLEAN /\ slips \in BOOLEAN
    /\ score \in [{"build", "run", "health"} -> {"unset", "yes", "no"}]

\* Nothing is there before the build, nothing runs before the start, and what
\* still runs at the removal of the image could not be stopped.
DockerInv ==
    /\ DockerTypeOK
    /\ at \notin DockerPlaces \union {"delivered"} => ~image /\ ~box
    /\ at \notin {"health", "stop", "remove", "delivered"} => score["health"] = "unset"
    /\ at = "start" => ~box
    /\ at = "health" => score["run"] = "yes" /\ score["health"] = "unset"
    /\ at = "remove" => ~box \/ slips
    /\ LeavesNothing

LEMMA DockerInvInit == Init => DockerInv
BY DEF Init, DockerInit, DockerInv, DockerTypeOK, LeavesNothing, DockerPlaces

\* The gates themselves.
LEMMA DockerStepKeeps ==
    ASSUME DockerInv, DockerStep PROVE DockerInv'
<1> USE DEF DockerInv, DockerTypeOK, LeavesNothing, DockerPlaces, dockerVars, Goto
<1>1. CASE NoDockerfile
  BY <1>1 DEF NoDockerfile
<1>2. CASE Build
  BY <1>2 DEF Build, Score
<1>3. CASE Start
  BY <1>3 DEF Start, Score
<1>4. CASE Inspect
  <2>1. \/ score' = [score EXCEPT !["run"] = "yes"] /\ at' = "health" /\ box
        \/ score' = [score EXCEPT !["run"] = "no"] /\ at' = "stop"
    <3>1. PICK up \in {FALSE, box} : Score("run", up) /\ at' = IF up THEN "health" ELSE "stop"
      BY <1>4 DEF Inspect
    <3>2. CASE up
      BY <3>1, <3>2 DEF Score
    <3>3. CASE ~up
      BY <3>1, <3>3 DEF Score
    <3> QED BY <3>2, <3>3
  <2> QED BY <1>4, <2>1 DEF Inspect
<1>5. CASE Health
  <2>1. \/ score' = [score EXCEPT !["health"] = "yes"]
        \/ score' = [score EXCEPT !["health"] = "no"]
        \/ score' = score
    BY <1>5 DEF Health, Score
  <2> QED BY <1>5, <2>1 DEF Health
<1>6. CASE Stop
  <2>1. /\ at = "stop" /\ at' = "remove" /\ UNCHANGED <<image, score>>
        /\ \/ box' = FALSE /\ slips' = slips
           \/ box' = box /\ slips' = (slips \/ box)
    BY <1>6 DEF Stop
  <2>2. CASE slips \/ box
    <3>1. box' \in BOOLEAN /\ slips' \in BOOLEAN /\ (~box' \/ slips')
      BY <2>1, <2>2
    <3> QED BY <2>1, <3>1
  <2>3. CASE ~slips /\ ~box
    <3>1. box' = FALSE /\ slips' = FALSE
      BY <2>1, <2>3
    <3> QED BY <2>1, <3>1
  <2> QED BY <2>2, <2>3
<1>7. CASE RemoveImage
  <2>1. /\ at = "remove" /\ at' = "delivered" /\ UNCHANGED <<box, score>>
        /\ \/ ~box /\ image' = FALSE /\ slips' = slips
           \/ image' = image /\ slips' = (slips \/ image)
    BY <1>7 DEF RemoveImage
  <2>2. image' \in BOOLEAN /\ slips' \in BOOLEAN /\ (slips' \/ (~image' /\ ~box))
    <3>1. CASE ~box /\ image' = FALSE /\ slips' = slips
      BY <3>1
    <3>2. CASE image' = image /\ slips' = (slips \/ image)
      <4>1. CASE slips \/ image
        BY <3>2, <4>1
      <4>2. CASE ~slips /\ ~image
        BY <2>1, <3>2, <4>2
      <4> QED BY <4>1, <4>2
    <3> QED BY <2>1, <3>1, <3>2
  <2> QED BY <2>1, <2>2
<1> QED BY <1>1, <1>2, <1>3, <1>4, <1>5, <1>6, <1>7 DEF DockerStep

\* Any step.
LEMMA DockerInvStep == ASSUME CallsInv, DockerInv, [Next]_vars PROVE DockerInv'
<1>1. CASE BoxExits
  BY <1>1 DEF BoxExits, processVars, DockerInv, DockerTypeOK, LeavesNothing
<1>2. CASE UNCHANGED dockerVars /\ at' = at
  BY <1>2 DEF dockerVars, DockerInv, DockerTypeOK, LeavesNothing
<1>3. CASE /\ UNCHANGED dockerVars
           /\ at \notin DockerPlaces \union {"delivered"} /\ at' \notin DockerPlaces
  BY <1>3 DEF dockerVars, DockerInv, DockerTypeOK, LeavesNothing, DockerPlaces
<1> QED BY <1>1, <1>2, <1>3, DockerElsewhere, DockerStepKeeps

-----------------------------------------------------------------------------
(* One attempt at a task *)

Content == {"old", "new", "test", "mutant", Missing}
SomeFiles == UNION {[S -> Content] : S \in SUBSET Path}

GateTypeOK ==
    /\ file \in [Path -> Content] /\ before \in [Path -> Content]
    /\ reviewed \in [Path -> Content]
    /\ change \in SomeFiles /\ suite \in SomeFiles /\ snap \in SomeFiles
    /\ kept \in SomeFiles

\* The workspace before the attempt is what the snapshot holds and, beyond
\* it, what is there.
Undoable ==
    \A p \in Path : before[p] = IF p \in DOMAIN snap THEN snap[p] ELSE file[p]

\* Whatever an attempt may have to write back or write again is in the
\* snapshot.
Covered == /\ DOMAIN change \subseteq DOMAIN snap /\ DOMAIN suite \subseteq DOMAIN snap
           /\ DOMAIN kept \subseteq DOMAIN snap

\* Outside QA's files the workspace is what the reviewer saw, and so it is
\* once the files taken aside for a check are back.
AsReviewed == \A p \in Path \ DOMAIN suite : file[p] = reviewed[p]
AsideReviewed ==
    \A p \in Path \ DOMAIN suite :
        reviewed[p] = IF p \in DOMAIN kept THEN kept[p] ELSE file[p]

GateInv ==
    /\ GateTypeOK
    /\ at = "apply" => file = before /\ DOMAIN kept = {}
    /\ at \in GatePlaces \ {"attempt", "apply", "undone"} => Undoable /\ Covered
    /\ at \in {"apply", "review", "tests"} => DOMAIN suite = {}
    /\ at \in {"tests", "gates", "revert", "mutate", "accepted"} => AsReviewed
    /\ at \in {"reverted", "mutated"} => AsideReviewed
    /\ AllOrReviewed

LEMMA GateInvInit == Init => GateInv
<1> SUFFICES ASSUME Init PROVE GateInv
  OBVIOUS
<1>1. Nothing \in SomeFiles
  <2>1. Nothing = [p \in {} |-> Missing] /\ Nothing \in [{} -> Content]
    BY DEF Nothing
  <2> QED BY <2>1 DEF SomeFiles
<1> QED BY <1>1 DEF Init, GatesInit, GateInv, GateTypeOK, AllOrReviewed, Content, GatePlaces

\* What a number of writes leaves in a path, whether or not they all succeed.
LEMMA WritesDo ==
    ASSUME GateTypeOK, NEW f \in SomeFiles, NEW next, Writes(f, next)
    PROVE  /\ file' \in [Path -> Content]
           /\ \A p \in Path : p \notin DOMAIN f => file'[p] = file[p]
           /\ \/ at' = "raised"
              \/ at' = next /\ \A p \in Path \intersect DOMAIN f : file'[p] = f[p]
<1>1. PICK S \in SUBSET Path : f \in [S -> Content]
  BY DEF SomeFiles
<1>2. CASE file' = Written(f) /\ at' = next
  BY <1>1, <1>2 DEF Written, GateTypeOK
<1>3. CASE at' = "raised" /\ \E T \in SUBSET DOMAIN f : file' = Written(Cut(f, T))
  <2>1. PICK T \in SUBSET DOMAIN f : file' = Written(Cut(f, T))
    BY <1>3
  <2>2. DOMAIN Cut(f, T) = T /\ \A p \in T : Cut(f, T)[p] = f[p]
    BY <1>1 DEF Cut
  <2>3. file' = [p \in Path |-> IF p \in T THEN f[p] ELSE file[p]]
    BY <2>1, <2>2 DEF Written
  <2> QED BY <1>1, <1>3, <2>3 DEF GateTypeOK
<1> QED BY <1>2, <1>3 DEF Writes, Goto

\* Writing into covered paths, or into none, keeps the attempt undoable.
LEMMA WritesUndoable ==
    ASSUME GateTypeOK, Undoable, NEW f \in SomeFiles, DOMAIN f \subseteq DOMAIN snap,
           NEW next, Writes(f, next), UNCHANGED <<before, snap>>
    PROVE  Undoable'
BY WritesDo DEF Undoable, GateTypeOK

\* Snapshots, suites and changes are files of the workspace.
LEMMA FilesTyped ==
    ASSUME GateTypeOK
    PROVE  /\ Nothing \in SomeFiles /\ DOMAIN Nothing = {}
           /\ Files({"new", Missing}) \subseteq SomeFiles /\ Files({"test"}) \subseteq SomeFiles
           /\ \A f \in SomeFiles : /\ DOMAIN f \subseteq Path
                                   /\ \A p \in DOMAIN f : f[p] \in Content
           /\ Reverted \subseteq DOMAIN change /\ Reverted \subseteq Path
           /\ [p \in Reverted |-> file[p]] \in SomeFiles
           /\ [p \in Reverted |-> "mutant"] \in SomeFiles
<1>1. Nothing \in SomeFiles /\ DOMAIN Nothing = {}
  <2>1. Nothing = [p \in {} |-> Missing] /\ Nothing \in [{} -> Content]
    BY DEF Nothing
  <2> QED BY <2>1 DEF SomeFiles
<1>2. /\ Files({"new", Missing}) \subseteq SomeFiles /\ Files({"test"}) \subseteq SomeFiles
  <2>1. \A S, C : C \subseteq Content => [S -> C] \subseteq [S -> Content]
    OBVIOUS
  <2>2. {"new", Missing} \subseteq Content /\ {"test"} \subseteq Content
    BY DEF Content
  <2> QED BY <2>1, <2>2 DEF Files, SomeFiles
<1>3. \A f \in SomeFiles : DOMAIN f \subseteq Path /\ \A p \in DOMAIN f : f[p] \in Content
  BY DEF SomeFiles
<1>4. Reverted \subseteq DOMAIN change /\ Reverted \subseteq Path
  BY <1>3 DEF Reverted, GateTypeOK
<1>5. [p \in Reverted |-> file[p]] \in [Reverted -> Content]
  BY <1>4 DEF GateTypeOK
<1>6. [p \in Reverted |-> "mutant"] \in [Reverted -> Content]
  BY DEF Content
<1> QED BY <1>1, <1>2, <1>3, <1>4, <1>5, <1>6 DEF SomeFiles

\* The steps of an attempt up to its review.
LEMMA AttemptKeeps ==
    ASSUME GateInv, Open \/ Describe \/ Apply \/ ReviewChange
    PROVE  GateInv'
<1> USE FilesTyped DEF GateInv, AllOrReviewed
<1>1. CASE Open
  <2>1. file' \in [Path -> Content] /\ before' = file' /\ reviewed' = file' /\ at' = "attempt"
    BY <1>1 DEF Open, Goto, Content
  <2> QED BY <1>1, <2>1 DEF Open, GateTypeOK
<1>2. CASE Describe
  BY <1>2 DEF Describe, Goto, GateTypeOK
<1>3. CASE Apply
  <2>1. snap' = [p \in DOMAIN change |-> file[p]] /\ Writes(change, "review") /\ at = "apply"
        /\ UNCHANGED <<change, suite, kept, before, reviewed>>
    BY <1>3 DEF Apply
  <2>2. snap' \in SomeFiles /\ DOMAIN snap' = DOMAIN change
    <3>1. snap' \in [DOMAIN change -> Content]
      BY <2>1 DEF GateTypeOK
    <3> QED BY <3>1 DEF GateTypeOK, SomeFiles
  <2>3. /\ file' \in [Path -> Content] /\ at' \in {"review", "raised"}
        /\ \A p \in Path : p \notin DOMAIN change => file'[p] = file[p]
    BY <2>1, WritesDo DEF GateTypeOK
  <2>4. Undoable' /\ Covered'
    BY <2>1, <2>2, <2>3 DEF Undoable, Covered, GateTypeOK
  <2> QED BY <2>1, <2>2, <2>3, <2>4 DEF GateTypeOK
<1>4. CASE ReviewChange
  <2>1. /\ UNCHANGED <<file, change, suite, snap, kept, before>> /\ reviewed' = file
        /\ at = "review" /\ at' \in {"tests", "rejected", "raised"}
    BY <1>4 DEF ReviewChange, Stays, Goto
  <2> QED BY <2>1 DEF GateTypeOK, Undoable, Covered, AsReviewed, GatePlaces
<1> QED BY <1>1, <1>2, <1>3, <1>4

\* QA's tests and the gates.
LEMMA SuiteKeeps ==
    ASSUME GateInv, AddTests \/ TestsRaise \/ RunGates
    PROVE  GateInv'
<1> USE FilesTyped DEF GateInv, AllOrReviewed, GatePlaces
<1>1. CASE AddTests
  <2>1. /\ at = "tests" /\ suite' \in Files({"test"}) /\ Writes(suite', "gates")
        /\ snap' = [p \in DOMAIN snap \union DOMAIN suite' |->
                        IF p \in DOMAIN snap THEN snap[p] ELSE file[p]]
        /\ UNCHANGED <<change, kept, before, reviewed>>
    BY <1>1 DEF AddTests
  <2>2. suite' \in SomeFiles
    BY <2>1
  <2>3. /\ DOMAIN snap' = DOMAIN snap \union DOMAIN suite' /\ DOMAIN snap' \subseteq Path
        /\ \A p \in DOMAIN snap : snap'[p] = snap[p]
        /\ \A p \in DOMAIN suite' \ DOMAIN snap : snap'[p] = file[p]
        /\ snap' \in SomeFiles
    <3>1. DOMAIN snap \union DOMAIN suite' \subseteq Path
      BY <2>2 DEF GateTypeOK
    <3>2. snap' \in [DOMAIN snap \union DOMAIN suite' -> Content]
      BY <2>1, <3>1 DEF GateTypeOK
    <3>3. snap' \in SomeFiles
      BY <3>1, <3>2 DEF SomeFiles
    <3> QED BY <2>1, <3>1, <3>3
  <2>4. /\ file' \in [Path -> Content] /\ at' \in {"gates", "raised"}
        /\ \A p \in Path : p \notin DOMAIN suite' => file'[p] = file[p]
    BY <2>1, <2>2, WritesDo DEF GateTypeOK
  <2>5. Undoable' /\ Covered'
    BY <2>1, <2>3, <2>4 DEF Undoable, Covered, GateTypeOK
  <2>6. AsReviewed'
    BY <2>1, <2>4 DEF AsReviewed
  <2> QED BY <2>1, <2>2, <2>3, <2>4, <2>5, <2>6 DEF GateTypeOK
<1>2. CASE TestsRaise
  <2>1. /\ UNCHANGED <<file, change, suite, snap, kept, before, reviewed>>
        /\ at = "tests" /\ at' = "raised"
    BY <1>2 DEF TestsRaise, Stays, Goto
  <2> QED BY <2>1 DEF GateTypeOK, Undoable, Covered
<1>3. CASE RunGates
  <2>1. /\ UNCHANGED <<file, change, suite, snap, kept, before, reviewed>>
        /\ at = "gates" /\ at' \in {"revert", "rejected", "raised"}
    BY <1>3 DEF RunGates, Stays, Goto
  <2> QED BY <2>1 DEF GateTypeOK, Undoable, Covered, AsReviewed
<1> QED BY <1>1, <1>2, <1>3

\* Files are taken aside: Reverted go to kept, and f is written in their place.
LEMMA TakeAside ==
    ASSUME GateInv, at \in {"revert", "mutate"}, NEW f \in SomeFiles, DOMAIN f = Reverted,
           NEW next \in {"reverted", "mutated"}, Writes(f, next),
           kept' = [p \in Reverted |-> file[p]],
           UNCHANGED <<change, suite, snap, before, reviewed>>
    PROVE  GateInv'
<1> USE FilesTyped DEF GateInv, AllOrReviewed, GatePlaces
<1>1. Undoable /\ Covered /\ AsReviewed
  OBVIOUS
<1>2. /\ file' \in [Path -> Content] /\ at' \in {next, "raised"}
      /\ \A p \in Path : p \notin Reverted => file'[p] = file[p]
  BY WritesDo DEF GateTypeOK
<1>3. Undoable'
  BY <1>1, WritesUndoable DEF Covered
<1>4. Covered'
  BY <1>1 DEF Covered
<1>5. AsideReviewed'
  BY <1>1, <1>2 DEF AsReviewed, AsideReviewed
<1> QED BY <1>2, <1>3, <1>4, <1>5 DEF GateTypeOK, AsReviewed

\* They are put back.
LEMMA PutBack ==
    ASSUME GateInv, at \in {"reverted", "mutated"},
           NEW next \in {"mutate", "accepted", "rejected", "raised"}, Writes(kept, next),
           UNCHANGED <<change, suite, snap, kept, before, reviewed>>
    PROVE  GateInv'
<1> USE FilesTyped DEF GateInv, AllOrReviewed, GatePlaces
<1>1. Undoable /\ Covered /\ AsideReviewed
  OBVIOUS
<1>2. /\ file' \in [Path -> Content] /\ at' \in {next, "raised"}
      /\ \A p \in Path : p \notin DOMAIN kept => file'[p] = file[p]
      /\ at' = "raised" \/ \A p \in Path \intersect DOMAIN kept : file'[p] = kept[p]
  BY WritesDo DEF GateTypeOK
<1>3. Undoable'
  BY <1>1, WritesUndoable DEF Covered, GateTypeOK
<1>4. Covered'
  BY <1>1 DEF Covered
<1>5. at' # "raised" => AsReviewed'
  BY <1>1, <1>2 DEF AsReviewed, AsideReviewed
<1> QED BY <1>2, <1>3, <1>4, <1>5 DEF GateTypeOK, AsReviewed

\* The checks of the tests.
LEMMA ChecksKeep ==
    ASSUME GateInv, RevertProduct \/ SkipRevert \/ RestoreProduct \/ Mutate \/ SkipMutation \/ Unmutate
    PROVE  GateInv'
<1>1. CASE RevertProduct
  <2>1. Covered
    BY <1>1 DEF RevertProduct, GateInv, GatePlaces
  <2>2. [p \in Reverted |-> snap[p]] \in SomeFiles
    <3>1. Reverted \subseteq DOMAIN snap /\ Reverted \subseteq Path
      BY <2>1, FilesTyped DEF Covered, GateInv
    <3>2. [p \in Reverted |-> snap[p]] \in [Reverted -> Content]
      BY <3>1, FilesTyped DEF GateInv, GateTypeOK
    <3> QED BY <3>1, <3>2 DEF SomeFiles
  <2> QED BY <1>1, <2>2, TakeAside DEF RevertProduct
<1>2. CASE Mutate
  BY <1>2, TakeAside, FilesTyped DEF Mutate, GateInv
<1>3. CASE RestoreProduct \/ Unmutate
  BY <1>3, PutBack DEF RestoreProduct, Unmutate
<1>4. CASE SkipRevert \/ SkipMutation
  <2>1. /\ UNCHANGED <<file, change, suite, snap, kept, before, reviewed>>
        /\ at \in {"revert", "mutate"} /\ at' \in {"mutate", "accepted"}
    BY <1>4 DEF SkipRevert, SkipMutation, Stays, Goto
  <2> QED BY <2>1 DEF GateInv, AllOrReviewed, GatePlaces, GateTypeOK, Undoable, Covered, AsReviewed
<1> QED BY <1>1, <1>2, <1>3, <1>4

\* The end of an attempt.
LEMMA EndKeeps ==
    ASSUME GateInv, RollBack \/ NextAttempt \/ TaskDone PROVE GateInv'
<1> USE DEF GateInv, AllOrReviewed, GatePlaces
<1>1. CASE RollBack
  <2>1. /\ UNCHANGED <<change, suite, snap, kept, before, reviewed>> /\ Undoable
        /\ file' = Written(snap) /\ at' = "undone"
    BY <1>1 DEF RollBack, Goto
  <2>2. file' = before
    BY <2>1 DEF Written, Undoable, GateTypeOK
  <2> QED BY <2>1, <2>2 DEF GateTypeOK
<1>2. CASE NextAttempt \/ TaskDone
  <2>1. UNCHANGED <<file, change, suite, snap, kept, before, reviewed>>
        /\ at' \in {"attempt", "delivered"}
    BY <1>2 DEF NextAttempt, TaskDone, Goto, gateVars
  <2> QED BY <2>1 DEF GateTypeOK
<1> QED BY <1>1, <1>2

\* Any step.
LEMMA GateInvStep == ASSUME CallsInv, GateInv, [Next]_vars PROVE GateInv'
<1>1. CASE GatesStep
  BY <1>1, AttemptKeeps, SuiteKeeps, ChecksKeep, EndKeeps DEF GatesStep
<1>2. CASE UNCHANGED gateVars /\ at' = at
  BY <1>2 DEF gateVars, GateInv, GateTypeOK, AllOrReviewed, Undoable, Covered, AsReviewed,
              AsideReviewed
<1>3. CASE UNCHANGED gateVars /\ at' \notin GatePlaces
  BY <1>3 DEF gateVars, GateInv, GateTypeOK, AllOrReviewed, GatePlaces
<1> QED BY <1>1, <1>2, <1>3, GatesElsewhere

-----------------------------------------------------------------------------
(* What reviewers push *)

\* No place from which the run may still come to a delivery.
PastDelivery == at \in PublicationPlaces \union {"end"} \/ (at = "chat" /\ talk = 0)

\* The branch at GitHub is untouched before the delivery, there is one delivery
\* only, and neither the local branch nor what git remembers of the other one
\* ever has a reviewer's commit.
HumanInv ==
    /\ chat = [open |-> chat.open, last |-> chat.last]
    /\ remote # {} \/ pr => PastDelivery
    /\ chat.open => at \notin LaunchPlaces \union {"intake", "triage", "confirm", "talk"}
    /\ chat.open /\ at \in PublicationPlaces \union {"deliver"} => talk = 0
    /\ at \in {"chat", "brief"} => chat.open
    /\ round \in Nat
    /\ Human \notin local /\ Human \notin tracked

LEMMA HumanInvInit == Init => HumanInv
BY DEF Init, LaunchInit, PublicationInit, HumanInv, PastDelivery

\* A push keeps Human away from what git remembers, and what Human pushed
\* at GitHub.
LEMMA PushKeeps ==
    ASSUME HumanInv, NEW lease \in BOOLEAN, Accepts(lease), NEW a \in BOOLEAN, Lands(a)
    PROVE  Human \notin remote /\ Human \notin tracked'
BY DEF HumanInv, Accepts, Lands

LEMMA PublicationKeepsHuman ==
    ASSUME CallsInv, HumanInv, PublicationStep, UNCHANGED talk
    PROVE  HumanInv' /\ (Human \in remote => Human \in remote')
<1> USE DEF PublicationPlaces, LaunchPlaces
<1>1. CASE Delivered
  <2>1. remote = {} /\ at = "deliver"
    BY <1>1 DEF Delivered, HumanInv, PastDelivery
  <2>2. 0 # Human
    BY PublicationAssumption
  <2> QED BY <1>1, <2>1, <2>2 DEF Delivered, HumanInv, PastDelivery, Goto, Raise
<1>2. CASE PushBranch
  <2>1. at = "publish" /\ at' \in {"open", "finish"} /\ UNCHANGED <<local, round, chat>>
    BY <1>2 DEF PushBranch, Goto, Unpublished
  <2>2. UNCHANGED <<remote, tracked>> \/ \E a \in BOOLEAN : Accepts(FALSE) /\ Lands(a)
    BY <1>2 DEF PushBranch, Unpushed
  <2>3. Human \notin tracked' /\ (Human \in remote => Human \in remote')
    BY <2>2, PushKeeps DEF HumanInv
  <2> QED BY <2>1, <2>3 DEF HumanInv, PastDelivery
<1>3. CASE RepushFix
  <2>1. at = "repush" /\ at' \in {"runs", "finish"} /\ UNCHANGED <<local, round, chat>>
    BY <1>3 DEF RepushFix, Goto
  <2>2. UNCHANGED <<remote, tracked>> \/ \E a \in BOOLEAN : Accepts(TRUE) /\ Lands(a)
    BY <1>3 DEF RepushFix, Unpushed
  <2>3. Human \notin tracked' /\ (Human \in remote => Human \in remote')
    BY <2>2, PushKeeps DEF HumanInv
  <2> QED BY <2>1, <2>3 DEF HumanInv, PastDelivery
<1>4. CASE GateFix
  <2>1. at = "gating" /\ at' \in {"finish", "repush", "end"} /\ UNCHANGED <<remote, tracked, round, chat>>
        /\ (local' = local \/ local' = local \union {round})
    BY <1>4 DEF GateFix, Goto, Raise
  <2>2. Human \notin local'
    BY <2>1, PublicationAssumption DEF HumanInv
  <2> QED BY <2>1, <2>2 DEF HumanInv, PastDelivery
<1>5. CASE BeginRound
  <2>1. at = "round" /\ at' \in {"fix", "asking"} /\ UNCHANGED <<remote, tracked, local, chat>>
        /\ round' = round + 1
    BY <1>5 DEF BeginRound, Goto, branchVars
  <2> QED BY <2>1 DEF HumanInv, PastDelivery
<1>6. CASE \/ PublishRefused \/ OpenPullRequest \/ ReadRuns \/ ReadStatus \/ ReadFails
           \/ RoundsOver \/ HumanReplies \/ Remediate \/ FixReturns \/ RepushRefused
  <2>1. UNCHANGED <<remote, tracked, local, round, chat>>
    BY <1>6, PublicationAssumption
       DEF PublishRefused, OpenPullRequest, ReadRuns, ReadStatus, ReadFails, RoundsOver,
           HumanReplies, Remediate, FixReturns, RepushRefused, pubVars, branchVars, Goto,
           Raise, Unpublished, CallsInv, CallState
  <2>2. at \in PublicationPlaces /\ at' \in PublicationPlaces \union {"end"}
    BY <1>6, PublicationAssumption
       DEF PublishRefused, OpenPullRequest, ReadRuns, ReadStatus, ReadFails, RoundsOver,
           HumanReplies, Remediate, FixReturns, RepushRefused, Goto, Raise, Unpublished,
           CallsInv, CallState
  <2> QED BY <2>1, <2>2 DEF HumanInv, PastDelivery
<1>7. CASE Finish
  <2>1. at \in PublicationPlaces /\ UNCHANGED <<remote, tracked, local, round>>
    BY <1>7 DEF Finish, branchVars
  <2>2. \/ chat.open /\ at' = "chat" /\ chat' = [chat EXCEPT !.last = code']
        \/ ~chat.open /\ at' = "end" /\ UNCHANGED chat
    BY <1>7 DEF Finish, Return
  <2>3. CASE chat.open /\ at' = "chat" /\ chat' = [chat EXCEPT !.last = code']
    BY <2>1, <2>3 DEF HumanInv, PastDelivery
  <2> QED BY <2>1, <2>2, <2>3 DEF HumanInv, PastDelivery
<1> QED BY <1>1, <1>2, <1>3, <1>4, <1>5, <1>6, <1>7 DEF PublicationStep

\* A conversation hands over to one delivery only.
LEMMA TalkKeepsHuman ==
    ASSUME HumanInv, ConversationStep, UNCHANGED pubVars PROVE HumanInv'
<1> USE DEF PublicationPlaces, LaunchPlaces, pubVars, branchVars, HumanInv, PastDelivery
<1>1. CASE \/ BeginIntake \/ TriageDies \/ EnterChat
  BY <1>1 DEF BeginIntake, TriageDies, EnterChat, OpenChat, Goto, Raise
<1>2. CASE TriageDecides \/ Confirm
  <2>1. /\ at \in {"triage", "confirm"} /\ ~chat.open
        /\ \/ at' \in {"end", "confirm", "deliver", "assess"} /\ UNCHANGED chat
           \/ at' = "chat" /\ chat' = [chat EXCEPT !.open = TRUE]
    BY <1>2 DEF TriageDecides, Confirm, Routed, OpenChat, Goto, Return
  <2>2. UNCHANGED pubVars /\ remote = {} /\ ~pr
    BY <2>1
  <2>3. CASE at' \in {"end", "confirm", "deliver", "assess"} /\ UNCHANGED chat
    BY <2>1, <2>2, <2>3
  <2>4. CASE at' = "chat" /\ chat' = [chat EXCEPT !.open = TRUE]
    <3>1. chat' = [open |-> TRUE, last |-> chat.last]
      BY <2>4
    <3>2. chat'.open /\ chat' = [open |-> chat'.open, last |-> chat'.last]
      BY <3>1
    <3> QED BY <2>1, <2>2, <2>4, <3>2
  <2> QED BY <2>1, <2>3, <2>4
<1>3. CASE HandOff \/ Cancel
  BY <1>3 DEF HandOff, Cancel, Goto
<1>4. CASE GoAhead
  BY <1>4 DEF GoAhead, Goto
<1>5. CASE LeaveChat \/ BackendFails
  BY <1>5 DEF LeaveChat, BackendFails, Raise
<1> QED BY <1>1, <1>2, <1>3, <1>4, <1>5 DEF ConversationStep

\* The other parts go back to a chat only if there is one, and change nothing
\* else of it.
LEMMA ChatStays ==
    ASSUME LaunchStep \/ AuditStep \/ ClassicStep \/ ScanStep \/ GatesStep \/ DockerStep
    PROVE  \/ UNCHANGED chat /\ at' # "chat"
           \/ chat.open /\ at' = "chat" /\ \E c : chat' = [chat EXCEPT !.last = c]
<1>1. CASE LaunchStep
  <2>1. CASE Enter
    BY <2>1, PlacesAreEntries DEF Enter, Goto, FirstPlaces
  <2> QED BY <1>1, <2>1 DEF LaunchStep, Validate, Preflight, Clone, StopServing, Goto,
                            Raise, Return
<1>2. CASE AuditStep
  <2>1. CASE Survey \/ InventoryDone \/ CheckScope \/ WideDone
    BY <2>1 DEF Survey, InventoryDone, CheckScope, WideDone, Goto, Raise, Return
  <2>2. CASE \/ VerdictDone \/ SummaryDone \/ WriteReport \/ WriteResult \/ WriteStories
             \/ AuditFails
    BY <2>2 DEF VerdictDone, SummaryDone, WriteReport, WriteResult, WriteStories,
                AuditFails, Goto, Raise, Return
  <2>3. CASE MakeBacklog \/ BeginVerify \/ VotesIn \/ VoteBreaks \/ Tally
    BY <2>3 DEF MakeBacklog, BeginVerify, VotesIn, VoteBreaks, Tally, Goto, Raise, Return
  <2> QED BY <1>2, <2>1, <2>2, <2>3 DEF AuditStep
<1>3. CASE ClassicStep
  <2>1. CASE BeginWork \/ StopsEarly \/ AnswerUnusable \/ Planned \/ ReviewPlan \/ Designed
    BY <2>1 DEF BeginWork, StopsEarly, AnswerUnusable, Planned, ReviewPlan, Designed, Goto,
                Raise, Return
  <2>2. CASE SkipTask \/ StartTask \/ Implemented \/ ReviewPasses \/ TestsPass
    BY <2>2 DEF SkipTask, StartTask, Implemented, ReviewPasses, TestsPass, Goto
  <2>3. CASE SentBack \/ TaskStopped \/ TasksOver \/ EndWork
    BY <2>3 DEF SentBack, TaskStopped, TasksOver, EndWork, Goto, Return
  <2> QED BY <1>3, <2>1, <2>2, <2>3 DEF ClassicStep
<1>4. CASE ScanStep
  BY <1>4 DEF ScanStep, BeginScan, ReadManifest, ScanRaises, NextGroup, ExpandGroup,
              GroupsResolved, Supersede, QueryOsv, SkipOsv, DetectRuntimes, QueryEol,
              EolFails, EolAnswered, EndScan, Raise, Goto
<1>5. CASE GatesStep
  BY <1>5 DEF GatesStep, Open, Describe, Apply, ReviewChange, AddTests, TestsRaise, RunGates,
              RevertProduct, SkipRevert, RestoreProduct, Mutate, SkipMutation, Unmutate,
              RollBack, NextAttempt, TaskDone, Writes, Goto
<1>6. CASE DockerStep
  BY <1>6 DEF DockerStep, NoDockerfile, Build, Start, Inspect, Health, Stop, RemoveImage, Goto
<1> QED BY <1>1, <1>2, <1>3, <1>4, <1>5, <1>6

\* Their places are not past the delivery, and a run that has left its first
\* places does not come back to them.
LEMMA OthersMove ==
    ASSUME LaunchStep \/ AuditStep \/ ClassicStep \/ ScanStep \/ GatesStep \/ DockerStep
    PROVE  /\ at \notin PublicationPlaces \union {"end", "chat"}
           /\ at' \notin PublicationPlaces \union {"triage", "confirm", "brief"}
           /\ at \in LaunchPlaces
                \/ at' \notin LaunchPlaces \union {"intake", "talk", "deliver"}
<1> USE DEF PublicationPlaces, Done, LaunchPlaces
<1>1. CASE LaunchStep
  BY <1>1, LaunchMoves DEF FirstPlaces
<1>2. CASE AuditStep \/ ClassicStep
  BY <1>2, AuditMoves, ClassicMoves DEF AuditPlaces, ClassicPlaces
<1>3. CASE ScanStep \/ GatesStep \/ DockerStep
  BY <1>3, ScanMoves, GatesMoves, DockerMoves DEF ScanPlaces, GatePlaces, DockerPlaces
<1> QED BY <1>1, <1>2, <1>3

\* And they keep the invariant.
LEMMA OthersKeepHuman ==
    ASSUME HumanInv, UNCHANGED <<pubVars, talk>>,
           LaunchStep \/ AuditStep \/ ClassicStep \/ ScanStep \/ GatesStep \/ DockerStep
    PROVE  HumanInv'
<1> USE OthersMove DEF pubVars, branchVars, HumanInv, PastDelivery
<1>1. remote' = {} /\ ~pr' /\ UNCHANGED <<remote, local, tracked, round, talk>>
  OBVIOUS
<1>2. CASE UNCHANGED chat /\ at' # "chat"
  BY <1>1, <1>2
<1>3. CASE chat.open /\ at' = "chat" /\ \E c : chat' = [chat EXCEPT !.last = c]
  <2>1. PICK c : chat' = [open |-> chat.open, last |-> c]
    BY <1>3
  <2>2. chat'.open /\ chat' = [open |-> chat'.open, last |-> chat'.last]
    BY <1>3, <2>1
  <2> QED BY <1>1, <1>3, <2>2 DEF PublicationPlaces, LaunchPlaces
<1> QED BY <1>2, <1>3, ChatStays

\* GitHub's own steps: what others push stays as well.
LEMMA GitHubKeepsHuman ==
    ASSUME HumanInv, GitHub, UNCHANGED <<at, chat, talk>>
    PROVE  HumanInv' /\ (Human \in remote => Human \in remote')
<1> USE DEF HumanInv, PastDelivery
<1>1. CASE HumanPushes
  BY <1>1 DEF HumanPushes
<1>2. CASE TokenAges \/ CheckMoves
  BY <1>2 DEF TokenAges, CheckMoves, branchVars
<1> QED BY <1>1, <1>2 DEF GitHub

\* Any step.
LEMMA HumanInvStep ==
    ASSUME CallsInv, HumanInv, [Next]_vars
    PROVE  HumanInv' /\ (Human \in remote => Human \in remote')
<1>1. CASE PublicationStep /\ UNCHANGED talk
  BY <1>1, PublicationKeepsHuman
<1>2. CASE ConversationStep /\ UNCHANGED pubVars
  BY <1>2, TalkKeepsHuman DEF pubVars, branchVars
<1>3. CASE /\ LaunchStep \/ AuditStep \/ ClassicStep \/ ScanStep \/ GatesStep \/ DockerStep
           /\ UNCHANGED <<pubVars, talk>>
  BY <1>3, OthersKeepHuman DEF pubVars, branchVars
<1>4. CASE GitHub /\ UNCHANGED <<at, chat, talk>>
  BY <1>4, GitHubKeepsHuman
<1>5. CASE UNCHANGED <<at, chat, pubVars, talk>>
  BY <1>5 DEF pubVars, branchVars, HumanInv, PastDelivery
<1> QED BY <1>1, <1>2, <1>3, <1>4, <1>5, StepBelongs

-----------------------------------------------------------------------------
(* What a zero says of the branch *)

\* While the checks are watched or repaired the pull request is open and has
\* all that is committed; a fix is under way only after a failure; and what the
\* watch reports on has all that is committed too.
ZeroInv ==
    /\ ~PastDelivery => ~dirty /\ checks = "none"
    /\ at \in PublicationPlaces \/ ~PastDelivery => code = "running"
    /\ at \in {"publish", "open"} => ~dirty /\ checks = "none"
    /\ at \in {"open", "runs", "status", "round", "asking", "fix", "fixing"} =>
           local \subseteq remote
    /\ at \in {"runs", "status", "round", "asking", "fix", "fixing"} => pr /\ ~dirty
    /\ at \in {"asking", "fix", "fixing", "gating", "repush"} => checks = "failure"
    /\ at \in {"gating", "repush"} => pr
    /\ at = "repush" => ~dirty
    /\ at = "status" => local \subseteq page.head
    /\ checks = "success" => local \subseteq seen
    /\ at = "finish" /\ prOk /\ checks \in {"none", "success"} =>
           pr /\ local \subseteq remote /\ ~dirty
    /\ ZeroMeansPublished

LEMMA ZeroInvInit == Init => ZeroInv
BY DEF Init, LaunchInit, PublicationInit, ZeroInv, ZeroMeansPublished, PastDelivery,
       PublicationPlaces

\* A push that lands leaves what is committed here at GitHub.
LEMMA LandingHasAll == ASSUME NEW a, Lands(a) PROVE remote' = local
BY DEF Lands

LEMMA PublishingKeepsZero ==
    ASSUME HumanInv, ZeroInv, Delivered \/ PublishRefused \/ PushBranch \/ OpenPullRequest
    PROVE  ZeroInv'
<1> USE DEF ZeroInv, ZeroMeansPublished, PublicationPlaces, PastDelivery
<1>1. CASE Delivered
  BY <1>1 DEF Delivered, Goto, Raise, watchVars
<1>2. CASE PublishRefused
  BY <1>2 DEF PublishRefused, Unpublished, Goto, watchVars, branchVars
<1>3. CASE PushBranch
  <2>1. /\ at = "publish" /\ UNCHANGED <<local, dirty, watchVars, pr, code>>
        /\ \/ at' = "open" /\ remote' = local
           \/ at' = "finish" /\ prOk' = FALSE
    BY <1>3, LandingHasAll DEF PushBranch, Unpublished, Goto
  <2> QED BY <2>1 DEF watchVars
<1>4. CASE OpenPullRequest
  <2>1. /\ at = "open" /\ UNCHANGED <<branchVars, checks, page, seen, code>>
        /\ \/ at' \in {"runs", "round", "end"} /\ pr' = TRUE
           \/ at' = "finish" /\ prOk' = FALSE
    BY <1>4 DEF OpenPullRequest, Unpublished, Goto, Raise
  <2> QED BY <2>1 DEF branchVars
<1> QED BY <1>1, <1>2, <1>3, <1>4

LEMMA WatchingKeepsZero ==
    ASSUME ZeroInv, ReadRuns \/ ReadStatus \/ ReadFails \/ RoundsOver \/ BeginRound
    PROVE  ZeroInv'
<1> USE DEF ZeroInv, ZeroMeansPublished, PublicationPlaces, PastDelivery, branchVars
<1>1. CASE ReadRuns
  BY <1>1 DEF ReadRuns, Goto
<1>2. CASE ReadStatus
  <2>1. /\ at = "status" /\ UNCHANGED <<branchVars, page, pr, code, prOk>>
        /\ \/ at' = "round" /\ seen' = page.head
           \/ at' = "runs" /\ UNCHANGED <<checks, seen>>
    BY <1>2 DEF ReadStatus, Goto
  <2> QED BY <2>1
<1>3. CASE ReadFails \/ RoundsOver
  <2>1. /\ UNCHANGED pubVars
        /\ \/ at \in {"runs", "status"} /\ at' \in {"round", "end"}
           \/ at = "round" /\ at' = "finish"
    BY <1>3 DEF ReadFails, RoundsOver, Goto, Raise
  <2> QED BY <2>1 DEF pubVars, watchVars
<1>4. CASE BeginRound
  BY <1>4 DEF BeginRound, Goto, watchVars
<1> QED BY <1>1, <1>2, <1>3, <1>4

LEMMA FixingKeepsZero ==
    ASSUME CallsInv, ZeroInv,
           HumanReplies \/ Remediate \/ FixReturns \/ GateFix \/ RepushFix \/ RepushRefused
    PROVE  ZeroInv'
<1> USE DEF ZeroInv, ZeroMeansPublished, PublicationPlaces, PastDelivery, branchVars, watchVars
<1>1. CASE HumanReplies \/ Remediate
  BY <1>1 DEF HumanReplies, Remediate, Goto, Raise, pubVars
<1>2. CASE FixReturns
  <2>1. call[Engineer].st \in {"good", "broke", "garbled"}
    BY <1>2, PublicationAssumption DEF FixReturns, CallsInv, CallState
  <2>2. /\ at = "fixing" /\ at' \in {"gating", "finish", "end"}
        /\ UNCHANGED <<local, remote, tracked, watchVars, pr, prOk, code>>
    BY <1>2, <2>1 DEF FixReturns, Goto, Raise
  <2> QED BY <2>2
<1>3. CASE GateFix
  <2>1. /\ at = "gating" /\ at' \in {"finish", "repush", "end"}
        /\ UNCHANGED <<remote, tracked, checks, page, seen, pr, prOk, code>>
        /\ at' = "repush" => ~dirty'
    BY <1>3 DEF GateFix, Goto, Raise
  <2> QED BY <2>1
<1>4. CASE RepushFix
  <2>1. /\ at = "repush" /\ UNCHANGED <<local, dirty, checks, page, seen, pr, prOk, code>>
        /\ \/ at' = "runs" /\ remote' = local
           \/ at' = "finish"
    BY <1>4, LandingHasAll DEF RepushFix, Goto
  <2> QED BY <2>1
<1>5. CASE RepushRefused
  BY <1>5 DEF RepushRefused, Goto
<1> QED BY <1>1, <1>2, <1>3, <1>4, <1>5

\* The end of a delivery that returns 0: all is at GitHub.
LEMMA FinishKeepsZero ==
    ASSUME HumanInv, ZeroInv, Finish, UNCHANGED talk PROVE ZeroInv'
<1> USE DEF PublicationPlaces, PastDelivery
<1>1. /\ at = "finish" \/ (at = "publish" /\ ~options.pr)
      /\ UNCHANGED <<options, local, dirty, remote, checks, seen, page, pr, prOk>>
      /\ code' = "0" => prOk /\ checks \in {"none", "success"}
      /\ at' = "end" \/ (at' = "chat" /\ talk' = 0)
  BY DEF Finish, Return, branchVars, watchVars, HumanInv
<1>2. code' = "0" /\ options.pr => pr /\ local \subseteq remote /\ ~dirty
  BY <1>1 DEF ZeroInv
<1>3. checks = "success" => local \subseteq seen
  BY DEF ZeroInv
<1> QED BY <1>1, <1>2, <1>3 DEF ZeroInv, ZeroMeansPublished

\* The other parts leave all of this alone, and come from before the delivery
\* or from after it.
LEMMA OthersKeepZero ==
    ASSUME HumanInv, HumanInv', ZeroInv, UNCHANGED pubVars,
           \/ ConversationStep
           \/ UNCHANGED talk /\ \/ LaunchStep \/ AuditStep \/ ClassicStep
                                \/ ScanStep \/ GatesStep \/ DockerStep
    PROVE  ZeroInv'
<1> USE DEF pubVars, branchVars, watchVars, PublicationPlaces, PastDelivery, Done
<1>1. at' \notin PublicationPlaces
  <2>1. CASE ConversationStep
    BY <2>1, TalkMoves DEF TalkPlaces
  <2> QED BY <2>1, OthersMove
<1>2. ~PastDelivery' => ~PastDelivery
  <2>1. CASE ConversationStep
    <3>1. at = "chat" /\ talk = 0 => at' = "end"
      BY <2>1 DEF ConversationStep, BeginIntake, TriageDies, TriageDecides, Confirm,
                  EnterChat, HandOff, Cancel, GoAhead, LeaveChat, BackendFails, Raise
    <3> QED BY <2>1, <3>1, TalkMoves DEF TalkPlaces
  <2> QED BY <2>1, OthersMove
<1> QED BY <1>1, <1>2 DEF ZeroInv, ZeroMeansPublished

\* What reviewers push only adds to the branch.
LEMMA GitHubKeepsZero ==
    ASSUME ZeroInv, GitHub, UNCHANGED <<at, chat, talk>> PROVE ZeroInv'
<1>1. /\ UNCHANGED <<options, local, dirty, watchVars, pr, prOk, code>>
      /\ remote' = remote \/ remote' = remote \union {Human}
  BY DEF GitHub, TokenAges, HumanPushes, CheckMoves, branchVars
<1> QED BY <1>1 DEF ZeroInv, ZeroMeansPublished, watchVars, PastDelivery, PublicationPlaces

\* Any step.
LEMMA ZeroInvStep ==
    ASSUME CallsInv, HumanInv, ZeroInv, [Next]_vars PROVE ZeroInv'
<1> USE HumanInvStep
<1>1. CASE PublicationStep /\ UNCHANGED talk
  BY <1>1, PublishingKeepsZero, WatchingKeepsZero, FixingKeepsZero, FinishKeepsZero
     DEF PublicationStep
<1>2. CASE GitHub /\ UNCHANGED <<at, chat, talk>>
  BY <1>2, GitHubKeepsZero
<1>3. CASE UNCHANGED <<at, chat, pubVars, talk>>
  BY <1>3 DEF pubVars, branchVars, watchVars, ZeroInv, ZeroMeansPublished, PastDelivery
<1>4. CASE /\ UNCHANGED pubVars
           /\ \/ ConversationStep
              \/ UNCHANGED talk /\ \/ LaunchStep \/ AuditStep \/ ClassicStep
                                   \/ ScanStep \/ GatesStep \/ DockerStep
  BY <1>4, OthersKeepZero
<1> QED BY <1>1, <1>2, <1>3, <1>4, StepBelongs

-----------------------------------------------------------------------------
(* The exit code *)

Errors == {"2", "traceback"}

\* A run that has an error for its exit code is over.
ExitInv == exit \in Errors => at = "end"

\* A step that goes on, or ends without an error, or ends with one without
\* having looked at a call that ran into the budget.
Calm == \/ UNCHANGED exit
        \/ /\ at' = "end"
           /\ \/ exit' \notin Errors
              \/ UNCHANGED call
              \/ at = "triage"
              \/ \E a \in Caller : call[a].st # "broke" /\ call' = Settled(a)

LEMMA ReturnIsCalm == \A n \in {"0", "1"} : Return(n) => Calm
BY DEF Return, Calm, Errors

LEMMA GotoIsCalm == \A p : Goto(p) => Calm
BY DEF Goto, Calm

LEMMA RaiseIsCalm ==
    /\ \A e : Raise(e) /\ UNCHANGED call => Calm
    /\ \A e, a \in Caller : Raise(e) /\ call[a].st # "broke" /\ call' = Settled(a) => Calm
BY DEF Raise, Calm

\* Launch, the quality gates, the docker gates and the scans have no error of
\* a call to report.
LEMMA FirstAndInnerCalm ==
    ASSUME LaunchStep \/ GatesStep \/ DockerStep \/ ScanStep PROVE Calm
<1>1. CASE LaunchStep
  <2>1. CASE Validate
    BY <2>1, GotoIsCalm DEF Validate, Calm
  <2>2. Enter => Calm
    BY GotoIsCalm DEF Enter
  <2>3. CASE Preflight \/ Clone
    BY <2>2, <2>3, GotoIsCalm, RaiseIsCalm DEF Preflight, Clone
  <2>4. CASE StopServing
    BY <2>4, ReturnIsCalm DEF StopServing
  <2> QED BY <1>1, <2>1, <2>3, <2>4 DEF LaunchStep
<1>2. CASE GatesStep
  BY <1>2 DEF GatesStep, Open, Describe, Apply, ReviewChange, AddTests, TestsRaise, RunGates,
              RevertProduct, SkipRevert, RestoreProduct, Mutate, SkipMutation, Unmutate,
              RollBack, NextAttempt, TaskDone, Writes, Goto, Calm
<1>3. CASE DockerStep
  BY <1>3 DEF DockerStep, NoDockerfile, Build, Start, Inspect, Health, Stop, RemoveImage,
              Goto, Calm
<1>4. CASE ScanStep
  BY <1>4 DEF ScanStep, BeginScan, ReadManifest, ScanRaises, NextGroup, ExpandGroup,
              GroupsResolved, Supersede, QueryOsv, SkipOsv, DetectRuntimes, QueryEol,
              EolFails, EolAnswered, EndScan, Raise, Goto, Calm
<1> QED BY <1>1, <1>2, <1>3, <1>4

\* A repair whose budget ends is given up; one that is garbled is an error.
LEMMA PublicationCalm == ASSUME CallsInv, PublicationStep PROVE Calm
<1> USE ReturnIsCalm, GotoIsCalm, RaiseIsCalm
<1>1. CASE Delivered \/ PublishRefused \/ PushBranch \/ OpenPullRequest
  BY <1>1 DEF Delivered, PublishRefused, PushBranch, OpenPullRequest, Unpublished
<1>2. CASE ReadRuns \/ ReadStatus \/ ReadFails \/ RoundsOver \/ BeginRound
  BY <1>2 DEF ReadRuns, ReadStatus, ReadFails, RoundsOver, BeginRound
<1>3. CASE HumanReplies \/ Remediate \/ GateFix
  BY <1>3 DEF HumanReplies, Remediate, GateFix
<1>4. CASE FixReturns
  <2>1. call[Engineer].st \in {"good", "broke", "garbled"}
    BY <1>4, PublicationAssumption DEF FixReturns, CallsInv, CallState
  <2>2. \/ call[Engineer].st \in {"good", "broke"} /\ \E p : Goto(p)
        \/ call[Engineer].st = "garbled" /\ Raise("DevTeamError")
    BY <1>4, <2>1 DEF FixReturns
  <2>3. call' = Settled(Engineer) /\ Engineer \in Caller
    BY <1>4, PublicationAssumption DEF FixReturns
  <2>4. CASE \E p : Goto(p)
    BY <2>4
  <2>5. CASE call[Engineer].st = "garbled" /\ Raise("DevTeamError")
    <3>1. call[Engineer].st # "broke"
      BY <2>5
    <3> QED BY <2>3, <2>5, <3>1 DEF Raise, Calm
  <2> QED BY <2>2, <2>4, <2>5
<1>5. CASE RepushFix \/ RepushRefused
  BY <1>5 DEF RepushFix, RepushRefused
<1>6. CASE Finish
  <2>1. Return(code') /\ code' \in {"0", "1"}
    BY <1>6 DEF Finish
  <2> QED BY <2>1
<1> QED BY <1>1, <1>2, <1>3, <1>4, <1>5, <1>6 DEF PublicationStep

\* A phase whose budget ends has failed, and a vote is not counted.
LEMMA AuditCalm == ASSUME AuditStep PROVE Calm
<1> USE ReturnIsCalm, GotoIsCalm, RaiseIsCalm
<1>1. CASE Survey \/ CheckScope
  BY <1>1 DEF Survey, CheckScope
<1>2. CASE InventoryDone \/ WideDone \/ VerdictDone \/ SummaryDone
  BY <1>2 DEF InventoryDone, WideDone, VerdictDone, SummaryDone
<1>3. CASE WriteReport \/ WriteResult \/ WriteStories \/ AuditFails
  BY <1>3 DEF WriteReport, WriteResult, WriteStories, AuditFails
<1>4. CASE MakeBacklog \/ BeginVerify \/ VotesIn \/ VoteBreaks \/ Tally
  BY <1>4 DEF MakeBacklog, BeginVerify, VotesIn, VoteBreaks, Tally
<1> QED BY <1>1, <1>2, <1>3, <1>4 DEF AuditStep

\* The workflow raises over answers that are garbled and plans that cannot be
\* put in order, when its one call is not one that ran into the budget.
LEMMA ClassicCalm == ASSUME ClassicStep PROVE Calm
<1> USE ReturnIsCalm, GotoIsCalm, RaiseIsCalm, ClassicAssumption
<1>1. CASE BeginWork \/ StopsEarly \/ Planned \/ ReviewPlan
  BY <1>1 DEF BeginWork, StopsEarly, Planned, ReviewPlan
<1>2. CASE AnswerUnusable \/ Designed
  <2>1. call[Agent].st # "broke" /\ call' = Settled(Agent) /\ Agent \in Caller
    BY <1>2 DEF AnswerUnusable, Designed, Garbled, Answered
  <2>2. Raise("DevTeamError") \/ \E p : Goto(p)
    BY <1>2 DEF AnswerUnusable, Designed
  <2>3. CASE \E p : Goto(p)
    BY <2>3
  <2>4. CASE Raise("DevTeamError")
    BY <2>1, <2>4 DEF Raise, Calm
  <2> QED BY <2>2, <2>3, <2>4
<1>3. CASE SkipTask \/ StartTask \/ Implemented \/ ReviewPasses \/ TestsPass
  BY <1>3 DEF SkipTask, StartTask, Implemented, ReviewPasses, TestsPass
<1>4. CASE SentBack \/ TaskStopped \/ TasksOver \/ EndWork
  BY <1>4 DEF SentBack, TaskStopped, TasksOver, EndWork
<1> QED BY <1>1, <1>2, <1>3, <1>4 DEF ClassicStep

\* What is said at a terminal is no agent's call, but for the triage.
LEMMA TalkCalm == ASSUME ConversationStep PROVE Calm
<1> USE ReturnIsCalm, GotoIsCalm, RaiseIsCalm
<1>1. OpenChat => Calm
  BY DEF OpenChat, Calm
<1>2. Routed => Calm
  BY <1>1 DEF Routed
<1>3. CASE BeginIntake \/ Confirm \/ EnterChat \/ HandOff \/ Cancel \/ GoAhead \/ BackendFails
  BY <1>1, <1>2, <1>3 DEF BeginIntake, Confirm, EnterChat, HandOff, Cancel, GoAhead,
                          BackendFails
<1>4. CASE TriageDies
  BY <1>4 DEF TriageDies, Raise, Calm
<1>5. CASE TriageDecides
  BY <1>2, <1>5 DEF TriageDecides
<1>6. CASE LeaveChat
  BY <1>6 DEF LeaveChat, Calm
<1> QED BY <1>3, <1>4, <1>5, <1>6 DEF ConversationStep

\* No part works at the end of a run; what happens there leaves the calls, or
\* finds a run without an exit code.
LEMMA StepIsCalm ==
    ASSUME CallsInv, [Next]_vars
    PROVE  /\ Calm
           /\ at # "end" \/ (UNCHANGED <<at, exit>> /\ (UNCHANGED call \/ exit = "running"))
<1>1. CASE LaunchStep \/ GatesStep \/ DockerStep \/ ScanStep
  BY <1>1, FirstAndInnerCalm, LaunchMoves, GatesMoves, DockerMoves, ScanMoves
     DEF LaunchPlaces, GatePlaces, DockerPlaces, ScanPlaces
<1>2. CASE PublicationStep
  BY <1>2, PublicationCalm, PublicationMoves DEF PublicationPlaces
<1>3. CASE AuditStep \/ ClassicStep \/ ConversationStep
  BY <1>3, AuditCalm, ClassicCalm, TalkCalm, AuditMoves, ClassicMoves, TalkMoves
     DEF AuditPlaces, ClassicPlaces, TalkPlaces
<1>4. CASE Turning \/ Reporting \/ World \/ UNCHANGED vars
  <2>1. UNCHANGED <<at, exit>> /\ (UNCHANGED call \/ exit = "running")
    BY <1>4 DEF Turning, Turn, Reporting, ReportsStep, World, GitHub, TokenAges, HumanPushes,
                CheckMoves, BoxExits, processVars, vars
  <2> QED BY <2>1 DEF Calm
<1> QED BY <1>1, <1>2, <1>3, <1>4
       DEF Next, Working, Launching, Scanning, Publishing, Gating, Deploying, Auditing,
           Simulating, Talking

LEMMA ExitInvStep == ASSUME CallsInv, ExitInv, [Next]_vars PROVE ExitInv'
BY StepIsCalm DEF ExitInv, Calm

\* To settle one call leaves the others as they are.
LEMMA OthersUnsettled ==
    ASSUME CallsInv, NEW a \in Caller, NEW c \in Caller, c # a, call' = Settled(a)
    PROVE  call'[c] = call[c]
BY DEF CallsInv, Settled, Entered

-----------------------------------------------------------------------------
(* The options *)

\* Once it is past validation, the command line keeps the rules.
LineInv == at \in {"credentials", "clone"} => Accepted

\* A mode that reads the option is typed along with it.
Typed(M) == M \intersect line # {}
HasUser(o) ==
    \/ o \in Engine \union Publish /\ Typed(Delivering)
    \/ o = "workspace" /\ Typed(Delivering \union {"assess", "dashboard"})
    \/ o \in {"repo", "env-file"} /\ Typed(Delivering \union {"assess"})
    \/ o \in Sandbox /\ Typed({"deliver", "assess", "dispatch"})
    \/ o = "record-transcripts" /\ Typed({"assess", "deliver", "dispatch", "intake"})
    \/ o = "bind" /\ Typed({"dashboard", "dispatch"})
    \/ o = "dashboard-only" /\ Typed({"dashboard"})
    \/ o = "dashboard-workspace" /\ Typed({"dispatch"})
    \/ o \in Finding /\ Typed({"verify"})
    \/ o = "audit" /\ Typed({"assess"})
    \/ o = "intake-apply" /\ Typed({"intake"})

AllNeeds == ModeNeeds \union PublishNeeds \union ToolNeeds \union DeliverOnly

\* A rule is kept in an accepted line.
LEMMA RuleKept ==
    ASSUME Accepted, NEW A, NEW B, Need(A, B) \in AllNeeds, NEW o \in A, o \in line
    PROVE  Typed(B)
<1>1. Met(Need(A, B))
  BY DEF Accepted, AllNeeds
<1>2. Need(A, B).these = A /\ Need(A, B).those = B
  BY DEF Need
<1> QED BY <1>1, <1>2 DEF Met, Typed

\* Two modes are a chat and the --deliver typed along with it.
LEMMA OneModeOnly ==
    ASSUME Accepted, NEW m \in Mode, NEW n \in Mode, m \in line, n \in line, m # n
    PROVE  line \intersect Mode = {"chat", "deliver"}
BY DEF Accepted, OneMode

\* Every option that a rule speaks for but the budget has such a mode with it.
LEMMA OptionHasUser ==
    ASSUME Accepted, NEW o \in line \intersect Policed, o # "budget"
    PROVE  HasUser(o)
<1> USE RuleKept DEF HasUser
<1>1. CASE o \in Engine
  <2>1. Need(Engine, Delivering) \in AllNeeds
    BY DEF AllNeeds, DeliverOnly
  <2> QED BY <1>1, <2>1
<1>2. CASE o \in Publish
  <2>1. /\ Need({"pr-author"}, {"pr-comments"}) \in AllNeeds
        /\ Need({"pull-request"}, Delivering) \in AllNeeds
        /\ Need({"pr-tuning", "watch-checks", "watch-fix", "pr-comments"}, {"pull-request"})
             \in AllNeeds
    BY DEF AllNeeds, PublishNeeds
  <2>2. o \in {"pull-request", "pr-tuning", "watch-checks", "watch-fix", "pr-comments",
               "pr-author"}
    BY <1>2 DEF Publish
  <2>3. o = "pr-author" => "pr-comments" \in line
    BY <2>1 DEF Typed
  <2>4. "pull-request" \in line
    BY <2>1, <2>2, <2>3 DEF Typed
  <2>5. Typed(Delivering)
    BY <2>1, <2>4
  <2> QED BY <1>2, <2>5
<1>3. CASE o = "workspace"
  <2>1. Need({"workspace"}, Delivering \union {"assess", "dashboard"}) \in AllNeeds
    BY DEF AllNeeds, DeliverOnly
  <2> QED BY <1>3, <2>1
<1>4. CASE o \in {"repo", "env-file"}
  <2>1. /\ Need({"env-file"}, {"repo"}) \in AllNeeds
        /\ Need({"repo"}, Delivering \union {"assess"}) \in AllNeeds
    BY DEF AllNeeds, ModeNeeds
  <2>2. "repo" \in line
    BY <1>4, <2>1 DEF Typed
  <2>3. Typed(Delivering \union {"assess"})
    BY <2>1, <2>2
  <2> QED BY <1>4, <2>3
<1>5. CASE o \in Sandbox
  <2>1. /\ Need({"sandbox-tuning"}, {"sandbox"}) \in AllNeeds
        /\ Need({"sandbox"}, {"deliver", "assess", "dispatch"}) \in AllNeeds
    BY DEF AllNeeds, ToolNeeds
  <2>2. "sandbox" \in line
    BY <1>5, <2>1 DEF Sandbox, Typed
  <2>3. Typed({"deliver", "assess", "dispatch"})
    BY <2>1, <2>2
  <2> QED BY <1>5, <2>3
<1>6. CASE o \in {"record-transcripts", "bind", "dashboard-only", "dashboard-workspace"}
  <2>1. /\ Need({"record-transcripts"}, {"assess", "deliver", "dispatch", "intake"}) \in AllNeeds
        /\ Need({"bind"}, {"dashboard", "dispatch"}) \in AllNeeds
        /\ Need({"dashboard-only"}, {"dashboard"}) \in AllNeeds
        /\ Need({"dashboard-workspace"}, {"dispatch"}) \in AllNeeds
    BY DEF AllNeeds, ModeNeeds
  <2> QED BY <1>6, <2>1
<1>7. CASE o \in Finding
  <2>1. Need(Finding, {"verify"}) \in AllNeeds
    BY DEF AllNeeds, ModeNeeds
  <2> QED BY <1>7, <2>1
<1>8. CASE o \in {"audit", "intake-apply"}
  <2>1. /\ Need({"audit"}, {"assess"}) \in AllNeeds
        /\ Need({"intake-apply"}, {"intake"}) \in AllNeeds
    BY DEF AllNeeds, ModeNeeds
  <2> QED BY <1>8, <2>1
<1> QED
  BY <1>1, <1>2, <1>3, <1>4, <1>5, <1>6, <1>7, <1>8
     DEF Policed, Option, General, ServingGroup, Finding, Source

\* The command in force is the one mode typed, or a chat.
LEMMA ChosenAlone ==
    ASSUME Accepted
    PROVE  /\ Chosen \in Mode \ {"chat"} => line \intersect Mode = {Chosen}
           /\ Chosen = "chat" => line \intersect Mode \in {{"chat"}, {"chat", "deliver"}}
           /\ Chosen = "simulate" => line \intersect Mode = {}
<1>1. Chosen \in Mode => Chosen \in line
  BY DEF Chosen, Mode
<1>2. Chosen = "simulate" => line \intersect Mode = {}
  BY DEF Chosen, Mode
<1>3. line \intersect Mode = {"chat", "deliver"} => Chosen = "chat"
  <2>1. SUFFICES ASSUME line \intersect Mode = {"chat", "deliver"} PROVE Chosen = "chat"
    OBVIOUS
  <2>2. /\ "chat" \in line /\ "dashboard" \notin line /\ "make-backlog" \notin line
        /\ "dispatch" \notin line /\ "verify" \notin line /\ "intake" \notin line
        /\ "assess" \notin line
    BY <2>1 DEF Mode
  <2> QED BY <2>2 DEF Chosen
<1>4. ASSUME Chosen \in Mode, line \intersect Mode # {Chosen}
      PROVE  line \intersect Mode = {"chat", "deliver"}
  <2>1. PICK m \in line \intersect Mode : m # Chosen
    BY <1>1, <1>4
  <2> QED BY <1>1, <1>4, <2>1, OneModeOnly
<1> QED BY <1>2, <1>3, <1>4 DEF Mode

\* A mode other than a chat is alone, so what has a user is used by it.
LEMMA UsedAlone ==
    ASSUME Accepted, NEW c \in Mode, line \intersect Mode = {c}, NEW M \in SUBSET Mode, Typed(M)
    PROVE  c \in M
BY DEF Typed

\* The groups of options and of modes are made of options and modes.
ModeSets ==
    {Delivering, Delivering \union {"assess", "dashboard"}, Delivering \union {"assess"},
     {"deliver", "assess", "dispatch"}, {"assess", "deliver", "dispatch", "intake"},
     {"dashboard", "dispatch"}, {"dashboard"}, {"dispatch"}, {"verify"}, {"assess"},
     {"intake"}}

LEMMA GroupsOfModes == \A M \in ModeSets : M \subseteq Mode
BY DEF ModeSets, Delivering, Mode

\* The rules keep a budget away from what spends nothing.
LEMMA BudgetIsRead ==
    ASSUME Accepted, "budget" \in line
    PROVE  \A m \in {"dashboard", "dispatch", "make-backlog"} : m \notin line
<1>1. \A m \in {"dashboard", "dispatch", "make-backlog"} : {"budget", m} \in Clashes
  BY DEF Clashes
<1> QED BY <1>1 DEF Accepted

\* Whatever is accepted and ruled on is looked at by the command in force.
LEMMA CommandReads ==
    ASSUME Accepted, ~({"chat", "deliver", "record-transcripts"} \subseteq line),
           NEW p \in Place(Chosen), NEW o \in line \intersect Policed
    PROVE  o \in Reads(p)
<1>1. o = "budget" \/ HasUser(o)
  BY OptionHasUser
<1>2. o \notin {"title", "constraint", "json"}
  BY DEF Policed
<1> DEFINE Only(c) == \A M \in ModeSets : Typed(M) => c \in M
<1>3. ASSUME NEW c \in Mode, line \intersect Mode = {c} PROVE Only(c)
  BY <1>3, UsedAlone, GroupsOfModes
<1>4. CASE Chosen = "assess"
  <2>1. Only("assess")
    BY <1>3, <1>4, ChosenAlone DEF Mode
  <2>2. o = "budget" \/ o \in Source \union Sandbox \union {"record-transcripts", "audit"}
    BY <1>1, <2>1 DEF HasUser, ModeSets, Delivering, Source
  <2>3. p = "assess"
    BY <1>4 DEF Place
  <2> QED BY <2>2, <2>3 DEF Reads, OfAssess, Team
<1>5. CASE Chosen = "deliver"
  <2>1. Only("deliver")
    BY <1>3, <1>5, ChosenAlone DEF Mode
  <2>2. o = "budget" \/ o \in Engine \union Publish \union Source \union Sandbox
                                 \union {"record-transcripts"}
    BY <1>1, <2>1 DEF HasUser, ModeSets, Delivering, Source
  <2>3. p \in {"deliver", "develop", "deploy"}
    BY <1>5 DEF Place
  <2> QED BY <2>2, <2>3 DEF Reads, OfDeliver, Team
<1>6. CASE Chosen = "intake"
  <2>1. Only("intake")
    BY <1>3, <1>6, ChosenAlone DEF Mode
  <2>2. o = "budget" \/ o \in Engine \union Publish \union Source
                                 \union {"record-transcripts", "intake-apply"}
    BY <1>1, <2>1 DEF HasUser, ModeSets, Delivering, Source
  <2>3. p = "intake"
    BY <1>6 DEF Place
  <2> QED BY <2>2, <2>3 DEF Reads, OfIntake, OfAssess, OfDeliver, Team
<1>7. CASE Chosen = "verify"
  <2>1. Only("verify")
    BY <1>3, <1>7, ChosenAlone DEF Mode
  <2>2. o = "budget" \/ o \in Finding
    BY <1>1, <2>1 DEF HasUser, ModeSets, Delivering
  <2>3. p = "verify"
    BY <1>7 DEF Place
  <2> QED BY <2>2, <2>3 DEF Reads, OfVerify
<1>8. CASE Chosen = "dashboard"
  <2>1. Only("dashboard") /\ "dashboard" \in line
    BY <1>3, <1>8, ChosenAlone DEF Mode
  <2>2. o # "budget" /\ o \in {"workspace", "bind", "dashboard-only"}
    BY <1>1, <2>1, BudgetIsRead DEF HasUser, ModeSets, Delivering
  <2>3. p = "viewing"
    BY <1>8 DEF Place
  <2> QED BY <2>2, <2>3 DEF Reads, OfDashboard
<1>9. CASE Chosen = "dispatch"
  <2>1. Only("dispatch") /\ "dispatch" \in line
    BY <1>3, <1>9, ChosenAlone DEF Mode
  <2>2. o # "budget" /\ o \in Sandbox \union {"record-transcripts", "bind", "dashboard-workspace"}
    BY <1>1, <2>1, BudgetIsRead DEF HasUser, ModeSets, Delivering
  <2>3. p = "serving"
    BY <1>9 DEF Place
  <2> QED BY <2>2, <2>3 DEF Reads, OfDispatch
<1>10. Chosen # "make-backlog"
  <2>1. SUFFICES ASSUME Chosen = "make-backlog" PROVE FALSE
    OBVIOUS
  <2>2. Only("make-backlog") /\ "make-backlog" \in line
    BY <1>3, <2>1, ChosenAlone DEF Mode
  <2> QED BY <1>1, <2>2, BudgetIsRead DEF HasUser, ModeSets, Delivering
<1>11. CASE Chosen = "simulate"
  <2>1. \A M \in ModeSets : ~Typed(M)
    BY <1>11, ChosenAlone, GroupsOfModes DEF Typed
  <2>2. o = "budget"
    BY <1>1, <2>1 DEF HasUser, ModeSets
  <2>3. p = "simulate"
    BY <1>11 DEF Place
  <2> QED BY <2>2, <2>3 DEF Reads, OfSimulate, Team
<1>12. CASE Chosen = "chat"
  <2>1. \A M \in ModeSets : Typed(M) => "chat" \in M \/ ("deliver" \in M /\ {"chat", "deliver"} \subseteq line)
    BY <1>12, ChosenAlone, GroupsOfModes DEF Typed
  <2>2. o = "budget" \/ o \in Engine \union Publish \union Source \union Sandbox
        \/ (o = "record-transcripts" /\ {"chat", "deliver"} \subseteq line)
    BY <1>1, <2>1 DEF HasUser, ModeSets, Delivering, Source
  <2>3. o # "record-transcripts" \/ ~({"chat", "deliver"} \subseteq line)
    OBVIOUS
  <2>4. p = "talk"
    BY <1>12 DEF Place
  <2>5. Engine \union Publish \union Source \union Sandbox \union {"budget"}
           \subseteq OfDeliver \ {"title", "json", "record-transcripts"}
    BY DEF OfDeliver, Team, Engine, Visual, Publish, Source, Sandbox
  <2> QED BY <2>2, <2>3, <2>4, <2>5 DEF Reads, OfChat
<1> QED BY <1>4, <1>5, <1>6, <1>7, <1>8, <1>9, <1>10, <1>11, <1>12, ChosenIsCommand DEF Mode

\* Past validation the rules stay kept: nothing changes the options before
\* a command is entered.
LEMMA LineInvStep == ASSUME CallsInv, LineInv, [Next]_vars PROVE LineInv'
<1>1. LaunchStep \/ UNCHANGED line
  BY DEF Next, Working, World, Launching, Reporting, Scanning, vars
<1>2. ASSUME UNCHANGED line, Accepted PROVE Accepted'
  BY <1>2 DEF Accepted, OneMode, TitleGiven, Met
<1>3. CASE LaunchStep
  <2>1. Enter => at' \notin {"credentials", "clone"}
    BY PlacesAreEntries DEF Enter, Goto, FirstPlaces
  <2>2. CASE Validate
    BY <1>2, <2>2 DEF Validate, LineInv, Goto
  <2>3. CASE Preflight
    BY <1>2, <2>1, <2>3 DEF Preflight, LineInv, Goto, Raise
  <2>4. CASE Clone \/ StopServing
    BY <2>1, <2>4 DEF Clone, StopServing, LineInv, Goto, Raise, Return
  <2> QED BY <1>3, <2>2, <2>3, <2>4 DEF LaunchStep
<1>4. CASE UNCHANGED line /\ UNCHANGED at
  BY <1>2, <1>4 DEF LineInv
<1>5. CASE ~LaunchStep /\ ~UNCHANGED at
  <2>1. at' \notin {"credentials", "clone"}
    BY <1>5, StepBelongs, PublicationMoves, GatesMoves, DockerMoves, AuditMoves, ClassicMoves,
       TalkMoves, ScanMoves
       DEF PublicationPlaces, GatePlaces, DockerPlaces, AuditPlaces, ClassicPlaces, TalkPlaces,
           ScanPlaces, Done
  <2> QED BY <2>1 DEF LineInv
<1> QED BY <1>1, <1>3, <1>4, <1>5

-----------------------------------------------------------------------------
(* The theorems *)

CommandInv == CallsInv /\ DockerInv /\ GateInv /\ HumanInv /\ ZeroInv /\ ExitInv
              /\ LineInv

\* Every part of a run keeps its own invariant, whatever the others do.
THEOREM CommandHolds == Spec => []CommandInv
<1>1. Init => CallsInv
  BY CallsTyped, AgentCallAssumption DEF Init, CallsInv, CallState, CallIdle
<1>2. Init => CommandInv
  BY <1>1, DockerInvInit, GateInvInit, HumanInvInit, ZeroInvInit
     DEF CommandInv, Init, ExitInv, Errors, LineInv
<1>3. CommandInv /\ [Next]_vars => CommandInv'
  BY StepKeepsCalls, DockerInvStep, GateInvStep, HumanInvStep, ZeroInvStep, ExitInvStep,
     LineInvStep
     DEF CommandInv
<1> QED BY <1>2, <1>3, PTL DEF Spec

\* No container and no image is left behind unless a command that should
\* remove it failed (engine.py, _docker_run_gate).
THEOREM LeavesNothingHolds == Spec => []LeavesNothing
<1>1. CommandInv => LeavesNothing
  BY DEF CommandInv, DockerInv
<1> QED BY <1>1, CommandHolds, PTL

\* An attempt leaves the workspace as it was or as it was reviewed, for any
\* paths, changes, suites and failing writes (engine.py, _integrate).
THEOREM AllOrReviewedHolds == Spec => []AllOrReviewed
<1>1. CommandInv => AllOrReviewed
  BY DEF CommandInv, GateInv
<1> QED BY <1>1, CommandHolds, PTL

\* No push of the program removes what a reviewer has pushed, for any number
\* of fix rounds (delivery_target.py, push_branch).
THEOREM HumanWorkKeptHolds == Spec => HumanWorkKept
<1>1. CommandInv /\ [Next]_vars => [(Human \in remote) => (Human \in remote')]_remote
  BY HumanInvStep DEF CommandInv
<1> QED BY <1>1, CommandHolds, PTL DEF Spec, HumanWorkKept

\* A delivery that returns 0 is at GitHub in full, and checks that it calls
\* passed were those of a head that has all of it, for any number of fix
\* rounds, polls and checks (cli.py, _deliver and _run_ci_fix_loop).
THEOREM ZeroMeansPublishedHolds == Spec => []ZeroMeansPublished
<1>1. CommandInv => ZeroMeansPublished
  BY DEF CommandInv, ZeroInv
<1> QED BY <1>1, CommandHolds, PTL

\* Whoever learns that a call ran into the budget, anywhere but at the triage
\* of a request, ends without an error, for any number of agents, phases,
\* votes and tasks and any ceiling (workflow.py, run; assessment.py, _phase).
THEOREM StopsGracefullyHolds == Spec => StopsGracefully
<1> DEFINE Graceful == \A c \in Caller :
               call[c].st = "broke" /\ call'[c] # call[c] /\ at # "triage"
                   => exit' \notin Errors
<1>1. ASSUME CommandInv, [Next]_vars PROVE Graceful
  <2>1. SUFFICES ASSUME NEW c \in Caller, call[c].st = "broke", call'[c] # call[c],
                        at # "triage", exit' \in Errors
                 PROVE  FALSE
    OBVIOUS
  <2>2. CallsInv /\ ExitInv
    BY <1>1 DEF CommandInv
  <2>3. CASE UNCHANGED exit
    BY <1>1, <2>1, <2>2, <2>3, StepIsCalm DEF ExitInv, Errors
  <2>4. CASE \E a \in Caller : call[a].st # "broke" /\ call' = Settled(a)
    BY <2>1, <2>2, <2>4, OthersUnsettled
  <2> QED BY <1>1, <2>1, <2>2, <2>3, <2>4, StepIsCalm DEF Calm
<1>2. CommandInv /\ [Next]_vars => [Graceful]_vars
  BY <1>1
<1>3. [Graceful]_vars <=> [\A c \in Caller :
                               call[c].st = "broke" /\ call'[c] # call[c] /\ at # "triage"
                                   => exit' \notin {"2", "traceback"}]_vars
  BY DEF Errors
<1> QED BY <1>2, <1>3, CommandHolds, PTL DEF Spec, StopsGracefully

\* No combination of options, typed in any of the lines there can be, is
\* accepted and then silently without effect, but for transcripts asked of a
\* chat by way of --deliver (cli.py, _validate_args).
THEOREM HonouredHolds == Spec => Honoured
<1> DEFINE Kept == line # {} /\ line' = {} /\ exit' = "running"
                     /\ ~({"chat", "deliver", "record-transcripts"} \subseteq line)
                       => line \intersect Policed \subseteq Reads(at')
<1>1. ASSUME CommandInv, [Next]_vars PROVE Kept
  <2>1. SUFFICES ASSUME line # {}, line' = {}, exit' = "running",
                        ~({"chat", "deliver", "record-transcripts"} \subseteq line)
                 PROVE  line \intersect Policed \subseteq Reads(at')
    OBVIOUS
  <2>2. LaunchStep
    BY <1>1, <2>1 DEF Next, Working, World, Launching, Reporting, Scanning, vars
  <2>3. Enter /\ at \in {"credentials", "clone"}
    BY <2>1, <2>2 DEF LaunchStep, Validate, Preflight, Clone, StopServing, Raise
  <2>4. Accepted /\ at' \in Place(Chosen)
    BY <1>1, <2>3 DEF CommandInv, LineInv, Enter, Goto
  <2> QED BY <2>1, <2>4, CommandReads
<1>2. CommandInv /\ [Next]_vars => [Kept]_<<line, exit, at>>
  BY <1>1
<1> QED BY <1>2, CommandHolds, PTL DEF Spec, Honoured

-----------------------------------------------------------------------------
(* What a run serves of an audit                                           *)

FindingSet == UNION {Findings(a) : a \in Audits}

AuditJob == [st : {"queued", "running", "stored", "stamped", "merged"} \union Terminal,
             mode : {"assess"}, backlog : BOOLEAN]
VerifyJob == [st : {"queued", "running"} \union Terminal,
              mode : {"verify"}, source : Job, finding : FindingSet]

\* A story is a record of these fields.
IsStory(s) == s = [epic |-> s.epic, title |-> s.title, source |-> s.source,
                   finding |-> s.finding, deps |-> s.deps]

ReportsTypeOK ==
    /\ job \in [Job -> {NoRecord} \union AuditJob \union VerifyJob]
    /\ mirror \in [Job -> [result : Audits \union {<<>>}, meta : {"none", "plain", "archived"}]]
    /\ verdicts \in [Job -> SUBSET FindingSet]
    /\ \A s \in stories : IsStory(s) /\ s.source \in Job
    /\ minted \in 0..MaxJobs

Verifies(k, j) == job[k] \in VerifyJob /\ job[k].source = j

\* Nothing has been made of the job yet.
Fresh(j) == /\ mirror[j].result = <<>> /\ mirror[j].meta = "none" /\ verdicts[j] = {}
            /\ \A s \in stories : s.source # j
            /\ \A k \in Job : ~Verifies(k, j)

FreshUntilMirrored ==
    \A j \in Job : j > minted \/ (job[j] \in AuditJob /\ job[j].st \in {"queued", "running"})
                      => Fresh(j)
AbsentUntilMinted == \A j \in Job : j > minted => job[j] = NoRecord

\* A story leads to an item of its audit's result.
Names(s) == Leads(mirror[s.source].result, s)

Agree ==
    /\ \A s \in stories : Stored(s.source) => Names(s)
    /\ \A j \in Job : Stored(j) => verdicts[j] \subseteq Findings(mirror[j].result)
    /\ \A k \in Job : job[k] \in VerifyJob /\ Stored(job[k].source)
                          => job[k].finding \in Findings(mirror[job[k].source].result)

\* Audits that are past their marker have one; to verify mirrors nothing.
Marked ==
    /\ \A j \in Job : job[j] \in AuditJob /\ job[j].st \in {"stamped", "merged", "succeeded"}
                          => mirror[j].meta # "none"
    /\ \A j \in Job : job[j] \in VerifyJob => mirror[j].result = <<>>

ReportsInv == /\ ReportsTypeOK /\ FreshUntilMirrored /\ AbsentUntilMinted /\ Agree /\ Marked

-----------------------------------------------------------------------------
LEMMA NextReports ==
    ASSUME [Next]_vars PROVE ReportsStep \/ UNCHANGED reportVars
BY DEF Next, vars, Working, World, Launching, Reporting, Scanning, Publishing, Gating,
       Deploying, Auditing, Simulating, Talking, Turning

LEMMA SmallMinimum ==
    ASSUME NEW F \in SUBSET (1..4), F # {}
    PROVE  \E f \in F : \A g \in F : f <= g
<1>0. \A g \in F : g \in {1, 2, 3, 4}
  OBVIOUS
<1>1. CASE 1 \in F
  BY <1>0, <1>1
<1>2. CASE 1 \notin F /\ 2 \in F
  BY <1>0, <1>2
<1>3. CASE 1 \notin F /\ 2 \notin F /\ 3 \in F
  BY <1>0, <1>3
<1>4. CASE 1 \notin F /\ 2 \notin F /\ 3 \notin F
  <2>1. \A g \in F : g = 4
    BY <1>0, <1>4
  <2>2. PICK f \in F : TRUE
    OBVIOUS
  <2>3. f = 4 /\ \A g \in F : f <= g
    BY <2>1, <2>2
  <2> QED BY <2>3
<1> QED BY <1>1, <1>2, <1>3, <1>4

\* An item's first text is in a field that it has.
LEMMA FirstTextIsThere ==
    ASSUME NEW i, Texts(i) # {} PROVE FirstText(i) \in DOMAIN i.says
<1>1. Texts(i) \in SUBSET (1..4)
  BY DEF Texts
<1>2. \E f \in Texts(i) : \A g \in Texts(i) : f <= g
  BY <1>1, SmallMinimum
<1>3. PICK f \in Texts(i) : FirstText(i) = Fields[f]
  BY <1>2 DEF FirstText
<1> QED BY <1>3 DEF Texts

\* A new story of a merge leads to an item of the result merged.
LEMMA MergedNames ==
    ASSUME NEW a, NEW j \in Job, NEW s \in Merged(a, j), s \notin stories
    PROVE  IsStory(s) /\ s.source = j /\ Leads(a, s)
<1>1. PICK l \in Lists : \E n \in Deserving(a, l) : \E d :
          s = [epic |-> Epic(j), title |-> <<l, Shown(l, Items(a, l)[n])>>, source |-> j,
               finding |-> Position(a, l, n), deps |-> d]
  BY DEF Merged
<1>2. PICK n \in Deserving(a, l) : \E d :
          s = [epic |-> Epic(j), title |-> <<l, Shown(l, Items(a, l)[n])>>, source |-> j,
               finding |-> Position(a, l, n), deps |-> d]
  BY <1>1
<1> DEFINE i == Items(a, l)[n]
<1>3. s.finding = <<l, n>> /\ s.title = <<l, Shown(l, i)>>
  BY <1>2 DEF Position
<1>4. ASSUME Texts(i) # {}, FirstText(i) = Own(l) PROVE Verifiable(a, s)
  <2>1. Claim(i) = Shown(l, i)
    BY <1>4, FirstTextIsThere DEF Claim, Shown
  <2>2. n \in Claims(a, l)
    BY <1>4 DEF Deserving, Claims
  <2>3. [id |-> <<l, n>>, claim |-> Claim(i)] \in Findings(a)
    <3>1. [id |-> <<l, n>>, claim |-> Claim(i)]
             \in {[id |-> <<l, m>>, claim |-> Claim(Items(a, l)[m])] : m \in Claims(a, l)}
      BY <2>2
    <3> QED BY <1>1, <3>1 DEF Findings
  <2> QED BY <1>3, <2>1, <2>3 DEF Verifiable
<1>5. Leads(a, s)
  BY <1>1, <1>2, <1>3, <1>4 DEF Leads
<1> QED BY <1>2, <1>5 DEF IsStory

LEMMA LeadsAlike ==
    ASSUME NEW a, NEW s, NEW o, s.finding = o.finding, s.title = o.title, Leads(a, o)
    PROVE  Leads(a, s)
BY DEF Leads, Verifiable

LEMMA ReportsInvInit == ReportsInit => ReportsInv
<1> SUFFICES ASSUME ReportsInit PROVE ReportsInv
  OBVIOUS
<1> USE DEF ReportsInit
<1>0. \A j \in Job : job[j] = NoRecord /\ mirror[j] = Bare /\ verdicts[j] = {}
  OBVIOUS
<1>1. NoRecord \notin AuditJob /\ NoRecord \notin VerifyJob
  BY DEF NoRecord, AuditJob, VerifyJob
<1>2. ReportsTypeOK
  BY ReportsAssumption DEF ReportsTypeOK, Bare
<1>3. FreshUntilMirrored /\ AbsentUntilMinted /\ Agree /\ Marked
  BY <1>0, <1>1 DEF FreshUntilMirrored, AbsentUntilMinted, Agree, Marked, Fresh, Verifies,
                    Bare, Stored
<1> QED BY <1>2, <1>3 DEF ReportsInv

-----------------------------------------------------------------------------
(* One step of the service, action by action. *)

LEMMA Kinds ==
    /\ NoRecord \notin AuditJob /\ NoRecord \notin VerifyJob /\ NoRecord.st = "absent"
    /\ \A r \in AuditJob : r \notin VerifyJob /\ r.mode = "assess" /\ r.st # "absent"
    /\ \A r \in VerifyJob : r.mode = "verify" /\ r.st # "absent"
BY DEF NoRecord, AuditJob, VerifyJob, Terminal

\* The record that Register adds belongs to a job that is new.
LEMMA Minting ==
    ASSUME ReportsTypeOK, NEW r, Register(r)
    PROVE  /\ minted' \in Job /\ minted' > minted /\ minted' = minted + 1
           /\ job' = [job EXCEPT ![minted'] = r] /\ job'[minted'] = r
           /\ \A k \in Job : k # minted' => job'[k] = job[k]
           /\ \A k \in Job : k > minted' => k > minted /\ k # minted'
BY ReportsAssumption DEF Register, ReportsTypeOK, Job

LEMMA SubmitAuditKeeps ==
    ASSUME ReportsInv, SubmitAudit PROVE ReportsInv'
<1> USE Kinds DEF ReportsInv
<1>1. PICK b \in BOOLEAN : Register([st |-> "queued", mode |-> "assess", backlog |-> b])
  BY DEF SubmitAudit
<1> DEFINE new == [st |-> "queued", mode |-> "assess", backlog |-> b]
<1>2. new \in AuditJob /\ new.st = "queued"
  BY DEF AuditJob
<1> HIDE DEF new
<1>3. /\ minted' \in Job /\ minted' > minted /\ minted' = minted + 1
      /\ job' = [job EXCEPT ![minted'] = new] /\ job'[minted'] = new
      /\ \A k \in Job : k # minted' => job'[k] = job[k]
      /\ \A k \in Job : k > minted' => k > minted /\ k # minted'
  BY <1>1, Minting DEF new
<1>4. UNCHANGED <<mirror, verdicts, stories>>
  BY DEF SubmitAudit
<1>5. ReportsTypeOK'
  <2>1. minted' \in 0..MaxJobs
    BY <1>3, ReportsAssumption DEF Job
  <2> QED BY <2>1, <1>2, <1>3, <1>4 DEF ReportsTypeOK, IsStory
<1>6. \A j, k \in Job : Verifies(k, j)' => Verifies(k, j)
  BY <1>2, <1>3 DEF Verifies
<1>7. \A j \in Job : Fresh(j) => Fresh(j)'
  BY <1>4, <1>6 DEF Fresh
<1>8. FreshUntilMirrored'
  BY <1>3, <1>7 DEF FreshUntilMirrored
<1>9. AbsentUntilMinted'
  BY <1>3 DEF AbsentUntilMinted
<1>10. Agree'
  BY <1>2, <1>3, <1>4 DEF Agree, Names, Stored
<1>11. Marked'
  BY <1>2, <1>3, <1>4 DEF Marked
<1> QED BY <1>5, <1>8, <1>9, <1>10, <1>11

LEMMA SubmitVerifyKeeps ==
    ASSUME ReportsInv, SubmitVerify PROVE ReportsInv'
<1> USE Kinds DEF ReportsInv
<1>1. PICK s \in Job : /\ Stored(s) /\ mirror[s].meta # "none"
                       /\ \E f \in Findings(mirror[s].result) :
                             Register([st |-> "queued", mode |-> "verify",
                                       source |-> s, finding |-> f])
  BY DEF SubmitVerify
<1>2. PICK f \in Findings(mirror[s].result) :
          Register([st |-> "queued", mode |-> "verify", source |-> s, finding |-> f])
  BY <1>1
<1> DEFINE new == [st |-> "queued", mode |-> "verify", source |-> s, finding |-> f]
<1>3. new \in VerifyJob /\ new.source = s /\ new.finding = f
  <2>1. mirror[s].result \in Audits
    BY <1>1 DEF ReportsTypeOK, Stored
  <2> QED BY <2>1 DEF VerifyJob, FindingSet
<1> HIDE DEF new
<1>4. /\ minted' \in Job /\ minted' > minted /\ minted' = minted + 1
      /\ job' = [job EXCEPT ![minted'] = new] /\ job'[minted'] = new
      /\ \A k \in Job : k # minted' => job'[k] = job[k]
      /\ \A k \in Job : k > minted' => k > minted /\ k # minted'
  BY <1>2, Minting DEF new
<1>5. UNCHANGED <<mirror, verdicts, stories>>
  BY DEF SubmitVerify
<1>6. ReportsTypeOK'
  <2>1. minted' \in 0..MaxJobs
    BY <1>4, ReportsAssumption DEF Job
  <2> QED BY <2>1, <1>3, <1>4, <1>5 DEF ReportsTypeOK, IsStory
<1>7. \A j, k \in Job : Verifies(k, j)' => Verifies(k, j) \/ j = s
  BY <1>3, <1>4 DEF Verifies
<1>8. \A j \in Job : Fresh(j) => Fresh(j)'
  BY <1>1, <1>5, <1>7 DEF Fresh, Stored
<1>9. FreshUntilMirrored'
  BY <1>3, <1>4, <1>8 DEF FreshUntilMirrored
<1>10. AbsentUntilMinted'
  BY <1>4 DEF AbsentUntilMinted
<1>11. Agree'
  BY <1>3, <1>4, <1>5 DEF Agree, Names, Stored
<1>12. Marked'
  BY <1>3, <1>4, <1>5 DEF Marked, FreshUntilMirrored, Fresh
<1> QED BY <1>6, <1>9, <1>10, <1>11, <1>12

LEMMA RestartKeeps ==
    ASSUME ReportsInv, Restart PROVE ReportsInv'
<1> USE Kinds DEF ReportsInv
<1>1. ReportsTypeOK'
  BY ReportsAssumption DEF Restart, ReportsTypeOK, AuditJob, VerifyJob, NoRecord, Terminal
<1>2. FreshUntilMirrored'
  BY DEF Restart, ReportsTypeOK, FreshUntilMirrored, AbsentUntilMinted, Fresh, Verifies, AuditJob, VerifyJob, Terminal
<1>3. AbsentUntilMinted'
  BY DEF Restart, ReportsTypeOK, AbsentUntilMinted, NoRecord, Terminal
<1>4. Agree'
  BY DEF Restart, ReportsTypeOK, FreshUntilMirrored, Fresh, Verifies, Agree, Names, Stored, AuditJob, VerifyJob
<1>5. Marked'
  BY DEF Restart, ReportsTypeOK, Marked, FreshUntilMirrored, Fresh, AuditJob, VerifyJob
<1> QED BY <1>1, <1>2, <1>3, <1>4, <1>5

LEMMA CancelJobKeeps ==
    ASSUME ReportsInv, NEW j \in Job, CancelJob(j) PROVE ReportsInv'
<1> USE Kinds DEF ReportsInv
<1>1. ReportsTypeOK'
  BY ReportsAssumption DEF CancelJob, ReportsTypeOK, AuditJob, VerifyJob, NoRecord, Terminal
<1>2. FreshUntilMirrored'
  BY DEF CancelJob, ReportsTypeOK, FreshUntilMirrored, AbsentUntilMinted, Fresh, Verifies, AuditJob, VerifyJob, Terminal
<1>3. AbsentUntilMinted'
  BY DEF CancelJob, ReportsTypeOK, AbsentUntilMinted, NoRecord, Terminal
<1>4. Agree'
  BY DEF CancelJob, ReportsTypeOK, FreshUntilMirrored, Fresh, Verifies, Agree, Names, Stored, AuditJob, VerifyJob
<1>5. Marked'
  BY DEF CancelJob, ReportsTypeOK, Marked, FreshUntilMirrored, Fresh, AuditJob, VerifyJob
<1> QED BY <1>1, <1>2, <1>3, <1>4, <1>5

\* A record that moves on stays a record.
LEMMA MoveTyped ==
    ASSUME ReportsTypeOK, NEW j \in Job, NEW from, NEW to, Move(j, from, to), from # "absent",
           to \in {"queued", "running"} \union Terminal
    PROVE  job' \in [Job -> {NoRecord} \union AuditJob \union VerifyJob]
<1>1. job' = [job EXCEPT ![j].st = to] /\ job[j].st = from
  BY DEF Move
<1>2. job[j] \in AuditJob \/ job[j] \in VerifyJob
  BY <1>1 DEF ReportsTypeOK, NoRecord
<1>3. job[j] \in AuditJob => [job[j] EXCEPT !.st = to] \in AuditJob
  BY DEF AuditJob
<1>4. job[j] \in VerifyJob => [job[j] EXCEPT !.st = to] \in VerifyJob
  BY DEF VerifyJob
<1> QED
  BY <1>1, <1>2, <1>3, <1>4 DEF ReportsTypeOK

LEMMA StartJobKeeps ==
    ASSUME ReportsInv, NEW j \in Job, StartJob(j) PROVE ReportsInv'
<1> USE Kinds DEF ReportsInv
<1>1. ReportsTypeOK'
  BY MoveTyped DEF StartJob, ReportsTypeOK
<1>2. FreshUntilMirrored'
  BY DEF StartJob, Move, ReportsTypeOK, FreshUntilMirrored, AbsentUntilMinted, Fresh, Verifies, AuditJob, VerifyJob, Terminal
<1>3. AbsentUntilMinted'
  BY DEF StartJob, Move, ReportsTypeOK, AbsentUntilMinted, NoRecord, Terminal
<1>4. Agree'
  BY DEF StartJob, Move, ReportsTypeOK, FreshUntilMirrored, Fresh, Verifies, Agree, Names, Stored, AuditJob, VerifyJob
<1>5. Marked'
  BY DEF StartJob, Move, ReportsTypeOK, Marked, FreshUntilMirrored, Fresh, AuditJob, VerifyJob
<1> QED BY <1>1, <1>2, <1>3, <1>4, <1>5

LEMMA FailJobKeeps ==
    ASSUME ReportsInv, NEW j \in Job, FailJob(j) PROVE ReportsInv'
<1> USE Kinds DEF ReportsInv
<1>1. ReportsTypeOK'
  <2>1. PICK from \in {"running", "stored", "stamped"} : Move(j, from, "failed")
    BY DEF FailJob
  <2>2. job' \in [Job -> {NoRecord} \union AuditJob \union VerifyJob]
    BY <2>1, MoveTyped DEF Terminal
  <2> QED BY <2>2 DEF FailJob, ReportsTypeOK
<1>2. FreshUntilMirrored'
  BY DEF FailJob, Move, ReportsTypeOK, FreshUntilMirrored, AbsentUntilMinted, Fresh, Verifies, AuditJob, VerifyJob, Terminal
<1>3. AbsentUntilMinted'
  BY DEF FailJob, Move, ReportsTypeOK, AbsentUntilMinted, NoRecord, Terminal
<1>4. Agree'
  BY DEF FailJob, Move, ReportsTypeOK, FreshUntilMirrored, Fresh, Verifies, Agree, Names, Stored, AuditJob, VerifyJob
<1>5. Marked'
  BY DEF FailJob, Move, ReportsTypeOK, Marked, FreshUntilMirrored, Fresh, AuditJob, VerifyJob
<1> QED BY <1>1, <1>2, <1>3, <1>4, <1>5

LEMMA MirrorResultKeeps ==
    ASSUME ReportsInv, NEW j \in Job, MirrorResult(j) PROVE ReportsInv'
<1> USE Kinds DEF ReportsInv
<1>1. ReportsTypeOK'
  BY ReportsAssumption DEF MirrorResult, Move, ReportsTypeOK, AuditJob, VerifyJob, NoRecord, Terminal
<1>2. FreshUntilMirrored'
  BY DEF MirrorResult, Move, ReportsTypeOK, FreshUntilMirrored, AbsentUntilMinted, Fresh, Verifies, AuditJob, VerifyJob, Terminal
<1>3. AbsentUntilMinted'
  BY DEF MirrorResult, Move, ReportsTypeOK, AbsentUntilMinted, NoRecord, Terminal
<1>4. Agree'
  BY DEF MirrorResult, Move, ReportsTypeOK, FreshUntilMirrored, Fresh, Verifies, Agree, Names, Stored, AuditJob, VerifyJob
<1>5. Marked'
  BY DEF MirrorResult, Move, ReportsTypeOK, Marked, FreshUntilMirrored, Fresh, AuditJob, VerifyJob
<1> QED BY <1>1, <1>2, <1>3, <1>4, <1>5

LEMMA MirrorMetaKeeps ==
    ASSUME ReportsInv, NEW j \in Job, MirrorMeta(j) PROVE ReportsInv'
<1> USE Kinds DEF ReportsInv
<1>1. ReportsTypeOK'
  BY ReportsAssumption DEF MirrorMeta, Move, ReportsTypeOK, AuditJob, VerifyJob, NoRecord, Terminal
<1>2. FreshUntilMirrored'
  BY DEF MirrorMeta, Move, ReportsTypeOK, FreshUntilMirrored, AbsentUntilMinted, Fresh, Verifies, AuditJob, VerifyJob, Terminal
<1>3. AbsentUntilMinted'
  BY DEF MirrorMeta, Move, ReportsTypeOK, AbsentUntilMinted, NoRecord, Terminal
<1>4. Agree'
  BY DEF MirrorMeta, Move, ReportsTypeOK, FreshUntilMirrored, Fresh, Verifies, Agree, Names, Stored, AuditJob, VerifyJob
<1>5. Marked'
  BY DEF MirrorMeta, Move, ReportsTypeOK, Marked, FreshUntilMirrored, Fresh, AuditJob, VerifyJob
<1> QED BY <1>1, <1>2, <1>3, <1>4, <1>5

LEMMA MergeOwnKeeps ==
    ASSUME ReportsInv, NEW j \in Job, MergeOwn(j) PROVE ReportsInv'
<1> USE Kinds DEF ReportsInv
<1>1. /\ stories' = Merged(mirror[j].result, j)
      /\ UNCHANGED <<mirror, verdicts, minted>>
  BY DEF MergeOwn
<1>2. \A s \in stories' : s \in stories \/ (IsStory(s) /\ s.source = j /\ Names(s))
  <2> SUFFICES ASSUME NEW s \in Merged(mirror[j].result, j), s \notin stories
               PROVE  IsStory(s) /\ s.source = j /\ Names(s)
    BY <1>1
  <2>1. IsStory(s) /\ s.source = j /\ Leads(mirror[j].result, s)
    BY MergedNames
  <2> QED BY <2>1 DEF Names
<1>3. /\ \A k \in Job : job'[k] \in VerifyJob => /\ job[k] \in VerifyJob
                                                 /\ job'[k].source = job[k].source
                                                 /\ job'[k].finding = job[k].finding
      /\ job' \in [Job -> {NoRecord} \union AuditJob \union VerifyJob]
  <2>1. job[j].st = "stamped" /\ job[j] \in AuditJob
    BY DEF MergeOwn, Move, ReportsTypeOK, VerifyJob, NoRecord, Terminal
  <2>2. [job[j] EXCEPT !.st = "merged"] \in AuditJob
    BY <2>1 DEF AuditJob
  <2>3. job' = [job EXCEPT ![j] = [job[j] EXCEPT !.st = "merged"]]
    BY DEF MergeOwn, Move
  <2> QED BY <2>2, <2>3 DEF ReportsTypeOK
<1>4. ReportsTypeOK'
  BY <1>1, <1>2, <1>3 DEF ReportsTypeOK, IsStory
<1>5. ~Fresh(j) /\ ~(j > minted) /\ ~(job'[j] \in AuditJob /\ job'[j].st \in {"queued", "running"})
  <2>1. job[j].st = "stamped" /\ job[j] \in AuditJob
    BY DEF MergeOwn, Move, ReportsTypeOK, VerifyJob, NoRecord, Terminal
  <2>2. mirror[j].meta # "none" /\ job[j] # NoRecord
    BY <2>1 DEF Marked, NoRecord
  <2>3. job'[j].st = "merged"
    BY <2>1 DEF MergeOwn, Move, ReportsTypeOK, AuditJob
  <2> QED BY <2>2, <2>3 DEF Fresh, FreshUntilMirrored, AbsentUntilMinted
<1>6. \A k \in Job : k # j /\ Fresh(k) => Fresh(k)'
  BY <1>1, <1>2, <1>3 DEF Fresh, Verifies
<1>7. \A k \in Job : k # j => job'[k] = job[k]
  BY DEF MergeOwn, Move, ReportsTypeOK
<1>8. FreshUntilMirrored'
  BY <1>1, <1>5, <1>6, <1>7 DEF FreshUntilMirrored
<1>9. AbsentUntilMinted'
  BY <1>1, <1>5, <1>7 DEF AbsentUntilMinted
<1>10. Agree'
  BY <1>1, <1>2, <1>3 DEF Agree, Names, Stored
<1>11. Marked'
  BY <1>1, <1>3, <1>7 DEF MergeOwn, Move, ReportsTypeOK, Marked, AuditJob, VerifyJob
<1> QED BY <1>4, <1>8, <1>9, <1>10, <1>11

LEMMA SucceedKeeps ==
    ASSUME ReportsInv, NEW j \in Job, Succeed(j) PROVE ReportsInv'
<1> USE Kinds DEF ReportsInv
<1>1. ReportsTypeOK'
  BY ReportsAssumption DEF Succeed, Move, ReportsTypeOK, AuditJob, VerifyJob, NoRecord, Terminal
<1>2. FreshUntilMirrored'
  BY DEF Succeed, Move, ReportsTypeOK, FreshUntilMirrored, AbsentUntilMinted, Fresh, Verifies, AuditJob, VerifyJob, Terminal
<1>3. AbsentUntilMinted'
  BY DEF Succeed, Move, ReportsTypeOK, AbsentUntilMinted, NoRecord, Terminal
<1>4. Agree'
  BY DEF Succeed, Move, ReportsTypeOK, FreshUntilMirrored, Fresh, Verifies, Agree, Names, Stored, AuditJob, VerifyJob
<1>5. Marked'
  BY DEF Succeed, Move, ReportsTypeOK, Marked, FreshUntilMirrored, Fresh, AuditJob, VerifyJob
<1> QED BY <1>1, <1>2, <1>3, <1>4, <1>5

LEMMA EndVerifyKeeps ==
    ASSUME ReportsInv, NEW j \in Job, EndVerify(j) PROVE ReportsInv'
<1> USE Kinds DEF ReportsInv
<1>1. ReportsTypeOK'
  <2>1. job' \in [Job -> {NoRecord} \union AuditJob \union VerifyJob]
    BY MoveTyped DEF EndVerify, Terminal
  <2>2. job[j] \in VerifyJob
    BY DEF EndVerify, Move, ReportsTypeOK, AuditJob, NoRecord
  <2>3. job[j].source \in Job /\ job[j].finding \in FindingSet
    BY <2>2 DEF VerifyJob
  <2>4. verdicts' \in [Job -> SUBSET FindingSet]
    BY <2>3 DEF EndVerify, ReportsTypeOK
  <2> QED BY <2>1, <2>4 DEF EndVerify, ReportsTypeOK
<1>2. FreshUntilMirrored'
  BY DEF EndVerify, Move, ReportsTypeOK, FreshUntilMirrored, AbsentUntilMinted, Fresh, Verifies, AuditJob, VerifyJob, Terminal
<1>3. AbsentUntilMinted'
  BY DEF EndVerify, Move, ReportsTypeOK, AbsentUntilMinted, NoRecord, Terminal
<1>4. Agree'
  <2>1. \A s \in stories' : Stored(s.source)' => Names(s)'
    BY DEF EndVerify, Agree, Names, Stored
  <2>2. \A k \in Job : job'[k] \in VerifyJob => /\ job[k] \in VerifyJob
                                               /\ job'[k].source = job[k].source
                                               /\ job'[k].finding = job[k].finding
    BY DEF EndVerify, Move, ReportsTypeOK, AuditJob, VerifyJob, NoRecord
  <2>3. \A k \in Job : job'[k] \in VerifyJob /\ Stored(job'[k].source) =>
                          job'[k].finding \in Findings(mirror[job'[k].source].result)
    <3> SUFFICES ASSUME NEW k \in Job, job'[k] \in VerifyJob, Stored(job'[k].source)
                 PROVE  job'[k].finding \in Findings(mirror[job'[k].source].result)
      OBVIOUS
    <3>1. job[k].finding \in Findings(mirror[job[k].source].result)
      BY <2>2 DEF Agree
    <3> QED BY <2>2, <3>1
  <2>4. \A k \in Job : Stored(k) => verdicts'[k] \subseteq Findings(mirror[k].result)
    <3> SUFFICES ASSUME NEW k \in Job, Stored(k)
                 PROVE  verdicts'[k] \subseteq Findings(mirror[k].result)
      OBVIOUS
    <3>1. verdicts[k] \subseteq Findings(mirror[k].result)
      BY DEF Agree
    <3>2. job[j] \in VerifyJob
      BY DEF EndVerify, Move, ReportsTypeOK, AuditJob, NoRecord
    <3>3. job[j].source = k => job[j].finding \in Findings(mirror[k].result)
      BY <3>2 DEF Agree
    <3>4. verdicts'[k] \subseteq verdicts[k] \union {job[j].finding} /\
          (verdicts'[k] = verdicts[k] \/ job[j].source = k)
      BY DEF EndVerify, ReportsTypeOK
    <3> QED BY <3>1, <3>3, <3>4
  <2>5. mirror' = mirror
    BY DEF EndVerify
  <2> QED BY <2>1, <2>3, <2>4, <2>5 DEF Agree, Stored
<1>5. Marked'
  BY DEF EndVerify, Move, ReportsTypeOK, Marked, FreshUntilMirrored, Fresh, AuditJob, VerifyJob
<1> QED BY <1>1, <1>2, <1>3, <1>4, <1>5

LEMMA MakeStoriesKeeps ==
    ASSUME ReportsInv, NEW j \in Job, MakeStories(j) PROVE ReportsInv'
<1> USE Kinds DEF ReportsInv
<1>1. /\ stories' = Merged(mirror[j].result, j)
      /\ UNCHANGED <<mirror, verdicts, minted>>
  BY DEF MakeStories
<1>2. \A s \in stories' : s \in stories \/ (IsStory(s) /\ s.source = j /\ Names(s))
  <2> SUFFICES ASSUME NEW s \in Merged(mirror[j].result, j), s \notin stories
               PROVE  IsStory(s) /\ s.source = j /\ Names(s)
    BY <1>1
  <2>1. IsStory(s) /\ s.source = j /\ Leads(mirror[j].result, s)
    BY MergedNames
  <2> QED BY <2>1 DEF Names
<1>3. /\ \A k \in Job : job'[k] \in VerifyJob => /\ job[k] \in VerifyJob
                                                 /\ job'[k].source = job[k].source
                                                 /\ job'[k].finding = job[k].finding
      /\ job' \in [Job -> {NoRecord} \union AuditJob \union VerifyJob]
  BY DEF MakeStories, ReportsTypeOK
<1>4. ReportsTypeOK'
  BY <1>1, <1>2, <1>3 DEF ReportsTypeOK, IsStory
<1>5. ~Fresh(j) /\ ~(j > minted) /\ ~(job'[j] \in AuditJob /\ job'[j].st \in {"queued", "running"})
  <2>1. Stored(j) /\ job' = job
    BY DEF MakeStories
  <2> QED BY <2>1 DEF Stored, Fresh, FreshUntilMirrored
<1>6. \A k \in Job : k # j /\ Fresh(k) => Fresh(k)'
  BY <1>1, <1>2, <1>3 DEF Fresh, Verifies
<1>7. \A k \in Job : k # j => job'[k] = job[k]
  BY DEF MakeStories, Move, ReportsTypeOK
<1>8. FreshUntilMirrored'
  BY <1>1, <1>5, <1>6, <1>7 DEF FreshUntilMirrored
<1>9. AbsentUntilMinted'
  BY <1>1, <1>5, <1>7 DEF AbsentUntilMinted
<1>10. Agree'
  BY <1>1, <1>2, <1>3 DEF Agree, Names, Stored
<1>11. Marked'
  BY <1>1, <1>3, <1>7 DEF MakeStories, Move, ReportsTypeOK, Marked, AuditJob, VerifyJob
<1> QED BY <1>4, <1>8, <1>9, <1>10, <1>11

LEMMA ArchiveKeeps ==
    ASSUME ReportsInv, NEW j \in Job, Archive(j) PROVE ReportsInv'
<1> USE Kinds DEF ReportsInv
<1>1. ReportsTypeOK'
  BY ReportsAssumption DEF Archive, ReportsTypeOK, AuditJob, VerifyJob, NoRecord, Terminal
<1>2. FreshUntilMirrored'
  BY DEF Archive, ReportsTypeOK, FreshUntilMirrored, AbsentUntilMinted, Fresh, Verifies, AuditJob, VerifyJob, Terminal
<1>3. AbsentUntilMinted'
  BY DEF Archive, ReportsTypeOK, AbsentUntilMinted, NoRecord, Terminal
<1>4. Agree'
  BY DEF Archive, ReportsTypeOK, FreshUntilMirrored, Fresh, Verifies, Agree, Names, Stored, AuditJob, VerifyJob
<1>5. Marked'
  BY DEF Archive, ReportsTypeOK, Marked, FreshUntilMirrored, Fresh, AuditJob, VerifyJob
<1> QED BY <1>1, <1>2, <1>3, <1>4, <1>5

LEMMA UnarchiveKeeps ==
    ASSUME ReportsInv, NEW j \in Job, Unarchive(j) PROVE ReportsInv'
<1> USE Kinds DEF ReportsInv
<1>1. ReportsTypeOK'
  BY ReportsAssumption DEF Unarchive, ReportsTypeOK, AuditJob, VerifyJob, NoRecord, Terminal
<1>2. FreshUntilMirrored'
  BY DEF Unarchive, ReportsTypeOK, FreshUntilMirrored, AbsentUntilMinted, Fresh, Verifies, AuditJob, VerifyJob, Terminal
<1>3. AbsentUntilMinted'
  BY DEF Unarchive, ReportsTypeOK, AbsentUntilMinted, NoRecord, Terminal
<1>4. Agree'
  BY DEF Unarchive, ReportsTypeOK, FreshUntilMirrored, Fresh, Verifies, Agree, Names, Stored, AuditJob, VerifyJob
<1>5. Marked'
  BY DEF Unarchive, ReportsTypeOK, Marked, FreshUntilMirrored, Fresh, AuditJob, VerifyJob
<1> QED BY <1>1, <1>2, <1>3, <1>4, <1>5

LEMMA PurgeJobKeeps ==
    ASSUME ReportsInv, NEW j \in Job, PurgeJob(j) PROVE ReportsInv'
<1> USE Kinds DEF ReportsInv
<1>1. /\ job' = [job EXCEPT ![j] = NoRecord]
      /\ mirror' = [mirror EXCEPT ![j] = Bare] /\ verdicts' = [verdicts EXCEPT ![j] = {}]
      /\ minted' = minted /\ mirror[j].meta = "archived"
  BY DEF PurgeJob
<1>2. \A s \in stories' : \E o \in stories : \E d :
          o.source # j /\ s = [o EXCEPT !.deps = d]
  BY DEF PurgeJob
<1>3. \A s \in stories' : \E o \in stories :
          /\ IsStory(s) /\ o.source # j
          /\ s.source = o.source /\ s.finding = o.finding /\ s.title = o.title
  BY <1>2 DEF ReportsTypeOK, IsStory
<1>4. Bare \in [result : Audits \union {<<>>}, meta : {"none", "plain", "archived"}]
      /\ Bare.result = <<>> /\ Bare.meta = "none"
  BY DEF Bare
<1>5. ReportsTypeOK'
  BY <1>1, <1>3, <1>4 DEF ReportsTypeOK
<1>6. \A k \in Job : Fresh(k) => Fresh(k)'
  BY <1>1, <1>3, <1>4 DEF Fresh, Verifies, ReportsTypeOK
<1>7. FreshUntilMirrored'
  BY <1>1, <1>6 DEF FreshUntilMirrored, ReportsTypeOK
<1>8. AbsentUntilMinted'
  BY <1>1 DEF AbsentUntilMinted, ReportsTypeOK
<1>9. Agree'
  <2>1. \A k \in Job : Stored(k)' => k # j /\ Stored(k) /\ mirror'[k] = mirror[k]
    BY <1>1, <1>4 DEF Stored, ReportsTypeOK
  <2>2. ASSUME NEW s \in stories', Stored(s.source)' PROVE Names(s)'
    <3>1. PICK o \in stories :
              s.source = o.source /\ s.finding = o.finding /\ s.title = o.title
      BY <1>3
    <3>2. mirror'[o.source] = mirror[o.source] /\ Stored(o.source)
      BY <2>1, <2>2, <3>1 DEF ReportsTypeOK, Stored
    <3>3. Leads(mirror[o.source].result, o)
      BY <3>2 DEF Agree, Names
    <3> QED BY <3>1, <3>2, <3>3, LeadsAlike DEF Names
  <2>3. \A k \in Job : Stored(k)' => verdicts'[k] \subseteq Findings(mirror'[k].result)
    BY <1>1, <2>1 DEF Agree, ReportsTypeOK
  <2>4. ASSUME NEW k \in Job, (job[k] \in VerifyJob /\ Stored(job[k].source))'
        PROVE  (job[k].finding \in Findings(mirror[job[k].source].result))'
    <3>1. NoRecord \notin VerifyJob BY DEF NoRecord, VerifyJob, Terminal
    <3>2. job'[k] = job[k] /\ job[k] \in VerifyJob
      BY <1>1, <2>4, <3>1 DEF ReportsTypeOK
    <3>3. job[k].source \in Job BY <3>2 DEF VerifyJob
    <3>4. Stored(job[k].source) /\ mirror'[job[k].source] = mirror[job[k].source]
      BY <2>1, <2>4, <3>2, <3>3 DEF Stored
    <3>5. job[k].finding \in Findings(mirror[job[k].source].result)
      BY <3>2, <3>4 DEF Agree
    <3> QED BY <3>2, <3>4, <3>5
  <2>5. \A k \in Job : (job[k] \in VerifyJob /\ Stored(job[k].source))'
                        => (job[k].finding \in Findings(mirror[job[k].source].result))'
    BY <2>4
  <2> QED BY <2>2, <2>3, <2>5 DEF Agree
<1>10. Marked'
  BY <1>1, <1>4 DEF Marked, ReportsTypeOK
<1> QED BY <1>5, <1>7, <1>8, <1>9, <1>10

-----------------------------------------------------------------------------
LEMMA ReportsStepKeeps ==
    ASSUME ReportsInv, ReportsStep PROVE ReportsInv'
BY SubmitAuditKeeps, SubmitVerifyKeeps, RestartKeeps, CancelJobKeeps, StartJobKeeps,
   FailJobKeeps, MirrorResultKeeps, MirrorMetaKeeps, MergeOwnKeeps, SucceedKeeps,
   EndVerifyKeeps, MakeStoriesKeeps, ArchiveKeeps, UnarchiveKeeps, PurgeJobKeeps
   DEF ReportsStep

LEMMA ReportsStutterKeeps ==
    ASSUME ReportsInv, UNCHANGED reportVars PROVE ReportsInv'
BY DEF reportVars, ReportsInv, ReportsTypeOK, FreshUntilMirrored, AbsentUntilMinted, Agree,
       Marked, Fresh, Verifies, Names, Stored, IsStory

\* The registry, the mirrored results, the verdicts and the stories fit
\* together after every step of every command (dispatch.py, assessment.py).
THEOREM ReportsHold == Spec => []ReportsInv
<1>1. Init => ReportsInv
  BY ReportsInvInit DEF Init
<1>2. ReportsInv /\ [Next]_vars => ReportsInv'
  BY NextReports, ReportsStepKeeps, ReportsStutterKeeps
<1> QED BY <1>1, <1>2, PTL DEF Spec

\* Whatever is served, filed, verified, archived, purged and restarted, the
\* name that a story carries leads to the item it was made of, and that of a
\* verdict to the claim it was given on (assessment.py, list_findings and
\* dict_to_backlog), for any number of jobs, restarts and results, and
\* whatever a model wrote into their items.
THEOREM FindingsAgreeHolds == Spec => []FindingsAgree
<1>1. ReportsInv => FindingsAgree
  BY DEF ReportsInv, Agree, Names, FindingsAgree
<1> QED BY <1>1, ReportsHold, PTL

\* One step: what has answered as succeeded stays, or is purged.
LEMMA SuccessStep ==
    ASSUME ReportsInv, ReportsStep, NEW j \in Job, Answer(j) = "succeeded", Stored(j)
    PROVE  Answer(j)' = "succeeded" \/ (mirror[j].meta = "archived" /\ mirror'[j] = Bare)
<1> USE Kinds
<1>1. mirror[j].meta # "none" /\ (job[j].st = "succeeded" \/ job[j].st = "absent") /\ ~Fresh(j)
  BY DEF Answer, Stored, Fresh, ReportsInv, ReportsTypeOK, Marked
<1>2. \A k \in Job : job[k].st \notin {"absent", "succeeded"} => k # j
  BY <1>1
<1>3. ~(j > minted)
  BY <1>1 DEF ReportsInv, FreshUntilMirrored
<1>4. ASSUME job'[j] = job[j] \/ job'[j] = NoRecord, mirror'[j] = mirror[j]
      PROVE  Answer(j)' = "succeeded"
  BY <1>1, <1>4 DEF Answer, Stored
<1>5. CASE SubmitAudit
  <2>1. PICK r : Register(r) /\ mirror' = mirror
    BY <1>5 DEF SubmitAudit
  <2> QED BY <2>1, <1>3, <1>4, Minting DEF ReportsInv
<1>6. CASE SubmitVerify
  <2>1. PICK r : Register(r) /\ mirror' = mirror
    BY <1>6 DEF SubmitVerify
  <2> QED BY <2>1, <1>3, <1>4, Minting DEF ReportsInv
<1>7. CASE Restart
  BY <1>4, <1>7 DEF Restart
<1>8. ASSUME NEW k \in Job,
             CancelJob(k) \/ StartJob(k) \/ FailJob(k) \/ MergeOwn(k) \/ Succeed(k) \/ EndVerify(k)
      PROVE  Answer(j)' = "succeeded"
  <2>1. k # j
    BY <1>2, <1>8 DEF CancelJob, StartJob, FailJob, MergeOwn, Succeed, EndVerify, Move
  <2>2. job'[j] = job[j] /\ mirror' = mirror
    BY <1>8, <2>1 DEF CancelJob, StartJob, FailJob, MergeOwn, Succeed, EndVerify, Move,
                      ReportsInv, ReportsTypeOK
  <2> QED BY <2>2, <1>4
<1>9. ASSUME NEW k \in Job, MirrorResult(k) \/ MirrorMeta(k)
      PROVE  Answer(j)' = "succeeded"
  <2>1. k # j
    BY <1>2, <1>9 DEF MirrorResult, MirrorMeta, Move
  <2>2. job'[j] = job[j] /\ mirror'[j] = mirror[j]
    BY <1>9, <2>1 DEF MirrorResult, MirrorMeta, Move, ReportsInv, ReportsTypeOK
  <2> QED BY <2>2, <1>4
<1>10. ASSUME NEW k \in Job, MakeStories(k) PROVE Answer(j)' = "succeeded"
  BY <1>4, <1>10 DEF MakeStories
<1>11. ASSUME NEW k \in Job, Archive(k) \/ Unarchive(k) PROVE Answer(j)' = "succeeded"
  <2>1. job' = job /\ mirror'[j].result = mirror[j].result /\ mirror'[j].meta # "none"
    BY <1>1, <1>11 DEF Archive, Unarchive, ReportsInv, ReportsTypeOK
  <2> QED BY <1>1, <2>1 DEF Answer, Stored
<1>12. ASSUME NEW k \in Job, PurgeJob(k)
       PROVE  Answer(j)' = "succeeded" \/ (mirror[j].meta = "archived" /\ mirror'[j] = Bare)
  <2>1. CASE k = j
    BY <1>12, <2>1 DEF PurgeJob, ReportsInv, ReportsTypeOK
  <2>2. CASE k # j
    <3>1. job'[j] = job[j] /\ mirror'[j] = mirror[j]
      BY <1>12, <2>2 DEF PurgeJob, ReportsInv, ReportsTypeOK
    <3> QED BY <3>1, <1>4
  <2> QED BY <2>1, <2>2
<1> QED BY <1>5, <1>6, <1>7, <1>8, <1>9, <1>10, <1>11, <1>12 DEF ReportsStep

\* An audit that was once answered as succeeded is so until it is purged
\* (dispatch.py, disk_status).
THEOREM SuccessSticksHolds == Spec => SuccessSticks
<1> DEFINE Sticks == \A j \in Job : Answer(j) = "succeeded" /\ Stored(j) =>
                        Answer(j)' = "succeeded" \/ (mirror[j].meta = "archived" /\ mirror'[j] = Bare)
<1>1. ReportsInv /\ [Next]_vars => [Sticks]_reportVars
  BY NextReports, SuccessStep
<1> QED BY <1>1, ReportsHold, PTL DEF Spec, SuccessSticks

-----------------------------------------------------------------------------
(* Lists                                                                   *)
(*                                                                         *)
(* What Picked finds is defined by recursion over the length of a list.    *)
(* That it has a value, and of which elements, is shown by induction over  *)
(* the natural numbers, stated for sets.                                   *)

\* A set of natural numbers with 0 and every successor is all of them.
LEMMA SetInduction ==
    ASSUME NEW T \in SUBSET Nat, 0 \in T, \A n \in T : n + 1 \in T
    PROVE  T = Nat
<1> SUFFICES ASSUME NEW k \in Nat \ T PROVE FALSE
  OBVIOUS
<1> DEFINE less == {p \in Nat \X Nat : p[1] < p[2]}
<1>1. IsWellFoundedOn(less, Nat)
  BY NatLessThanWellFounded DEF OpToRel
<1> HIDE DEF less
<1>2. PICK x \in Nat \ T : \A y \in Nat \ T : <<y, x>> \notin less
  BY <1>1, WFMin
<1>3. x # 0 /\ x - 1 \in Nat \ T
  BY <1>2
<1>4. <<x - 1, x>> \in less
  BY <1>3 DEF less
<1> QED
  BY <1>2, <1>3, <1>4

\* What a list has at the first of its places.
Gathers(f, list, places, n) ==
    f = [m \in 0..n |-> IF m = 0 THEN <<>>
                        ELSE IF m \in places THEN Append(f[m-1], list[m])
                        ELSE f[m-1]]

\* The recursion has a solution.
LEMMA GatheringEnds ==
    ASSUME NEW list, NEW places, NEW n \in Nat
    PROVE  \E f : Gathers(f, list, places, n)
<1> DEFINE T == {m \in Nat : \E f : Gathers(f, list, places, m)}
<1>1. 0 \in T
  <2>1. Gathers([m \in 0..0 |-> <<>>], list, places, 0)
    BY DEF Gathers
  <2> QED BY <2>1
<1>2. ASSUME NEW m \in T PROVE m + 1 \in T
  <2>1. PICK f : Gathers(f, list, places, m)
    OBVIOUS
  <2> DEFINE last == IF m + 1 \in places THEN Append(f[m], list[m + 1]) ELSE f[m]
             g == [k \in 0..m + 1 |-> IF k = m + 1 THEN last ELSE f[k]]
  <2>2. ASSUME NEW k \in 0..m + 1
        PROVE  g[k] = IF k = 0 THEN <<>>
                      ELSE IF k \in places THEN Append(g[k-1], list[k])
                      ELSE g[k-1]
    <3>1. CASE k = m + 1
      BY <3>1
    <3>2. CASE k \in 0..m
      <4>1. f[k] = IF k = 0 THEN <<>> ELSE IF k \in places THEN Append(f[k-1], list[k]) ELSE f[k-1]
        BY <2>1, <3>2 DEF Gathers
      <4>2. g[k] = f[k] /\ (k # 0 => g[k-1] = f[k-1])
        BY <3>2
      <4> QED BY <4>1, <4>2
    <3> QED BY <3>1, <3>2
  <2>3. Gathers(g, list, places, m + 1)
    BY <2>2 DEF Gathers
  <2> QED BY <2>3
<1> HIDE DEF T
<1>3. T = Nat
  BY <1>1, <1>2, SetInduction, Zenon DEF T
<1> QED BY <1>3 DEF T

\* A list with one more element.
LEMMA AppendRange ==
    ASSUME NEW S, NEW list \in Seq(S), NEW x
    PROVE  Range(Append(list, x)) = Range(list) \union {x}
<1> DEFINE more == Append(list, x)
           n == Len(list)
<1>1. /\ n \in Nat /\ DOMAIN list = 1..n /\ DOMAIN more = 1..n + 1
      /\ more[n + 1] = x /\ \A i \in 1..n : more[i] = list[i]
  OBVIOUS
<1> HIDE DEF more, n
<1>2. 1..n + 1 = 1..n \union {n + 1}
  BY <1>1
<1>3. Range(more) = {more[i] : i \in 1..n} \union {more[n + 1]}
  BY <1>1, <1>2 DEF Range
<1>4. Range(list) = {more[i] : i \in 1..n}
  BY <1>1 DEF Range
<1> QED BY <1>1, <1>3, <1>4 DEF more

\* The elements picked are those at the places.
LEMMA PickedRange ==
    ASSUME NEW S, NEW list \in Seq(S), NEW places
    PROVE  /\ Picked(list, places) \in Seq(S)
           /\ Range(Picked(list, places)) = {list[i] : i \in places \cap DOMAIN list}
<1> DEFINE N == Len(list)
<1>0. N \in Nat /\ DOMAIN list = 1..N
  OBVIOUS
<1>n. N = Len(list)
  OBVIOUS
<1> HIDE DEF N
<1>1. PICK f : Gathers(f, list, places, N) /\ Picked(list, places) = f[N]
  <2>1. \E f : f = [m \in 0..N |-> IF m = 0 THEN <<>>
                                   ELSE IF m \in places THEN Append(f[m-1], list[m])
                                   ELSE f[m-1]]
    <3>1. \E f : Gathers(f, list, places, N)
      BY <1>0, GatheringEnds, Zenon
    <3> QED BY <3>1 DEF Gathers
  <2> QED BY <1>n, <2>1 DEF Gathers, Picked
<1> DEFINE Right(m) == /\ f[m] \in Seq(S)
                       /\ Range(f[m]) = {list[i] : i \in places \cap (1..m)}
           T == {m \in Nat : m <= N => Right(m)}
<1>2. 0 \in T
  <2>1. f[0] = <<>>
    BY <1>0, <1>1 DEF Gathers
  <2>2. <<>> \in Seq(S) /\ Range(<<>>) = {} /\ places \cap (1..0) = {}
    BY DEF Range
  <2> QED BY <2>1, <2>2
<1>3. ASSUME NEW m \in T PROVE m + 1 \in T
  <2> SUFFICES ASSUME m + 1 <= N PROVE Right(m + 1)
    OBVIOUS
  <2>1. Right(m) /\ m \in Nat /\ m + 1 \in DOMAIN list
    BY <1>0
  <2>2. f[m + 1] = IF m + 1 \in places THEN Append(f[m], list[m + 1]) ELSE f[m]
    <3>1. m + 1 \in 0..N /\ m + 1 # 0 /\ (m + 1) - 1 = m
      BY <1>0, <2>1
    <3>2. \A k \in 0..N : f[k] = IF k = 0 THEN <<>>
                               ELSE IF k \in places THEN Append(f[k-1], list[k])
                               ELSE f[k-1]
      BY <1>1 DEF Gathers
    <3> QED BY <3>1, <3>2
  <2>3. CASE m + 1 \in places
    <3>1. 1..m + 1 = 1..m \union {m + 1}
      BY <2>1
    <3>2. Range(Append(f[m], list[m + 1])) = Range(f[m]) \union {list[m + 1]}
      BY <2>1, AppendRange
    <3> QED BY <2>1, <2>2, <2>3, <3>1, <3>2
  <2>4. CASE m + 1 \notin places
    <3>1. places \cap (1..m + 1) = places \cap (1..m)
      BY <2>1, <2>4
    <3> QED BY <2>1, <2>2, <2>4, <3>1
  <2> QED BY <2>3, <2>4
<1> HIDE DEF T
<1>4. T = Nat
  BY <1>2, <1>3, SetInduction, Zenon DEF T
<1>5. Right(N)
  <2>1. N \in T /\ N <= N
    BY <1>0, <1>4
  <2> QED BY <2>1 DEF T
<1> QED BY <1>0, <1>1, <1>5

\* Elements and lengths of lists.
LEMMA ListsAre ==
    ASSUME NEW s, IsList(s)
    PROVE  /\ s \in Seq(Range(s)) /\ Len(s) \in Nat /\ DOMAIN s = 1..Len(s)
           /\ \A i \in DOMAIN s : s[i] \in Range(s)
           /\ \A x \in Range(s) : \E i \in DOMAIN s : s[i] = x
BY DEF IsList, Range

\* Sequences are lists of their own elements, and so are functions on 1..n.
LEMMA SeqIsList == ASSUME NEW S, NEW s \in Seq(S) PROVE IsList(s)
<1>1. DOMAIN s = 1..Len(s) /\ Len(s) \in Nat /\ \A i \in 1..Len(s) : s[i] \in Range(s)
  BY DEF Range
<1>2. s = [i \in 1..Len(s) |-> s[i]]
  OBVIOUS
<1> QED BY <1>1, <1>2 DEF IsList

LEMMA FunctionIsList ==
    ASSUME NEW n \in Nat, NEW f, f = [i \in 1..n |-> f[i]]
    PROVE  IsList(f) /\ Len(f) = n
<1>1. \A i \in 1..n : f[i] \in Range(f)
  BY DEF Range
<1>2. f \in Seq(Range(f))
  BY <1>1
<1> QED BY <1>2 DEF IsList

\* Two lists, one after the other.
LEMMA JoinedList ==
    ASSUME NEW s, IsList(s), NEW t, IsList(t)
    PROVE  IsList(s \o t) /\ Range(s \o t) = Range(s) \union Range(t)
<1> DEFINE m == Len(s)
           n == Len(t)
           j == s \o t
<1>1. m \in Nat /\ n \in Nat /\ DOMAIN s = 1..m /\ DOMAIN t = 1..n
  BY ListsAre
<1>2. j = [i \in 1..m + n |-> IF i <= m THEN s[i] ELSE t[i - m]]
  <2> DEFINE S == Range(s) \union Range(t)
  <2>1. s \in Seq(S)
    <3>1. s \in [1..m -> S]
      BY <1>1, ListsAre
    <3> HIDE DEF S, m
    <3> QED BY <1>1, <3>1
  <2>2. t \in Seq(S)
    <3>1. t \in [1..n -> S]
      BY <1>1, ListsAre
    <3> HIDE DEF S, n
    <3> QED BY <1>1, <3>1
  <2> HIDE DEF S
  <2>3. /\ j \in Seq(S) /\ Len(j) = m + n
        /\ \A i \in 1..m + n : j[i] = IF i <= m THEN s[i] ELSE t[i - m]
    BY <2>1, <2>2
  <2> HIDE DEF j
  <2> QED BY <1>1, <2>3
<1> HIDE DEF m, n, j
<1>3. IsList(j)
  <2>1. j = [i \in 1..m + n |-> j[i]]
    BY <1>2
  <2> QED BY <1>1, <2>1, FunctionIsList
<1>4. \A i \in 1..m : i \in 1..m + n /\ j[i] = s[i]
  BY <1>1, <1>2
<1>5. \A i \in 1..n : i + m \in 1..m + n /\ j[i + m] = t[i]
  BY <1>1, <1>2
<1>6. \A i \in 1..m + n : i \in 1..m \/ (i - m \in 1..n /\ j[i] = t[i - m])
  BY <1>1, <1>2
<1>7. DOMAIN j = 1..m + n
  BY <1>2
<1>8. Range(j) = Range(s) \union Range(t)
  <2>1. Range(s) = {s[i] : i \in 1..m} /\ Range(t) = {t[i] : i \in 1..n}
        /\ Range(j) = {j[i] : i \in 1..m + n}
    BY <1>1, <1>7 DEF Range
  <2>2. Range(j) \subseteq Range(s) \union Range(t)
    BY <2>1, <1>4, <1>6
  <2>3. Range(s) \subseteq Range(j) /\ Range(t) \subseteq Range(j)
    BY <2>1, <1>4, <1>5
  <2> QED BY <2>2, <2>3
<1> QED BY <1>3, <1>8 DEF j

\* Of a list, places of which are picked.
LEMMA PickedList ==
    ASSUME NEW list, IsList(list), NEW places
    PROVE  /\ IsList(Picked(list, places))
           /\ Range(Picked(list, places)) = {list[i] : i \in places \cap DOMAIN list}
           /\ Range(Picked(list, places)) \subseteq Range(list)
<1>1. list \in Seq(Range(list))
  BY DEF IsList
<1>2. /\ Picked(list, places) \in Seq(Range(list))
      /\ Range(Picked(list, places)) = {list[i] : i \in places \cap DOMAIN list}
  BY <1>1, PickedRange
<1> QED BY <1>2, SeqIsList DEF Range

\* A set of natural numbers that is not empty has a first one.
LEMMA FirstOf ==
    ASSUME NEW T \in SUBSET Nat, NEW k \in T
    PROVE  \E x \in T : \A y \in T : x <= y
<1> DEFINE U == {n \in Nat : \A m \in 0..n : m \notin T}
<1> SUFFICES ASSUME \A x \in T : \E y \in T : y < x PROVE FALSE
  OBVIOUS
<1>1. 0 \in U
  OBVIOUS
<1>2. ASSUME NEW n \in U PROVE n + 1 \in U
  <2>1. n + 1 \notin T
    OBVIOUS
  <2> QED BY <2>1
<1>3. U = Nat
  <2> HIDE DEF U
  <2> QED BY <1>1, <1>2, SetInduction, Zenon DEF U
<1> QED BY <1>3

\* What is added comes from the list given, every element of which is then
\* there, itself or another that is the same.
LEMMA Added ==
    ASSUME NEW list, IsList(list), NEW new, IsList(new)
    PROVE  /\ IsList(AddAll(list, new))
           /\ Range(list) \subseteq Range(AddAll(list, new))
           /\ Range(AddAll(list, new)) \subseteq Range(list) \union Range(new)
           /\ \A s \in Range(new) : \E d \in Range(AddAll(list, new)) : Same(d, s)
<1> DEFINE more == Picked(new, Unlisted(list, new))
<1>1. /\ IsList(more) /\ Range(more) \subseteq Range(new)
      /\ Range(more) = {new[i] : i \in Unlisted(list, new) \cap DOMAIN new}
  BY PickedList
<1>2. AddAll(list, new) = list \o more
  BY DEF AddAll
<1> HIDE DEF more
<1>3. /\ IsList(AddAll(list, new))
      /\ Range(AddAll(list, new)) = Range(list) \union Range(more)
  BY <1>1, <1>2, JoinedList
<1>4. ASSUME NEW s \in Range(new), \A d \in Range(list) : ~Same(d, s)
      PROVE  \E d \in Range(more) : Same(d, s)
  <2>1. PICK i \in DOMAIN new : new[i] = s
    BY ListsAre
  <2> DEFINE T == {j \in DOMAIN new : Same(new[j], s)}
  <2>2. T \in SUBSET Nat /\ i \in T /\ DOMAIN new = 1..Len(new)
    BY <2>1, ListsAre DEF Same
  <2>3. PICK j \in T : \A k \in T : j <= k
    BY <2>2, FirstOf
  <2>4. j \in Unlisted(list, new)
    <3>1. \A k \in 1..j-1 : k \in DOMAIN new /\ k < j
      BY <2>2
    <3>2. \A k \in 1..j-1 : ~Same(new[k], new[j])
      BY <2>2, <2>3, <3>1 DEF Same
    <3>3. \A d \in Range(list) : ~Same(d, new[j])
      BY <1>4 DEF Same
    <3> QED BY <3>2, <3>3 DEF Unlisted
  <2>5. new[j] \in Range(more) /\ Same(new[j], s)
    BY <1>1, <2>4
  <2> QED BY <2>5
<1> QED BY <1>1, <1>3, <1>4

-----------------------------------------------------------------------------
(* The scans before an audit                                               *)
(*                                                                         *)
(* The invariant follows the list of dependencies from file to file: every *)
(* entry is there because a file says so, and every pin of a file that was *)
(* read is there, of a table of groups once the walk of it is done.        *)

\* What is in the list.
Noted(s) == \E d \in Range(scan.deps) : Same(d, s)

\* What a file pins itself, and what a group of a pyproject.toml pins.
PinForms(name) == Exact(name) \intersect Naming(name)
OwnPins(f) == {Reading(f.file, s) : s \in {s \in Range(f.specs) : s.form \in PinForms(f.file)}}
PinsOf(g) == {Reading("pyproject.toml", e) :
                 e \in {e \in Range(g.entries) : /\ e.include = ""
                                                 /\ e.form \in PinForms("pyproject.toml")}}

\* A group of which nothing is missing from the list.
GroupNoted(g) == \A s \in PinsOf(g) : Noted(s)

\* Until all files are read.
Collecting ==
    /\ scan = [NoScan EXCEPT !.deps = scan.deps] /\ terms = NoTerms
    /\ pos \in 1..Len(tree) + 1
    /\ ~walk.cut => \A i \in DOMAIN tree : i < pos /\ Clean(tree[i]) =>
                        \A s \in Pins(tree[i]) : Noted(s)

\* A group is still to come, is at the bottom of a path on the stack, or is in
\* the list, unless the bound is reached, at which the walk will be cut.
Expanding ==
    /\ pos \in DOMAIN tree /\ Clean(tree[pos]) /\ walk.count \in 0..MaxExpansions
    /\ IsList(walk.left) /\ IsList(walk.stack)
    /\ tree[pos].file = "pyproject.toml" /\ \A s \in OwnPins(tree[pos]) : Noted(s)
    /\ ~CapReached => \A g \in Range(tree[pos].groups) :
          \/ g \in Range(walk.left)
          \/ [name |-> g.name, path |-> {}] \in Range(walk.stack)
          \/ GroupNoted(g)

\* A pin is in the list or was superseded.
Collected ==
    /\ terms = NoTerms
    /\ ~walk.cut => \A s \in Pinned : Noted(s) \/ Shadowed(s)

\* What the advisories say, if they are all there.
OsvAnswered ==
    /\ scan.found \subseteq Range(scan.deps)
    /\ ~scan.queried => scan.found = {}
    /\ scan.queried /\ scan.truncated = 0 =>
          \A i \in DOMAIN scan.deps : scan.osv[i] = "advisory" => scan.deps[i] \in scan.found

ScanInv ==
    /\ at \notin ScanPlaces => scan = NoScan /\ walk = NoWalk /\ terms = NoTerms
    /\ at \in {"manifests", "groups", "osv", "runtimes"} =>
          /\ tree \in Trees /\ IsList(scan.deps) /\ Range(scan.deps) \subseteq Said
          /\ walk = [left |-> walk.left, stack |-> walk.stack, count |-> walk.count,
                     cut |-> walk.cut]
          /\ scan = [deps |-> scan.deps, osv |-> scan.osv, found |-> scan.found,
                     queried |-> scan.queried, truncated |-> scan.truncated]
    /\ at \in {"manifests", "groups"} => Collecting
    /\ at = "groups" => Expanding
    /\ at \in {"osv", "runtimes"} => Collected
    /\ at = "osv" => scan.found = {} /\ ~scan.queried
    /\ at = "runtimes" => OsvAnswered
    /\ at \in {"endoflife", "terms"} => scan = NoScan
    /\ at = "endoflife" => /\ IsList(terms.status)
                           /\ terms = [runtimes |-> terms.runtimes, status |-> terms.status,
                                       queried |-> FALSE]
    /\ at = "terms" /\ ~terms.queried => \A i \in DOMAIN terms.status : terms.status[i] = "unknown"

\* This is what the run asks of the scans.
LEMMA ScanIsHonest == ScanInv => HonestScan
<1> SUFFICES ASSUME ScanInv PROVE HonestScan
  OBVIOUS
<1>1. CASE at = "runtimes"
  <2> USE DEF ScanInv
  <2>1. ASSUME Whole, ~walk.cut, NEW s \in Pinned PROVE Reported(s) \/ Shadowed(s)
    <3>1. Noted(s) \/ Shadowed(s)
      BY <1>1, <2>1 DEF Collected
    <3>2. ASSUME Noted(s) PROVE Reported(s)
      BY <1>1, <2>1, <3>2, ListsAre DEF Noted, OsvAnswered, Reported, Whole
    <3> QED BY <3>1, <3>2
  <2>2. scan.found \subseteq Said
    BY <1>1 DEF OsvAnswered
  <2> QED BY <1>1, <2>1, <2>2 DEF OsvAnswered, HonestScan
<1>2. CASE at = "osv"
  BY <1>2 DEF ScanInv, HonestScan, Whole
<1>3. CASE at \in {"manifests", "groups"}
  BY <1>3 DEF ScanInv, HonestScan, Whole, Collecting, NoScan
<1>4. CASE at \in {"endoflife", "terms"} \/ at \notin ScanPlaces
  BY <1>4 DEF ScanInv, HonestScan, Whole, NoScan, ScanPlaces
<1> QED BY <1>1, <1>2, <1>3, <1>4 DEF ScanPlaces

\* The list of nothing.
LEMMA EmptyList == IsList(<<>>) /\ Range(<<>>) = {} /\ Len(<<>>) = 0 /\ DOMAIN <<>> = {}
<1>1. <<>> \in Seq({}) /\ Range(<<>>) = {}
  BY DEF Range
<1> QED BY <1>1 DEF IsList

\* What is read of specifications.
LEMMA ReadingsAre ==
    ASSUME NEW specs, IsList(specs), NEW name
    PROVE  /\ IsList(Readings(name, specs))
           /\ Range(Readings(name, specs)) =
                 {Reading(name, s) : s \in {s \in Range(specs) : s.form \in Takes(name)}}
<1> DEFINE places == {i \in DOMAIN specs : specs[i].form \in Takes(name)}
           taken == Picked(specs, places)
           read == [i \in DOMAIN taken |-> Reading(name, taken[i])]
<1>1. IsList(taken) /\ Range(taken) = {specs[i] : i \in places \cap DOMAIN specs}
  BY PickedList
<1>2. Range(taken) = {s \in Range(specs) : s.form \in Takes(name)}
  BY <1>1 DEF Range
<1>3. Readings(name, specs) = read
  BY DEF Readings
<1> HIDE DEF taken
<1>4. DOMAIN taken = 1..Len(taken) /\ Len(taken) \in Nat
  BY <1>1, ListsAre
<1>5. IsList(read)
  <2>1. read = [i \in 1..Len(taken) |-> read[i]]
    BY <1>4
  <2> HIDE DEF read
  <2> QED BY <1>4, <2>1, FunctionIsList
<1>6. Range(read) = {Reading(name, s) : s \in Range(taken)}
  BY DEF Range
<1> QED BY <1>2, <1>3, <1>5, <1>6

\* What is a pin is taken.
LEMMA PinsAreTaken == \A name : PinForms(name) \subseteq Takes(name)
BY DEF PinForms, Takes

\* What is read of a file.
LEMMA ParsedFacts ==
    ASSUME NEW f, IsFile(f)
    PROVE  /\ IsList(Parsed(f))
           /\ ~Clean(f) => Range(Parsed(f)) = {}
           /\ Range(Parsed(f)) \subseteq Says(f)
           /\ Clean(f) => OwnPins(f) \subseteq Range(Parsed(f))
<1>1. CASE ~Clean(f)
  <2>1. Parsed(f) = <<>>
    BY <1>1 DEF Parsed, Clean
  <2> QED BY <1>1, <2>1, EmptyList
<1>2. CASE Clean(f)
  <2>1. Parsed(f) = Readings(f.file, f.specs) /\ IsList(f.specs)
    BY <1>2 DEF Parsed, Clean, IsFile
  <2>2. /\ IsList(Parsed(f))
        /\ Range(Parsed(f)) = {Reading(f.file, s) :
                                  s \in {s \in Range(f.specs) : s.form \in Takes(f.file)}}
    BY <2>1, ReadingsAre
  <2>3. OwnPins(f) \subseteq Range(Parsed(f))
    BY <2>2, PinsAreTaken DEF OwnPins
  <2>4. Range(Parsed(f)) \subseteq Says(f)
    BY <2>2 DEF Says, Specs
  <2> QED BY <1>2, <2>2, <2>3, <2>4
<1> QED BY <1>1, <1>2

\* The files of a tree.
LEMMA TreeFacts ==
    ASSUME tree \in Trees
    PROVE  /\ IsList(tree) /\ Len(tree) \in Nat /\ DOMAIN tree = 1..Len(tree)
           /\ \A i \in DOMAIN tree : IsFile(tree[i]) /\ tree[i] \in Range(tree)
           /\ Pinned = UNION {Pins(tree[i]) : i \in {i \in DOMAIN tree : Clean(tree[i])}}
           /\ \A i \in DOMAIN tree : Clean(tree[i]) => Says(tree[i]) \subseteq Said
<1>1. IsList(tree) /\ \A f \in Range(tree) : IsFile(f)
  BY TreesAssumption
<1>2. \A i \in DOMAIN tree : tree[i] \in Range(tree)
  BY DEF Range
<1>3. CleanFiles = {tree[i] : i \in {i \in DOMAIN tree : Clean(tree[i])}}
  BY DEF CleanFiles, Range
<1>4. Pinned = UNION {Pins(tree[i]) : i \in {i \in DOMAIN tree : Clean(tree[i])}}
  BY <1>3 DEF Pinned
<1>5. \A i \in DOMAIN tree : Clean(tree[i]) => Says(tree[i]) \subseteq Said
  BY <1>3 DEF Said
<1> QED BY <1>1, <1>2, <1>4, <1>5, ListsAre

\* What a file pins, it pins itself or in a group.
LEMMA PinsAre ==
    ASSUME NEW f, IsFile(f), NEW s \in Pins(f)
    PROVE  s \in OwnPins(f) \/ \E g \in Range(f.groups) : s \in PinsOf(g)
<1>1. PICK e \in Specs(f) : e.form \in PinForms(f.file) /\ s = Reading(f.file, e)
  BY DEF Pins, PinForms
<1>2. CASE e \in Range(f.specs)
  BY <1>1, <1>2 DEF OwnPins
<1>3. ASSUME NEW g \in Range(f.groups), e \in Range(g.entries), e.include = ""
      PROVE  s \in PinsOf(g)
  <2>1. f.file = "pyproject.toml"
    BY <1>3, EmptyList DEF IsFile
  <2> QED BY <1>1, <1>3, <2>1 DEF PinsOf
<1> QED BY <1>1, <1>2, <1>3 DEF Specs

\* Adding what is read of a file or a group.
LEMMA AddingKeeps ==
    ASSUME ScanInv, at \in {"manifests", "groups"}, UNCHANGED tree,
           NEW new, IsList(new), Range(new) \subseteq Said,
           scan' = [scan EXCEPT !.deps = AddAll(scan.deps, new)]
    PROVE  /\ IsList(scan'.deps) /\ Range(scan'.deps) \subseteq Said'
           /\ scan' = [NoScan EXCEPT !.deps = scan'.deps]
           /\ scan' = [deps |-> scan'.deps, osv |-> scan'.osv, found |-> scan'.found,
                       queried |-> scan'.queried, truncated |-> scan'.truncated]
           /\ \A s : Noted(s) => Noted(s)'
           /\ \A s \in Range(new) : Noted(s)'
<1>1. /\ scan = [NoScan EXCEPT !.deps = scan.deps] /\ IsList(scan.deps)
      /\ Range(scan.deps) \subseteq Said
  BY DEF ScanInv, Collecting
<1>2. scan' = [NoScan EXCEPT !.deps = AddAll(scan.deps, new)]
  BY <1>1 DEF NoScan
<1>3. scan'.deps = AddAll(scan.deps, new) /\ scan' = [NoScan EXCEPT !.deps = scan'.deps]
      /\ scan' = [deps |-> scan'.deps, osv |-> scan'.osv, found |-> scan'.found,
                       queried |-> scan'.queried, truncated |-> scan'.truncated]
  BY <1>2 DEF NoScan
<1>4. /\ IsList(scan'.deps) /\ Range(scan.deps) \subseteq Range(scan'.deps)
      /\ Range(scan'.deps) \subseteq Range(scan.deps) \union Range(new)
      /\ \A s \in Range(new) : \E d \in Range(scan'.deps) : Same(d, s)
  BY <1>1, <1>3, Added
<1>5. Said' = Said
  BY DEF Said, CleanFiles
<1>6. Range(scan'.deps) \subseteq Said'
  BY <1>1, <1>4, <1>5
<1> QED BY <1>3, <1>4, <1>6 DEF Noted

\* The scan begins, of a tree that is a list of files.
LEMMA BeginKeeps == ASSUME ScanInv, BeginScan PROVE ScanInv'
<1>1. /\ at' = "manifests" /\ tree' \in Trees /\ pos' = 1
      /\ scan' = NoScan /\ walk' = NoWalk /\ terms' = NoTerms
  BY DEF BeginScan, Goto, ScanInv, ScanPlaces
<1>2. Len(tree') \in Nat /\ DOMAIN tree' = 1..Len(tree')
  BY <1>1, TreesAssumption, ListsAre
<1>3. Collecting'
  BY <1>1, <1>2 DEF Collecting, NoScan
<1> QED BY <1>1, <1>3, EmptyList DEF ScanInv, ScanPlaces, NoScan, NoWalk

\* A file is read.
LEMMA ManifestKeeps == ASSUME ScanInv, ReadManifest PROVE ScanInv'
<1> DEFINE f == tree[pos]
<1>1. /\ at = "manifests" /\ tree \in Trees /\ pos \in DOMAIN tree /\ tree' = tree
      /\ Collecting /\ terms' = terms
      /\ walk = [left |-> walk.left, stack |-> walk.stack, count |-> walk.count,
                 cut |-> walk.cut]
  BY TreeFacts DEF ReadManifest, ScanInv, Collecting
<1>2. IsFile(f) /\ f \in Range(tree) /\ Len(tree) \in Nat /\ DOMAIN tree = 1..Len(tree)
  BY <1>1, TreeFacts
<1>3. Range(Parsed(f)) \subseteq Said
  BY <1>1, <1>2, ParsedFacts, TreeFacts
<1>4. /\ IsList(scan'.deps) /\ Range(scan'.deps) \subseteq Said'
      /\ scan' = [NoScan EXCEPT !.deps = scan'.deps]
      /\ scan' = [deps |-> scan'.deps, osv |-> scan'.osv, found |-> scan'.found,
                       queried |-> scan'.queried, truncated |-> scan'.truncated]
      /\ \A s : Noted(s) => Noted(s)'
      /\ \A s \in Range(Parsed(f)) : Noted(s)'
  <2>1. scan' = [scan EXCEPT !.deps = AddAll(scan.deps, Parsed(f))]
    BY DEF ReadManifest
  <2>2. IsList(Parsed(f))
    BY <1>2, ParsedFacts
  <2> QED BY <1>1, <1>3, <2>1, <2>2, AddingKeeps
<1>5. Clean(f) => \A s \in OwnPins(f) : Noted(s)'
  BY <1>2, <1>4, ParsedFacts
<1>6. CASE f.file = "pyproject.toml" /\ f.state = "sound"
  <2>1. /\ walk' = [walk EXCEPT !.left = f.groups, !.stack = <<>>, !.count = 0]
        /\ at' = "groups" /\ pos' = pos
    BY <1>6 DEF ReadManifest, Goto
  <2>2. walk' = [left |-> f.groups, stack |-> <<>>, count |-> 0, cut |-> walk.cut]
    BY <1>1, <2>1
  <2>3. Collecting'
    BY <1>1, <1>4, <2>1, <2>2 DEF Collecting
  <2>4. Clean(f)
    BY <1>6 DEF Clean, Recognised, PythonPins
  <2>5. Expanding'
    <3>1. pos \in DOMAIN tree /\ IsList(f.groups) /\ 0 \in 0..MaxExpansions
      BY <1>1, <1>2, ScanAssumption DEF IsFile
    <3>2. \A s \in OwnPins(f) : Noted(s)'
      BY <1>5, <2>4
    <3> QED BY <1>1, <1>6, <2>1, <2>2, <2>4, <3>1, <3>2, EmptyList DEF Expanding
  <2> QED BY <1>1, <1>4, <2>1, <2>2, <2>3, <2>5 DEF ScanInv, ScanPlaces
<1>7. CASE ~(f.file = "pyproject.toml" /\ f.state = "sound")
  <2>1. walk' = walk /\ at' = "manifests" /\ pos' = pos + 1
    BY <1>1, <1>7 DEF ReadManifest
  <2>2. ASSUME Clean(f), NEW s \in Pins(f) PROVE Noted(s)'
    <3>1. f.groups = <<>>
      BY <1>2, <1>7, <2>2 DEF Clean, IsFile
    <3> QED BY <1>2, <1>5, <2>2, <3>1, PinsAre, EmptyList
  <2>3. Collecting'
    <3>1. ASSUME ~walk.cut, NEW i \in DOMAIN tree, i < pos + 1, Clean(tree[i]),
                 NEW s \in Pins(tree[i])
          PROVE  Noted(s)'
      <4>1. CASE i = pos
        BY <2>2, <3>1, <4>1
      <4>2. CASE i < pos
        BY <1>1, <1>4, <3>1, <4>2 DEF Collecting
      <4> QED BY <1>1, <1>2, <3>1, <4>1, <4>2
    <3>2. (\A i \in DOMAIN tree : i < pos + 1 /\ Clean(tree[i]) =>
              \A s \in Pins(tree[i]) : Noted(s)') \/ walk.cut
      BY <3>1
    <3> QED BY <1>1, <1>2, <1>4, <2>1, <3>2 DEF Collecting
  <2> QED BY <1>1, <1>4, <2>1, <2>3 DEF ScanInv, ScanPlaces
<1> QED BY <1>6, <1>7

\* The rest of a list.
LEMMA TailFacts ==
    ASSUME NEW list, IsList(list), list # <<>>
    PROVE  /\ IsList(Tail(list))
           /\ \A x \in Range(list) : x = Head(list) \/ x \in Range(Tail(list))
<1>1. PICK S : list \in Seq(S)
  BY DEF IsList
<1> DEFINE rest == Tail(list)
           n == Len(list)
<1>2. n \in Nat \ {0}
  <2>1. list = [i \in 1..n |-> list[i]] /\ n \in Nat
    BY <1>1
  <2>2. n = 0 => list = [i \in {} |-> list[i]]
    BY <2>1
  <2> HIDE DEF n
  <2> QED BY <2>1, <2>2
<1>3. /\ rest \in Seq(S) /\ Len(rest) = n - 1 /\ Head(list) = list[1]
      /\ \A i \in 1..n - 1 : rest[i] = list[i + 1]
  BY <1>1, HeadTailProperties
<1>4. DOMAIN rest = 1..n - 1 /\ DOMAIN list = 1..n
  BY <1>1, <1>3
<1> HIDE DEF rest, n
<1>5. ASSUME NEW i \in 1..n PROVE list[i] = Head(list) \/ list[i] \in Range(rest)
  <2>1. CASE i = 1
    BY <1>3, <2>1
  <2>2. CASE i # 1
    <3>1. i - 1 \in 1..n - 1 /\ rest[i - 1] = list[i]
      BY <1>2, <1>3, <2>2
    <3> QED BY <1>4, <3>1 DEF Range
  <2> QED BY <2>1, <2>2
<1>6. IsList(rest)
  BY <1>3, SeqIsList
<1> QED BY <1>4, <1>5, <1>6 DEF Range, rest

\* A parser raises: nothing of the scan is left.
LEMMA RaisesKeeps == ASSUME ScanInv, ScanRaises PROVE ScanInv'
<1>1. /\ at' = "end" /\ scan' = NoScan /\ walk' = NoWalk /\ terms' = NoTerms
  BY DEF ScanRaises, Raise, ScanInv, Collecting
<1> QED BY <1>1 DEF ScanInv, ScanPlaces

\* The next group goes on the stack.
LEMMA NextGroupKeeps == ASSUME ScanInv, NextGroup PROVE ScanInv'
<1>1. /\ at = "groups" /\ at' = at /\ Collecting /\ Expanding
      /\ UNCHANGED <<tree, pos, scan, terms>>
      /\ walk.stack = <<>> /\ walk.left # <<>> /\ ~CapReached
  BY DEF NextGroup, ScanInv
<1> DEFINE frame == [name |-> Head(walk.left).name, path |-> {}]
<1>2. walk' = [left |-> Tail(walk.left), stack |-> <<frame>>, count |-> walk.count,
               cut |-> walk.cut]
  BY DEF NextGroup, ScanInv
<1>3. /\ IsList(Tail(walk.left)) /\ IsList(<<frame>>) /\ Range(<<frame>>) = {frame}
      /\ \A g \in Range(walk.left) : g = Head(walk.left) \/ g \in Range(Tail(walk.left))
  <2>1. IsList(walk.left) /\ walk.left # <<>>
    BY <1>1 DEF Expanding
  <2>2. <<frame>> \in Seq({frame}) /\ Range(<<frame>>) = {frame}
    BY DEF Range
  <2> QED BY <2>1, <2>2, SeqIsList, TailFacts
<1>4. Expanding'
  <2>1. \A s : Noted(s) <=> Noted(s)'
    BY <1>1 DEF Noted
  <2>2. \A g : GroupNoted(g) <=> GroupNoted(g)'
    BY <2>1 DEF GroupNoted
  <2>3. ASSUME NEW g \in Range(tree[pos].groups)
        PROVE  \/ g \in Range(Tail(walk.left)) \/ GroupNoted(g)'
               \/ [name |-> g.name, path |-> {}] \in Range(<<frame>>)
    BY <1>1, <1>3, <2>2, EmptyList DEF Expanding
  <2> QED BY <1>1, <1>2, <1>3, <2>1, <2>3 DEF Expanding
<1>5. Collecting'
  BY <1>1, <1>2 DEF Collecting, Noted
<1>6. Said' = Said
  BY <1>1 DEF Said, CleanFiles
<1> QED BY <1>1, <1>2, <1>4, <1>5, <1>6 DEF ScanInv, ScanPlaces

\* What the walk looks at is of a group of the file.
LEMMA EntriesFacts ==
    ASSUME tree \in Trees, pos \in DOMAIN tree, NEW name
    PROVE  /\ IsList(Entries(name))
           /\ \A e \in Range(Entries(name)) :
                 \E g \in Range(tree[pos].groups) : e \in Range(g.entries)
           /\ \A g \in Range(tree[pos].groups) : g.name = name => Entries(name) = g.entries
<1> DEFINE here == {g \in Range(tree[pos].groups) : g.name = name}
<1>1. IsFile(tree[pos])
  BY TreeFacts
<1>2. CASE here = {}
  BY <1>2, EmptyList DEF Entries
<1>3. CASE here # {}
  <2>1. PICK g \in here : Entries(name) = g.entries
    BY <1>3 DEF Entries
  <2> QED BY <1>1, <2>1 DEF IsFile
<1> QED BY <1>2, <1>3

\* The entries seen are all of them, or the first up to the bound.
LEMMA SeenFacts ==
    ASSUME NEW entries, IsList(entries), NEW room \in Nat, NEW part,
           part = IF Len(entries) <= room THEN entries ELSE SubSeq(entries, 1, room)
    PROVE  /\ IsList(part) /\ Range(part) \subseteq Range(entries) /\ Len(part) \in 0..room
           /\ Len(part) < room => part = entries
<1>0. entries \in Seq(Range(entries)) /\ Len(entries) \in Nat
  BY ListsAre
<1>1. CASE Len(entries) <= room
  BY <1>0, <1>1
<1>2. CASE ~(Len(entries) <= room)
  <2>1. /\ part \in Seq(Range(entries)) /\ Len(part) = room
        /\ DOMAIN part = 1..room /\ \A i \in 1..room : part[i] \in Range(entries)
    BY <1>0, <1>2
  <2>2. Range(part) \subseteq Range(entries)
    BY <2>1 DEF Range
  <2>3. IsList(part)
    BY <2>1, SeqIsList
  <2>4. Len(part) \in 0..room /\ ~(Len(part) < room)
    BY <2>1
  <2> QED BY <2>2, <2>3, <2>4
<1> QED BY <1>1, <1>2

\* A list without its last element.
LEMMA FrontFacts ==
    ASSUME NEW list, IsList(list), list # <<>>
    PROVE  /\ IsList(SubSeq(list, 1, Len(list) - 1))
           /\ \A x \in Range(list) :
                 x = list[Len(list)] \/ x \in Range(SubSeq(list, 1, Len(list) - 1))
<1> DEFINE n == Len(list)
           front == SubSeq(list, 1, n - 1)
<1>1. PICK S : list \in Seq(S)
  BY DEF IsList
<1>2. n \in Nat \ {0} /\ DOMAIN list = 1..n
  <2>1. list = [i \in 1..n |-> list[i]] /\ n \in Nat
    BY <1>1
  <2>2. n = 0 => list = [i \in {} |-> list[i]]
    BY <2>1
  <2> HIDE DEF n
  <2> QED BY <2>1, <2>2
<1>3. front \in Seq(S) /\ Len(front) = n - 1 /\ \A i \in 1..n - 1 : front[i] = list[i]
  BY <1>1, <1>2
<1>4. DOMAIN front = 1..n - 1
  BY <1>3
<1> HIDE DEF front, n
<1>5. ASSUME NEW i \in 1..n PROVE list[i] = list[n] \/ list[i] \in Range(front)
  BY <1>2, <1>3, <1>4 DEF Range
<1>6. IsList(front)
  BY <1>3, SeqIsList
<1> QED BY <1>2, <1>5, <1>6 DEF Range, front, n

\* A group is expanded.
LEMMA ExpandKeeps == ASSUME ScanInv, ExpandGroup PROVE ScanInv'
<1> DEFINE top == walk.stack[Len(walk.stack)]
           entries == IF top.name \in top.path THEN <<>> ELSE Entries(top.name)
           room == MaxExpansions - walk.count - 1
           part == IF Len(entries) <= room THEN entries ELSE SubSeq(entries, 1, room)
           included == Picked(part, {i \in DOMAIN part : part[i].include # ""})
           places == {i \in DOMAIN part : part[i].include = ""}
           own == Picked(part, places)
           read == Readings("pyproject.toml", own)
           frames == [i \in DOMAIN included |->
                         [name |-> included[i].include, path |-> top.path \union {top.name}]]
           front == SubSeq(walk.stack, 1, Len(walk.stack) - 1)
<1>1. /\ at = "groups" /\ at' = at /\ UNCHANGED <<tree, pos, terms>>
      /\ ~CapReached /\ walk.stack # <<>>
      /\ walk' = [walk EXCEPT !.stack = front \o frames,
                              !.count = walk.count + 1 + Len(part)]
      /\ scan' = [scan EXCEPT !.deps = AddAll(scan.deps, read)]
  BY DEF ExpandGroup
<1>2. /\ tree \in Trees /\ Collecting /\ Expanding /\ pos \in DOMAIN tree
      /\ walk = [left |-> walk.left, stack |-> walk.stack, count |-> walk.count,
                 cut |-> walk.cut]
  BY <1>1 DEF ScanInv, Expanding
<1>3. walk' = [left |-> walk.left, stack |-> front \o frames,
               count |-> walk.count + 1 + Len(part), cut |-> walk.cut]
  BY <1>1, <1>2
<1>4. room \in Nat /\ walk.count \in Nat /\ MaxExpansions \in Nat
  <2>1. walk.count \in 0..MaxExpansions
    BY <1>2 DEF Expanding
  <2>2. walk.count # MaxExpansions
    BY <1>1 DEF CapReached
  <2> QED BY <2>1, <2>2, ScanAssumption
<1>5. IsList(entries) /\ \A e \in Range(entries) :
                            \E g \in Range(tree[pos].groups) : e \in Range(g.entries)
  <2>1. CASE top.name \in top.path
    BY <2>1, EmptyList
  <2>2. CASE top.name \notin top.path
    BY <1>2, <2>2, EntriesFacts
  <2> QED BY <2>1, <2>2
<1>6. ASSUME NEW g \in Range(tree[pos].groups), top = [name |-> g.name, path |-> {}]
      PROVE  entries = g.entries
  BY <1>2, <1>6, EntriesFacts
<1> HIDE DEF entries
<1>7. /\ IsList(part) /\ Range(part) \subseteq Range(entries) /\ Len(part) \in 0..room
      /\ Len(part) < room => part = entries
  <2>1. room \in Nat /\ part = IF Len(entries) <= room THEN entries ELSE SubSeq(entries, 1, room)
    BY <1>4
  <2> HIDE DEF room, part
  <2> QED BY <1>5, <2>1, SeenFacts
<1> HIDE DEF part
<1>8. /\ IsList(own) /\ Range(own) = {part[i] : i \in places \cap DOMAIN part}
      /\ IsList(included)
  BY <1>7, PickedList
<1>9. Range(own) = {e \in Range(part) : e.include = ""}
  BY <1>8 DEF Range
<1> HIDE DEF own, included
<1>10. /\ IsList(read)
       /\ Range(read) = {Reading("pyproject.toml", e) :
                            e \in {e \in Range(own) : e.form \in Takes("pyproject.toml")}}
  BY <1>8, ReadingsAre
<1> HIDE DEF read
<1>11. Range(read) \subseteq Said
  <2>1. Says(tree[pos]) \subseteq Said /\ tree[pos].file = "pyproject.toml"
    BY <1>2, TreeFacts DEF Expanding
  <2>2. Range(own) \subseteq Specs(tree[pos])
    BY <1>5, <1>7, <1>9 DEF Specs
  <2>3. Range(read) \subseteq Says(tree[pos])
    BY <1>10, <2>1, <2>2 DEF Says
  <2> QED BY <2>1, <2>3
<1>12. /\ IsList(scan'.deps) /\ Range(scan'.deps) \subseteq Said'
       /\ scan' = [NoScan EXCEPT !.deps = scan'.deps]
       /\ scan' = [deps |-> scan'.deps, osv |-> scan'.osv, found |-> scan'.found,
                       queried |-> scan'.queried, truncated |-> scan'.truncated]
       /\ \A s : Noted(s) => Noted(s)'
       /\ \A s \in Range(read) : Noted(s)'
  BY <1>1, <1>10, <1>11, AddingKeeps
<1>13. IsList(frames) /\ IsList(front) /\ IsList(front \o frames)
       /\ Range(front \o frames) = Range(front) \union Range(frames)
       /\ \A x \in Range(walk.stack) : x = top \/ x \in Range(front)
  <2>1. IsList(frames)
    <3>1. DOMAIN included = 1..Len(included) /\ Len(included) \in Nat
      BY <1>8, ListsAre
    <3>2. frames = [i \in 1..Len(included) |-> frames[i]]
      BY <3>1
    <3> HIDE DEF frames
    <3> QED BY <3>1, <3>2, FunctionIsList
  <2>2. IsList(front) /\ \A x \in Range(walk.stack) : x = top \/ x \in Range(front)
    BY <1>1, <1>2, FrontFacts DEF Expanding
  <2> HIDE DEF frames, front
  <2> QED BY <2>1, <2>2, JoinedList
<1> HIDE DEF frames, front
<1>14. Collecting'
  BY <1>1, <1>2, <1>3, <1>12 DEF Collecting
<1>15. ASSUME ~CapReached', NEW g \in Range(tree[pos].groups)
       PROVE  \/ g \in Range(walk.left) \/ GroupNoted(g)'
              \/ [name |-> g.name, path |-> {}] \in Range(front \o frames)
  <2>1. Len(part) < room
    BY <1>3, <1>4, <1>7, <1>15 DEF CapReached
  <2>2. CASE top = [name |-> g.name, path |-> {}]
    <3>1. part = g.entries
      BY <1>6, <1>7, <2>1, <2>2
    <3>2. PinsOf(g) \subseteq Range(read)
      BY <1>9, <1>10, <3>1, PinsAreTaken DEF PinsOf
    <3> QED BY <1>12, <3>2 DEF GroupNoted
  <2>3. CASE GroupNoted(g)
    BY <1>12, <2>3 DEF GroupNoted
  <2> HIDE DEF top
  <2> QED BY <1>1, <1>2, <1>13, <2>2, <2>3 DEF Expanding
<1>16. Expanding'
  <2>1. walk'.count \in 0..MaxExpansions
    BY <1>3, <1>4, <1>7
  <2>2. /\ IsList(walk'.left) /\ IsList(walk'.stack)
        /\ walk'.left = walk.left /\ walk'.stack = front \o frames
    BY <1>2, <1>3, <1>13 DEF Expanding
  <2>3. tree[pos].file = "pyproject.toml" /\ \A s \in OwnPins(tree[pos]) : Noted(s)'
    BY <1>2, <1>12 DEF Expanding
  <2> QED BY <1>1, <1>2, <1>15, <2>1, <2>2, <2>3 DEF Expanding
<1> QED BY <1>1, <1>2, <1>3, <1>12, <1>14, <1>16 DEF ScanInv, ScanPlaces

\* The table of groups is done with, or is beyond its bound.
LEMMA ResolvedKeeps == ASSUME ScanInv, GroupsResolved PROVE ScanInv'
<1>1. /\ at = "groups" /\ at' = "manifests" /\ pos' = pos + 1
      /\ UNCHANGED <<tree, scan, terms>> /\ tree \in Trees /\ Collecting /\ Expanding
      /\ walk = [left |-> walk.left, stack |-> walk.stack, count |-> walk.count,
                 cut |-> walk.cut]
  BY DEF GroupsResolved, Goto, ScanInv
<1>2. Len(tree) \in Nat /\ DOMAIN tree = 1..Len(tree) /\ pos \in DOMAIN tree
      /\ IsFile(tree[pos])
  BY <1>1, TreeFacts DEF Expanding
<1>3. walk' = [left |-> walk'.left, stack |-> walk'.stack, count |-> walk'.count,
               cut |-> walk'.cut]
  BY <1>1 DEF GroupsResolved
<1>4. /\ \A s : Noted(s) <=> Noted(s)'
      /\ Said' = Said
  BY <1>1 DEF Noted, Said, CleanFiles
<1>5. ASSUME ~walk'.cut, NEW i \in DOMAIN tree, i < pos + 1, Clean(tree[i]),
             NEW s \in Pins(tree[i])
      PROVE  Noted(s)
  <2>1. ~CapReached /\ walk.stack = <<>> /\ walk.left = <<>> /\ walk' = walk
    BY <1>1, <1>5 DEF GroupsResolved
  <2>2. CASE i < pos
    BY <1>1, <1>5, <2>1, <2>2 DEF Collecting
  <2>3. CASE i = pos
    <3>1. \A g \in Range(tree[pos].groups) : GroupNoted(g)
      BY <1>1, <2>1, EmptyList DEF Expanding
    <3> QED BY <1>1, <1>2, <1>5, <2>3, <3>1, PinsAre DEF Expanding, GroupNoted
  <2> QED BY <1>2, <1>5, <2>2, <2>3
<1>6. Collecting'
  <2>1. walk'.cut \/ \A i \in DOMAIN tree : i < pos + 1 /\ Clean(tree[i]) =>
                        \A s \in Pins(tree[i]) : Noted(s)'
    BY <1>4, <1>5
  <2> QED BY <1>1, <1>2, <2>1 DEF Collecting
<1> QED BY <1>1, <1>3, <1>4, <1>6 DEF ScanInv, ScanPlaces

\* Exact pins supersede floors: an entry that goes is Shadowed.
LEMMA SupersedeKeeps == ASSUME ScanInv, Supersede PROVE ScanInv'
<1> DEFINE Superseded(d) ==
               d.approximate /\ \E e \in Range(scan.deps) : ~e.approximate /\ e.pkg = d.pkg
           places == {i \in DOMAIN scan.deps : ~Superseded(scan.deps[i])}
           left == Picked(scan.deps, places)
<1>1. /\ at = "manifests" /\ at' = "osv" /\ pos > Len(tree)
      /\ UNCHANGED <<tree, pos, walk, terms>> /\ tree \in Trees /\ Collecting
      /\ IsList(scan.deps) /\ Range(scan.deps) \subseteq Said
      /\ walk = [left |-> walk.left, stack |-> walk.stack, count |-> walk.count,
                 cut |-> walk.cut]
  BY DEF Supersede, Goto, ScanInv
<1>2. scan' = [scan EXCEPT !.deps = left]
  BY DEF Supersede
<1>3. /\ IsList(left) /\ Range(left) \subseteq Range(scan.deps)
      /\ Range(left) = {scan.deps[i] : i \in places \cap DOMAIN scan.deps}
  BY <1>1, PickedList
<1>4. ASSUME NEW d \in Range(scan.deps), ~d.approximate PROVE d \in Range(left)
  BY <1>3, <1>4 DEF Range
<1> HIDE DEF left
<1>5. scan' = [NoScan EXCEPT !.deps = left]
  BY <1>1, <1>2 DEF Collecting, NoScan
<1>6. /\ scan'.deps = left /\ scan'.found = {} /\ ~scan'.queried
      /\ scan' = [deps |-> scan'.deps, osv |-> scan'.osv, found |-> scan'.found,
                       queried |-> scan'.queried, truncated |-> scan'.truncated]
  BY <1>5 DEF NoScan
<1>7. Said' = Said
  BY <1>1 DEF Said, CleanFiles
<1>8. Collected'
  <2>1. ASSUME ~walk.cut, NEW s \in Pinned
        PROVE  Shadowed(s) \/ \E d \in Range(left) : Same(d, s)
    <3>1. PICK i \in DOMAIN tree : Clean(tree[i]) /\ s \in Pins(tree[i])
      BY <1>1, <2>1, TreeFacts
    <3>2. i < pos
      BY <1>1, <3>1, TreeFacts DEF Collecting
    <3>3. PICK d \in Range(scan.deps) : Same(d, s)
      BY <1>1, <2>1, <3>1, <3>2 DEF Collecting, Noted
    <3>4. CASE d.approximate
      BY <1>1, <3>3, <3>4 DEF Shadowed
    <3> QED BY <1>4, <3>3, <3>4
  <2>2. terms' = NoTerms
    BY <1>1 DEF Collecting
  <2> QED BY <1>1, <1>6, <2>1, <2>2 DEF Collected, Noted, Shadowed, Pinned, Said, CleanFiles
<1> QED BY <1>1, <1>3, <1>6, <1>7, <1>8 DEF ScanInv, ScanPlaces

\* What is asked about, when nothing is left out.
LEMMA QueryableFacts ==
    ASSUME IsList(scan.deps)
    PROVE  /\ Truncated \in Nat /\ Len(Queryable) \in 0..Len(scan.deps)
           /\ Truncated = 0 => Len(Queryable) = Len(scan.deps)
<1>1. scan.deps \in Seq(Range(scan.deps)) /\ Len(scan.deps) \in Nat
  BY ListsAre
<1>2. Truncated \in 0..Len(scan.deps)
  BY <1>1, ScanAssumption DEF Truncated
<1>3. Len(Queryable) = Len(scan.deps) - Truncated
  BY <1>1, <1>2 DEF Queryable
<1> QED BY <1>1, <1>2, <1>3

\* The advisories come, or not.
LEMMA OsvKeeps == ASSUME ScanInv, QueryOsv \/ SkipOsv PROVE ScanInv'
<1>1. /\ at = "osv" /\ at' = "runtimes" /\ UNCHANGED <<tree, pos, walk, terms>>
      /\ tree \in Trees /\ Collected /\ IsList(scan.deps) /\ scan.found = {} /\ ~scan.queried
      /\ Range(scan.deps) \subseteq Said
      /\ walk = [left |-> walk.left, stack |-> walk.stack, count |-> walk.count,
                 cut |-> walk.cut]
      /\ scan = [deps |-> scan.deps, osv |-> scan.osv, found |-> scan.found,
                       queried |-> scan.queried, truncated |-> scan.truncated]
  BY DEF QueryOsv, SkipOsv, Goto, ScanInv
<1>2. CASE SkipOsv
  <2>1. scan' = [deps |-> scan.deps, osv |-> scan.osv, found |-> scan.found,
                 queried |-> scan.queried, truncated |-> Truncated]
    BY <1>1, <1>2 DEF SkipOsv
  <2> QED BY <1>1, <2>1 DEF ScanInv, ScanPlaces, OsvAnswered, Collected, Noted, Shadowed,
                            Pinned, Said, CleanFiles
<1>3. CASE QueryOsv
  <2>1. PICK osv \in [DOMAIN Queryable -> Advisories], length \in 0..Len(Queryable),
              wellformed \in BOOLEAN :
          scan' = [scan EXCEPT
              !.osv = osv, !.truncated = Truncated,
              !.queried = Complete(length, wellformed),
              !.found = IF Complete(length, wellformed)
                        THEN {scan.deps[i] : i \in {i \in 1..length : osv[i] = "advisory"}}
                        ELSE {}]
    BY <1>3 DEF QueryOsv
  <2> DEFINE whole == Complete(length, wellformed)
             hits == {scan.deps[i] : i \in {i \in 1..length : osv[i] = "advisory"}}
             reported == IF whole THEN hits ELSE {}
  <2>2. whole \in BOOLEAN /\ (whole => length = Len(Queryable))
    BY DEF Complete
  <2>3. scan' = [scan EXCEPT !.osv = osv, !.truncated = Truncated, !.queried = whole,
                             !.found = reported]
    BY <2>1
  <2> HIDE DEF whole, reported
  <2>4. scan' = [deps |-> scan.deps, osv |-> osv, found |-> reported, queried |-> whole,
                 truncated |-> Truncated]
    BY <1>1, <2>3
  <2>5. /\ Len(scan.deps) \in Nat /\ DOMAIN scan.deps = 1..Len(scan.deps)
        /\ Len(Queryable) \in 0..Len(scan.deps)
        /\ Truncated = 0 => Len(Queryable) = Len(scan.deps)
    BY <1>1, QueryableFacts, ListsAre
  <2>6. reported \subseteq Range(scan.deps)
    BY <2>5 DEF reported, Range
  <2>7. ~whole => reported = {}
    BY DEF reported
  <2>8. ASSUME whole, Truncated = 0, NEW i \in DOMAIN scan.deps, osv[i] = "advisory"
        PROVE  scan.deps[i] \in reported
    <3>1. i \in 1..length
      BY <2>2, <2>5, <2>8
    <3> QED BY <2>8, <3>1 DEF reported
  <2>9. OsvAnswered'
    BY <2>4, <2>6, <2>7, <2>8 DEF OsvAnswered
  <2> QED BY <1>1, <2>4, <2>9 DEF ScanInv, ScanPlaces, Collected, Noted, Shadowed, Pinned,
                                  Said, CleanFiles
<1> QED BY <1>2, <1>3

\* The runtimes.
LEMMA RuntimesKeep ==
    ASSUME ScanInv, DetectRuntimes \/ QueryEol \/ EolFails \/ EolAnswered \/ EndScan
    PROVE  ScanInv'
<1>1. CASE DetectRuntimes
  <2>1. /\ at = "runtimes" /\ at' = "endoflife" /\ scan' = NoScan
        /\ \E r : terms' = [terms EXCEPT !.runtimes = r]
    BY <1>1 DEF DetectRuntimes, Goto
  <2>2. terms = NoTerms
    BY <2>1 DEF ScanInv, Collected
  <2>3. PICK r : terms' = [runtimes |-> r, status |-> <<>>, queried |-> FALSE]
    BY <2>1, <2>2 DEF NoTerms
  <2> QED BY <2>1, <2>3, EmptyList DEF ScanInv, ScanPlaces
<1>2. CASE QueryEol
  <2>1. /\ at = "endoflife" /\ at' = at /\ scan' = scan /\ scan = NoScan /\ IsList(terms.status)
        /\ terms = [runtimes |-> terms.runtimes, status |-> terms.status, queried |-> FALSE]
    BY <1>2 DEF QueryEol, ScanInv
  <2>2. PICK j, x : x = Append(terms.status, j) /\ terms' = [terms EXCEPT !.status = x]
    BY <1>2 DEF QueryEol
  <2>3. terms' = [runtimes |-> terms.runtimes, status |-> x, queried |-> FALSE]
    <3>1. PICK r, s : terms = [runtimes |-> r, status |-> s, queried |-> FALSE]
      BY <2>1
    <3>2. terms' = [terms EXCEPT !.status = x]
      BY <2>2
    <3> QED BY <3>1, <3>2
  <2>4. IsList(Append(terms.status, j))
    <3> DEFINE S == Range(terms.status) \union {j}
    <3>1. terms.status \in [1..Len(terms.status) -> S] /\ Len(terms.status) \in Nat
      BY <2>1, ListsAre
    <3>2. j \in S
      OBVIOUS
    <3> HIDE DEF S
    <3>3. Append(terms.status, j) \in Seq(S)
      BY <3>1, <3>2
    <3> QED BY <3>3, SeqIsList
  <2> QED BY <2>1, <2>2, <2>3, <2>4 DEF ScanInv, ScanPlaces
<1>3. CASE EolFails \/ EolAnswered
  <2>1. /\ at = "endoflife" /\ at' = "terms" /\ scan' = scan /\ scan = NoScan
        /\ IsList(terms.status)
        /\ terms = [runtimes |-> terms.runtimes, status |-> terms.status, queried |-> FALSE]
    BY <1>3 DEF EolFails, EolAnswered, Goto, ScanInv
  <2>2. CASE EolFails
    <3>1. terms'.status = [i \in DOMAIN terms.runtimes |-> "unknown"]
      BY <2>1, <2>2 DEF EolFails
    <3> QED BY <2>1, <3>1 DEF ScanInv, ScanPlaces
  <2>3. CASE EolAnswered
    <3>1. /\ terms'.queried = (terms.runtimes # <<>>) /\ terms'.status = terms.status
          /\ Len(terms.status) = Len(terms.runtimes)
      BY <2>1, <2>3 DEF EolAnswered
    <3>2. ~terms'.queried => DOMAIN terms.status = {}
      BY <2>1, <3>1, ListsAre, EmptyList
    <3> QED BY <2>1, <3>1, <3>2 DEF ScanInv, ScanPlaces
  <2> QED BY <1>3, <2>2, <2>3
<1>4. CASE EndScan
  <2>1. at' = "survey" /\ scan' = NoScan /\ walk' = NoWalk /\ terms' = NoTerms
    BY <1>4 DEF EndScan, Goto
  <2> QED BY <2>1 DEF ScanInv, ScanPlaces
<1> QED BY <1>1, <1>2, <1>3, <1>4

\* The other parts leave the scans alone.
LEMMA ScanElsewhere ==
    ASSUME CallsInv, [Next]_vars
    PROVE  \/ ScanStep
           \/ /\ UNCHANGED scanVars
              /\ at' = at \/ (at \notin ScanPlaces /\ at' \notin ScanPlaces)
<1> USE DEF ScanPlaces, Done
<1>1. ScanStep \/ UNCHANGED scanVars
  BY DEF Next, Working, World, Launching, Reporting, Scanning, vars
<1>2. CASE LaunchStep \/ ConversationStep \/ PublicationStep
  BY <1>1, <1>2, LaunchMoves, TalkMoves, PublicationMoves
     DEF LaunchPlaces, FirstPlaces, TalkPlaces, PublicationPlaces
<1>3. CASE AuditStep \/ ClassicStep
  BY <1>1, <1>3, AuditMoves, ClassicMoves DEF AuditPlaces, ClassicPlaces
<1>4. CASE GatesStep \/ DockerStep
  BY <1>1, <1>4, GatesMoves, DockerMoves DEF GatePlaces, DockerPlaces
<1> QED BY <1>1, <1>2, <1>3, <1>4, StepBelongs

\* Any step.
LEMMA ScanInvStep == ASSUME CallsInv, ScanInv, [Next]_vars PROVE ScanInv'
<1>1. CASE ScanStep
  BY <1>1, BeginKeeps, ManifestKeeps, RaisesKeeps, NextGroupKeeps, ExpandKeeps, ResolvedKeeps,
     SupersedeKeeps, OsvKeeps, RuntimesKeep DEF ScanStep
<1>2. CASE UNCHANGED scanVars /\ at' = at
  BY <1>2 DEF scanVars, ScanInv, Collecting, Expanding, Collected, OsvAnswered, Said,
              CleanFiles, Shadowed, Pinned, Noted, GroupNoted, CapReached
<1>3. CASE UNCHANGED scanVars /\ at \notin ScanPlaces /\ at' \notin ScanPlaces
  BY <1>3 DEF scanVars, ScanInv, ScanPlaces
<1> QED BY <1>1, <1>2, <1>3, ScanElsewhere

\* And no scan is under way when the program starts.
LEMMA ScanInvInit == Init => ScanInv
BY DEF Init, ScanInit, ScanInv, ScanPlaces

\* A scan that claims to be complete has asked about every pin in a form that
\* its parser reads right, unless a floor of that version hid it; it reports
\* only what some file is taken to say, and publishes nothing if it fails
\* half-way: for any trees, bounds and answers of the services (depscan.py,
\* scan_dependencies; eolscan.py, scan_eol).
THEOREM HonestScanHolds == Spec => []HonestScan
<1>1. Init => CallsInv /\ ScanInv
  BY ScanInvInit, CallsTyped, AgentCallAssumption DEF Init, CallsInv, CallState, CallIdle
<1>2. CallsInv /\ ScanInv /\ [Next]_vars => (CallsInv /\ ScanInv)'
  BY StepKeepsCalls, ScanInvStep
<1> QED BY <1>1, <1>2, ScanIsHonest, PTL DEF Spec
=============================================================================
