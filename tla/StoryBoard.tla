----------------------------- MODULE StoryBoard -----------------------------
(***************************************************************************)
(* The story backlog and the foreman that delivers it: dev_team/backlog.py *)
(* (Backlog, validate_dependencies), dev_team/foreman.py and the backlog   *)
(* half of dev_team/dispatch.py (foreman_run, _write_back_story and the    *)
(* board's mutation routes).                                               *)
(*                                                                         *)
(* The backlog is one file, replaced atomically under _backlog_lock.  Every*)
(* mutation of a person is one load-mutate-save under that lock, hence one *)
(* action.  A pass of the foreman holds the lock while it submits job after*)
(* job, so it is several actions, and `selecting' tells that the lock is   *)
(* taken: meanwhile workers and cancellations move the submitted jobs, but *)
(* their write-backs wait.  A story is named by its number: add_story      *)
(* appends with the next number, so backlog order is numeric order.        *)
(***************************************************************************)
EXTENDS Naturals, FiniteSets, FiniteSetsExt

CONSTANTS
    Jobs,       \* deliver jobs the foreman may submit
    NoJob,      \* a story without delivery_job
    MaxStory,   \* bound: the highest story number
    MaxStories, \* the batch size of a foreman_run
    PersonStatuses     \* the statuses people give to a card

Statuses == {"todo", "in_progress", "done", "blocked", "declined"}

ASSUME BoardAssumption ==
    /\ NoJob \notin Jobs
    /\ MaxStory \in Nat
    /\ MaxStories \in Nat \ {0}
    /\ PersonStatuses \subseteq Statuses

VARIABLES
    cards,        \* the stories in the backlog file
    status,       \* Story.status
    deps,         \* Story.depends_on
    deliveryJob,  \* Story.delivery_job
    jobState,     \* JobRecord.state; "lost" once a restart forgot the job
    storyOf,      \* JobSpec.story_id
    owed,         \* the status a finished job has yet to write back
    selecting,    \* a foreman_run holds _backlog_lock
    batch,        \* its stories not submitted yet
    enqueued,     \* the jobs it has submitted
    recalled,     \* jobs of a pass whose save failed, not yet compensated
    uncancellable,\* jobs named as uncancellable in an answer
    abandoned,    \* jobs whose outcome never reached the file
    history       \* what became of a story besides the foreman's own writes

boardVars == <<cards, status, deps, deliveryJob, history>>
jobVars   == <<jobState, storyOf, owed, abandoned>>
passVars  == <<selecting, batch, enqueued, recalled, uncancellable>>
vars      == <<boardVars, jobVars, passVars>>

Stories   == 1..MaxStory
NoStory   == 0
Nothing   == "nothing"
Live      == {"queued", "running"}
Satisfied == {"done", "declined"}
JobStates == {"absent", "succeeded", "failed", "cancelled", "lost"} \cup Live

\* own: only the foreman and its jobs wrote the story; unsaved: a pass
\* submitted it and did not save, for an error or a restart; edited: a person set its status;
\* deleted: a person deleted it.
Histories == {"own", "unsaved", "edited", "deleted"}

TypeOK ==
    /\ cards \subseteq Stories
    /\ status \in [Stories -> Statuses]
    /\ deps \in [Stories -> SUBSET Stories]
    /\ deliveryJob \in [Stories -> Jobs \cup {NoJob}]
    /\ jobState \in [Jobs -> JobStates]
    /\ storyOf \in [Jobs -> Stories \cup {NoStory}]
    /\ owed \in [Jobs -> Statuses \cup {Nothing}]
    /\ selecting \in BOOLEAN
    /\ batch \subseteq Stories
    /\ enqueued \subseteq Jobs
    /\ recalled \subseteq Jobs
    /\ uncancellable \subseteq Jobs
    /\ abandoned \subseteq Jobs
    /\ history \in [Stories -> Histories]

Init ==
    /\ cards = {}
    /\ status = [i \in Stories |-> "todo"]
    /\ deps = [i \in Stories |-> {}]
    /\ deliveryJob = [i \in Stories |-> NoJob]
    /\ jobState = [j \in Jobs |-> "absent"]
    /\ storyOf = [j \in Jobs |-> NoStory]
    /\ owed = [j \in Jobs |-> Nothing]
    /\ selecting = FALSE
    /\ batch = {}
    /\ enqueued = {}
    /\ recalled = {}
    /\ uncancellable = {}
    /\ abandoned = {}
    /\ history = [i \in Stories |-> "own"]

(***************************************************************************)
(* Pure parts.                                                             *)
(***************************************************************************)

\* _mint_id: one past the highest number in the file.
NextStory == Max(cards \cup {0}) + 1

\* Every story of the set waits for another one of the set.
Stuck(set, edges) == \A i \in set : edges[i] \cap set # {}

\* Mutant of ValidEdges: the cycle check is dropped.
KnownEdges(edges) == \A i \in cards : edges[i] \subseteq cards \ {i}

\* validate_dependencies: no unknown story, no self-edge, and Kahn's peeling
\* leaves nothing over (what it leaves is the largest stuck set).
ValidEdges(edges) ==
    /\ \A i \in cards : edges[i] \subseteq cards \ {i}
    /\ \A set \in SUBSET cards : Stuck(set, edges) => set = {}

\* Mutant of Ready: blocked stories are tried again.
ReadyAgain ==
    {i \in cards : /\ status[i] \in {"todo", "blocked"}
                   /\ \A d \in deps[i] : d \in cards /\ status[d] \in Satisfied}

\* ready_for_delivery.
Ready ==
    {i \in cards : /\ status[i] = "todo"
                   /\ \A d \in deps[i] : d \in cards /\ status[d] \in Satisfied}

\* The first MaxStories of the stories that have a title and a repository.
FirstOf(eligible) ==
    {i \in eligible : Cardinality({k \in eligible : k < i}) < MaxStories}

\* The ghost's next value: a deletion is remembered, then an edit.
Marked(i, event) ==
    history' = [history EXCEPT ![i] =
        IF @ = "deleted" \/ (@ = "edited" /\ event = "unsaved") THEN @ ELSE event]

(***************************************************************************)
(* People: the board's routes.  Each runs under the backlog lock.          *)
(***************************************************************************)

\* Mutant of LockFree: the mutation routes forget the lock.
AnyTime == TRUE

LockFree == ~selecting

\* Cards are filed with consecutive numbers from `first' on, each waiting for
\* the one before it when `chained'.  A status other than todo is a person's.
File(first, last, initial, chained) ==
    /\ last <= MaxStory
    /\ cards' = cards \cup (first..last)
    /\ status' = [i \in Stories |-> IF i \in first..last THEN initial ELSE status[i]]
    /\ deps' = [i \in Stories |->
                  IF i \notin first..last THEN deps[i]
                  ELSE IF chained /\ i > first THEN {i - 1} ELSE {}]
    /\ IF initial = "todo" THEN UNCHANGED history ELSE Marked(first, "edited")
    /\ UNCHANGED <<deliveryJob, jobVars, passVars>>

\* add_story_card: a hand-written card in any status.
AddStory(initial) ==
    /\ LockFree
    /\ File(NextStory, NextStory, initial, FALSE)

\* _merge_backlog: the plan steps of an assessment, chained in order.
MergePlan(size) ==
    /\ LockFree
    /\ File(NextStory, NextStory + size - 1, "todo", TRUE)

\* set_story_status and decline_story: any status, whatever it was.
SetStatus(i, new) ==
    /\ LockFree
    /\ i \in cards
    /\ status' = [status EXCEPT ![i] = new]
    /\ Marked(i, "edited")
    /\ UNCHANGED <<cards, deps, deliveryJob, jobVars, passVars>>

\* set_story_deps: stored only when the whole backlog stays valid.
SetDeps(i, on) ==
    /\ LockFree
    /\ i \in cards
    /\ deps' = [deps EXCEPT ![i] = on]
    /\ ValidEdges(deps')
    /\ UNCHANGED <<cards, status, deliveryJob, history, jobVars, passVars>>

\* Mutant of DeleteStory: edges to the deleted story stay.
DeleteKeepingEdges(i) ==
    /\ LockFree
    /\ i \in cards
    /\ cards' = cards \ {i}
    /\ deps' = [deps EXCEPT ![i] = {}]
    /\ status' = [status EXCEPT ![i] = "todo"]
    /\ deliveryJob' = [deliveryJob EXCEPT ![i] = NoJob]
    /\ Marked(i, "deleted")
    /\ UNCHANGED <<jobVars, passVars>>

\* delete_story: the card goes, and every edge to it.
DeleteStory(i) ==
    /\ LockFree
    /\ i \in cards
    /\ cards' = cards \ {i}
    /\ deps' = [k \in Stories |-> IF k = i THEN {} ELSE deps[k] \ {i}]
    /\ status' = [status EXCEPT ![i] = "todo"]
    /\ deliveryJob' = [deliveryJob EXCEPT ![i] = NoJob]
    /\ Marked(i, "deleted")
    /\ UNCHANGED <<jobVars, passVars>>

(***************************************************************************)
(* The foreman.                                                            *)
(***************************************************************************)

\* foreman_run takes the lock, loads the backlog and picks its batch.
Select(eligible) ==
    /\ LockFree
    /\ eligible \subseteq Ready
    /\ FirstOf(eligible) # {}
    /\ selecting' = TRUE
    /\ batch' = FirstOf(eligible)
    /\ UNCHANGED <<boardVars, jobVars, enqueued, recalled, uncancellable>>

\* One submit: the job may start, end or be cancelled from here on.
SubmitNext(j) ==
    /\ selecting
    /\ batch # {}
    /\ jobState[j] = "absent"
    /\ jobState' = [jobState EXCEPT ![j] = "queued"]
    /\ storyOf' = [storyOf EXCEPT ![j] = Min(batch)]
    /\ batch' = batch \ {Min(batch)}
    /\ enqueued' = enqueued \cup {j}
    /\ UNCHANGED <<boardVars, owed, abandoned, selecting, recalled, uncancellable>>

\* QueueFull: the rest of the batch is skipped.
QueueFull ==
    /\ selecting
    /\ batch # {}
    /\ batch' = {}
    /\ UNCHANGED <<boardVars, jobVars, selecting, enqueued, recalled, uncancellable>>

Submitted == {storyOf[j] : j \in enqueued}

\* The pass ends: every submitted story is saved as in_progress, naming its
\* job.  With nothing submitted nothing is saved.
Save ==
    /\ selecting
    /\ batch = {}
    /\ status' = [i \in Stories |-> IF i \in Submitted THEN "in_progress" ELSE status[i]]
    /\ deliveryJob' = [i \in Stories |->
          IF i \in Submitted THEN CHOOSE j \in enqueued : storyOf[j] = i
                             ELSE deliveryJob[i]]
    /\ selecting' = FALSE
    /\ enqueued' = {}
    /\ UNCHANGED <<cards, deps, history, jobVars, batch, recalled, uncancellable>>

\* The ghost's next value when the statuses of a pass never reach the file.
ForgetPass ==
    history' = [i \in Stories |->
        IF i \in Submitted /\ history[i] = "own" THEN "unsaved" ELSE history[i]]

\* store.save raises: the file keeps the old statuses, the lock is released
\* and the submitted jobs are to be cancelled.
SaveFails ==
    /\ selecting
    /\ batch = {}
    /\ enqueued # {}
    /\ selecting' = FALSE
    /\ recalled' = recalled \cup enqueued
    /\ enqueued' = {}
    /\ ForgetPass
    /\ UNCHANGED <<cards, status, deps, deliveryJob, jobVars, batch, uncancellable>>

\* Mutant of Withdraw: the story is not told.
WithdrawSilently(j) ==
    /\ jobState' = [jobState EXCEPT ![j] = "cancelled"]
    /\ UNCHANGED owed

\* The transition of cancel_job: a queued job owes its story a "todo".
Withdraw(j) ==
    /\ jobState' = [jobState EXCEPT ![j] = "cancelled"]
    /\ owed' = [owed EXCEPT ![j] = "todo"]

\* The compensation calls cancel_job; a started job is reported instead.
Compensate(j) ==
    /\ j \in recalled
    /\ recalled' = recalled \ {j}
    /\ IF jobState[j] = "queued"
       THEN Withdraw(j) /\ UNCHANGED uncancellable
       ELSE uncancellable' = uncancellable \cup {j} /\ UNCHANGED <<jobState, owed>>
    /\ UNCHANGED <<boardVars, storyOf, abandoned, selecting, batch, enqueued>>

(***************************************************************************)
(* The jobs.                                                               *)
(***************************************************************************)

\* A person cancels a job that has not started.
Cancel(j) ==
    /\ jobState[j] = "queued"
    /\ Withdraw(j)
    /\ UNCHANGED <<boardVars, storyOf, abandoned, passVars>>

Start(j) ==
    /\ jobState[j] = "queued"
    /\ jobState' = [jobState EXCEPT ![j] = "running"]
    /\ UNCHANGED <<boardVars, storyOf, owed, abandoned, passVars>>

\* What an ended job does to its story: only a delivery that reports success
\* finishes it; a failed, timed-out or empty one blocks it.
Verdicts == {<<"succeeded", "done">>, <<"succeeded", "blocked">>, <<"failed", "blocked">>}

\* Mutants of Finish: the job's state is written for the story's status, or a
\* failed job returns its story to the pool.
FinishVerbatim(j, verdict) ==
    /\ jobState[j] = "running"
    /\ jobState' = [jobState EXCEPT ![j] = verdict[1]]
    /\ owed' = [owed EXCEPT ![j] = verdict[1]]
    /\ UNCHANGED <<boardVars, storyOf, abandoned, passVars>>

FinishRetrying(j, verdict) ==
    /\ jobState[j] = "running"
    /\ jobState' = [jobState EXCEPT ![j] = verdict[1]]
    /\ owed' = [owed EXCEPT ![j] = IF verdict[1] = "failed" THEN "todo" ELSE verdict[2]]
    /\ UNCHANGED <<boardVars, storyOf, abandoned, passVars>>

Finish(j, verdict) ==
    /\ jobState[j] = "running"
    /\ jobState' = [jobState EXCEPT ![j] = verdict[1]]
    /\ owed' = [owed EXCEPT ![j] = verdict[2]]
    /\ UNCHANGED <<boardVars, storyOf, abandoned, passVars>>

\* _write_back_story: whatever card now has the story's number gets the
\* status; a missing card is tolerated.
WriteBack(j) ==
    /\ owed[j] # Nothing
    /\ LockFree
    /\ owed' = [owed EXCEPT ![j] = Nothing]
    /\ LET i == storyOf[j] IN
       IF i \in cards
       THEN /\ status' = [status EXCEPT ![i] = owed[j]]
            /\ deliveryJob' = IF owed[j] = "todo"
                              THEN [deliveryJob EXCEPT ![i] = NoJob] ELSE deliveryJob
       ELSE UNCHANGED <<status, deliveryJob>>
    /\ UNCHANGED <<cards, deps, history, jobState, storyOf, abandoned, passVars>>

\* _write_back_story cannot write: the failure is swallowed.
WriteBackFails(j) ==
    /\ owed[j] # Nothing
    /\ LockFree
    /\ owed' = [owed EXCEPT ![j] = Nothing]
    /\ abandoned' = abandoned \cup {j}
    /\ UNCHANGED <<boardVars, jobState, storyOf, passVars>>

\* The service restarts: the file survives; the registry, the queue and every
\* thread, a foreman pass included, are gone.
Restart ==
    LET forgotten == {j \in Jobs : jobState[j] \in Live \/ owed[j] # Nothing} IN
    /\ forgotten # {}
    /\ jobState' = [j \in Jobs |-> IF jobState[j] \in Live THEN "lost" ELSE jobState[j]]
    /\ owed' = [j \in Jobs |-> Nothing]
    /\ abandoned' = abandoned \cup forgotten
    /\ selecting' = FALSE
    /\ batch' = {}
    /\ enqueued' = {}
    /\ recalled' = {}
    /\ ForgetPass
    /\ UNCHANGED <<cards, status, deps, deliveryJob, storyOf, uncancellable>>

Next ==
    \/ \E initial \in PersonStatuses : AddStory(initial)
    \/ \E size \in Stories : MergePlan(size)
    \/ \E i \in Stories, new \in PersonStatuses : SetStatus(i, new)
    \/ \E i \in Stories, on \in SUBSET Stories : SetDeps(i, on)
    \/ \E i \in Stories : DeleteStory(i)
    \/ \E eligible \in SUBSET Stories : Select(eligible)
    \/ \E j \in Jobs : SubmitNext(j)
    \/ QueueFull
    \/ Save
    \/ SaveFails
    \/ \E j \in Jobs : Compensate(j)
    \/ \E j \in Jobs : Cancel(j)
    \/ \E j \in Jobs : Start(j)
    \/ \E j \in Jobs, verdict \in Verdicts : Finish(j, verdict)
    \/ \E j \in Jobs : WriteBack(j)
    \/ \E j \in Jobs : WriteBackFails(j)
    \/ Restart

Spec == Init /\ [][Next]_vars

(***************************************************************************)
(* Properties.                                                             *)
(***************************************************************************)

\* The dependency graph stored in the file names only stories of the file,
\* and some order of delivery satisfies every edge, however cards are added,
\* merged, rewired and deleted (delete_story: "the file never holds a dangling
\* reference").
SoundGraph ==
    /\ \A i \in cards : deps[i] \subseteq cards
    /\ \E rank \in [cards -> Stories] :
          \A i \in cards : \A d \in deps[i] : rank[d] < rank[i]

\* A backlog with work left is never wedged: some story is ready for the
\* foreman, being delivered, or waiting for a person (foreman.py: a declined
\* dependency "must not wedge its dependents forever").
NeverWedged ==
    (\E i \in cards : status[i] = "todo")
        => \/ Ready # {}
           \/ \E i \in cards : status[i] \in {"in_progress", "blocked"}

\* A job is submitted only for a story that at that moment is in the backlog,
\* is still to do and has every dependency satisfied, although jobs of the
\* same pass are already running and people are waiting to edit the board.
ReadyWhenSubmitted ==
    [][\A j \in Jobs : jobState[j] = "absent" /\ jobState'[j] = "queued"
                           => storyOf'[j] \in Ready]_vars

Attempted(j) == jobState[j] \in {"running", "succeeded", "failed"}

\* Two jobs of one story ever start only if a person stepped in or a pass did
\* not get to save what it submitted (docs/DISPATCH.md: "two concurrent runs
\* can never enqueue the same story twice").
OneAttempt ==
    \A j, k \in Jobs :
        j # k /\ storyOf[j] = storyOf[k] /\ Attempted(j) /\ Attempted(k)
            => history[storyOf[j]] # "own"

\* A story that nobody edited shows in_progress only while the job it names
\* is queued, running or about to write its verdict back, or was forgotten
\* by a restart or a failed write.
InProgressIsBacked ==
    \A i \in cards :
        status[i] = "in_progress" /\ history[i] \in {"own", "unsaved"}
            => \E j \in Jobs :
                  /\ deliveryJob[i] = j
                  /\ storyOf[j] = i
                  /\ jobState[j] \in Live \/ owed[j] # Nothing \/ j \in abandoned

\* A story the foreman alone has written and that is done, declined or
\* blocked stays so until a person changes it (foreman.py: "blocked waits for
\* a human"); late write-backs do not move it.
VerdictWaits ==
    [][\A i \in cards \cap cards' :
          status[i] \in {"done", "declined", "blocked"} /\ status'[i] # status[i]
              => history'[i] # "own"]_vars

\* Refuted.  As OneAttempt, with the only exceptions the documentation names:
\* a person stepped in, the service restarted, or an answer lists (or is about
\* to list) a job of the story as uncancellable (foreman_run: "the operator knows a re-run would duplicate
\* it"; foreman.py: "one story gets exactly one autonomous attempt").
OneAttemptUnlessReported ==
    \A j, k \in Jobs :
        j # k /\ storyOf[j] = storyOf[k] /\ Attempted(j) /\ Attempted(k)
            => \/ history[storyOf[j]] \in {"edited", "deleted"}
               \/ {j, k} \cap (recalled \cup uncancellable \cup abandoned) # {}

\* Refuted.  A new card never gets the number of a deleted story (_mint_id:
\* "an id is never reused after a delete"; delete_story: "the deleted id can
\* never be reissued to an unrelated future story").
NeverReissued ==
    [][\A i \in cards' \ cards : history[i] # "deleted"]_vars
=============================================================================
