# dev-team in TLA+

A verification development for `dev-team`, a program and service in which
role-playing agents deliver features, assess repositories and work through a
backlog. It models the parts of `src/dev_team` where threads, coroutines, git,
files, budgets and restarts meet: the dispatch service with its worker pool, the
channel through which a run asks a human, the story backlog with its foreman, the
archiving and purging of jobs, the front door with its guard and its log; the
delivery engine with its scheduler, its checkpoint and its meter; and the command
line with every command it enters. TLC checks each module on small instances;
TLAPS proves most safety properties for all of them.

Paths below are relative to `src/dev_team/` in the repository.

## 1. The system

One process, started by `cli.py`, is either a command that runs one delivery or
assessment, or the dispatch service: an HTTP server whose handler threads
submit jobs to a pool of worker threads, each with an asyncio event loop of its
own. All shared state is in memory (registry, queue, locks) or in the files of
one *dashboard workspace*.

| Component | State | Operations | Interaction | What is hard |
|---|---|---|---|---|
| Dispatch queue and pool (`dispatch.py`) | `_registry`, `_order`, `_queue`, `_deferred`, `_active_repos`, `_events` | `submit`, `cancel_job`, `stop`, `_worker_loop`, `_execute`, `_fail_timed_out`, `_release_repo` | handlers and workers share `_lock` and the queue; completion events wake waiters | a job id is in the queue and in a bucket at once; popping and deciding are separate; who wakes a parked job |
| Question channel (`dispatch.py`, `interaction.py`) | current question, its one-place reply queue, `_answer_lock` | `ask`, `submit_reply` | a thread for each `ask`, handlers post replies | an answer racing the timeout and the next question; a blocking put under a lock |
| Backlog and foreman (`backlog.py`, `foreman.py`, `dispatch.py`) | `backlog.json` under `_backlog_lock`; `story_id` in job specs | board mutations, `foreman_run`, `_write_back_story`, merges | workers write verdicts back long after the transition that caused them | partial failure of a pass, late write-backs, restarts, graph edits |
| Archive and purge (`dispatch.py`, `eventlog.py`) | `audit/<id>/*`, transcripts, events, stories, `_purging` | `archive_job`, `unarchive_job`, `purge_job`, `sweep_expired_archives` | three locks, none of them held while files are deleted | two ways to be eligible, failing deletions, writers that read before and write after |
| Delivery engine (`engine.py`) | plan, task results, branch, index, stash, checkpoint, phase | plan, tasks, integrate, gates, re-plan, visual fixes, security review, squash, resume | runs the scheduler; serialises integration; uses budget, memory, git | rollback of concurrent work, crash and resume, budget exhaustion mid-phase |
| Task scheduler (`scheduler.py`, `ordering.py`, `replan.py`) | status, started, in_flight | `schedule`, `lint_plan`, `apply_replan` | a coroutine and the tasks it launches | the cascade of skips, cycles, spare slots, cancellation |
| Budget (`budget.py`, `instrument.py`) | meter, limit, reserve | check before, record after, release the reserve | every agent call of concurrent tasks | overshoot by calls in flight |
| Checkpoints and memory (`memory.py`) | JSON files in the workspace | save, load, clear | engine | stale or partial checkpoints |
| Journals (`eventlog.py`, `tracelog.py`, `accesslog.py`) | bounded JSON-lines files | append, read, remove | every thread, each under the lock of its journal | whole-file read-modify-write |
| Failed-authentication guard (`authguard.py`) | failures per source, lockouts | record, check, clear | handlers | windows, expiry, bounded table |
| Sign-in, GitHub app (`oauth.py`, `githubapp.py`) | nonces, sessions, a cached token | begin, complete, expire | handlers, workers | expiry, replays |
| Pull requests and checks (`delivery_target.py`, `checks.py`, `cli.py`) | local and remote branch, tracking ref, PR, checks | push, open, watch, fix, push again | GitHub, CI and reviewers act at any time | a lease that is stale, calls that fail after they took effect |
| Workspace, commands, sandboxes (`execution.py`, `sandbox.py`, `git.py`, `sources.py`) | the file system | read, write, run | every component | pure I/O; a write replaces the file |
| Classic workflow (`workflow.py`) | task statuses, meter | plan, revise, develop, review, test | one agent at a time | the meter stops it anywhere |
| Assessment and scanners (`assessment.py`, `depscan.py`, `eolscan.py`) | phases, report, stories, verdicts | scan, audit, merge a backlog, vote | parallel agents; the service mirrors and serves its results | partial answers, findings named by position, restarts |
| Agents and SDK (`agents/`, `sdk.py`, `instrument.py`) | none | one metered model call each, retried when unusable | engine, commands | answers are arbitrary |
| Policy and gates (`policy.py`, `approval.py`, `verification.py`) | none | decide | engine | pure decisions |
| Command line (`cli.py`, `chat.py`) | options, exit code | validate, enter a command, pass from one to another | everything above | a run in a run, a code that must mean something |
| Dashboard (`dashboard.py`) | none | show | reads files, proxies routes | formatting |

`PROJECT.json` lists all of them with their status. What makes each of the
first ones correct:

* **Queue**: two jobs of one repository never overlap; a job runs at most once
  and its outcome is never overwritten; no queued job is lost; none overtakes an
  older one that is parked; every submitted job ends; `stop` drains and ends
  the pool.
* **Channel**: a reply reaches only the question it was validated against; the
  published question is the one awaited; every question is decided.
* **Backlog**: the dependency graph is sound and never wedges; a story is
  submitted only when ready, attempted once, and keeps its verdict until a
  person changes it; an `in_progress` story has a job behind it.
* **Archive**: a running job is left alone; one thread deletes a job; a purge
  answers 200 once; a failed purge can be repeated; what is gone stays gone.
* **Scheduler**: bounded; builds only on what is done; skips exactly what a
  failure reaches; fills spare slots; reports a cycle only if there is one.
* **Engine**: no commit holds a task's ungated work; each task gets its own
  shelved work back; spending is bounded, planning and a chat's other runs
  included; what the checkpoint calls done can be reviewed and squashed by the
  next run; only reviewed work becomes a feature.
* **Front door**: a source is refused for its own failures only, guesses are
  bounded although threads race, no log record is lost.
* **Command line**: an accepted option has an effect; a budget stops a run and
  does not break it; every command comes to an end; zero means done.
* **Publication**: a reviewer's push is never pushed away; a success is
  published in full, and the checks that passed were those of its work.
* **Attempts, containers, audits**: an attempt leaves the workspace as it was or
  as it was reviewed; nothing is left running; stories and verdicts keep leading to
  the item they name; a scan does not call clean what it did not read.

## 2. The modules

```
The service
  JobLifecycle <--implements-- DispatchQueue      + MCDispatchQueue, DispatchQueue_proofs
  AnswerChannel                                   + MCAnswerChannel, AnswerChannel_proofs
  StoryBoard                                      + MCStoryBoard,    StoryBoard_proofs
  JobArchive                                      + MCJobArchive,    JobArchive_proofs
  AuthGuard, SignIn <- FrontDoor                  + MCFrontDoor,    FrontDoor_proofs
The engine
  TaskScheduler                                   + TaskScheduler_proofs
  Metering <- Delivery --implements--> DeliveryLedger   + MCDelivery, Delivery_proofs
The command line
  Metering <- Process <- QualityGates, DockerGates
                      <- AgentCall <- Launch, Publication, Audit, Classic, Conversation, Scan
                      <- Reports
  Command EXTENDS all parts of a run              + MCCommand, Command_proofs
```

`<-` is EXTENDS, to the module that extends.

Each component module has one action per critical section, queue operation or
coroutine turn: the points between which the code can be interleaved. The
definitions that begin with "Mutant of" are plausible bugs, used to show that
each property can tell them from the code.

### JobLifecycle and DispatchQueue

`JobLifecycle` is what a client relies on: a job goes from queued to running to
an outcome, or from queued to cancelled; two jobs of one repository are never
running together; the completion event follows the outcome. `DispatchQueue` is
the machinery of class `Dispatcher` and implements it (`ImplementsLifecycle`;
the state variables are shared, so the refinement mapping is the identity).

| Model | Code |
|---|---|
| `state`, `done` | `JobRecord.state`, the event in `_events[job_id]` |
| `order`, `queue`, `parked`, `active` | `_order`, `_queue`, `_deferred`, `_active_repos` |
| `arriving`, `cancelling` | threads between the lock and `_queue.put`, between the lock and `event.set` |
| `pc`, `holds` | where each worker is in `_worker_loop`, and with what |
| `Submit`, `Enqueue` | the two halves of `submit` |
| `Cancel`, `CancelDone` | the two halves of `cancel_job` |
| `Pop`, `Exit`, `Park`, `Claim` | one round of `_worker_loop` up to the claim |
| `Skip`, `Start`, `Finish`, `Settle` | `_execute` and `_fail_timed_out` |
| `Release`, `Reenqueue` | the two halves of `_release_repo` |

What a job does while it runs is its result. The claim, the parking (the sort by
submit order included) and the release are modelled whole.

### AnswerChannel

`_TrackedChannel`. A question stands for one call of `ask`, a reply for one
`POST /jobs/{id}/answer`. `Ask`, `Take`, `TimeOut` and `Leave` are the steps of
`ask`; `PostUnasked`, `PostRejected`, `PostAccepted`, `PostBlocked` and
`Unblock` those of `submit_reply`. The put into the one-place queue happens
under `_answer_lock`, so a put that blocks keeps the lock: `lockedBy` names it.
A reply that `ask` finds unparsable is not separate: replies are validated
before they are put.

### StoryBoard

`backlog.json` and everything that writes it. A person's mutation is one
load-mutate-save under `_backlog_lock` and one action. A pass of the foreman
(`foreman_run`) holds that lock while it submits job after job and saves at the
end, so it is several actions, and `selecting` says that the lock is taken;
meanwhile jobs start, end and are cancelled, and their write-backs wait in
`owed`. A failed save is compensated job by job (`recalled`): those still
queued are cancelled, the others reported (`uncancellable`). `Restart` forgets
the registry and keeps the file. `history` is a ghost: it records whether
anybody but the foreman touched a story. `ValidEdges` is
`validate_dependencies`; `Ready` is `ready_for_delivery`. Titles, estimates,
epics and iterations are left out.

### JobArchive

A job leaves traces in the clone, the report, `meta.json`, the verdicts, the
transcripts, the events and the stories; `files` and `meta` say which exist.
`Claim` is the locked decision of `purge_job` with both branches (registered and
ended, or unknown to the registry), `Delete` empties one place in the order of
`_finish_purge`, `Raise` is a deletion that raises, `Answer` the 200. A worker's
sweep and `POST /jobs/purge` are purgers like any other: the TTL decides only
which archived jobs are tried, so any may be. `ReadMarker` and `WriteMarker` are
the two halves of `_set_archived`, `ReadReport` and `MergeStories` those of
`make_backlog`, `SubmitVerify` and `EndVerify` a verify job from its check of
the mirror to its verdict. `Run` writes any part of what a job may leave behind.
`Restart` keeps the files only. `answered`, `stamped` and `failed` are ghosts.

### TaskScheduler

`schedule()` of `scheduler.py`. A turn is a run of the coroutine between two
awaits: `Skip` (the cascade), `Launch`, then `Await`, `RaiseCycle` or `Return`;
`Wake` is the return of `asyncio.wait`. `Resolve` is the end of a launched task
(`run_one`), which can happen only while the coroutine awaits: asyncio is
single-threaded. The initial state is any dependency graph, because a revision or
a checkpoint may be cyclic; unknown and self references are dropped as `deps` is
built, and duplicate ids are refused before the loop. `Abort` is the job's time limit,
which cancels the coroutine, and `ServeNextJob` the next job on the same event
loop.

### Metering, Delivery and DeliveryLedger

`Metering` is class `Budget` as every call uses it: `check` before (`Exhausted`),
`record` after (`Blows`, when it raises), `release` of the reserve. `Delivery`
is `deliver()` from the git baseline to the cleared checkpoint.

| Model | Code |
|---|---|
| `branch`, `tree`, `staged`, `stash` | what git holds: commits with their edits, the working directory, the index after a soft reset, the shared stash |
| `ckpt` | `RunCheckpoint` in the store: tasks done, baseline, plan |
| `mode` | agentic in place, agentic in worktrees, or described changes |
| `pc`, `tries`, `lock`, `stashLock`, `snap` | where each task's worker is in `_execute_task` and `_attempt_task`, `_integration_lock`, `_stash_lock`, the snapshot |
| `Begin`, `PlanCall`, `PlanReady`, `PlanHalts` | `deliver` up to the scheduler: the baseline; each plan, the linter's revision and those a human asks for; the architect's design, after which the reserve is set aside; every way to halt before |
| `SpendElsewhere`, `Purse` | what the same process spends between runs (`_intake`'s triage, a simulation in `_chat`); a budget that ends with the process or, in a chat, goes on into the next run |
| `Launch` … `Record` | one attempt: engineer, lock, review, QA, gates, the fail-to-pass check on the stash, WIP commit or merge, checkpoint |
| `AgentError`, `Overspend`, `Reject`, `GatesFail`, `BankFails`, `MergeFails`, … | each of its ways out, with the rollback that belongs to it |
| `TasksEnd`, `ReplanTask`, `EndRound` | `_replan_rounds` and `apply_replan`'s rewiring |
| `VisualFindings`, `FixKept`, `FixDropped`, `FixRaises` | `_visual_stage`, `_apply_visual_fix` |
| `SecurityReview`, `Artifacts`, `Squash`, `Land`, `Withhold`, `Finish` | `_security_stage` to `_finish` |
| `Crash`, `OperatorCommits`, `OperatorDiscards` | the process dies; what a person does with leftovers, since the engine halts over a dirty tree (or, with `allow_dirty_baseline`, commits them itself); the next `Begin` resumes from the checkpoint if there is one |

An edit is all that one task wrote in one run, with whether the gates passed over
it. `vetted` and `shipped` are ghosts. `DeliveryLedger` is what the engine
promises of finished work: work is banked and stays; a security review vets what
is banked; only vetted work is shipped. `ImplementsLedger` reads "banked" off the
branch and the index.

### FrontDoor, AuthGuard and SignIn

`AuthGuard` has the three operations of the guard with its table, pruning and
eviction. `SignIn` has the states and sessions of `oauth.py`. `FrontDoor` is a
thread for each request: consult the guard, compare the credential, note the
result, answer, then append to the access log in three steps (take the lock and
read, write, release). The exchange with GitHub takes time, in which the state is
already spent. `wrong`, `minted` and `openings` are ghosts.

### Command and its parts

A run of the command line is one thread of control. `Process` has its place
`at`, its exit code and the chat it may have been started from; `Return(code)`
ends the process or goes back to the chat, `Raise` is an exception that reaches
`main`. Each part owns some places and its own variables; `Command` puts them
together, adds what the world does meanwhile, and states the fairness.

* **AgentCall**: `ask_json` with its retries over the metered runner; several
  callers may be out at the same time.
* **Launch**: the options typed, `_validate_args` as a table of rules,
  credentials and clone (`_preflight`), and the choice of the command in `_run`.
* **Publication**: the tail of `_deliver`: push, open the pull request, watch the
  checks, let the engineer repair, ask a person if configured, push again. A push
  has a lease on what was last fetched. GitHub's calls fail before or after they
  took effect; reviewers push, checks register and conclude, the token ages.
* **QualityGates**: the files of one described attempt, path by path: apply,
  review, QA's files, gates, the revert for the fail-to-pass check, the mutated
  line, and the rollback from the snapshot. One write per attempt may fail.
* **DockerGates**: build, start, look, health check, stop, remove.
* **Audit**: `assess` with its parallel phases and artifacts, `--make-backlog`,
  and `--verify` with its votes.
* **Classic**: `workflow.py` with plan, revisions, and each task's attempts.
* **Conversation**: `--intake` and `--chat`, which enter the other commands.
* **Scan**: `collect_dependencies` with groups of requirements, the batch asked
  of OSV, and `scan_eol`. A specification is written in one of nine forms, and
  `Exact`, `Floor` and `Misread` say what the parser of each file makes of each:
  a version, a least version, or a pin of another name or version than it has;
  `Naming` says which forms do mean one version. A file is sound, broken (its
  parser finds nothing), or, for `packages.config` and `package-lock.json`, such
  that its parser raises, which ends the audit (`ScanRaises`). `TreesAssumption`:
  files are lists, and only a `pyproject.toml` has groups, in a table of TOML,
  which names each once.
* **Reports**: an audit as the service keeps it: result, then marker, then the
  registry's outcome; stories and verdicts that name findings by position;
  restarts after which `disk_status` answers. An item of a result is what a model
  wrote, with any value in any field. The two readers are modelled apart:
  `Claims` and `Claim` are `list_findings` with `_as_finding` (the first field
  that holds a text), `Deserving` and `Shown` are the four loops of
  `dict_to_backlog` (one field for each list, turned into a text whatever it is).

## 3. The runs

| Run | Instance | Shows |
|---|---|---|
| `queue_pool` | 3 jobs, 1 repository, 3 workers | the queue's safety and `ImplementsLifecycle` |
| `queue_pair` | 2 jobs of one repository, 1 of another, 2 workers | `EveryJobEnds`, `PoolDrains` |
| `queue_strand` | 3 jobs of one repository, 2 workers | refutes `EveryJobEnds` |
| `channel` | 1 task, 3 questions, 4 replies | `NoCrossDelivery`, `PublishedIffAwaited` |
| `board` | 2 stories, 2 jobs, passes of 2 | graph, attempts, verdicts, what backs them |
| `archive` | 1 job, 2 purgers, 2 restarts | the archive's safety |
| `scheduler` | all graphs of 4 tasks, 2 at a time | the scheduler's safety and `SlotsAreFilled` |
| `delivery` | 2 tasks and a spare, 3 modes, 2 at a time, 1 re-plan round, limit 3, reserve 2 | `OnlyGatedWork`, `SpendingBounded`, `PopsOwn`, `RunsEnd` |
| `delivery_resume` | 2 tasks, 2 runs, 1 fix round, crashes | `ResumableWork`, `ImplementsLedger` |
| `delivery_visual` | the same with 1 run | refutes `OnlyGatedFixes` |
| `front_door` | 2 threads, 2 sources, a table of 1, 5 requests | `RefusedForCause`, `GuessesBounded`, `NoRecordLost` |
| `commands` | 10,349 command lines and everything behind them | the ten properties of the command line |

**Why these bounds.** Three jobs of one repository are the fewest for which a
bucket has an order and a head other than its newcomer, and three workers let
one run, one decide and one release at the same time. In `queue_pair` only one
of the two competing jobs (`Cancellable`) and the lone job may be cancelled:
either competitor may be submitted first, so both orders are covered.
`QueueCap` is reached in `queue_pair` and equals the number of jobs elsewhere.
Three questions and four replies allow a late answer, a blocked one and one more
for the next question. Two stories suffice for an edge and, with both directions,
a cycle; two jobs for two attempts. Threads that delete different jobs share only
`_purging` and the marker lock, so one job and two purgers show every race; two
restarts allow a purge to be cut short, retried and cut short again. Four tasks
hold every cascade of two levels next to an independent task and a cycle that
hangs off a finished task.

`delivery` has two tasks side by side or one behind the other, so that each lock
is contended; the spare id is what a re-plan adds. A limit of three calls with two
in reserve is exhausted in every phase, and planning with its revisions may pass
what the reserve leaves before a task starts. `delivery_resume` has two runs, the
fewest that resume, and its one fix round puts a commit that is not a task's
between the baseline and the squash. `front_door` has a table of one source, so
that eviction happens at once, and a clock of three, past window and lockout.
`commands` has two fix rounds (a fix of a fix), two polls (a check that
registers late), one JSON retry, three voters (a tie and a majority), two deep
phases side by side, two files per attempt (one product file, one test), trees
of up to three of nine files with a bound of two dependencies, two audits and
two restarts. The files hold each kind of reading: pins, floors, a range taken
for a version, a name with extras, and, as the last file read, one that is
broken or makes its parser raise. The two results hold what is no object, null,
blank and missing texts, and a step with two texts. `Lines` is every mode's
longest accepted line with up to two options toggled, so that each rule of
`_validate_args` is met with and without its partner. The theorems below remove
these bounds for most of the safety.

**Deadlock** checking is off in all runs: nobody has to submit, answer, edit,
purge or start again, a stopped pool stays stopped, a schedule returns, and a
program ends.

**Fairness.** `DispatchQueue`: weak fairness for each worker and for the
submitters and cancellers that left the lock. These are OS threads; `run_job`
ends because `_worker_loop` wraps it in `wait_for`. No fairness for submitting,
cancelling or stopping. `TaskScheduler`: weak fairness of `Turn` alone. No task
has to end, for an agent may hang, and `SlotsAreFilled` holds all the same.
`Delivery`: weak fairness of the engine, since every agent call, git command and
gate has a time limit; crashes and the operator are not fair. `Command`: weak
fairness of the program while it does not wait for a human; GitHub, checks,
reviewers and humans are not fair. `StoryBoard`, `JobArchive`, `AnswerChannel`
and `FrontDoor` are checked for safety: nothing obliges a person to act, and a
deletion may fail for ever.

## 4. What is proved

All theorems are of the form `Spec => []Inv`, `Spec => [][A]_vars` or, for the two
refinements, `Spec => Abstract!Spec`, for every value of the constants that
satisfies the named assumptions of the modules (for example `QueueAssumption`:
each job has a repository; `DeliveryAssumption`: ids are finite, authors distinct,
slots positive; `PublicationAssumption`: a reviewer's commit is not one of ours;
`TreesAssumption`: what the parsers find are lists). Every safety invariant and
every action property of the passing runs has such a theorem.

* **DispatchQueue_proofs**: `RepoExclusive`, whose invariant adds that a worker
  inside a repository has marked it in `active` and holds a job; and
  `TokenDiscipline`, from which come `OutcomeFinal`, `NoJobLost` and the
  refinement of `JobLifecycle`. That a job runs once is not inductive: the id of a
  parked head is in its bucket *and* in the queue. The strengthening sees the id
  as a token that is with the submitter, in the queue or with a worker, never
  twice, and says what may remain in a bucket: while the repository is busy an
  entry without any token, while it is idle at most the head has one, and nothing
  once the job was claimed. `NoOvertaking`: the registry lists each job once, and
  every bucket is in its order, which an insertion keeps because the sort puts the
  newcomer before the first younger job (`InsertFacts`); so the one that starts is
  older than all that wait behind it.
* **AnswerChannel_proofs**: `NoCrossDelivery` for any number of concurrent asking
  tasks, since what lies in a slot was validated against the slot's question;
  `PublishedIffAwaited` when one task asks at a time.
* **StoryBoard_proofs**: `SoundGraph`: an acyclic set of edges is one whose
  stories can be numbered against the edges. In the inductive form no set of
  stories waits only for itself; the numbering follows by induction on the size of
  the set. `NeverWedged`: in an acyclic graph some open story is minimal
  (well-foundedness of the numbers) and so it is ready, in progress or blocked;
  `OneAttempt`, `InProgressIsBacked`, `ReadyWhenSubmitted` and `VerdictWaits`,
  from an invariant that ties every live job to the story that names it, unless
  the story's history says why not.
* **JobArchive_proofs**: `OneDeleter` and `ClaimsAreHeld` (claims and deleting
  threads correspond one to one), `RunningUntouched` (no archive call that could
  still mark a running job is under way), `OneAnswer` (as long as nobody wrote the
  marker during a purge, a purge past `meta.json` leaves no marker and one that
  answered was the only one), `GoneForGood`.
* **TaskScheduler_proofs**: `Bounded`, `BuildsOnDone`, `ExactCascade`,
  `CycleIsReal`, and from the last, by taking a remaining task of lowest rank,
  `SortableReturns`: a plan that can be ordered never ends in
  `DependencyCycleError`. `SpareIsSeen`: while a slot is spare, `schedule()` is
  not asleep, because when it went to sleep it could launch nothing and nothing
  becomes ready before a task ends. This is the safety half of `SlotsAreFilled`,
  whose other half is the fairness of a turn.
* **FrontDoor_proofs**: `RefusedForCause`, `GuessesBounded`, `NoRecordLost` and
  `OneSessionPerSignIn`, from `DoorInv`. For a source, the failures the guard
  remembers are in order of time, and those still inside the window are the last
  wrong credentials of that very source (`Justified`): pruning and eviction forget
  some and invent none. The failures that count and the threads past the guard
  together are fewer than the threshold and the threads (`GuessesLeft`): a thread
  passes the guard only below the threshold, and its failure only changes the side
  on which it is counted. The log is what the recursive function `Kept` says of
  the records appended so far, and the thread that rewrites it has the lock and
  has read all of it. A state of a sign-in is issued, in one thread's hands, or
  spent.
* **Delivery_proofs**: `PopsOwn` (who has shelved holds the stash lock and is on
  top of the stash). `SpendingBounded`: workers are at most slots, and a call
  either leaves the count as it is recorded or enters it after a check, so the sum
  of what is spent and what may still come grows only below the ceiling (`SpendInv`).
  The ceiling drops when the reserve is set aside, after planning may have passed
  it: then no task has been attempted, and none will be, since the check before
  a first attempt fails. For the limit itself the bound needs no exception.
  `OnlyGatedWork`: the invariant says for each mode who may hold the integration
  lock and where, and that the tree may be committed whenever nobody holds it or
  its holder has passed the gates. `ResumableWork`: the baseline of the checkpoint
  lies on the branch and not after that of the run, the index is empty outside the
  squash, and during it the old head still has everything. The refinement of
  `DeliveryLedger` adds that an approval covers all that a squash will put into
  the feature commit.
* **Command_proofs**: `LeavesNothing`, `AllOrReviewed`, `HumanWorkKept`,
  `ZeroMeansPublished`, `StopsGracefully` and `Honoured`. Each part of a run owns
  places: lemmas say from which places to which others the steps of each part
  lead, so that an invariant of one part survives the steps of all others.
  `ZeroMeansPublished` is strengthened by what holds at each place of publication:
  while a head is watched or repaired the pull request is open and everything
  committed is remote, and a fix is made only after a failure. `HumanWorkKept`
  needs that neither the local branch nor what git remembers of the remote one
  ever has a reviewer's commit, and that there is one delivery only.
  `StopsGracefully`: a run with an error for its exit code is over, and every step
  either goes on, or ends without an error, or settles one call that did not run
  into the budget. `Honoured` holds for any set of command lines: each option that
  a rule speaks for implies a mode that reads it (`HasUser`), and the mode in
  force is alone in its line, but for a chat (`ChosenAlone`). `FindingsAgree` and
  `SuccessSticks` follow from an invariant that ties the registry, the mirrored
  files, the verdicts and the stories: each story `Leads` to the item it was made
  of, because both readers count all objects of a list before they test any
  (`MergedNames`), and to the same claim when the item's first text is in the
  field that stories are made of (`LeadsAlike`). `HonestScan` follows from
  `ScanInv`, which goes along the files: every entry of the list is something that
  some file is taken to say; every pin of a file read, in a form that is read
  right, is noted; while a table of groups is walked each group is still to come,
  on the stack with an empty path, or noted, unless the bound is reached, and then
  the scan will say that it was cut.

Recursive functions (`Kept`, `Picked`) have their values by `SetInduction`, which
follows for a set of numbers from the well-foundedness of the naturals.

Only model-checked: the liveness properties `EveryJobEnds`, `PoolDrains`,
`SlotsAreFilled`, `RunsEnd` and `CommandEnds`, because fairness and `ENABLED` are
out of the prover's reach.

Some modules state more than the runs check, because TLC refutes it (section 5) or
because it follows from a stronger property: `EveryAskReturns`, `FailedIsRetried`,
`AbortedRunStops`, `FailedCommitIsResumable`, `EveryPinReported`, `StoriesVerifiable`
and `ExactIsPinned` are refuted;
`SoundFoundations`, `VerdictFailsSecure`, `AuditReported`, `ReadyWhenSubmitted`,
`OneDeleter`, `OneSessionPerSignIn` and the type invariants hold.

## 5. Disagreements found

Two are runs:

1. **A parked job can be stranded** (`queue_strand`). `a1` is registered before
   `a2` and `a3`, but its submitter enqueues it late. A release re-enqueues the
   head `a2`; `a1` is popped first and, not being the head, is parked, and the
   sort puts it in front; then `a2` is popped, is no longer the head, and is parked
   again. The repository is idle, so nobody will release it and nobody wakes
   `a1`. `docs/DISPATCH.md` says that a parked job is started the moment its
   repository frees. A re-check after enqueueing, or a wake-up of the new head
   when the repository is idle, would close it.
2. **A visual fix that raises is committed** (`delivery_visual`). The engineer
   edits the shared directory and the gates decide afterwards; when the call
   itself raises, nothing discards the edits, and the feature commit takes them.

The others were met while modelling. Those whose property is named were refuted
by TLC and are not kept as runs.

*The service*

* A second answer can wedge a run (`EveryAskReturns`): `submit_reply` puts into the
  one-place queue with `_answer_lock` held (dispatch.py:412).
* When two tasks ask, the `finally` of the first clears whatever is published, the
  second one's question too (dispatch.py:389). `PublishedIffAwaited` is therefore
  stated, and proved, for one asking task; `NoCrossDelivery` holds for any number.
* A story can be attempted twice: the compensation of a failed save cancels its
  jobs after the backlog lock is released, and the write-back finds the story by
  id only. A story number can be reissued: `_mint_id` looks at the stories that
  are still there; two docstrings say that it never does.
* A failed purge leaves traces nobody can find (`FailedIsRetried`): `meta.json`,
  by which sweeps find the job, goes before the verdicts, transcripts, events
  and stories. Deleting it last would close it. `ClaimsAreHeld` covers the other
  half: the claim is given back, so that a purge can be tried again.
* A story may name a finding that is not there (`StoriesVerifiable`).
  `dict_to_backlog` makes a text of whatever an item holds in the one field it
  looks at: null becomes "None", a dependency without a name "?". `list_findings`
  wants a non-blank string, takes the first of four fields, and skips an item that
  has none. The docstring says that each story can be traced to, and verified
  against, the claim it came from (assessment.py:1307). `FindingsAgree` is what
  remains true: the position leads to the very item, and to the same claim if its
  first text is in the field of the story. One test for both would close it.
* A timed-out delivery goes on working (`AbortedRunStops`): `asyncio.wait` does not
  cancel what it waits for, and the worker keeps its event loop. This limits what
  `RepoExclusive` says: an orphaned task is invisible to registry and pool.
* The lockout ends early when older failures leave the window, which
  `docs/DISPATCH.md` does not say; two concurrent renewals leave two live
  sessions (oauth.py:244).
* An audit whose merge of the backlog raises after its result was mirrored is
  "failed" in the registry and "succeeded" after a restart; a backlog requested
  between the two mirrored files goes to the shared epic, and a later merge
  files it again under the repository's.

*The engine*

* A final commit that fails is followed by `checkpoints.clear`, though the comment
  says that the work can be resumed (`FailedCommitIsResumable`). An approval that
  is denied clears it too.
* The reserve is released before the visual stage. A replacement that reuses the
  id of a failed task is never attempted. An unusable answer to a re-plan unwinds
  `deliver`.
* Documents written before a withheld commit make the next run halt over a dirty
  tree. A crash between the WIP commit and the checkpoint leaves that work under
  a new baseline. A git error in the WIP commit or the merge leaves the gated
  edits of a failed task in the tree. A stash pop that fails leaves its entry.
* `budget.py` says that the absolute limit is never exceeded (line 96); the calls in
  flight exceed it by what they cost. `SpendingBounded` says by how much at most.
  The reserve is set aside only after planning: a plan with many revisions, or the
  earlier deliveries of a chat, may leave nothing for the tasks, which then all
  fail without an attempt.
* The snapshot is keyed by the path as written, so an alias leaves a rejected
  attempt's file behind; QA's files may replace reviewed product files. `docker
  run -d` that reports a failure after it started is followed by no `docker stop`.

*The command line*

* `--chat --deliver --record-transcripts` is accepted and records nothing
  (excepted in `Honoured`). `--intake` changes the options after they were ruled
  on, so the rules do not see the routed command, though its docstring says
  "exactly as if the flags had been typed".
* After a failed re-watch the outcome of the watch before is used for another
  round; a garbled repair ends with code 2 and edits in the tree; an error after
  the pull request was opened masks the delivery's result; a token may expire
  during the watch.
* An unusable answer, or the budget, during the triage of `--intake` is not caught.
  A garbled answer in a chat's run ends the chat.
* A range is listed as an exact version (`ExactIsPinned`). `_exact_version` takes
  what begins with a digit and has letters and digits between its dots, so `1.x` is
  a version of its own, not marked as approximate, that is asked about and
  supersedes the floors of its package; its docstring says "``None`` for a range"
  (depscan.py:151). A bare version of Cargo, a caret range there, is taken for exact
  in the same way.
* A floor that is read before an exact pin of the same version hides the pin
  (`EveryPinReported`, depscan.py:774), and such a pin does not supersede other
  floors. The table of groups beyond its bound is cut silently.
* Some pins are asked about under another name or version than they have
  (`Misread`): `name[extra]==1.2`, a marker, a hash or a second constraint in a
  `requirements.txt` (depscan.py:337), a second constraint in a `pyproject.toml`,
  `[1.2]` and `[1,2)` in a `pom.xml`. Versions with build metadata are
  dropped by `_exact_version`. `HonestScan` speaks of the forms that are read right.
* `scan_dependencies` says that every failure mode produces a scan and that the
  caller never has to branch (depscan.py:809), but `parse_packages_config` does not
  catch the ValueError that its neighbours do, and a `package-lock.json` with a name
  that is no text raises a TypeError: the audit ends with it (`ScanRaises`).

## 6. What is not modelled, and assumptions

* **Dashboard, deployment units**: views and configuration without state.
  **Policy, approval, verification**: pure decisions; the outcomes (gates pass or
  fail, approval granted or refused) are inputs of `Delivery` and `QualityGates`.
* **Delivery**: a revision that costs nothing is a stutter. A chat's other
  deliveries and simulations are `SpendElsewhere`. The dependency and gate
  checks of the baseline, cold calls after a failed session and the mutation
  check change nothing that `Delivery` sees; QA writes tests in every attempt.
  The plan linter is assumed to accept the plans. The operator commits what a
  crashed squash left in the index, and what he commits of raw edits is followed
  no further, whether he does it by hand or has `allow_dirty_baseline` do it at
  the start of the next run. `ProjectMemory`'s merge is left out.
* **Front door**: the threshold is positive, the log keeps at least two
  records; that an expired session is dropped from the table is invisible;
  authentication and the guard's note are one step; the tenancy check and the
  cached installation token are left out. Event and trace journals have the
  shape of the access log.
* **Command line**: options that every rule treats alike are one member, values are
  in range. The result of `deliver()` is any result; "develop" and "deploy" are
  the stages inside it that `QualityGates` and `DockerGates` detail. Reviewers add
  commits on top. A chat's delivery is its only hand-off; Ctrl-C is left out.
  Plans of `Classic` are not empty. Paths are normalised, at most one write fails
  per attempt and none during the rollback. Audits have a report path and persist
  their result. Dead-code and build probes, inventory statistics, offline
  evaluation and the text of reports are left out.
* **Reports**: the jobs of one repository; a purge is one step; ids are unique.
  The stories of dead code and advisories carry no finding id and are left out,
  as are the lists that no story is made of (inventory, data layer, services,
  coverage, conventions, components). Titles are not cut at 200 characters and
  nobody edits them here; texts have no blanks around them.
* **Scan**: of a specification only its form counts; misread pins of one package
  and version are one entry. What makes a parser run out of stack or memory is left
  out. Whether the parser of `packages.config` meets its ValueError depends on the
  version of the interpreter; `eolscan.py` guards against the same one (line 307).
* **Containers**: the command runner returns a failure and does not raise.
* **Service**: `Workspace.write_text` replaces a file as a whole, and
  `backlog.json` is written by the service alone: a file corrupted by hand makes
  `_write_back_story` raise. Worker threads do not die; one way they could is
  known: a job that is archived and purged between its terminal state and
  `_events[job_id].set()` has no event left to set. Several services over one
  workspace are outside the program's own assumptions.
* Agents and prompts hold no state; the models take their answers as arbitrary.

## 7. Plan

Done: the queue, the channel, the board, the archive, the scheduler; the engine
with its meter and checkpoint; the front door; the command line with its parts.

Left:

1. For the other liveness properties what `SpareIsSeen` is for `SlotsAreFilled`: in
   every state that has not ended something is left to do (who holds a lock can
   go on), and a measure that each fair step lowers.
2. The plan linter (`lint_plan`) as functions, checked against a reference
   definition over all small graphs.
3. Event and trace journals as modules of their own, with removal.
4. The composition of `DispatchQueue` with `JobArchive` (the window before the
   completion event is set) and with `StoryBoard` (write-backs of real jobs).
5. `Delivery` with the orphans of a timed-out job in the same working directory.
