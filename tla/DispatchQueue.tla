---------------------------- MODULE DispatchQueue ----------------------------
(***************************************************************************)
(* The job queue and worker pool of dev_team/dispatch.py (class            *)
(* Dispatcher).                                                            *)
(*                                                                         *)
(* HTTP handler threads submit and cancel jobs; a pool of worker threads   *)
(* pops them from one FIFO queue.  A worker runs a job only when its       *)
(* repository is idle and no other job of that repository is parked ahead  *)
(* of it; otherwise it parks the job in the repository's bucket            *)
(* (_deferred) and pops the next one.  The release of a repository         *)
(* re-enqueues the head of its bucket and leaves it in the bucket.         *)
(*                                                                         *)
(* One action is one critical section of the registry lock, or one         *)
(* operation on the queue or on a completion event: the points at which    *)
(* threads may interleave.  Popping and deciding are two steps because     *)
(* the code pops outside the lock, and so are registering and enqueueing.  *)
(***************************************************************************)
EXTENDS Naturals, Sequences, SequencesExt

CONSTANTS
    Jobs,       \* the jobs that may be submitted
    Workers,    \* the worker threads (max_workers)
    Repos,      \* the serialisation keys (_repo_key)
    RepoOf,     \* the repository each job works on
    QueueCap,   \* most jobs that may be queued at once (queue_cap)
    Cancellable,\* bound: the jobs that clients may cancel
    NoJob,      \* what a worker holds between two jobs
    Shutdown    \* the sentinel stop() puts on the queue

ASSUME QueueAssumption ==
    /\ RepoOf \in [Jobs -> Repos]
    /\ QueueCap \in Nat
    /\ NoJob \notin Jobs
    /\ Shutdown \notin Jobs

VARIABLES
    state,      \* JobRecord.state; "absent" before submit() registers the job
    done,       \* jobs whose completion event is set
    order,      \* _order: the registered jobs in submit order
    arriving,   \* registered jobs whose submit() has not enqueued them yet
    queue,      \* _queue: job ids and, after stop(), the sentinel
    parked,     \* _deferred: the bucket of jobs parked for each repository
    active,     \* _active_repos: repositories with a job claimed by a worker
    pc,         \* where each worker is in _worker_loop
    holds,      \* the job id each worker holds
    cancelling, \* cancelled jobs whose cancel_job() has not set the event yet
    stopped     \* stop() has been called

vars == <<state, done, order, arriving, queue, parked, active, pc, holds,
          cancelling, stopped>>

Terminal == {"succeeded", "failed", "cancelled"}
States   == {"absent", "queued", "running"} \cup Terminal

\* Between claiming a repository and releasing it.
InRepo == {"claimed", "running", "settling", "releasing"}

\* get: blocked on the queue; popped: holds an item, not decided yet;
\* claimed: repository taken, job not started; settling: outcome recorded,
\* event not set; releasing: about to free the repository;
\* reenqueue: repository freed, parked head not put back yet.
Locations == {"get", "popped", "reenqueue", "exited"} \cup InRepo

TypeOK ==
    /\ state \in [Jobs -> States]
    /\ done \subseteq Jobs
    /\ order \in Seq(Jobs)
    /\ arriving \subseteq Jobs
    /\ queue \in Seq(Jobs \cup {Shutdown})
    /\ parked \in [Repos -> Seq(Jobs)]
    /\ active \subseteq Repos
    /\ pc \in [Workers -> Locations]
    /\ holds \in [Workers -> Jobs \cup {NoJob}]
    /\ cancelling \subseteq Jobs
    /\ stopped \in BOOLEAN

Init ==
    /\ state = [j \in Jobs |-> "absent"]
    /\ done = {}
    /\ order = <<>>
    /\ arriving = {}
    /\ queue = <<>>
    /\ parked = [r \in Repos |-> <<>>]
    /\ active = {}
    /\ pc = [w \in Workers |-> "get"]
    /\ holds = [w \in Workers |-> NoJob]
    /\ cancelling = {}
    /\ stopped = FALSE

(***************************************************************************)
(* Handler threads.                                                        *)
(***************************************************************************)

\* submit(), inside the lock: refuse at capacity, else register as queued.
Submit(j) ==
    /\ state[j] = "absent"
    /\ Cardinality({k \in Jobs : state[k] = "queued"}) < QueueCap
    /\ state' = [state EXCEPT ![j] = "queued"]
    /\ order' = Append(order, j)
    /\ arriving' = arriving \cup {j}
    /\ UNCHANGED <<done, queue, parked, active, pc, holds, cancelling, stopped>>

\* submit(), after the lock: self._queue.put(job_id).
Enqueue(j) ==
    /\ j \in arriving
    /\ arriving' = arriving \ {j}
    /\ queue' = Append(queue, j)
    /\ UNCHANGED <<state, done, order, parked, active, pc, holds, cancelling,
                   stopped>>

\* Mutant of Cancel: a running job can be cancelled too.
CancelWhileRunning(j) ==
    /\ state[j] \in {"queued", "running"}
    /\ state' = [state EXCEPT ![j] = "cancelled"]
    /\ cancelling' = cancelling \cup {j}
    /\ UNCHANGED <<done, order, arriving, queue, parked, active, pc, holds,
                   stopped>>

\* cancel_job(), inside the lock: only a queued job.  Its id stays wherever
\* it is (queue, bucket or a worker's hands).
Cancel(j) ==
    /\ j \in Cancellable
    /\ state[j] = "queued"
    /\ state' = [state EXCEPT ![j] = "cancelled"]
    /\ cancelling' = cancelling \cup {j}
    /\ UNCHANGED <<done, order, arriving, queue, parked, active, pc, holds,
                   stopped>>

\* cancel_job(), after the story write-back: the completion event.
CancelDone(j) ==
    /\ j \in cancelling
    /\ cancelling' = cancelling \ {j}
    /\ done' = done \cup {j}
    /\ UNCHANGED <<state, order, arriving, queue, parked, active, pc, holds,
                   stopped>>

\* Mutant of Stop: what is queued is dropped instead of drained.
StopDropping ==
    /\ ~stopped
    /\ stopped' = TRUE
    /\ queue' = <<Shutdown>>
    /\ UNCHANGED <<state, done, order, arriving, parked, active, pc, holds,
                   cancelling>>

\* stop(): one sentinel for the whole pool.
Stop ==
    /\ ~stopped
    /\ stopped' = TRUE
    /\ queue' = Append(queue, Shutdown)
    /\ UNCHANGED <<state, done, order, arriving, parked, active, pc, holds,
                   cancelling>>

(***************************************************************************)
(* Worker threads (_worker_loop).                                          *)
(***************************************************************************)

Repo(w) == RepoOf[holds[w]]

Goto(w, location) == pc' = [pc EXCEPT ![w] = location]

\* self._queue.get() of a job id; the lock is not held.
Pop(w) ==
    /\ pc[w] = "get"
    /\ queue # <<>>
    /\ Head(queue) # Shutdown
    /\ queue' = Tail(queue)
    /\ holds' = [holds EXCEPT ![w] = Head(queue)]
    /\ Goto(w, "popped")
    /\ UNCHANGED <<state, done, order, arriving, parked, active, cancelling,
                   stopped>>

\* The sentinel goes back on the queue for the other workers.
Exit(w) ==
    /\ pc[w] = "get"
    /\ queue # <<>>
    /\ Head(queue) = Shutdown
    /\ queue' = Append(Tail(queue), Shutdown)
    /\ Goto(w, "exited")
    /\ UNCHANGED <<state, done, order, arriving, parked, active, holds,
                   cancelling, stopped>>

\* Mutants of MayRun: only the line is checked, or only the repository.
MayRunHeadOfLine(w) ==
    LET waiting == parked[Repo(w)]
    IN  waiting # <<>> => Head(waiting) = holds[w]

MayRunIdleRepo(w) == Repo(w) \notin active

MayRun(w) ==
    LET waiting == parked[Repo(w)]
    IN  /\ Repo(w) \notin active
        /\ waiting # <<>> => Head(waiting) = holds[w]

\* bucket.append(item); bucket.sort(key=self._order.index): a stable sort of
\* a bucket in submit order puts the item after its equals.
SubmitIndex(j) == CHOOSE i \in DOMAIN order : order[i] = j

\* Mutant of InsertInSubmitOrder: the bucket stays in parking order.
InsertLast(bucket, j) == Append(bucket, j)

InsertInSubmitOrder(bucket, j) ==
    LET older == {i \in DOMAIN bucket : SubmitIndex(bucket[i]) <= SubmitIndex(j)}
    IN  InsertAt(bucket, Cardinality(older) + 1, j)

Park(w) ==
    /\ pc[w] = "popped"
    /\ ~MayRun(w)
    /\ parked' = [parked EXCEPT ![Repo(w)] = InsertInSubmitOrder(@, holds[w])]
    /\ holds' = [holds EXCEPT ![w] = NoJob]
    /\ Goto(w, "get")
    /\ UNCHANGED <<state, done, order, arriving, queue, active, cancelling,
                   stopped>>

\* Take the repository; a parked head leaves its bucket here.
Claim(w) ==
    /\ pc[w] = "popped"
    /\ MayRun(w)
    /\ parked' = [parked EXCEPT ![Repo(w)] = IF @ = <<>> THEN @ ELSE Tail(@)]
    /\ active' = active \cup {Repo(w)}
    /\ Goto(w, "claimed")
    /\ UNCHANGED <<state, done, order, arriving, queue, holds, cancelling,
                   stopped>>

\* _execute() of a job cancelled while it was queued: nothing runs.
Skip(w) ==
    /\ pc[w] = "claimed"
    /\ state[holds[w]] = "cancelled"
    /\ Goto(w, "releasing")
    /\ UNCHANGED <<state, done, order, arriving, queue, parked, active, holds,
                   cancelling, stopped>>

\* _execute(): every other job is set running, whatever its state was.
Start(w) ==
    /\ pc[w] = "claimed"
    /\ state[holds[w]] # "cancelled"
    /\ state' = [state EXCEPT ![holds[w]] = "running"]
    /\ Goto(w, "running")
    /\ UNCHANGED <<done, order, arriving, queue, parked, active, holds,
                   cancelling, stopped>>

\* _execute() records what run_job() returned or raised; _fail_timed_out()
\* records a failure when the wall-clock ceiling cuts run_job() short.
Finish(w, result) ==
    /\ pc[w] = "running"
    /\ state' = [state EXCEPT ![holds[w]] = result]
    /\ Goto(w, "settling")
    /\ UNCHANGED <<done, order, arriving, queue, parked, active, holds,
                   cancelling, stopped>>

\* After the story write-back: self._events[job_id].set().
Settle(w) ==
    /\ pc[w] = "settling"
    /\ done' = done \cup {holds[w]}
    /\ Goto(w, "releasing")
    /\ UNCHANGED <<state, order, arriving, queue, parked, active, holds,
                   cancelling, stopped>>

\* Mutant of Release: nobody wakes the parked head.
ReleaseSilently(w) ==
    /\ pc[w] = "releasing"
    /\ active' = active \ {Repo(w)}
    /\ holds' = [holds EXCEPT ![w] = NoJob]
    /\ Goto(w, "get")
    /\ UNCHANGED <<state, done, order, arriving, queue, parked, cancelling,
                   stopped>>

\* _release_repo(), inside the lock: free the repository, read its head.
Release(w) ==
    /\ pc[w] = "releasing"
    /\ active' = active \ {Repo(w)}
    /\ IF parked[Repo(w)] = <<>>
       THEN /\ holds' = [holds EXCEPT ![w] = NoJob]
            /\ Goto(w, "get")
       ELSE /\ holds' = [holds EXCEPT ![w] = Head(parked[Repo(w)])]
            /\ Goto(w, "reenqueue")
    /\ UNCHANGED <<state, done, order, arriving, queue, parked, cancelling,
                   stopped>>

\* _release_repo(), after the lock: put the head back, still parked.
Reenqueue(w) ==
    /\ pc[w] = "reenqueue"
    /\ queue' = Append(queue, holds[w])
    /\ holds' = [holds EXCEPT ![w] = NoJob]
    /\ Goto(w, "get")
    /\ UNCHANGED <<state, done, order, arriving, parked, active, cancelling,
                   stopped>>

Results == {"succeeded", "failed"}

WorkerStep(w) ==
    \/ Pop(w) \/ Exit(w) \/ Park(w) \/ Claim(w) \/ Skip(w) \/ Start(w)
    \/ \E result \in Results : Finish(w, result)
    \/ Settle(w) \/ Release(w) \/ Reenqueue(w)

Next ==
    \/ \E j \in Jobs : Submit(j) \/ Enqueue(j) \/ Cancel(j) \/ CancelDone(j)
    \/ Stop
    \/ \E w \in Workers : WorkerStep(w)

Spec == Init /\ [][Next]_vars

(***************************************************************************)
(* A thread that can take its next step takes it; run_job() ends because   *)
(* of the job timeout.  Nobody is obliged to submit, cancel or stop.       *)
(***************************************************************************)
Fairness ==
    /\ \A w \in Workers : WF_vars(WorkerStep(w))
    /\ WF_vars(\E j \in Jobs : Enqueue(j) \/ CancelDone(j))

FairSpec == Spec /\ Fairness

(***************************************************************************)
(* Properties.                                                             *)
(***************************************************************************)

\* Two jobs of one repository never overlap, from the claim of the clone to
\* its release (start(): "two jobs on the same repository never overlap").
RepoExclusive ==
    \A v, w \in Workers :
        /\ pc[v] \in InRepo
        /\ pc[w] \in InRepo
        /\ Repo(v) = Repo(w)
        => v = w

\* Somebody still has the id of a queued job: its submitter, the queue, a
\* worker that has not started it, or a bucket.  A parked id that also
\* travels in the queue must not be dropped from both.
Tracked(j) ==
    \/ j \in arriving
    \/ Contains(queue, j)
    \/ \E w \in Workers : holds[w] = j /\ pc[w] \in {"popped", "claimed"}
    \/ \E r \in Repos : Contains(parked[r], j)

NoJobLost == \A j \in Jobs : state[j] = "queued" => Tracked(j)

\* A job is run at most once and its outcome is never overwritten, although
\* its id may be in a bucket and in the queue at the same time.
OutcomeFinal ==
    [][\A j \in Jobs : state[j] \in Terminal => state'[j] = state[j]]_vars

\* A worker never takes a repository with a job while an older job of that
\* repository is parked (_worker_loop: "a newer job overtaking an older
\* parked one would break the per-repo FIFO promise").
NoOvertaking ==
    [][\A r \in active' \ active : \A w \in Workers :
          pc'[w] = "claimed" /\ Repo(w) = r =>
              \A k \in ToSet(parked'[r]) : SubmitIndex(holds[w]) < SubmitIndex(k)]_vars

\* Why a job runs once.  Its id travels as a token: in the hands of its
\* submitter, in the queue, or with a worker that popped it or is about to
\* re-enqueue it.
Carrying   == {"popped", "reenqueue"}
Carried(j) == \E w \in Workers : pc[w] \in Carrying /\ holds[w] = j
Token(j)   == j \in arriving \/ Contains(queue, j) \/ Carried(j)

JobsOnce(s) ==
    \A i, k \in 1..Len(s) : s[i] = s[k] /\ s[i] \in Jobs => i = k

OneToken ==
    /\ JobsOnce(queue)
    /\ \A v, w \in Workers :
          pc[v] \in Carrying /\ pc[w] \in Carrying /\ holds[v] = holds[w] => v = w
    /\ \A j \in Jobs :
          /\ ~(j \in arriving /\ Contains(queue, j))
          /\ ~(j \in arriving /\ Carried(j))
          /\ ~(Contains(queue, j) /\ Carried(j))

ParkedAtHome ==
    \A r \in Repos : \A j \in Jobs : Contains(parked[r], j) => RepoOf[j] = r

\* No parked job of a busy repository has a token: its entry is all there is.
BusyBuckets ==
    \A r \in active :
        /\ JobsOnce(parked[r])
        /\ \A j \in Jobs : Contains(parked[r], j) => ~Token(j)

\* In an idle repository at most the head of the bucket has one.
IdleBuckets ==
    \A r \in Repos \ active :
        parked[r] # <<>> /\ Token(Head(parked[r])) =>
            /\ JobsOnce(parked[r])
            /\ \A j \in Jobs :
                  Contains(parked[r], j) /\ j # Head(parked[r]) => ~Token(j)

\* A claimed or finished job has neither a token nor a bucket entry left,
\* and a job not yet submitted has none either.
Spent(j) ==
    \/ state[j] \in {"absent", "running"} \cup Results
    \/ \E w \in Workers : pc[w] \in InRepo /\ holds[w] = j

NothingLeft ==
    \A j \in Jobs : Spent(j) =>
        ~Token(j) /\ \A r \in Repos : ~Contains(parked[r], j)

\* The registry agrees with the worker that holds the job.
WorkerState ==
    /\ \A w \in Workers :
          /\ pc[w] = "claimed" => state[holds[w]] \in {"queued", "cancelled"}
          /\ pc[w] = "running" => state[holds[w]] = "running"
          /\ pc[w] = "settling" => state[holds[w]] \in Results
          /\ pc[w] = "releasing" => state[holds[w]] \in Terminal
    /\ \A j \in Jobs : state[j] = "running" =>
          \E w \in Workers : pc[w] = "running" /\ holds[w] = j
    /\ \A j \in cancelling : state[j] = "cancelled"

TokenDiscipline ==
    /\ OneToken
    /\ ParkedAtHome
    /\ BusyBuckets
    /\ IdleBuckets
    /\ NothingLeft
    /\ WorkerState

\* The queue, the buckets and the workers together implement the lifecycle.
Lifecycle == INSTANCE JobLifecycle WITH Jobs <- Jobs, Repos <- Repos, RepoOf <- RepoOf,
                                        state <- state, done <- done
ImplementsLifecycle == Lifecycle!LifecycleSpec

\* Every submitted job is decided and its waiters are woken, unless the
\* service is being stopped (DISPATCH.md: a parked job is "started the
\* moment that repo frees").
EveryJobEnds ==
    \A j \in Jobs : state[j] = "queued" ~> (j \in done \/ stopped)

\* One sentinel ends the whole pool, and it drains: a job that no other job
\* of its repository could delay is left behind only if it is still arriving
\* or waits in the queue, where it came after the sentinel (stop(): "Signal
\* every worker to drain-and-exit").
Undisturbed == {j \in Jobs : \A k \in Jobs : RepoOf[k] = RepoOf[j] => k = j}

PoolDrains ==
    stopped ~> /\ \A w \in Workers : pc[w] = "exited"
               /\ \A j \in Undisturbed :
                     state[j] = "queued" => j \in arriving \/ Contains(queue, j)
=============================================================================
