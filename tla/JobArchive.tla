----------------------------- MODULE JobArchive -----------------------------
(***************************************************************************)
(* Archiving and purging jobs: the routes archive, unarchive and purge of  *)
(* dev_team/dispatch.py, the TTL sweep of the workers, and what other      *)
(* threads write into the files that a purge deletes.                      *)
(*                                                                         *)
(* A job leaves traces in seven places.  audit/<id>/meta.json carries the  *)
(* archive marker and decides, with the registry, whether a purge may run. *)
(* purge_job decides under the registry lock, claims the id in _purging,   *)
(* and deletes place after place outside every lock; archive and unarchive *)
(* read and write meta.json under a lock that the purge does not take;     *)
(* make_backlog and a verify job read the report first and write later.    *)
(***************************************************************************)
EXTENDS Naturals, Sequences, SequencesExt

CONSTANTS
    Jobs,           \* the assess jobs
    Purgers,        \* threads that purge: HTTP handlers and sweeping workers
    NoJob,          \* what an idle thread works on
    MaxRestarts,    \* bound: restarts of the service
    MaxAnswers      \* bound: how far the answers of a purge are counted

ASSUME ArchiveAssumption ==
    /\ NoJob \notin Jobs
    /\ MaxRestarts \in Nat
    /\ MaxAnswers \in Nat \ {0, 1}

VARIABLES
    record,     \* the registry: JobRecord.state, queued counted as running
    files,      \* which places besides meta.json hold something of a job
    meta,       \* the job's meta.json
    purging,    \* _purging: the ids claimed by a purge
    job,        \* the job each purger deletes
    step,       \* the next place it deletes
    stamping,   \* the archive or unarchive that holds _meta_lock
    breeding,   \* jobs whose report a make_backlog has read
    verifying,  \* jobs with a verify job submitted for one of their findings
    restarts,   \* restarts so far
    answered,   \* ghost: how often a purge of the job answered 200
    stamped,    \* ghost: jobs whose marker was written during or after a purge
    failed      \* ghost: jobs a purge of which raised

fileVars    == <<files, meta>>
purgeVars   == <<purging, job, step>>
writerVars  == <<breeding, verifying>>
ghostVars   == <<answered, stamped, failed>>
vars == <<record, fileVars, purgeVars, stamping, writerVars, restarts, ghostVars>>

\* The order of _finish_purge (report: assessment.md and assessment.json).
DeletionOrder ==
    <<"clone", "report", "meta", "verdicts", "transcripts", "events", "stories">>

Places == ToSet(DeletionOrder) \ {"meta"}

\* Deleted with ignore_errors: it may stay, and the purge goes on.
Lenient == {"clone", "transcripts"}

Idle == [job |-> NoJob, to |-> "plain"]

TypeOK ==
    /\ record \in [Jobs -> {"new", "running", "ended", "unregistered"}]
    /\ files \in [Jobs -> SUBSET Places]
    /\ meta \in [Jobs -> {"none", "plain", "archived"}]
    /\ purging \subseteq Jobs
    /\ job \in [Purgers -> Jobs \cup {NoJob}]
    /\ step \in [Purgers -> 1..(Len(DeletionOrder) + 1)]
    /\ stamping \in {Idle} \cup [job : Jobs, to : {"plain", "archived"}]
    /\ breeding \subseteq Jobs
    /\ verifying \subseteq Jobs
    /\ restarts \in 0..MaxRestarts
    /\ answered \in [Jobs -> 0..MaxAnswers]
    /\ stamped \subseteq Jobs
    /\ failed \subseteq Jobs

Init ==
    /\ record = [j \in Jobs |-> "new"]
    /\ files = [j \in Jobs |-> {}]
    /\ meta = [j \in Jobs |-> "none"]
    /\ purging = {}
    /\ job = [p \in Purgers |-> NoJob]
    /\ step = [p \in Purgers |-> 1]
    /\ stamping = Idle
    /\ breeding = {}
    /\ verifying = {}
    /\ restarts = 0
    /\ answered = [j \in Jobs |-> 0]
    /\ stamped = {}
    /\ failed = {}

Write(j, places) == files' = [files EXCEPT ![j] = @ \cup places]

(***************************************************************************)
(* The job itself.                                                         *)
(***************************************************************************)

\* What a job writes as it runs, if it comes that far and is asked to.
Traces == {"clone", "transcripts", "events"}

\* The job is submitted and runs.
Run(j, traces) ==
    /\ record[j] = "new"
    /\ record' = [record EXCEPT ![j] = "running"]
    /\ Write(j, traces)
    /\ UNCHANGED <<meta, purgeVars, stamping, writerVars, restarts, ghostVars>>

\* A finished assessment is mirrored: the report, then meta.json, then, if
\* the submit asked for it, its stories.
Mirror(j, stories) ==
    /\ record[j] = "running"
    /\ meta[j] = "none"
    /\ Write(j, {"report"} \cup stories)
    /\ meta' = [meta EXCEPT ![j] = "plain"]
    /\ UNCHANGED <<record, purgeVars, stamping, writerVars, restarts, ghostVars>>

\* The job succeeds, or fails or is cancelled with or without a mirror.
End(j) ==
    /\ record[j] = "running"
    /\ record' = [record EXCEPT ![j] = "ended"]
    /\ UNCHANGED <<fileVars, purgeVars, stamping, writerVars, restarts, ghostVars>>

(***************************************************************************)
(* _set_archived                                                           *)
(***************************************************************************)

\* Mutant of ReadMarker: the running job is not refused.
ReadMarkerAnyTime(j, to) ==
    /\ stamping = Idle
    /\ meta[j] # "none"
    /\ stamping' = [job |-> j, to |-> to]
    /\ UNCHANGED <<record, fileVars, purgeVars, writerVars, restarts, ghostVars>>

\* Archiving, never unarchiving, is refused while the job is queued or
\* running; then meta.json is read with _meta_lock held.  Nobody knows an id
\* before its job is registered, so the check cannot be older than the job.
ReadMarker(j, to) ==
    /\ stamping = Idle
    /\ to = "archived" => record[j] # "running"
    /\ meta[j] # "none"
    /\ stamping' = [job |-> j, to |-> to]
    /\ UNCHANGED <<record, fileVars, purgeVars, writerVars, restarts, ghostVars>>

\* meta.json is written, whether or not it still exists.
WriteMarker ==
    /\ stamping # Idle
    /\ meta' = [meta EXCEPT ![stamping.job] = stamping.to]
    /\ stamped' = IF stamping.job \in purging \/ answered[stamping.job] > 0
                  THEN stamped \cup {stamping.job} ELSE stamped
    /\ stamping' = Idle
    /\ UNCHANGED <<record, files, purgeVars, writerVars, restarts, answered, failed>>

(***************************************************************************)
(* Writers that read before the purge and write after it.                  *)
(***************************************************************************)

\* make_backlog reads assessment.json ...
ReadReport(j) ==
    /\ "report" \in files[j]
    /\ breeding' = breeding \cup {j}
    /\ UNCHANGED <<record, fileVars, purgeVars, stamping, verifying, restarts,
                   ghostVars>>

\* ... and merges its stories under the backlog lock.
MergeStories(j) ==
    /\ j \in breeding
    /\ breeding' = breeding \ {j}
    /\ Write(j, {"stories"})
    /\ UNCHANGED <<record, meta, purgeVars, stamping, verifying, restarts, ghostVars>>

\* Mutant of SubmitVerify: the submit trusts the registry, not the mirror.
SubmitVerifyUnchecked(j) ==
    /\ record[j] # "new"
    /\ verifying' = verifying \cup {j}
    /\ UNCHANGED <<record, fileVars, purgeVars, stamping, breeding, restarts,
                   ghostVars>>

\* _verify_spec needs the report and meta.json.
SubmitVerify(j) ==
    /\ "report" \in files[j]
    /\ meta[j] # "none"
    /\ verifying' = verifying \cup {j}
    /\ UNCHANGED <<record, fileVars, purgeVars, stamping, breeding, restarts,
                   ghostVars>>

\* The verify job appends its verdict to the source job's history, or fails.
EndVerify(j, verdict) ==
    /\ j \in verifying
    /\ verifying' = verifying \ {j}
    /\ Write(j, verdict)
    /\ UNCHANGED <<record, meta, purgeVars, stamping, breeding, restarts, ghostVars>>

(***************************************************************************)
(* purge_job                                                               *)
(***************************************************************************)

Eligible(j) == record[j] # "running" /\ meta[j] = "archived"

\* Mutant of Begin: the first place is counted from zero.
BeginAtZero(p, j) ==
    /\ job' = [job EXCEPT ![p] = j]
    /\ step' = [step EXCEPT ![p] = 0]
    /\ record' = [record EXCEPT ![j] = IF @ = "ended" THEN "unregistered" ELSE @]

\* The purger takes the job on; its registry entry, if any, is deleted.
Begin(p, j) ==
    /\ job' = [job EXCEPT ![p] = j]
    /\ step' = [step EXCEPT ![p] = 1]
    /\ record' = [record EXCEPT ![j] = IF @ = "ended" THEN "unregistered" ELSE @]

\* Mutant of Claim: the deleted registry entry is taken for claim enough.
ClaimUnmarked(p, j) ==
    /\ job[p] = NoJob
    /\ j \notin purging
    /\ Eligible(j)
    /\ Begin(p, j)
    /\ purging' = IF record[j] = "ended" THEN purging ELSE purging \cup {j}
    /\ UNCHANGED <<fileVars, stamping, writerVars, restarts, ghostVars>>

\* The decision, under the registry lock: registered and ended, or unknown to
\* the registry (a restart, an earlier attempt) and archived on disk.
Claim(p, j) ==
    /\ job[p] = NoJob
    /\ j \notin purging
    /\ Eligible(j)
    /\ Begin(p, j)
    /\ purging' = purging \cup {j}
    /\ UNCHANGED <<fileVars, stamping, writerVars, restarts, ghostVars>>

Place(p) == DeletionOrder[step[p]]

\* One place after the other is emptied; a lenient one may resist.
Delete(p, s) ==
    /\ job[p] # NoJob
    /\ step[p] = s
    /\ \/ /\ Place(p) = "meta"
          /\ meta' = [meta EXCEPT ![job[p]] = "none"]
          /\ UNCHANGED files
       \/ /\ Place(p) # "meta"
          /\ files' = [files EXCEPT ![job[p]] = @ \ {Place(p)}]
          /\ UNCHANGED meta
       \/ /\ Place(p) \in Lenient
          /\ UNCHANGED fileVars
    /\ step' = [step EXCEPT ![p] = s + 1]
    /\ UNCHANGED <<record, purging, job, stamping, writerVars, restarts, ghostVars>>

\* The finally clause: the claim is given back.
Return(p) ==
    /\ purging' = purging \ {job[p]}
    /\ job' = [job EXCEPT ![p] = NoJob]
    /\ step' = [step EXCEPT ![p] = 1]

\* Mutant of Raise: the claim is given back only on success.
RaiseClaimed(p) ==
    /\ job[p] # NoJob
    /\ step[p] <= Len(DeletionOrder)
    /\ Place(p) \notin Lenient
    /\ job' = [job EXCEPT ![p] = NoJob]
    /\ step' = [step EXCEPT ![p] = 1]
    /\ failed' = failed \cup {job[p]}
    /\ UNCHANGED <<record, fileVars, purging, stamping, writerVars, restarts,
                   answered, stamped>>

\* An unlink, the rewriting of the journal or the backlog raises.
Raise(p) ==
    /\ job[p] # NoJob
    /\ step[p] <= Len(DeletionOrder)
    /\ Place(p) \notin Lenient
    /\ Return(p)
    /\ failed' = failed \cup {job[p]}
    /\ UNCHANGED <<record, fileVars, stamping, writerVars, restarts, answered, stamped>>

\* Everything was deleted: the purge answers 200.
Answer(p) ==
    /\ job[p] # NoJob
    /\ step[p] = Len(DeletionOrder) + 1
    /\ Return(p)
    /\ answered' = [answered EXCEPT ![job[p]] = IF @ < MaxAnswers THEN @ + 1 ELSE @]
    /\ UNCHANGED <<record, fileVars, stamping, writerVars, restarts, stamped, failed>>

\* The service restarts: the files survive, the registry, the claims and
\* every thread are gone.
Restart ==
    /\ restarts < MaxRestarts
    /\ restarts' = restarts + 1
    /\ record' = [j \in Jobs |-> IF record[j] = "new" THEN "new" ELSE "unregistered"]
    /\ purging' = {}
    /\ job' = [p \in Purgers |-> NoJob]
    /\ step' = [p \in Purgers |-> 1]
    /\ stamping' = Idle
    /\ breeding' = {}
    /\ verifying' = {}
    /\ UNCHANGED <<fileVars, ghostVars>>

PurgeStep(p) ==
    \/ \E s \in 1..Len(DeletionOrder) : Delete(p, s)
    \/ Raise(p)
    \/ Answer(p)

Next ==
    \/ \E j \in Jobs :
          \/ \E traces \in SUBSET Traces : Run(j, traces)
          \/ \E stories \in SUBSET {"stories"} : Mirror(j, stories)
          \/ End(j)
          \/ \E to \in {"plain", "archived"} : ReadMarker(j, to)
          \/ ReadReport(j) \/ MergeStories(j)
          \/ SubmitVerify(j)
          \/ \E verdict \in SUBSET {"verdicts"} : EndVerify(j, verdict)
    \/ WriteMarker
    \/ \E p \in Purgers : PurgeStep(p) \/ \E j \in Jobs : Claim(p, j)
    \/ Restart

Spec == Init /\ [][Next]_vars

(***************************************************************************)
(* Properties.                                                             *)
(***************************************************************************)

\* Two threads never delete one job at the same time, whichever of the two
\* ways each found it eligible (purge_job: "_purging closes that window for
\* both branches at once").
OneDeleter ==
    \A p, q \in Purgers : job[p] # NoJob /\ job[p] = job[q] => p = q

\* An id stays claimed only while a thread deletes it: a purge that raised, as
\* one that answered, leaves the job to the next sweep (the finally of
\* purge_job).
ClaimsAreHeld == \A j \in purging : \E p \in Purgers : job[p] = j

\* A job that is queued or running is neither archived nor being purged,
\* although the archive check and the marker's write are not one critical
\* section with the job's end (docs/DISPATCH.md: "the worker and an
\* archive/unarchive call never race").
RunningUntouched ==
    \A j \in Jobs : record[j] = "running" => meta[j] # "archived" /\ j \notin purging

\* A second 200 for one job needs somebody who marked it archived anew while
\* it was being purged, or later (purge_job: "never a redundant 200").
OneAnswer == \A j \in Jobs : answered[j] > 1 => j \in stamped

\* Nothing of the job is left, and nobody is about to write something.
Gone(j) ==
    /\ record[j] \notin {"new", "running"}
    /\ files[j] = {}
    /\ meta[j] = "none"
    /\ stamping.job # j
    /\ j \notin breeding \cup verifying

\* A purged job is gone for good: no route writes a trace of it again, once
\* those that had already read its files are done.
GoneForGood == [][\A j \in Jobs : Gone(j) => Gone(j)']_vars

\* Refuted.  A purge that raised has either deleted everything or can be
\* found again by the next sweep (sweep_expired_archives: "The next sweep
\* retries it").
FailedIsRetried ==
    \A j \in failed :
        j \notin purging /\ files[j] \ Lenient # {} => meta[j] # "none"
=============================================================================
