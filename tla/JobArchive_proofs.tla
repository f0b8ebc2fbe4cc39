------------------------- MODULE JobArchive_proofs --------------------------
(***************************************************************************)
(* Theorems about archiving and purging for every set of jobs and of       *)
(* purging threads, and any number of restarts.                            *)
(***************************************************************************)
EXTENDS JobArchive, TLAPS

LEMMA Order ==
    /\ Len(DeletionOrder) = 7
    /\ \A s \in 1..7 : DeletionOrder[s] = "meta" <=> s = 3
  BY DEF DeletionOrder

LEMMA PlacesAre ==
    Places = {"clone", "report", "verdicts", "transcripts", "events", "stories"}
<1>1. ToSet(DeletionOrder)
        = {"clone", "report", "meta", "verdicts", "transcripts", "events", "stories"}
  BY DEF DeletionOrder, ToSet
<1> QED
  BY <1>1 DEF Places

(***************************************************************************)
(* Type correctness.                                                       *)
(***************************************************************************)

LEMMA InitTyped == Init => TypeOK
  BY ArchiveAssumption, Order DEF Init, TypeOK, Idle

LEMMA WriteTyped ==
    ASSUME TypeOK, NEW j \in Jobs, NEW places \in SUBSET Places, Write(j, places)
    PROVE  files' \in [Jobs -> SUBSET Places]
  BY DEF TypeOK, Write

\* The steps of a job, of the archive routes and of the late writers.
LEMMA JobTyped ==
    ASSUME TypeOK, NEW j \in Jobs,
           \/ End(j) \/ ReadReport(j) \/ MergeStories(j) \/ SubmitVerify(j)
           \/ \E traces \in SUBSET Traces : Run(j, traces)
           \/ \E stories \in SUBSET {"stories"} : Mirror(j, stories)
           \/ \E verdict \in SUBSET {"verdicts"} : EndVerify(j, verdict)
    PROVE  TypeOK'
<1>1. ASSUME NEW traces \in SUBSET Traces, Run(j, traces)
      PROVE  TypeOK'
  <2>1. traces \in SUBSET Places
    BY PlacesAre DEF Traces
  <2>2. files' \in [Jobs -> SUBSET Places]
    BY <1>1, <2>1, WriteTyped DEF Run
  <2> QED
    BY <1>1, <2>2
    DEF TypeOK, Run, fileVars, purgeVars, writerVars, ghostVars
<1>2. CASE End(j)
  BY <1>2 DEF TypeOK, End, fileVars, purgeVars, writerVars, ghostVars
<1>3. CASE ReadReport(j)
  BY <1>3 DEF TypeOK, ReadReport, fileVars, purgeVars, writerVars, ghostVars
<1>4. CASE MergeStories(j)
  <2>1. {"stories"} \in SUBSET Places
    BY PlacesAre
  <2>2. files' \in [Jobs -> SUBSET Places]
    BY <1>4, <2>1, WriteTyped DEF MergeStories
  <2> QED
    BY <1>4, <2>2 DEF TypeOK, MergeStories, purgeVars, ghostVars
<1>5. CASE SubmitVerify(j)
  BY <1>5 DEF TypeOK, SubmitVerify, fileVars, purgeVars, writerVars, ghostVars
<1>6. ASSUME NEW stories \in SUBSET {"stories"}, Mirror(j, stories)
      PROVE  TypeOK'
  <2>1. {"report"} \cup stories \in SUBSET Places
    BY PlacesAre
  <2>2. files' \in [Jobs -> SUBSET Places]
    BY <1>6, <2>1, WriteTyped DEF Mirror
  <2> QED
    BY <1>6, <2>2 DEF TypeOK, Mirror, purgeVars, writerVars, ghostVars
<1>7. ASSUME NEW verdict \in SUBSET {"verdicts"}, EndVerify(j, verdict)
      PROVE  TypeOK'
  <2>1. verdict \in SUBSET Places
    BY PlacesAre
  <2>2. files' \in [Jobs -> SUBSET Places]
    BY <1>7, <2>1, WriteTyped DEF EndVerify
  <2> QED
    BY <1>7, <2>2 DEF TypeOK, EndVerify, purgeVars, ghostVars
<1> QED
  BY <1>1, <1>2, <1>3, <1>4, <1>5, <1>6, <1>7

LEMMA MarkerTyped ==
    ASSUME TypeOK,
           \/ WriteMarker
           \/ \E j \in Jobs, to \in {"plain", "archived"} : ReadMarker(j, to)
    PROVE  TypeOK'
<1>1. CASE WriteMarker
  <2>1. stamping.job \in Jobs /\ stamping.to \in {"plain", "archived"}
    BY <1>1 DEF TypeOK, WriteMarker
  <2>2. meta' \in [Jobs -> {"none", "plain", "archived"}]
    BY <1>1, <2>1 DEF TypeOK, WriteMarker
  <2>3. stamping' = Idle
    BY <1>1 DEF WriteMarker
  <2>4. stamped' \subseteq Jobs
    BY <1>1, <2>1 DEF TypeOK, WriteMarker
  <2> QED
    BY <1>1, <2>2, <2>3, <2>4 DEF TypeOK, WriteMarker, purgeVars, writerVars
<1>2. ASSUME NEW j \in Jobs, NEW to \in {"plain", "archived"}, ReadMarker(j, to)
      PROVE  TypeOK'
  BY <1>2 DEF TypeOK, ReadMarker, fileVars, purgeVars, writerVars, ghostVars
<1> QED
  BY <1>1, <1>2

\* The steps of a purging thread.
LEMMA PurgeTyped ==
    ASSUME TypeOK, NEW p \in Purgers,
           PurgeStep(p) \/ \E j \in Jobs : Claim(p, j)
    PROVE  TypeOK'
<1>1. ASSUME NEW j \in Jobs, Claim(p, j)
      PROVE  TypeOK'
  BY <1>1, Order
  DEF TypeOK, Claim, Begin, fileVars, writerVars, ghostVars
<1>2. ASSUME NEW s \in 1..Len(DeletionOrder), Delete(p, s)
      PROVE  TypeOK'
  <2>1. step' \in [Purgers -> 1..(Len(DeletionOrder) + 1)]
    BY <1>2, Order DEF TypeOK, Delete
  <2>2. /\ job[p] \in Jobs
        /\ files[job[p]] \ {Place(p)} \in SUBSET Places
    BY <1>2 DEF TypeOK, Delete
  <2>3. \/ files' = [files EXCEPT ![job[p]] = files[job[p]] \ {Place(p)}]
        \/ files' = files
    BY <1>2 DEF Delete, fileVars
  <2>4. meta' = [meta EXCEPT ![job[p]] = "none"] \/ meta' = meta
    BY <1>2 DEF Delete, fileVars
  <2>5. files' \in [Jobs -> SUBSET Places]
    BY <2>2, <2>3 DEF TypeOK
  <2>6. meta' \in [Jobs -> {"none", "plain", "archived"}]
    BY <2>4 DEF TypeOK
  <2> QED
    BY <1>2, <2>1, <2>5, <2>6 DEF TypeOK, Delete, writerVars, ghostVars
<1>3. CASE Raise(p) \/ Answer(p)
  <2>1. purging' \subseteq Jobs
    BY <1>3 DEF TypeOK, Raise, Answer, Return
  <2>2. job' \in [Purgers -> Jobs \cup {NoJob}] /\ step' \in [Purgers -> 1..(Len(DeletionOrder) + 1)]
    BY <1>3, Order DEF TypeOK, Raise, Answer, Return
  <2>3. UNCHANGED <<record, files, meta, stamping, breeding, verifying, restarts, stamped>>
    BY <1>3 DEF Raise, Answer, fileVars, writerVars
  <2>4. job[p] \in Jobs
    BY <1>3 DEF TypeOK, Raise, Answer
  <2>5. failed' \subseteq Jobs
    BY <1>3, <2>4 DEF TypeOK, Raise, Answer
  <2>6. CASE Raise(p)
    <3>1. answered' = answered
      BY <2>6 DEF Raise
    <3> QED
      BY <2>1, <2>2, <2>3, <2>5, <3>1 DEF TypeOK
  <2>7. CASE Answer(p)
    <3> DEFINE n == IF answered[job[p]] < MaxAnswers
                    THEN answered[job[p]] + 1 ELSE answered[job[p]]
    <3>1. answered[job[p]] \in 0..MaxAnswers
      BY <2>4 DEF TypeOK
    <3>2. n \in 0..MaxAnswers
      BY <3>1, ArchiveAssumption
    <3>3. answered' = [answered EXCEPT ![job[p]] = n]
      BY <2>7 DEF Answer
    <3>4. answered' \in [Jobs -> 0..MaxAnswers]
      <4> HIDE DEF n
      <4> QED
        BY <3>2, <3>3 DEF TypeOK
    <3> QED
      BY <2>1, <2>2, <2>3, <2>5, <3>4 DEF TypeOK
  <2> QED
    BY <1>3, <2>6, <2>7
<1> QED
  BY <1>1, <1>2, <1>3 DEF PurgeStep

LEMMA RestartTyped ==
    ASSUME TypeOK, Restart
    PROVE  TypeOK'
  BY ArchiveAssumption, Order DEF TypeOK, Restart, Idle, fileVars, ghostVars

LEMMA NextTyped == TypeOK /\ [Next]_vars => TypeOK'
<1> SUFFICES ASSUME TypeOK, [Next]_vars
             PROVE  TypeOK'
  OBVIOUS
<1>1. CASE UNCHANGED vars
  BY <1>1 DEF TypeOK, vars, fileVars, purgeVars, writerVars, ghostVars
<1>2. CASE Next
  BY <1>2, JobTyped, MarkerTyped, PurgeTyped, RestartTyped DEF Next
<1> QED
  BY <1>1, <1>2

\* Every variable stays in its type.
THEOREM TypeCorrect == Spec => []TypeOK
  BY InitTyped, NextTyped, PTL DEF Spec

(***************************************************************************)
(* Claims: _purging holds the jobs being deleted, each by one thread.      *)
(***************************************************************************)

\* What a thread deletes is claimed.
ClaimsAreMarked == \A p \in Purgers : job[p] # NoJob => job[p] \in purging

ClaimInv == TypeOK /\ OneDeleter /\ ClaimsAreHeld /\ ClaimsAreMarked

LEMMA InitClaims == Init => ClaimInv
  BY InitTyped DEF Init, ClaimInv, OneDeleter, ClaimsAreHeld, ClaimsAreMarked

\* The claims change only by Claim, by the end of a purge, and by a restart.
LEMMA ClaimSteps ==
    ASSUME Next
    PROVE  \/ UNCHANGED <<purging, job>>
           \/ \E p \in Purgers, j \in Jobs : Claim(p, j)
           \/ \E p \in Purgers : Raise(p) \/ Answer(p)
           \/ Restart
<1>1. ASSUME NEW j \in Jobs,
             \/ \E traces \in SUBSET Traces : Run(j, traces)
             \/ \E stories \in SUBSET {"stories"} : Mirror(j, stories)
             \/ End(j)
             \/ \E to \in {"plain", "archived"} : ReadMarker(j, to)
             \/ ReadReport(j) \/ MergeStories(j)
             \/ SubmitVerify(j)
             \/ \E verdict \in SUBSET {"verdicts"} : EndVerify(j, verdict)
      PROVE  UNCHANGED <<purging, job>>
  BY <1>1 DEF Run, Mirror, End, ReadMarker, ReadReport, MergeStories, SubmitVerify,
              EndVerify, purgeVars
<1>2. CASE WriteMarker
  BY <1>2 DEF WriteMarker, purgeVars
<1>3. ASSUME NEW p \in Purgers, NEW s \in 1..Len(DeletionOrder), Delete(p, s)
      PROVE  UNCHANGED <<purging, job>>
  BY <1>3 DEF Delete
<1> QED
  BY <1>1, <1>2, <1>3 DEF Next, PurgeStep

LEMMA NextClaims == ClaimInv /\ [Next]_vars => ClaimInv'
<1> SUFFICES ASSUME ClaimInv, [Next]_vars
             PROVE  ClaimInv'
  OBVIOUS
<1>0. TypeOK'
  BY NextTyped DEF ClaimInv
<1>1. CASE UNCHANGED <<purging, job>>
  BY <1>0, <1>1 DEF ClaimInv, OneDeleter, ClaimsAreHeld, ClaimsAreMarked
<1>2. ASSUME NEW p \in Purgers, NEW j \in Jobs, Claim(p, j)
      PROVE  ClaimInv'
  <2>1. /\ job[p] = NoJob
        /\ j \notin purging
        /\ job'[p] = j
        /\ \A q \in Purgers : q # p => job'[q] = job[q]
        /\ purging' = purging \cup {j}
    BY <1>2 DEF Claim, Begin, ClaimInv, TypeOK
  <2>2. \A q \in Purgers : job[q] # j
    BY <2>1, ArchiveAssumption DEF ClaimInv, ClaimsAreMarked
  <2>3. OneDeleter'
    BY <2>1, <2>2 DEF ClaimInv, OneDeleter
  <2>4. ASSUME NEW i \in purging
        PROVE  \E q \in Purgers : job'[q] = i
    <3>1. PICK q \in Purgers : job[q] = i
      BY DEF ClaimInv, ClaimsAreHeld
    <3>2. i # NoJob
      BY ArchiveAssumption DEF ClaimInv, TypeOK
    <3> QED
      BY <2>1, <3>1, <3>2
  <2>5. ClaimsAreHeld'
    BY <2>1, <2>4 DEF ClaimsAreHeld
  <2>6. ClaimsAreMarked'
    BY <2>1 DEF ClaimInv, ClaimsAreMarked
  <2> QED
    BY <1>0, <2>3, <2>5, <2>6 DEF ClaimInv
<1>3. ASSUME NEW p \in Purgers, Raise(p) \/ Answer(p)
      PROVE  ClaimInv'
  <2>1. /\ job[p] # NoJob
        /\ job'[p] = NoJob
        /\ \A q \in Purgers : q # p => job'[q] = job[q]
        /\ purging' = purging \ {job[p]}
    BY <1>3 DEF Raise, Answer, Return, ClaimInv, TypeOK
  <2>2. \A q \in Purgers : q # p => job[q] # job[p]
    BY <2>1 DEF ClaimInv, OneDeleter
  <2>3. OneDeleter'
    BY <2>1 DEF ClaimInv, OneDeleter
  <2>4. ClaimsAreHeld' /\ ClaimsAreMarked'
    BY <2>1, <2>2 DEF ClaimInv, ClaimsAreHeld, ClaimsAreMarked
  <2> QED
    BY <1>0, <2>3, <2>4 DEF ClaimInv
<1>4. CASE Restart
  BY <1>0, <1>4 DEF Restart, ClaimInv, OneDeleter, ClaimsAreHeld, ClaimsAreMarked
<1>5. CASE UNCHANGED vars
  BY <1>1, <1>5 DEF vars, purgeVars
<1> QED
  BY <1>1, <1>2, <1>3, <1>4, <1>5, ClaimSteps

LEMMA ClaimsHold == Spec => []ClaimInv
  BY InitClaims, NextClaims, PTL DEF Spec

\* No two threads delete the same job at the same time.
THEOREM OneDeleterHolds == Spec => []OneDeleter
<1>1. ClaimInv => OneDeleter
  BY DEF ClaimInv
<1> QED
  BY <1>1, ClaimsHold, PTL

\* No id stays in _purging without a thread that deletes it.
THEOREM ClaimsAreHeldHolds == Spec => []ClaimsAreHeld
<1>1. ClaimInv => ClaimsAreHeld
  BY DEF ClaimInv
<1> QED
  BY <1>1, ClaimsHold, PTL

(***************************************************************************)
(* Running jobs.                                                           *)
(***************************************************************************)

\* A job that is not yet submitted has no marker and nobody near it; a
\* running one has no archive call that could still mark it.
Untouched(j) ==
    /\ record[j] = "new" => meta[j] = "none" /\ j \notin purging /\ stamping.job # j
    /\ record[j] = "running" =>
          /\ meta[j] # "archived"
          /\ j \notin purging
          /\ stamping.job = j => stamping.to # "archived"

RunningInv == ClaimInv /\ \A j \in Jobs : Untouched(j)

LEMMA InitRunning == Init => RunningInv
  BY InitClaims, ArchiveAssumption DEF Init, RunningInv, Untouched, Idle

LEMMA NextRunning == RunningInv /\ [Next]_vars => RunningInv'
<1> SUFFICES ASSUME RunningInv, [Next]_vars, NEW i \in Jobs
             PROVE  Untouched(i)'
  BY NextClaims DEF RunningInv
<1>0. TypeOK /\ Untouched(i)
  BY DEF RunningInv, ClaimInv
<1>1. CASE UNCHANGED vars
  BY <1>0, <1>1 DEF vars, fileVars, purgeVars, Untouched
<1>2. ASSUME NEW j \in Jobs, End(j) \/ \E traces \in SUBSET Traces : Run(j, traces)
      PROVE  Untouched(i)'
  BY <1>0, <1>2 DEF Run, End, TypeOK, fileVars, purgeVars, Untouched
<1>3. ASSUME NEW j \in Jobs, NEW stories \in SUBSET {"stories"}, Mirror(j, stories)
      PROVE  Untouched(i)'
  BY <1>0, <1>3 DEF Mirror, TypeOK, purgeVars, Untouched
<1>4. ASSUME NEW j \in Jobs, NEW to \in {"plain", "archived"}, ReadMarker(j, to)
      PROVE  Untouched(i)'
  BY <1>0, <1>4 DEF ReadMarker, TypeOK, fileVars, purgeVars, Untouched
<1>5. CASE WriteMarker
  BY <1>0, <1>5, ArchiveAssumption DEF WriteMarker, TypeOK, purgeVars, Untouched, Idle
<1>6. ASSUME NEW j \in Jobs,
             \/ ReadReport(j) \/ MergeStories(j) \/ SubmitVerify(j)
             \/ \E verdict \in SUBSET {"verdicts"} : EndVerify(j, verdict)
      PROVE  Untouched(i)'
  <2>1. UNCHANGED <<record, meta, purging, stamping>>
    BY <1>6 DEF ReadReport, MergeStories, SubmitVerify, EndVerify, fileVars, purgeVars
  <2> QED
    BY <1>0, <2>1 DEF Untouched
<1>7. ASSUME NEW p \in Purgers, NEW j \in Jobs, Claim(p, j)
      PROVE  Untouched(i)'
  BY <1>0, <1>7 DEF Claim, Begin, Eligible, TypeOK, fileVars, Untouched
<1>8. ASSUME NEW p \in Purgers, NEW s \in 1..Len(DeletionOrder), Delete(p, s)
      PROVE  Untouched(i)'
  <2>1. /\ UNCHANGED <<record, purging, stamping>>
        /\ meta'[i] = meta[i] \/ meta'[i] = "none"
    BY <1>0, <1>8 DEF Delete, TypeOK, fileVars
  <2> QED
    BY <1>0, <2>1 DEF Untouched
<1>9. ASSUME NEW p \in Purgers, Raise(p) \/ Answer(p)
      PROVE  Untouched(i)'
  <2>1. /\ UNCHANGED <<record, meta, stamping>>
        /\ purging' \subseteq purging
    BY <1>9 DEF Raise, Answer, Return, fileVars
  <2> QED
    BY <1>0, <2>1 DEF Untouched
<1>10. CASE Restart
  BY <1>0, <1>10, ArchiveAssumption DEF Restart, Idle, fileVars, Untouched
<1> QED
  BY <1>1, <1>2, <1>3, <1>4, <1>5, <1>6, <1>7, <1>8, <1>9, <1>10 DEF Next, PurgeStep

LEMMA RunningHolds == Spec => []RunningInv
  BY InitRunning, NextRunning, PTL DEF Spec

\* A running job is neither archived nor being purged.
THEOREM RunningUntouchedHolds == Spec => []RunningUntouched
<1>1. RunningInv => RunningUntouched
  BY DEF RunningInv, Untouched, RunningUntouched
<1> QED
  BY <1>1, RunningHolds, PTL

(***************************************************************************)
(* Answers.                                                                *)
(***************************************************************************)

\* As long as nobody wrote the marker during or after a purge of the job:
\* a purge that is past meta.json has left no marker that another could
\* find, and a purge that answered was the only one.
AnsweredOnce(j) ==
    /\ answered[j] \in {0, 1}
    /\ answered[j] = 1 => j \notin purging /\ meta[j] # "archived"
    /\ \A p \in Purgers : job[p] = j /\ step[p] > 3 => meta[j] # "archived"

AnswerInv == ClaimInv /\ \A j \in Jobs \ stamped : AnsweredOnce(j)

LEMMA InitAnswers == Init => AnswerInv
  BY InitClaims, ArchiveAssumption DEF Init, AnswerInv, AnsweredOnce

\* What keeps the facts of a job: nothing claims it or marks it.
LEMMA AnswersKept ==
    ASSUME NEW i \in Jobs, AnsweredOnce(i), UNCHANGED answered,
           purging' \cap {i} \subseteq purging,
           meta'[i] = meta[i] \/ meta'[i] # "archived",
           \A p \in Purgers : job'[p] = i => job[p] = i /\ step'[p] = step[p]
    PROVE  AnsweredOnce(i)'
  BY DEF AnsweredOnce

LEMMA NextAnswers == AnswerInv /\ [Next]_vars => AnswerInv'
<1> SUFFICES ASSUME AnswerInv, [Next]_vars, NEW i \in Jobs, i \notin stamped'
             PROVE  AnsweredOnce(i)'
  BY NextClaims DEF AnswerInv
<1>0. /\ ClaimInv
      /\ TypeOK
      /\ stamped \subseteq stamped'
      /\ i \notin stamped
      /\ AnsweredOnce(i)
  <2>1. stamped \subseteq stamped'
    BY DEF Next, Run, Mirror, End, ReadMarker, WriteMarker, ReadReport, MergeStories,
           SubmitVerify, EndVerify, Claim, PurgeStep, Delete, Raise, Answer, Restart,
           vars, ghostVars
  <2> QED
    BY <2>1 DEF AnswerInv, ClaimInv
<1>1. CASE UNCHANGED vars
  BY <1>0, <1>1, AnswersKept DEF vars, fileVars, purgeVars, ghostVars
<1>2. ASSUME NEW j \in Jobs,
             \/ End(j) \/ ReadReport(j) \/ MergeStories(j) \/ SubmitVerify(j)
             \/ \E traces \in SUBSET Traces : Run(j, traces)
             \/ \E to \in {"plain", "archived"} : ReadMarker(j, to)
             \/ \E verdict \in SUBSET {"verdicts"} : EndVerify(j, verdict)
      PROVE  AnsweredOnce(i)'
  <2>1. UNCHANGED <<meta, purging, job, step, answered>>
    BY <1>2 DEF Run, End, ReadReport, MergeStories, SubmitVerify, ReadMarker, EndVerify,
                fileVars, purgeVars, ghostVars
  <2> QED
    BY <1>0, <2>1, AnswersKept
<1>3. ASSUME NEW j \in Jobs, NEW stories \in SUBSET {"stories"}, Mirror(j, stories)
      PROVE  AnsweredOnce(i)'
  <2>1. /\ UNCHANGED <<purging, job, step, answered>>
        /\ meta'[i] = meta[i] \/ meta'[i] # "archived"
    BY <1>0, <1>3 DEF Mirror, TypeOK, purgeVars, ghostVars
  <2> QED
    BY <1>0, <2>1, AnswersKept
<1>4. CASE WriteMarker
  <2>1. UNCHANGED <<purging, job, step, answered>>
    BY <1>4 DEF WriteMarker, purgeVars
  <2>2. CASE stamping.job = i
    <3>1. i \notin purging /\ ~(answered[i] > 0)
      BY <1>4, <2>2 DEF WriteMarker
    <3>2. answered[i] = 0
      BY <1>0, <3>1 DEF AnsweredOnce
    <3>3. \A p \in Purgers : job[p] # i
      BY <1>0, <3>1, ArchiveAssumption DEF ClaimInv, ClaimsAreMarked
    <3> QED
      BY <2>1, <3>2, <3>3 DEF AnsweredOnce
  <2>3. CASE stamping.job # i
    <3>1. meta'[i] = meta[i]
      BY <1>0, <1>4, <2>3 DEF WriteMarker, TypeOK
    <3> QED
      BY <1>0, <2>1, <3>1, AnswersKept
  <2> QED
    BY <2>2, <2>3
<1>5. ASSUME NEW p \in Purgers, NEW j \in Jobs, Claim(p, j)
      PROVE  AnsweredOnce(i)'
  <2>1. /\ meta[j] = "archived"
        /\ UNCHANGED <<meta, answered>>
        /\ purging' = purging \cup {j}
        /\ job'[p] = j /\ step'[p] = 1
        /\ \A q \in Purgers : q # p => job'[q] = job[q] /\ step'[q] = step[q]
    BY <1>0, <1>5 DEF Claim, Begin, Eligible, TypeOK, fileVars, ghostVars
  <2>2. CASE i = j
    <3>1. answered[i] = 0
      BY <1>0, <2>1, <2>2 DEF AnsweredOnce
    <3>2. \A q \in Purgers : q # p => job[q] # i
      BY <1>0, <1>5, <2>2, ArchiveAssumption DEF Claim, ClaimInv, ClaimsAreMarked
    <3> QED
      BY <2>1, <3>1, <3>2 DEF AnsweredOnce
  <2>3. CASE i # j
    BY <1>0, <2>1, <2>3, AnswersKept
  <2> QED
    BY <2>2, <2>3
<1>6. ASSUME NEW p \in Purgers, NEW s \in 1..Len(DeletionOrder), Delete(p, s)
      PROVE  AnsweredOnce(i)'
  <2>1. /\ UNCHANGED <<purging, job, answered>>
        /\ meta'[i] = meta[i] \/ meta'[i] = "none"
        /\ step[p] = s /\ step'[p] = s + 1
        /\ \A q \in Purgers : q # p => step'[q] = step[q]
    BY <1>0, <1>6 DEF Delete, TypeOK, fileVars, ghostVars
  <2>2. CASE job[p] # i
    BY <1>0, <2>1, <2>2, AnswersKept
  <2>3. CASE job[p] = i /\ s = 3
    <3>1. meta'[i] = "none"
      <4>1. Place(p) = "meta"
        BY <2>1, <2>3, Order DEF Place
      <4> QED
        BY <1>0, <1>6, <2>3, <4>1 DEF Delete, TypeOK, Lenient
    <3> QED
      BY <1>0, <2>1, <3>1 DEF AnsweredOnce
  <2>4. CASE job[p] = i /\ s # 3
    <3>1. s \in 1..7
      BY Order
    <3>2. step'[p] > 3 => step[p] > 3
      BY <2>1, <2>4, <3>1
    <3> QED
      BY <1>0, <2>1, <3>2 DEF AnsweredOnce
  <2> QED
    BY <2>2, <2>3, <2>4
<1>7. ASSUME NEW p \in Purgers, Raise(p) \/ Answer(p)
      PROVE  AnsweredOnce(i)'
  <2>1. /\ UNCHANGED meta
        /\ job[p] # NoJob
        /\ purging' = purging \ {job[p]}
        /\ job'[p] = NoJob
        /\ \A q \in Purgers : q # p => job'[q] = job[q] /\ step'[q] = step[q]
    BY <1>0, <1>7 DEF Raise, Answer, Return, TypeOK, fileVars
  <2>2. NoJob # i
    BY ArchiveAssumption
  <2>3. CASE answered' = answered
    BY <1>0, <2>1, <2>2, <2>3, AnswersKept
  <2>4. CASE Answer(p) /\ job[p] # i
    <3>1. answered'[i] = answered[i]
      BY <1>0, <2>4 DEF Answer, TypeOK
    <3> QED
      BY <1>0, <2>1, <2>2, <3>1 DEF AnsweredOnce
  <2>5. CASE Answer(p) /\ job[p] = i
    <3>1. i \in purging
      BY <1>0, <2>1, <2>5 DEF ClaimInv, ClaimsAreMarked
    <3>2. answered[i] = 0 /\ answered'[i] = 1
      BY <1>0, <2>5, <3>1, ArchiveAssumption DEF Answer, TypeOK, AnsweredOnce
    <3>3. step[p] = 8
      BY <2>5, Order DEF Answer
    <3>4. meta[i] # "archived"
      BY <1>0, <2>5, <3>3 DEF AnsweredOnce
    <3> QED
      BY <2>1, <2>2, <2>5, <3>2, <3>4 DEF AnsweredOnce
  <2> QED
    BY <1>7, <2>3, <2>4, <2>5 DEF Raise
<1>8. CASE Restart
  <2>1. /\ UNCHANGED <<meta, answered>>
        /\ purging' = {}
        /\ \A p \in Purgers : job'[p] = NoJob
    BY <1>8 DEF Restart, fileVars, ghostVars
  <2> QED
    BY <1>0, <2>1, ArchiveAssumption, AnswersKept
<1> QED
  BY <1>1, <1>2, <1>3, <1>4, <1>5, <1>6, <1>7, <1>8 DEF Next, PurgeStep

\* A second 200 takes a marker that was written during or after a purge.
THEOREM OneAnswerHolds == Spec => []OneAnswer
<1>1. Spec => []AnswerInv
  BY InitAnswers, NextAnswers, PTL DEF Spec
<1>2. AnswerInv => OneAnswer
  BY DEF AnswerInv, AnsweredOnce, OneAnswer
<1> QED
  BY <1>1, <1>2, PTL

(***************************************************************************)
(* Gone for good.                                                          *)
(***************************************************************************)

LEMMA GoneStays ==
    ASSUME TypeOK, [Next]_vars, NEW i \in Jobs, Gone(i)
    PROVE  Gone(i)'
<1>1. CASE UNCHANGED vars
  BY <1>1 DEF vars, fileVars, writerVars, Gone
<1>2. ASSUME NEW j \in Jobs, End(j) \/ \E traces \in SUBSET Traces : Run(j, traces)
      PROVE  Gone(i)'
  BY <1>2 DEF Run, End, Write, TypeOK, fileVars, writerVars, Gone
<1>3. ASSUME NEW j \in Jobs, NEW stories \in SUBSET {"stories"}, Mirror(j, stories)
      PROVE  Gone(i)'
  BY <1>3 DEF Mirror, Write, TypeOK, writerVars, Gone
<1>4. ASSUME NEW j \in Jobs, NEW to \in {"plain", "archived"}, ReadMarker(j, to)
      PROVE  Gone(i)'
  BY <1>4 DEF ReadMarker, TypeOK, fileVars, writerVars, Gone
<1>5. CASE WriteMarker
  BY <1>5, ArchiveAssumption DEF WriteMarker, TypeOK, writerVars, Gone, Idle
<1>6. ASSUME NEW j \in Jobs, ReadReport(j) \/ SubmitVerify(j)
      PROVE  Gone(i)'
  BY <1>6 DEF ReadReport, SubmitVerify, fileVars, Gone
<1>7. ASSUME NEW j \in Jobs, MergeStories(j)
      PROVE  Gone(i)'
  BY <1>7 DEF MergeStories, Write, TypeOK, Gone
<1>8. ASSUME NEW j \in Jobs, NEW verdict \in SUBSET {"verdicts"}, EndVerify(j, verdict)
      PROVE  Gone(i)'
  BY <1>8 DEF EndVerify, Write, TypeOK, Gone
<1>9. ASSUME NEW p \in Purgers, NEW j \in Jobs, Claim(p, j)
      PROVE  Gone(i)'
  BY <1>9 DEF Claim, Begin, Eligible, TypeOK, fileVars, writerVars, Gone
<1>10. ASSUME NEW p \in Purgers, NEW s \in 1..Len(DeletionOrder), Delete(p, s)
       PROVE  Gone(i)'
  <2>1. /\ UNCHANGED <<record, stamping, breeding, verifying>>
        /\ files'[i] \subseteq files[i]
        /\ meta'[i] = meta[i] \/ meta'[i] = "none"
    BY <1>10 DEF Delete, TypeOK, fileVars, writerVars
  <2> QED
    BY <2>1 DEF Gone
<1>11. ASSUME NEW p \in Purgers, Raise(p) \/ Answer(p)
       PROVE  Gone(i)'
  BY <1>11 DEF Raise, Answer, fileVars, writerVars, Gone
<1>12. CASE Restart
  BY <1>12, ArchiveAssumption DEF Restart, Idle, fileVars, Gone
<1> QED
  BY <1>1, <1>2, <1>3, <1>4, <1>5, <1>6, <1>7, <1>8, <1>9, <1>10, <1>11, <1>12
  DEF Next, PurgeStep

\* No route writes a trace of a job again once all of it is gone.
THEOREM GoneForGoodHolds == Spec => GoneForGood
<1>1. TypeOK /\ [Next]_vars => [\A j \in Jobs : Gone(j) => Gone(j)']_vars
  BY GoneStays
<1> QED
  BY <1>1, TypeCorrect, PTL DEF Spec, GoneForGood
=============================================================================
