------------------------ MODULE DispatchQueue_proofs ------------------------
(***************************************************************************)
(* Theorems about the dispatch queue for every set of jobs, repositories   *)
(* and workers.  The inductive invariant says, beside the types, that a    *)
(* worker between its claim and its release holds a job whose repository   *)
(* is in `active': without it a second worker that finds the repository    *)
(* idle could not be excluded.                                             *)
(***************************************************************************)
EXTENDS DispatchQueue, TLAPS, FiniteSetTheorems, SequenceTheorems

\* A worker that is not waiting or gone holds the id of a job.
Occupied == {"popped", "reenqueue"} \cup InRepo
HoldsJob == \A w \in Workers : pc[w] \in Occupied => holds[w] \in Jobs

\* The repository of a worker between claim and release is marked active.
ClaimsMarked == \A w \in Workers : pc[w] \in InRepo => Repo(w) \in active

ExclusionInv == TypeOK /\ HoldsJob /\ ClaimsMarked /\ RepoExclusive

-----------------------------------------------------------------------------
(***************************************************************************)
(* Facts about sequences.                                                  *)
(***************************************************************************)

\* The parked jobs that are not younger than j.
Older(bucket, j) == {i \in DOMAIN bucket : SubmitIndex(bucket[i]) <= SubmitIndex(j)}

\* A job inserted into a bucket leaves every parked job in place or moves it
\* one place back, and appears once at the place it is given.
LEMMA InsertFacts ==
    ASSUME NEW bucket \in Seq(Jobs), NEW j \in Jobs
    PROVE  LET t == InsertInSubmitOrder(bucket, j) IN
           /\ t \in Seq(Jobs)
           /\ Len(t) = Len(bucket) + 1
           /\ \E n \in 0..Len(bucket) :
                 /\ n = Cardinality(Older(bucket, j))
                 /\ t[n + 1] = j
                 /\ \A i \in 1..n : t[i] = bucket[i]
                 /\ \A i \in n + 2 .. Len(t) : t[i] = bucket[i - 1]
<1> DEFINE older == {i \in DOMAIN bucket : SubmitIndex(bucket[i]) <= SubmitIndex(j)}
           n == Cardinality(older)
           front == SubSeq(bucket, 1, n)
           back == SubSeq(bucket, n + 1, Len(bucket))
           t == InsertInSubmitOrder(bucket, j)
<1>1. /\ Len(bucket) \in Nat
      /\ DOMAIN bucket = 1..Len(bucket)
      /\ \A i \in 1..Len(bucket) : bucket[i] \in Jobs
  OBVIOUS
<1>2. IsFiniteSet(1..Len(bucket)) /\ Cardinality(1..Len(bucket)) = Len(bucket)
  <2>1. 1 \in Int /\ Len(bucket) \in Int
    BY <1>1
  <2>2. /\ IsFiniteSet(1..Len(bucket))
        /\ Cardinality(1..Len(bucket)) =
              IF 1 > Len(bucket) THEN 0 ELSE Len(bucket) - 1 + 1
    BY <2>1, FS_Interval
  <2> QED
    BY <1>1, <2>2
<1>3. older \subseteq 1..Len(bucket)
  BY <1>1
<1>4. n \in 0..Len(bucket)
  BY <1>1, <1>2, <1>3, FS_Subset, FS_CardinalityType
<1>5. t = InsertAt(bucket, n + 1, j) /\ n = Cardinality(Older(bucket, j))
  BY DEF InsertInSubmitOrder, Older
<1> HIDE DEF n
<1>6. /\ front \in Seq(Jobs)
      /\ Len(front) = n
      /\ \A i \in 1..n : front[i] = bucket[i]
  <2>1. \A i \in 1..n : bucket[i] \in Jobs
    BY <1>1, <1>4
  <2>2. /\ front \in Seq(Jobs)
        /\ Len(front) = IF 1 <= n THEN n - 1 + 1 ELSE 0
        /\ \A i \in 1 .. n - 1 + 1 : front[i] = bucket[1 + i - 1]
    BY <1>4, <2>1, SubSeqProperties
  <2> QED
    BY <1>4, <2>2
<1>7. /\ back \in Seq(Jobs)
      /\ Len(back) = Len(bucket) - n
      /\ \A i \in 1 .. Len(bucket) - n : back[i] = bucket[n + i]
  <2>1. \A i \in n + 1 .. Len(bucket) : bucket[i] \in Jobs
    BY <1>1, <1>4
  <2>2. /\ back \in Seq(Jobs)
        /\ Len(back) = IF n + 1 <= Len(bucket) THEN Len(bucket) - (n + 1) + 1 ELSE 0
        /\ \A i \in 1 .. Len(bucket) - (n + 1) + 1 : back[i] = bucket[n + 1 + i - 1]
    BY <1>1, <1>4, <2>1, SubSeqProperties
  <2> HIDE DEF back
  <2> DEFINE m == Len(bucket)
  <2>3. m \in Nat /\ n \in Nat /\ n <= m
    BY <1>1, <1>4
  <2> HIDE DEF m
  <2>4. (IF n + 1 <= m THEN m - (n + 1) + 1 ELSE 0) = m - n
    BY <2>3
  <2>5. Len(back) = Len(bucket) - n
    BY <2>2, <2>4 DEF m
  <2>6. ASSUME NEW i \in 1 .. Len(bucket) - n PROVE back[i] = bucket[n + i]
    <3>1. i \in 1 .. Len(bucket) - (n + 1) + 1 /\ n + 1 + i - 1 = n + i
      BY <1>1, <1>4
    <3> QED
      BY <2>2, <3>1
  <2> QED
    BY <2>2, <2>5, <2>6
<1>8. t = (front \o <<j>>) \o back
  <2> DEFINE k == n + 1
  <2>1. k - 1 = n
    BY <1>1, <1>4
  <2>2. t = InsertAt(bucket, k, j)
    BY <1>5
  <2>3. back = SubSeq(bucket, k, Len(bucket))
    OBVIOUS
  <2> HIDE DEF k, t, back
  <2>4. t = (SubSeq(bucket, 1, k - 1) \o <<j>>) \o SubSeq(bucket, k, Len(bucket))
    BY <2>2 DEF InsertAt
  <2> QED
    BY <2>1, <2>3, <2>4
<1>9. /\ front \o <<j>> \in Seq(Jobs)
      /\ Len(front \o <<j>>) = n + 1
      /\ \A i \in 1 .. n + 1 :
            (front \o <<j>>)[i] = IF i <= n THEN front[i] ELSE j
  <2>1. <<j>> \in Seq(Jobs) /\ Len(<<j>>) = 1 /\ <<j>>[1] = j
    OBVIOUS
  <2> QED
    BY <1>4, <1>6, <2>1, ConcatProperties
<1>10. /\ t \in Seq(Jobs)
       /\ Len(t) = n + 1 + (Len(bucket) - n)
       /\ \A i \in 1 .. n + 1 + (Len(bucket) - n) :
             t[i] = IF i <= n + 1 THEN (front \o <<j>>)[i] ELSE back[i - (n + 1)]
  <2> DEFINE head == front \o <<j>>
  <2>1. /\ head \in Seq(Jobs)
        /\ back \in Seq(Jobs)
        /\ Len(head) = n + 1
        /\ Len(back) = Len(bucket) - n
        /\ t = head \o back
    BY <1>7, <1>8, <1>9
  <2> HIDE DEF head, back, t
  <2>2. /\ t \in Seq(Jobs)
        /\ Len(t) = Len(head) + Len(back)
        /\ \A i \in 1 .. Len(head) + Len(back) :
              t[i] = IF i <= Len(head) THEN head[i] ELSE back[i - Len(head)]
    BY <2>1, ConcatProperties
  <2> QED
    BY <2>1, <2>2 DEF head
<1> HIDE DEF t, front, back
<1>11. Len(t) = Len(bucket) + 1
  BY <1>1, <1>4, <1>10
<1>12. t[n + 1] = j
  <2> DEFINE k == n + 1
             head == front \o <<j>>
  <2>1. k \in 1 .. n + 1 /\ ~(k <= n) /\ k <= n + 1 /\ k \in 1 .. n + 1 + (Len(bucket) - n)
    BY <1>1, <1>4
  <2>2. head[k] = j
    BY <1>9, <2>1
  <2>3. \A i \in 1 .. n + 1 + (Len(bucket) - n) : i <= n + 1 => t[i] = head[i]
    BY <1>10
  <2> HIDE DEF k, head
  <2>4. t[k] = j
    BY <2>1, <2>2, <2>3
  <2> QED
    BY <2>4 DEF k
<1>13. ASSUME NEW i \in 1..n PROVE t[i] = bucket[i]
  <2>1. i \in 1 .. n + 1 /\ i <= n /\ i \in 1 .. n + 1 + (Len(bucket) - n) /\ i <= n + 1
    BY <1>1, <1>4
  <2>2. t[i] = front[i]
    BY <1>9, <1>10, <2>1
  <2> QED
    BY <1>6, <2>2
<1>14. ASSUME NEW i \in n + 2 .. Len(t) PROVE t[i] = bucket[i - 1]
  <2>1. t[i] = back[i - (n + 1)]
    BY <1>1, <1>4, <1>10
  <2>2. back[i - (n + 1)] = bucket[n + (i - (n + 1))]
    BY <1>1, <1>4, <1>7, <1>11
  <2> QED
    BY <1>4, <1>11, <2>1, <2>2
<1> QED
  BY <1>4, <1>5, <1>10, <1>11, <1>12, <1>13, <1>14 DEF t

-----------------------------------------------------------------------------
(***************************************************************************)
(* Mutual exclusion on a repository.                                       *)
(***************************************************************************)

LEMMA InitExclusion == Init => ExclusionInv
<1> SUFFICES ASSUME Init PROVE ExclusionInv
  OBVIOUS
<1>1. TypeOK
  <2>1. /\ state \in [Jobs -> States]
        /\ pc \in [Workers -> Locations]
        /\ holds \in [Workers -> Jobs \cup {NoJob}]
    BY DEF Init, States, Locations
  <2>2. /\ order \in Seq(Jobs)
        /\ queue \in Seq(Jobs \cup {Shutdown})
        /\ parked \in [Repos -> Seq(Jobs)]
    BY DEF Init
  <2>3. /\ done \subseteq Jobs
        /\ arriving \subseteq Jobs
        /\ active \subseteq Repos
        /\ cancelling \subseteq Jobs
        /\ stopped \in BOOLEAN
    BY DEF Init
  <2> QED
    BY <2>1, <2>2, <2>3 DEF TypeOK
<1>2. \A w \in Workers : pc[w] \notin Occupied
  BY DEF Init, Occupied, InRepo
<1> QED
  BY <1>1, <1>2 DEF ExclusionInv, HoldsJob, ClaimsMarked, RepoExclusive, Occupied

\* The steps of the handler threads touch neither workers nor `active'.
LEMMA HandlerExclusion ==
    ASSUME ExclusionInv,
           NEW j \in Jobs,
           Submit(j) \/ Enqueue(j) \/ Cancel(j) \/ CancelDone(j)
    PROVE  ExclusionInv'
<1>1. UNCHANGED <<pc, holds, active>>
  BY DEF Submit, Enqueue, Cancel, CancelDone
<1>2. TypeOK'
  <2>1. CASE Submit(j)
    BY <2>1 DEF ExclusionInv, TypeOK, Submit, States
  <2>2. CASE Enqueue(j)
    BY <2>2 DEF ExclusionInv, TypeOK, Enqueue
  <2>3. CASE Cancel(j)
    BY <2>3 DEF ExclusionInv, TypeOK, Cancel, States, Terminal
  <2>4. CASE CancelDone(j)
    BY <2>4 DEF ExclusionInv, TypeOK, CancelDone
  <2> QED
    BY <2>1, <2>2, <2>3, <2>4
<1> QED
  BY <1>1, <1>2 DEF ExclusionInv, HoldsJob, ClaimsMarked, RepoExclusive, Repo

LEMMA PopExclusion ==
    ASSUME ExclusionInv, NEW w \in Workers, Pop(w)
    PROVE  ExclusionInv'
<1>1. Head(queue) \in Jobs /\ Tail(queue) \in Seq(Jobs \cup {Shutdown})
  BY HeadTailProperties DEF ExclusionInv, TypeOK, Pop
<1>2. TypeOK'
  BY <1>1 DEF ExclusionInv, TypeOK, Pop, Goto, Locations
<1>3. \A v \in Workers : v # w => pc'[v] = pc[v] /\ holds'[v] = holds[v]
  BY DEF ExclusionInv, TypeOK, Pop, Goto
<1>4. pc'[w] = "popped" /\ holds'[w] \in Jobs /\ active' = active
  BY <1>1 DEF ExclusionInv, TypeOK, Pop, Goto
<1> QED
  BY <1>2, <1>3, <1>4
  DEF ExclusionInv, HoldsJob, ClaimsMarked, RepoExclusive, Repo, InRepo

LEMMA ExitExclusion ==
    ASSUME ExclusionInv, NEW w \in Workers, Exit(w)
    PROVE  ExclusionInv'
<1>1. Append(Tail(queue), Shutdown) \in Seq(Jobs \cup {Shutdown})
  BY HeadTailProperties DEF ExclusionInv, TypeOK, Exit
<1>2. TypeOK'
  BY <1>1 DEF ExclusionInv, TypeOK, Exit, Goto, Locations
<1>3. \A v \in Workers : v # w => pc'[v] = pc[v]
  BY DEF ExclusionInv, TypeOK, Exit, Goto
<1>4. pc'[w] = "exited" /\ UNCHANGED <<holds, active>>
  BY DEF ExclusionInv, TypeOK, Exit, Goto
<1> QED
  BY <1>2, <1>3, <1>4
  DEF ExclusionInv, HoldsJob, ClaimsMarked, RepoExclusive, Repo, InRepo, Occupied

LEMMA ParkExclusion ==
    ASSUME ExclusionInv, NEW w \in Workers, Park(w)
    PROVE  ExclusionInv'
<1>1. holds[w] \in Jobs /\ Repo(w) \in Repos
  BY QueueAssumption DEF ExclusionInv, TypeOK, HoldsJob, Occupied, Park, Repo
<1>2. InsertInSubmitOrder(parked[Repo(w)], holds[w]) \in Seq(Jobs)
  <2>1. parked[Repo(w)] \in Seq(Jobs)
    BY <1>1 DEF ExclusionInv, TypeOK
  <2> QED
    BY <1>1, <2>1, InsertFacts
<1>3. TypeOK'
  BY <1>1, <1>2 DEF ExclusionInv, TypeOK, Park, Goto, Locations
<1>4. \A v \in Workers : v # w => pc'[v] = pc[v] /\ holds'[v] = holds[v]
  BY DEF ExclusionInv, TypeOK, Park, Goto
<1>5. pc'[w] = "get" /\ active' = active
  BY DEF ExclusionInv, TypeOK, Park, Goto
<1> QED
  BY <1>3, <1>4, <1>5
  DEF ExclusionInv, HoldsJob, ClaimsMarked, RepoExclusive, Repo, InRepo, Occupied

\* The one step that enters a repository: its guard finds it idle, so no
\* other worker is in it.
LEMMA ClaimExclusion ==
    ASSUME ExclusionInv, NEW w \in Workers, Claim(w)
    PROVE  ExclusionInv'
<1>1. holds[w] \in Jobs /\ Repo(w) \in Repos /\ Repo(w) \notin active
  BY QueueAssumption
  DEF ExclusionInv, TypeOK, HoldsJob, Occupied, Claim, Repo, MayRun
<1>2. (IF parked[Repo(w)] = <<>> THEN parked[Repo(w)] ELSE Tail(parked[Repo(w)]))
         \in Seq(Jobs)
  BY <1>1, HeadTailProperties DEF ExclusionInv, TypeOK
<1>3. TypeOK'
  BY <1>1, <1>2 DEF ExclusionInv, TypeOK, Claim, Goto, Locations, InRepo
<1>4. \A v \in Workers : v # w => pc'[v] = pc[v]
  BY DEF ExclusionInv, TypeOK, Claim, Goto
<1>5. /\ pc'[w] = "claimed"
      /\ holds' = holds
      /\ active' = active \cup {Repo(w)}
  BY DEF ExclusionInv, TypeOK, Claim, Goto
<1>6. \A v \in Workers : Repo(v)' = Repo(v)
  BY <1>5 DEF Repo
<1>7. HoldsJob'
  BY <1>1, <1>4, <1>5 DEF ExclusionInv, HoldsJob
<1>8. ClaimsMarked'
  BY <1>4, <1>5, <1>6 DEF ExclusionInv, ClaimsMarked
<1>9. \A v \in Workers : v # w /\ pc'[v] \in InRepo => Repo(v) # Repo(w)
  BY <1>1, <1>4 DEF ExclusionInv, ClaimsMarked
<1>10. RepoExclusive'
  BY <1>4, <1>6, <1>9 DEF ExclusionInv, RepoExclusive
<1> QED
  BY <1>3, <1>7, <1>8, <1>10 DEF ExclusionInv

\* The steps a worker takes inside its repository.
LEMMA InsideExclusion ==
    ASSUME ExclusionInv, NEW w \in Workers,
           \/ Skip(w) \/ Start(w) \/ Settle(w)
           \/ \E result \in Results : Finish(w, result)
    PROVE  ExclusionInv'
<1>1. pc[w] \in InRepo /\ pc' = [pc EXCEPT ![w] = pc'[w]] /\ pc'[w] \in InRepo
  BY DEF ExclusionInv, TypeOK, Skip, Start, Settle, Finish, Goto, InRepo
<1>2. holds[w] \in Jobs /\ UNCHANGED <<holds, active, parked, queue, order>>
  BY <1>1
  DEF ExclusionInv, HoldsJob, Occupied, Skip, Start, Settle, Finish
<1>3. state' \in [Jobs -> States] /\ done' \subseteq Jobs
  BY <1>2 DEF ExclusionInv, TypeOK, Skip, Start, Settle, Finish, Results,
     States, Terminal
<1>4. TypeOK'
  BY <1>1, <1>2, <1>3
  DEF ExclusionInv, TypeOK, Locations, Skip, Start, Settle, Finish
<1>5. \A v \in Workers : pc'[v] \in InRepo <=> pc[v] \in InRepo
  BY <1>1 DEF ExclusionInv, TypeOK
<1>6. \A v \in Workers : pc'[v] \in Occupied <=> pc[v] \in Occupied
  BY <1>1 DEF ExclusionInv, TypeOK, Occupied
<1> QED
  BY <1>2, <1>4, <1>5, <1>6
  DEF ExclusionInv, HoldsJob, ClaimsMarked, RepoExclusive, Repo

\* Only the worker in the repository frees it, so nobody else relied on the
\* mark it removes.
LEMMA ReleaseExclusion ==
    ASSUME ExclusionInv, NEW w \in Workers, Release(w)
    PROVE  ExclusionInv'
<1>1. holds[w] \in Jobs /\ Repo(w) \in Repos /\ pc[w] \in InRepo
  BY QueueAssumption
  DEF ExclusionInv, TypeOK, HoldsJob, Occupied, InRepo, Release, Repo
<1>2. parked[Repo(w)] # <<>> => Head(parked[Repo(w)]) \in Jobs
  BY <1>1, HeadTailProperties DEF ExclusionInv, TypeOK
<1>3. TypeOK'
  BY <1>1, <1>2 DEF ExclusionInv, TypeOK, Release, Goto, Locations
<1>4. \A v \in Workers : v # w => pc'[v] = pc[v] /\ holds'[v] = holds[v]
  BY DEF ExclusionInv, TypeOK, Release, Goto
<1>5. /\ pc'[w] = "get" \/ (pc'[w] = "reenqueue" /\ holds'[w] \in Jobs)
      /\ active' = active \ {Repo(w)}
  BY <1>2 DEF ExclusionInv, TypeOK, Release, Goto
<1>6. pc'[w] \notin InRepo
  BY <1>5 DEF InRepo
<1>7. HoldsJob'
  BY <1>4, <1>5 DEF ExclusionInv, HoldsJob, Occupied, InRepo
<1>8. RepoExclusive'
  BY <1>4, <1>6 DEF ExclusionInv, RepoExclusive, Repo
<1>9. ClaimsMarked'
  BY <1>1, <1>4, <1>5, <1>6 DEF ExclusionInv, ClaimsMarked, RepoExclusive, Repo
<1> QED
  BY <1>3, <1>7, <1>8, <1>9 DEF ExclusionInv

LEMMA ReenqueueExclusion ==
    ASSUME ExclusionInv, NEW w \in Workers, Reenqueue(w)
    PROVE  ExclusionInv'
<1>1. holds[w] \in Jobs
  BY DEF ExclusionInv, HoldsJob, Occupied, Reenqueue
<1>2. TypeOK'
  BY <1>1 DEF ExclusionInv, TypeOK, Reenqueue, Goto, Locations
<1>3. \A v \in Workers : v # w => pc'[v] = pc[v] /\ holds'[v] = holds[v]
  BY DEF ExclusionInv, TypeOK, Reenqueue, Goto
<1>4. pc'[w] = "get" /\ active' = active
  BY DEF ExclusionInv, TypeOK, Reenqueue, Goto
<1> QED
  BY <1>2, <1>3, <1>4
  DEF ExclusionInv, HoldsJob, ClaimsMarked, RepoExclusive, Repo, InRepo, Occupied

LEMMA NextExclusion == ExclusionInv /\ [Next]_vars => ExclusionInv'
<1> SUFFICES ASSUME ExclusionInv, [Next]_vars PROVE ExclusionInv'
  OBVIOUS
<1>1. CASE \E j \in Jobs : Submit(j) \/ Enqueue(j) \/ Cancel(j) \/ CancelDone(j)
  BY <1>1, HandlerExclusion
<1>2. CASE Stop
  <2>1. TypeOK'
    BY <1>2 DEF ExclusionInv, TypeOK, Stop
  <2>2. UNCHANGED <<pc, holds, active>>
    BY <1>2 DEF Stop
  <2> QED
    BY <2>1, <2>2 DEF ExclusionInv, HoldsJob, ClaimsMarked, RepoExclusive, Repo
<1>3. CASE \E w \in Workers : WorkerStep(w)
  <2> PICK w \in Workers : WorkerStep(w)
    BY <1>3
  <2> QED
    BY PopExclusion, ExitExclusion, ParkExclusion, ClaimExclusion,
       InsideExclusion, ReleaseExclusion, ReenqueueExclusion DEF WorkerStep
<1>4. CASE UNCHANGED vars
  BY <1>4 DEF vars, ExclusionInv, TypeOK, HoldsJob, ClaimsMarked,
     RepoExclusive, Repo
<1> QED
  BY <1>1, <1>2, <1>3, <1>4 DEF Next

\* Every reachable state of the queue is well typed.
THEOREM TypeCorrect == Spec => []TypeOK
<1>1. ExclusionInv => TypeOK
  BY DEF ExclusionInv
<1> QED
  BY InitExclusion, NextExclusion, <1>1, PTL DEF Spec

\* No two workers are ever between claim and release of one repository, for
\* any number of workers, jobs and repositories.
THEOREM Exclusion == Spec => []RepoExclusive
<1>1. ExclusionInv => RepoExclusive
  BY DEF ExclusionInv
<1> QED
  BY InitExclusion, NextExclusion, <1>1, PTL DEF Spec

-----------------------------------------------------------------------------
(***************************************************************************)
(* A job runs once and the queue implements the lifecycle of JobLifecycle, *)
(* for every set of jobs, repositories and workers.  The argument is       *)
(* TokenDiscipline: a job id is in one place only, except that the head of *)
(* an idle repository's bucket may also travel, so the worker that claims  *)
(* a job consumes all there is of it.                                      *)
(***************************************************************************)


LifeInv == ExclusionInv /\ TokenDiscipline

-----------------------------------------------------------------------------
(***************************************************************************)
(* What the queue and bucket operations do to the jobs they contain.       *)
(***************************************************************************)

LEMMA AppendOnce ==
    ASSUME NEW S, NEW s \in Seq(S), NEW e \in S
    PROVE  /\ \A x : Contains(Append(s, e), x) <=> Contains(s, x) \/ x = e
           /\ JobsOnce(s) /\ (e \in Jobs => ~Contains(s, e))
                => JobsOnce(Append(s, e))
<1> DEFINE t == Append(s, e)
<1>1. /\ Len(s) \in Nat
      /\ Len(t) = Len(s) + 1
      /\ \A i \in 1..Len(s) : t[i] = s[i]
      /\ t[Len(s) + 1] = e
  BY AppendProperties
<1> HIDE DEF t
<1>2. ASSUME NEW x PROVE Contains(t, x) <=> Contains(s, x) \/ x = e
  BY <1>1 DEF Contains
<1>3. ASSUME JobsOnce(s), e \in Jobs => ~Contains(s, e) PROVE JobsOnce(t)
  <2> SUFFICES ASSUME NEW i \in 1..Len(t), NEW k \in 1..Len(t),
                      t[i] = t[k], t[i] \in Jobs
               PROVE  i = k
    BY DEF JobsOnce
  <2>1. CASE i \in 1..Len(s) /\ k \in 1..Len(s)
    BY <1>1, <1>3, <2>1 DEF JobsOnce
  <2>2. CASE i \in 1..Len(s) /\ k = Len(s) + 1
    BY <1>1, <1>3, <2>2 DEF Contains
  <2>3. CASE i = Len(s) + 1 /\ k \in 1..Len(s)
    BY <1>1, <1>3, <2>3 DEF Contains
  <2> QED
    BY <1>1, <2>1, <2>2, <2>3
<1> QED
  BY <1>2, <1>3 DEF t

LEMMA TailOnce ==
    ASSUME NEW S, NEW s \in Seq(S), s # <<>>
    PROVE  /\ Head(s) \in S
           /\ Contains(s, Head(s))
           /\ \A x : Contains(Tail(s), x) => Contains(s, x)
           /\ \A x : Contains(s, x) => x = Head(s) \/ Contains(Tail(s), x)
           /\ JobsOnce(s) => JobsOnce(Tail(s))
           /\ JobsOnce(s) /\ Head(s) \in Jobs => ~Contains(Tail(s), Head(s))
<1> DEFINE t == Tail(s)
<1>1. /\ Len(s) \in Nat \ {0}
      /\ Head(s) = s[1]
      /\ Head(s) \in S
    OBVIOUS
<1>2. /\ Len(t) = Len(s) - 1
      /\ \A i \in 1..Len(t) : t[i] = s[i + 1]
  BY HeadTailProperties
<1> HIDE DEF t
<1>3. Contains(s, Head(s))
  BY <1>1 DEF Contains
<1>4. ASSUME NEW x, Contains(t, x) PROVE Contains(s, x)
  <2> PICK i \in 1..Len(t) : t[i] = x
    BY <1>4 DEF Contains
  <2>1. i + 1 \in 1..Len(s) /\ s[i + 1] = x
    BY <1>1, <1>2
  <2> QED
    BY <2>1 DEF Contains
<1>5. ASSUME NEW x, Contains(s, x) PROVE x = Head(s) \/ Contains(t, x)
  <2> PICK i \in 1..Len(s) : s[i] = x
    BY <1>5 DEF Contains
  <2>1. CASE i = 1
    BY <1>1, <2>1
  <2>2. CASE i # 1
    <3>1. i - 1 \in 1..Len(t) /\ t[i - 1] = s[i - 1 + 1]
      BY <1>1, <1>2, <2>2
    <3> QED
      BY <3>1 DEF Contains
  <2> QED
    BY <2>1, <2>2
<1>6. ASSUME JobsOnce(s) PROVE JobsOnce(t)
  <2> SUFFICES ASSUME NEW i \in 1..Len(t), NEW k \in 1..Len(t),
                      t[i] = t[k], t[i] \in Jobs
               PROVE  i = k
    BY DEF JobsOnce
  <2>1. i + 1 \in 1..Len(s) /\ k + 1 \in 1..Len(s) /\ s[i + 1] = s[k + 1]
           /\ s[i + 1] \in Jobs
    BY <1>1, <1>2
  <2>2. i + 1 = k + 1
    BY <1>6, <2>1 DEF JobsOnce
  <2> QED
    BY <1>1, <1>2, <2>2
<1>7. ASSUME JobsOnce(s), Head(s) \in Jobs, Contains(t, Head(s)) PROVE FALSE
  <2> PICK i \in 1..Len(t) : t[i] = Head(s)
    BY <1>7 DEF Contains
  <2>1. i + 1 \in 1..Len(s) /\ 1 \in 1..Len(s) /\ s[i + 1] = s[1]
           /\ s[i + 1] \in Jobs
    BY <1>1, <1>2, <1>7
  <2>2. i + 1 = 1
    BY <1>7, <2>1 DEF JobsOnce
  <2> QED
    BY <1>1, <1>2, <2>2
<1> QED
  BY <1>1, <1>3, <1>4, <1>5, <1>6, <1>7 DEF t

LEMMA InsertOnce ==
    ASSUME NEW bucket \in Seq(Jobs), NEW j \in Jobs
    PROVE  LET t == InsertInSubmitOrder(bucket, j) IN
           /\ t # <<>>
           /\ \A x : Contains(t, x) <=> Contains(bucket, x) \/ x = j
           /\ JobsOnce(bucket) /\ ~Contains(bucket, j) => JobsOnce(t)
           /\ Head(t) = j \/ (bucket # <<>> /\ Head(t) = Head(bucket))
<1> DEFINE t == InsertInSubmitOrder(bucket, j)
<1>1. PICK n \in 0..Len(bucket) :
          /\ t \in Seq(Jobs)
          /\ Len(t) = Len(bucket) + 1
          /\ t[n + 1] = j
          /\ \A i \in 1..n : t[i] = bucket[i]
          /\ \A i \in n + 2 .. Len(t) : t[i] = bucket[i - 1]
  BY InsertFacts
<1> HIDE DEF t
<1>2. Len(bucket) \in Nat /\ Len(t) = Len(bucket) + 1
  BY <1>1
<1>3. t # <<>> /\ Head(t) = t[1]
  BY <1>1, <1>2
<1>4. ASSUME NEW x, Contains(t, x) PROVE Contains(bucket, x) \/ x = j
  <2> PICK i \in 1..Len(t) : t[i] = x
    BY <1>4 DEF Contains
  <2>1. CASE i \in 1..n
    BY <1>1, <1>2, <2>1 DEF Contains
  <2>2. CASE i = n + 1
    BY <1>1, <2>2
  <2>3. CASE i \in n + 2 .. Len(t)
    <3>1. i - 1 \in 1..Len(bucket) /\ bucket[i - 1] = x
      BY <1>1, <1>2, <2>3
    <3> QED
      BY <3>1 DEF Contains
  <2> QED
    BY <1>1, <1>2, <2>1, <2>2, <2>3
<1>5. ASSUME NEW x, Contains(bucket, x) \/ x = j PROVE Contains(t, x)
  <2>1. CASE x = j
    BY <1>1, <1>2, <2>1 DEF Contains
  <2>2. CASE Contains(bucket, x)
    <3> PICK i \in 1..Len(bucket) : bucket[i] = x
      BY <2>2 DEF Contains
    <3>1. CASE i <= n
      BY <1>1, <1>2, <3>1 DEF Contains
    <3>2. CASE i > n
      <4>1. i + 1 \in n + 2 .. Len(t) /\ i + 1 \in 1..Len(t)
        BY <1>1, <1>2, <3>2
      <4>2. t[i + 1] = bucket[i + 1 - 1] /\ i + 1 - 1 = i
        BY <1>1, <1>2, <4>1
      <4> QED
        BY <4>1, <4>2 DEF Contains
    <3> QED
      BY <1>1, <1>2, <3>1, <3>2
  <2> QED
    BY <1>5, <2>1, <2>2
<1>6. ASSUME JobsOnce(bucket), ~Contains(bucket, j) PROVE JobsOnce(t)
  <2> DEFINE old(i) == IF i <= n THEN i ELSE i - 1
  <2>1. \A i \in 1..Len(t) : i # n + 1 =>
            old(i) \in 1..Len(bucket) /\ t[i] = bucket[old(i)]
    BY <1>1, <1>2
  <2>2. \A i \in 1..Len(t) : t[i] = j => i = n + 1
    BY <1>6, <2>1 DEF Contains
  <2> SUFFICES ASSUME NEW i \in 1..Len(t), NEW k \in 1..Len(t),
                      t[i] = t[k], t[i] \in Jobs
               PROVE  i = k
    BY DEF JobsOnce
  <2>3. CASE i = n + 1 \/ k = n + 1
    BY <1>1, <2>2, <2>3
  <2>4. CASE i # n + 1 /\ k # n + 1
    <3>1. old(i) = old(k)
      BY <1>6, <2>1, <2>4 DEF JobsOnce
    <3> QED
      BY <1>1, <1>2, <2>4, <3>1
  <2> QED
    BY <2>3, <2>4
<1>7. Head(t) = j \/ (bucket # <<>> /\ Head(t) = Head(bucket))
  <2>1. CASE n = 0
    BY <1>1, <1>3, <2>1
  <2>2. CASE n # 0
    <3>1. 1 \in 1..n /\ bucket # <<>> /\ Head(bucket) = bucket[1]
      BY <1>1, <1>2, <2>2
    <3> QED
      BY <1>1, <1>3, <3>1
  <2> QED
    BY <2>1, <2>2
<1> QED
  BY <1>3, <1>4, <1>5, <1>6, <1>7 DEF t

-----------------------------------------------------------------------------
(***************************************************************************)
(* The handler threads keep the discipline.                                *)
(***************************************************************************)

LEMMA InitTokens == Init => TokenDiscipline
<1> SUFFICES ASSUME Init PROVE TokenDiscipline
  OBVIOUS
<1>1. \A x : ~Contains(queue, x)
  BY DEF Init, Contains
<1>2. \A r \in Repos : parked[r] = <<>> /\ \A x : ~Contains(parked[r], x)
  BY DEF Init, Contains
<1>3. \A w \in Workers : pc[w] = "get"
  BY DEF Init
<1>4. \A j : ~Token(j)
  BY <1>1, <1>3 DEF Init, Token, Carried, Carrying
<1>5. JobsOnce(queue)
  BY DEF Init, JobsOnce
<1>6. OneToken
  BY <1>1, <1>3, <1>5 DEF OneToken, Carrying, Carried
<1>7. ParkedAtHome /\ BusyBuckets /\ IdleBuckets /\ NothingLeft
  BY <1>2, <1>4 DEF Init, ParkedAtHome, BusyBuckets, IdleBuckets, NothingLeft
<1>8. WorkerState
  BY <1>3 DEF Init, WorkerState
<1> QED
  BY <1>6, <1>7, <1>8 DEF TokenDiscipline

\* A new job has no trace anywhere, so its first token is its only one.
LEMMA SubmitTokens ==
    ASSUME LifeInv, NEW j \in Jobs, Submit(j)
    PROVE  TokenDiscipline'
<1>1. /\ state[j] = "absent"
      /\ state' = [state EXCEPT ![j] = "queued"]
      /\ arriving' = arriving \cup {j}
      /\ UNCHANGED <<queue, parked, active, pc, holds, cancelling>>
  BY DEF Submit
<1>2. ~Token(j) /\ \A r \in Repos : ~Contains(parked[r], j)
  BY <1>1 DEF LifeInv, TokenDiscipline, NothingLeft, Spent
<1>3. \A w \in Workers : pc[w] \in InRepo => holds[w] # j
  BY <1>1 DEF LifeInv, TokenDiscipline, WorkerState, InRepo, Results, Terminal
<1>4. \A k : Token(k)' <=> Token(k) \/ k = j
  BY <1>1 DEF Token, Carried
<1>5. OneToken'
  BY <1>1, <1>2 DEF LifeInv, TokenDiscipline, OneToken, JobsOnce, Carried, Token
<1>6. ParkedAtHome'
  BY <1>1 DEF LifeInv, TokenDiscipline, ParkedAtHome
<1>7. BusyBuckets'
  BY <1>1, <1>2, <1>4
  DEF LifeInv, ExclusionInv, TypeOK, TokenDiscipline, BusyBuckets, JobsOnce
<1>8. IdleBuckets'
  <2> SUFFICES ASSUME NEW r \in Repos \ active,
                      parked[r] # <<>>, Token(Head(parked[r]))'
               PROVE  /\ JobsOnce(parked[r])
                      /\ \A k \in Jobs : Contains(parked[r], k) /\ k # Head(parked[r])
                                            => ~Token(k)'
    BY <1>1 DEF IdleBuckets, JobsOnce
  <2>1. Head(parked[r]) # j
    BY <1>2, TailOnce DEF LifeInv, ExclusionInv, TypeOK
  <2> QED
    BY <1>1, <1>2, <1>4, <2>1 DEF LifeInv, TokenDiscipline, IdleBuckets
<1>9. \A k \in Jobs : Spent(k)' => Spent(k) /\ k # j
  BY <1>1, <1>3
  DEF LifeInv, ExclusionInv, TypeOK, Spent, Results
<1>10. NothingLeft'
  BY <1>1, <1>4, <1>9 DEF LifeInv, TokenDiscipline, NothingLeft
<1>11. WorkerState'
  BY <1>1, <1>3
  DEF LifeInv, ExclusionInv, TypeOK, TokenDiscipline, WorkerState, InRepo, HoldsJob
<1> QED
  BY <1>5, <1>6, <1>7, <1>8, <1>10, <1>11 DEF TokenDiscipline

\* Moving a token, or touching neither tokens nor buckets, keeps everything
\* but the uniqueness of tokens and the worker states.
LEMMA SameTokens ==
    ASSUME LifeInv,
           UNCHANGED <<parked, active>>,
           \A k \in Jobs : Token(k)' <=> Token(k),
           \A k \in Jobs : Spent(k)' => Spent(k)
    PROVE  ParkedAtHome' /\ BusyBuckets' /\ IdleBuckets' /\ NothingLeft'
<1>1. \A r \in Repos : parked[r] # <<>> => Head(parked[r]) \in Jobs
  BY TailOnce DEF LifeInv, ExclusionInv, TypeOK
<1>2. \A r \in active : r \in Repos
  BY DEF LifeInv, ExclusionInv, TypeOK
<1>3. ParkedAtHome'
  BY DEF LifeInv, TokenDiscipline, ParkedAtHome
<1>4. BusyBuckets'
  BY <1>2 DEF LifeInv, TokenDiscipline, BusyBuckets, JobsOnce
<1>5. IdleBuckets'
  BY <1>1 DEF LifeInv, TokenDiscipline, IdleBuckets, JobsOnce
<1>6. NothingLeft'
  BY DEF LifeInv, TokenDiscipline, NothingLeft
<1> QED
  BY <1>3, <1>4, <1>5, <1>6

LEMMA EnqueueTokens ==
    ASSUME LifeInv, NEW j \in Jobs, Enqueue(j)
    PROVE  TokenDiscipline'
<1>1. /\ j \in arriving
      /\ arriving' = arriving \ {j}
      /\ queue' = Append(queue, j)
      /\ UNCHANGED <<state, parked, active, pc, holds, cancelling>>
  BY DEF Enqueue
<1>2. ~Contains(queue, j) /\ ~Carried(j)
  BY <1>1 DEF LifeInv, TokenDiscipline, OneToken
<1>3. /\ \A x : Contains(queue', x) <=> Contains(queue, x) \/ x = j
      /\ JobsOnce(queue')
  BY <1>1, <1>2, AppendOnce
  DEF LifeInv, ExclusionInv, TypeOK, TokenDiscipline, OneToken
<1>4. \A k : Carried(k)' <=> Carried(k)
  BY <1>1 DEF Carried
<1>5. \A k : Token(k)' <=> Token(k)
  BY <1>1, <1>3, <1>4 DEF Token
<1>6. OneToken'
  <2>1. JobsOnce(queue)'
    BY <1>3 DEF JobsOnce
  <2>2. \A v, w \in Workers :
            pc'[v] \in Carrying /\ pc'[w] \in Carrying /\ holds'[v] = holds'[w]
              => v = w
    BY <1>1 DEF LifeInv, TokenDiscipline, OneToken
  <2>3. \A k \in Jobs :
            /\ ~(k \in arriving' /\ Contains(queue', k))
            /\ ~(k \in arriving' /\ Carried(k)')
            /\ ~(Contains(queue', k) /\ Carried(k)')
    BY <1>1, <1>2, <1>3, <1>4 DEF LifeInv, TokenDiscipline, OneToken
  <2> QED
    BY <2>1, <2>2, <2>3 DEF OneToken
<1>7. \A k \in Jobs : Spent(k)' => Spent(k)
  BY <1>1 DEF Spent
<1>8. WorkerState'
  BY <1>1 DEF LifeInv, TokenDiscipline, WorkerState
<1> QED
  BY <1>1, <1>5, <1>6, <1>7, <1>8, SameTokens DEF TokenDiscipline

\* Steps that change no queue, bucket or worker.
LEMMA CancelTokens ==
    ASSUME LifeInv, NEW j \in Jobs, Cancel(j) \/ CancelDone(j)
    PROVE  TokenDiscipline'
<1>1. UNCHANGED <<arriving, queue, parked, active, pc, holds>>
  BY DEF Cancel, CancelDone
<1>2. \A k : Token(k)' <=> Token(k)
  BY <1>1 DEF Token, Carried
<1>3. OneToken'
  BY <1>1 DEF LifeInv, TokenDiscipline, OneToken, Carried, JobsOnce
<1>4. \A k \in Jobs : Spent(k)' => Spent(k)
  BY <1>1 DEF LifeInv, ExclusionInv, TypeOK, Spent, Cancel, CancelDone, Results
<1>5. WorkerState'
  <2>1. CASE Cancel(j)
    BY <1>1, <2>1
    DEF LifeInv, ExclusionInv, TypeOK, TokenDiscipline, WorkerState, Cancel,
        Results, Terminal
  <2>2. CASE CancelDone(j)
    BY <1>1, <2>2
    DEF LifeInv, TokenDiscipline, WorkerState, CancelDone
  <2> QED
    BY <2>1, <2>2
<1> QED
  BY <1>1, <1>2, <1>3, <1>4, <1>5, SameTokens DEF TokenDiscipline

LEMMA StopTokens ==
    ASSUME LifeInv, Stop
    PROVE  TokenDiscipline'
<1>1. /\ queue' = Append(queue, Shutdown)
      /\ UNCHANGED <<state, arriving, parked, active, pc, holds, cancelling>>
  BY DEF Stop
<1>2. /\ \A x : Contains(queue', x) <=> Contains(queue, x) \/ x = Shutdown
      /\ JobsOnce(queue')
  BY <1>1, AppendOnce, QueueAssumption
  DEF LifeInv, ExclusionInv, TypeOK, TokenDiscipline, OneToken
<1>3. \A k \in Jobs : Contains(queue', k) <=> Contains(queue, k)
  BY <1>2, QueueAssumption
<1>4. \A k : Carried(k)' <=> Carried(k)
  BY <1>1 DEF Carried
<1>5. \A k \in Jobs : Token(k)' <=> Token(k)
  BY <1>1, <1>3, <1>4 DEF Token
<1>6. OneToken'
  BY <1>1, <1>2, <1>3, <1>4
  DEF LifeInv, TokenDiscipline, OneToken, JobsOnce
<1>7. \A k \in Jobs : Spent(k)' => Spent(k)
  BY <1>1 DEF Spent
<1>8. WorkerState'
  BY <1>1 DEF LifeInv, TokenDiscipline, WorkerState
<1> QED
  BY <1>1, <1>5, <1>6, <1>7, <1>8, SameTokens DEF TokenDiscipline

-----------------------------------------------------------------------------
(***************************************************************************)
(* The workers keep the discipline.                                        *)
(***************************************************************************)

LEMMA PopTokens ==
    ASSUME LifeInv, NEW w \in Workers, Pop(w)
    PROVE  TokenDiscipline'
<1> DEFINE j == Head(queue)
<1>1. /\ pc[w] = "get"
      /\ pc' = [pc EXCEPT ![w] = "popped"]
      /\ holds' = [holds EXCEPT ![w] = j]
      /\ queue' = Tail(queue)
      /\ j # Shutdown
      /\ UNCHANGED <<state, arriving, parked, active, cancelling>>
  BY DEF Pop, Goto
<1>2. /\ j \in Jobs
      /\ Contains(queue, j)
      /\ ~Contains(queue', j)
      /\ JobsOnce(queue')
      /\ \A k : Contains(queue, k) <=> k = j \/ Contains(queue', k)
  BY <1>1, TailOnce
  DEF Pop, LifeInv, ExclusionInv, TypeOK, TokenDiscipline, OneToken
<1>3. ~Carried(j) /\ j \notin arriving
  BY <1>2 DEF LifeInv, TokenDiscipline, OneToken
<1> HIDE DEF j
<1>4. \A v \in Workers : v # w => pc'[v] = pc[v] /\ holds'[v] = holds[v]
  BY <1>1 DEF LifeInv, ExclusionInv, TypeOK
<1>5. pc'[w] = "popped" /\ holds'[w] = j
  BY <1>1 DEF LifeInv, ExclusionInv, TypeOK
<1>6. \A k : Carried(k)' <=> Carried(k) \/ k = j
  BY <1>1, <1>4, <1>5 DEF Carried, Carrying
<1>7. \A k \in Jobs : Token(k)' <=> Token(k)
  BY <1>1, <1>2, <1>6 DEF Token
<1>8. OneToken'
  <2>1. JobsOnce(queue)'
    BY <1>2 DEF JobsOnce
  <2>2. \A u, v \in Workers :
            pc'[u] \in Carrying /\ pc'[v] \in Carrying /\ holds'[u] = holds'[v]
              => u = v
    BY <1>3, <1>4, <1>5 DEF LifeInv, TokenDiscipline, OneToken, Carried
  <2>3. \A k \in Jobs :
            /\ ~(k \in arriving' /\ Contains(queue', k))
            /\ ~(k \in arriving' /\ Carried(k)')
            /\ ~(Contains(queue', k) /\ Carried(k)')
    BY <1>1, <1>2, <1>3, <1>6 DEF LifeInv, TokenDiscipline, OneToken
  <2> QED
    BY <2>1, <2>2, <2>3 DEF OneToken
<1>9. \A k \in Jobs : Spent(k)' => Spent(k)
  BY <1>1, <1>4, <1>5 DEF Spent, InRepo
<1>10. WorkerState'
  BY <1>1, <1>4, <1>5 DEF LifeInv, TokenDiscipline, WorkerState
<1> QED
  BY <1>1, <1>7, <1>8, <1>9, <1>10, SameTokens DEF TokenDiscipline

LEMMA ExitTokens ==
    ASSUME LifeInv, NEW w \in Workers, Exit(w)
    PROVE  TokenDiscipline'
<1>1. /\ pc[w] = "get"
      /\ pc' = [pc EXCEPT ![w] = "exited"]
      /\ queue # <<>> /\ Head(queue) = Shutdown
      /\ queue' = Append(Tail(queue), Shutdown)
      /\ UNCHANGED <<state, arriving, parked, active, holds, cancelling>>
  BY DEF Exit, Goto
<1>2. /\ Tail(queue) \in Seq(Jobs \cup {Shutdown})
      /\ JobsOnce(Tail(queue))
      /\ \A k : Contains(queue, k) <=> k = Shutdown \/ Contains(Tail(queue), k)
  BY <1>1, TailOnce, HeadTailProperties
  DEF LifeInv, ExclusionInv, TypeOK, TokenDiscipline, OneToken
<1>3. /\ JobsOnce(queue')
      /\ \A k \in Jobs : Contains(queue', k) <=> Contains(queue, k)
  <2> DEFINE t == Tail(queue)
  <2>1. t \in Seq(Jobs \cup {Shutdown}) /\ JobsOnce(t) /\ Shutdown \notin Jobs
    BY <1>2, QueueAssumption
  <2> HIDE DEF t
  <2>2. /\ JobsOnce(Append(t, Shutdown))
        /\ \A x : Contains(Append(t, Shutdown), x) <=> Contains(t, x) \/ x = Shutdown
    BY <2>1, AppendOnce
  <2>3. queue' = Append(t, Shutdown)
    BY <1>1 DEF t
  <2>4. \A k \in Jobs : Contains(queue', k) <=> Contains(t, k)
    BY <2>1, <2>2, <2>3
  <2>5. \A k \in Jobs : Contains(queue, k) <=> Contains(t, k)
    BY <1>2, <2>1 DEF t
  <2> QED
    BY <2>2, <2>3, <2>4, <2>5
<1>4. \A v \in Workers : v # w => pc'[v] = pc[v]
  BY <1>1 DEF LifeInv, ExclusionInv, TypeOK
<1>5. pc'[w] = "exited"
  BY <1>1 DEF LifeInv, ExclusionInv, TypeOK
<1>6. \A k : Carried(k)' <=> Carried(k)
  BY <1>1, <1>4, <1>5 DEF Carried, Carrying
<1>7. \A k \in Jobs : Token(k)' <=> Token(k)
  BY <1>1, <1>3, <1>6 DEF Token
<1>8. OneToken'
  BY <1>1, <1>3, <1>4, <1>5, <1>6
  DEF LifeInv, TokenDiscipline, OneToken, JobsOnce, Carrying
<1>9. \A k \in Jobs : Spent(k)' => Spent(k)
  BY <1>1, <1>4, <1>5 DEF Spent, InRepo
<1>10. WorkerState'
  BY <1>1, <1>4, <1>5 DEF LifeInv, TokenDiscipline, WorkerState
<1> QED
  BY <1>1, <1>7, <1>8, <1>9, <1>10, SameTokens DEF TokenDiscipline

\* A worker that gives up its token destroys the only one of that job.
LEMMA TokenDropped ==
    ASSUME LifeInv, NEW w \in Workers,
           pc[w] = "popped",
           pc'[w] \notin Carrying,
           \A v \in Workers : v # w => pc'[v] = pc[v] /\ holds'[v] = holds[v],
           UNCHANGED <<arriving, queue>>
    PROVE  /\ OneToken'
           /\ holds[w] \in Jobs
           /\ Token(holds[w])
           /\ \A k \in Jobs : Token(k)' <=> Token(k) /\ k # holds[w]
<1>1. holds[w] \in Jobs
  BY DEF LifeInv, ExclusionInv, HoldsJob, Occupied
<1>2. Carried(holds[w])
  BY DEF Carried, Carrying
<1>3. \A k : Carried(k)' <=> Carried(k) /\ k # holds[w]
  BY DEF LifeInv, TokenDiscipline, OneToken, Carried, Carrying
<1>4. \A k \in Jobs : Token(k)' <=> Token(k) /\ k # holds[w]
  BY <1>1, <1>2, <1>3 DEF LifeInv, TokenDiscipline, OneToken, Token
<1>5. OneToken'
  BY <1>3 DEF LifeInv, TokenDiscipline, OneToken, JobsOnce
<1> QED
  BY <1>1, <1>2, <1>4, <1>5 DEF Token

LEMMA ParkTokens ==
    ASSUME LifeInv, NEW w \in Workers, Park(w)
    PROVE  TokenDiscipline'
<1> DEFINE j == holds[w]
           r == Repo(w)
           bucket == InsertInSubmitOrder(parked[r], j)
<1>1. /\ pc[w] = "popped"
      /\ pc' = [pc EXCEPT ![w] = "get"]
      /\ holds' = [holds EXCEPT ![w] = NoJob]
      /\ parked' = [parked EXCEPT ![r] = bucket]
      /\ r \in active \/ (parked[r] # <<>> /\ Head(parked[r]) # j)
      /\ UNCHANGED <<state, arriving, queue, active, cancelling>>
  BY DEF Park, Goto, MayRun
<1>2. \A v \in Workers : v # w => pc'[v] = pc[v] /\ holds'[v] = holds[v]
  BY <1>1 DEF LifeInv, ExclusionInv, TypeOK
<1>3. pc'[w] = "get"
  BY <1>1 DEF LifeInv, ExclusionInv, TypeOK
<1>4. /\ OneToken'
      /\ j \in Jobs
      /\ Token(j)
      /\ \A k \in Jobs : Token(k)' <=> Token(k) /\ k # j
  BY <1>1, <1>2, <1>3, TokenDropped DEF Carrying
<1>5. r \in Repos /\ r = RepoOf[j] /\ parked[r] \in Seq(Jobs)
  BY <1>4, QueueAssumption DEF LifeInv, ExclusionInv, TypeOK, Repo
<1>6. /\ \A x : Contains(bucket, x) <=> Contains(parked[r], x) \/ x = j
      /\ JobsOnce(parked[r]) /\ ~Contains(parked[r], j) => JobsOnce(bucket)
      /\ bucket # <<>>
      /\ Head(bucket) = j \/ (parked[r] # <<>> /\ Head(bucket) = Head(parked[r]))
  BY <1>4, <1>5, InsertOnce
<1> HIDE DEF j, r, bucket
<1>7. /\ parked'[r] = bucket
      /\ \A q \in Repos : q # r => parked'[q] = parked[q]
  BY <1>1, <1>5 DEF LifeInv, ExclusionInv, TypeOK
<1>8. \A q \in Repos : parked[q] # <<>> => Head(parked[q]) \in Jobs
  BY TailOnce DEF LifeInv, ExclusionInv, TypeOK
<1>9. ParkedAtHome'
  BY <1>5, <1>6, <1>7 DEF LifeInv, TokenDiscipline, ParkedAtHome
<1>10. BusyBuckets'
  <2> SUFFICES ASSUME NEW q \in active
               PROVE  /\ JobsOnce(parked'[q])
                      /\ \A k \in Jobs : Contains(parked'[q], k) => ~Token(k)'
    BY <1>1 DEF BusyBuckets, JobsOnce
  <2>1. q \in Repos
    BY DEF LifeInv, ExclusionInv, TypeOK
  <2>2. /\ JobsOnce(parked[q])
        /\ \A k \in Jobs : Contains(parked[q], k) => ~Token(k)
    BY DEF LifeInv, TokenDiscipline, BusyBuckets
  <2>3. CASE q = r
    BY <1>4, <1>6, <1>7, <2>2, <2>3
  <2>4. CASE q # r
    BY <1>4, <1>7, <2>1, <2>2, <2>4
  <2> QED
    BY <2>3, <2>4
<1>11. IdleBuckets'
  <2> SUFFICES ASSUME NEW q \in Repos \ active,
                      parked'[q] # <<>>, Token(Head(parked[q]))'
               PROVE  /\ JobsOnce(parked'[q])
                      /\ \A k \in Jobs : Contains(parked'[q], k) /\ k # Head(parked'[q])
                                            => ~Token(k)'
    BY <1>1 DEF IdleBuckets, JobsOnce
  <2>1. CASE q = r
    <3>1. parked[r] # <<>> /\ Head(parked[r]) # j
      BY <1>1, <2>1
    <3>2. Head(bucket) = Head(parked[r]) /\ Token(Head(parked[r]))
      BY <1>4, <1>6, <1>7, <1>8, <1>5, <2>1, <3>1
    <3>3. /\ JobsOnce(parked[r])
          /\ \A k \in Jobs : Contains(parked[r], k) /\ k # Head(parked[r]) => ~Token(k)
      BY <2>1, <3>1, <3>2 DEF LifeInv, TokenDiscipline, IdleBuckets
    <3>4. ~Contains(parked[r], j)
      BY <1>4, <3>1, <3>3
    <3> QED
      BY <1>4, <1>6, <1>7, <2>1, <3>2, <3>3, <3>4
  <2>2. CASE q # r
    <3>1. parked'[q] = parked[q] /\ Head(parked[q]) \in Jobs
      BY <1>7, <1>8, <2>2
    <3>2. Token(Head(parked[q]))
      BY <1>4, <3>1
    <3> QED
      BY <1>4, <3>1, <3>2 DEF LifeInv, TokenDiscipline, IdleBuckets
  <2> QED
    BY <2>1, <2>2
<1>12. \A k \in Jobs : Spent(k)' => Spent(k)
  BY <1>1, <1>2, <1>3 DEF Spent, InRepo
<1>13. ~Spent(j)
  BY <1>4 DEF LifeInv, TokenDiscipline, NothingLeft
<1>14. NothingLeft'
  BY <1>4, <1>5, <1>6, <1>7, <1>12, <1>13 DEF LifeInv, TokenDiscipline, NothingLeft
<1>15. WorkerState'
  BY <1>1, <1>2, <1>3 DEF LifeInv, TokenDiscipline, WorkerState
<1> QED
  BY <1>4, <1>9, <1>10, <1>11, <1>14, <1>15 DEF TokenDiscipline

\* The claim consumes the job: its token and, if it was parked, its entry.
LEMMA ClaimTokens ==
    ASSUME LifeInv, NEW w \in Workers, Claim(w)
    PROVE  TokenDiscipline'
<1> DEFINE j == holds[w]
           r == Repo(w)
           rest == IF parked[r] = <<>> THEN parked[r] ELSE Tail(parked[r])
<1>1. /\ pc[w] = "popped"
      /\ pc' = [pc EXCEPT ![w] = "claimed"]
      /\ parked' = [parked EXCEPT ![r] = rest]
      /\ active' = active \cup {r}
      /\ r \notin active
      /\ parked[r] # <<>> => Head(parked[r]) = j
      /\ UNCHANGED <<state, arriving, queue, holds, cancelling>>
  BY DEF Claim, Goto, MayRun
<1>2. \A v \in Workers : v # w => pc'[v] = pc[v] /\ holds'[v] = holds[v]
  BY <1>1 DEF LifeInv, ExclusionInv, TypeOK
<1>3. pc'[w] = "claimed" /\ holds'[w] = j
  BY <1>1 DEF LifeInv, ExclusionInv, TypeOK
<1>4. /\ OneToken'
      /\ j \in Jobs
      /\ Token(j)
      /\ \A k \in Jobs : Token(k)' <=> Token(k) /\ k # j
  BY <1>1, <1>2, <1>3, TokenDropped DEF Carrying
<1>5. r \in Repos /\ r = RepoOf[j] /\ parked[r] \in Seq(Jobs)
  BY <1>4, QueueAssumption DEF LifeInv, ExclusionInv, TypeOK, Repo
<1>6. /\ JobsOnce(rest)
      /\ ~Contains(rest, j)
      /\ \A k \in Jobs : Contains(rest, k) => Contains(parked[r], k) /\ ~Token(k)
  <2>1. CASE parked[r] = <<>>
    BY <2>1 DEF JobsOnce, Contains
  <2>2. CASE parked[r] # <<>>
    <3>1. Head(parked[r]) = j /\ rest = Tail(parked[r])
      BY <1>1, <2>2
    <3>2. /\ JobsOnce(parked[r])
          /\ \A k \in Jobs : Contains(parked[r], k) /\ k # j => ~Token(k)
      BY <1>1, <1>4, <1>5, <2>2, <3>1 DEF LifeInv, TokenDiscipline, IdleBuckets
    <3>3. /\ JobsOnce(rest)
          /\ ~Contains(rest, j)
          /\ \A x : Contains(rest, x) => Contains(parked[r], x)
      BY <1>4, <1>5, <2>2, <3>1, <3>2, TailOnce
    <3> QED
      BY <3>2, <3>3
  <2> QED
    BY <2>1, <2>2
<1> HIDE DEF j, r, rest
<1>7. /\ parked'[r] = rest
      /\ \A q \in Repos : q # r => parked'[q] = parked[q]
  BY <1>1, <1>5 DEF LifeInv, ExclusionInv, TypeOK
<1>8. \A q \in Repos : parked[q] # <<>> => Head(parked[q]) \in Jobs
  BY TailOnce DEF LifeInv, ExclusionInv, TypeOK
<1>9. ParkedAtHome'
  BY <1>5, <1>6, <1>7 DEF LifeInv, TokenDiscipline, ParkedAtHome
<1>10. BusyBuckets'
  <2> SUFFICES ASSUME NEW q \in active'
               PROVE  /\ JobsOnce(parked'[q])
                      /\ \A k \in Jobs : Contains(parked'[q], k) => ~Token(k)'
    BY DEF BusyBuckets, JobsOnce
  <2>1. CASE q = r
    BY <1>4, <1>6, <1>7, <2>1
  <2>2. CASE q # r
    <3>1. q \in active /\ q \in Repos
      BY <1>1, <2>2 DEF LifeInv, ExclusionInv, TypeOK
    <3> QED
      BY <1>4, <1>7, <2>2, <3>1 DEF LifeInv, TokenDiscipline, BusyBuckets
  <2> QED
    BY <2>1, <2>2
<1>11. IdleBuckets'
  <2> SUFFICES ASSUME NEW q \in Repos \ active',
                      parked'[q] # <<>>, Token(Head(parked[q]))'
               PROVE  /\ JobsOnce(parked'[q])
                      /\ \A k \in Jobs : Contains(parked'[q], k) /\ k # Head(parked'[q])
                                            => ~Token(k)'
    BY DEF IdleBuckets, JobsOnce
  <2>1. q # r /\ q \in Repos \ active
    BY <1>1
  <2>2. parked'[q] = parked[q] /\ Head(parked[q]) \in Jobs
    BY <1>7, <1>8, <2>1
  <2>3. Token(Head(parked[q]))
    BY <1>4, <2>2
  <2> QED
    BY <1>4, <2>1, <2>2, <2>3 DEF LifeInv, TokenDiscipline, IdleBuckets
<1>12. \A k \in Jobs : Spent(k)' => Spent(k) \/ k = j
  BY <1>1, <1>2, <1>3 DEF Spent
<1>13. \A q \in Repos : ~Contains(parked'[q], j)
  BY <1>4, <1>5, <1>6, <1>7 DEF LifeInv, TokenDiscipline, ParkedAtHome
<1>14. NothingLeft'
  BY <1>4, <1>5, <1>6, <1>7, <1>12, <1>13 DEF LifeInv, TokenDiscipline, NothingLeft
<1>15. ~Spent(j)
  BY <1>4 DEF LifeInv, TokenDiscipline, NothingLeft
<1>16. state[j] \in {"queued", "cancelled"}
  BY <1>4, <1>15 DEF LifeInv, ExclusionInv, TypeOK, States, Terminal, Spent, Results
<1>17. WorkerState'
  BY <1>1, <1>2, <1>3, <1>16 DEF LifeInv, TokenDiscipline, WorkerState
<1> QED
  BY <1>4, <1>9, <1>10, <1>11, <1>14, <1>17 DEF TokenDiscipline

\* Inside the repository a worker changes the state of the job it holds,
\* which no other worker holds.
LEMMA InsideTokens ==
    ASSUME LifeInv, NEW w \in Workers,
           \/ Skip(w) \/ Start(w) \/ Settle(w)
           \/ \E result \in Results : Finish(w, result)
    PROVE  TokenDiscipline'
<1>1. /\ pc[w] \in InRepo /\ pc'[w] \in InRepo
      /\ pc' = [pc EXCEPT ![w] = pc'[w]]
      /\ UNCHANGED <<arriving, queue, parked, active, holds, cancelling>>
  BY DEF LifeInv, ExclusionInv, TypeOK, Skip, Start, Settle, Finish, Goto, InRepo
<1>2. holds[w] \in Jobs
  BY <1>1 DEF LifeInv, ExclusionInv, HoldsJob, Occupied
<1>3. \A v \in Workers : v # w => pc'[v] = pc[v]
  BY <1>1 DEF LifeInv, ExclusionInv, TypeOK
<1>4. \A v \in Workers : pc[v] \in InRepo /\ holds[v] = holds[w] => v = w
  BY <1>1 DEF LifeInv, ExclusionInv, RepoExclusive, Repo
<1>5. \A v \in Workers : pc'[v] \in Carrying <=> pc[v] \in Carrying
  BY <1>1, <1>3 DEF Carrying, InRepo
<1>6. \A k : Carried(k)' <=> Carried(k)
  BY <1>1, <1>5 DEF Carried
<1>7. \A k \in Jobs : Token(k)' <=> Token(k)
  BY <1>1, <1>6 DEF Token
<1>8. OneToken'
  BY <1>1, <1>5, <1>6 DEF LifeInv, TokenDiscipline, OneToken, JobsOnce
<1>9. \A k \in Jobs : k # holds[w] => state'[k] = state[k]
  BY <1>2 DEF LifeInv, ExclusionInv, TypeOK, Skip, Start, Settle, Finish
<1>10. \A k \in Jobs : Spent(k)' => Spent(k)
  BY <1>1, <1>2, <1>3, <1>9 DEF Spent
<1>11. WorkerState'
  <2>1. /\ pc'[w] = "claimed" => state'[holds[w]] \in {"queued", "cancelled"}
        /\ pc'[w] = "running" => state'[holds[w]] = "running"
        /\ pc'[w] = "settling" => state'[holds[w]] \in Results
        /\ pc'[w] = "releasing" => state'[holds[w]] \in Terminal
    BY <1>1, <1>2
    DEF LifeInv, ExclusionInv, TypeOK, TokenDiscipline, WorkerState, Skip, Start,
        Settle, Finish, Goto, Terminal, Results
  <2>2. \A v \in Workers : v # w =>
            /\ pc'[v] = "claimed" => state'[holds[v]] \in {"queued", "cancelled"}
            /\ pc'[v] = "running" => state'[holds[v]] = "running"
            /\ pc'[v] = "settling" => state'[holds[v]] \in Results
            /\ pc'[v] = "releasing" => state'[holds[v]] \in Terminal
    <3> SUFFICES ASSUME NEW v \in Workers, v # w, pc[v] \in InRepo
                 PROVE  state'[holds[v]] = state[holds[v]]
      BY <1>3 DEF LifeInv, TokenDiscipline, WorkerState, InRepo
    <3>1. holds[v] \in Jobs
      BY DEF LifeInv, ExclusionInv, HoldsJob, Occupied
    <3> QED
      BY <1>4, <1>9, <3>1
  <2>3. ASSUME NEW k \in Jobs, state'[k] = "running"
        PROVE  \E v \in Workers : pc'[v] = "running" /\ holds[v] = k
    <3>1. CASE k = holds[w]
      BY <1>1, <1>2, <2>1, <2>3, <3>1
      DEF LifeInv, ExclusionInv, TypeOK, InRepo, Terminal, Results
    <3>2. CASE k # holds[w]
      BY <1>3, <1>9, <2>3, <3>2 DEF LifeInv, TokenDiscipline, WorkerState
    <3> QED
      BY <3>1, <3>2
  <2>4. \A k \in cancelling : state'[k] = "cancelled"
    <3>1. state[holds[w]] = "cancelled" => state'[holds[w]] = "cancelled"
      BY <1>2
      DEF LifeInv, ExclusionInv, TypeOK, TokenDiscipline, WorkerState, Skip, Start,
          Settle, Finish
    <3> QED
      BY <1>2, <1>9, <3>1
      DEF LifeInv, ExclusionInv, TypeOK, TokenDiscipline, WorkerState
  <2> QED
    BY <1>1, <2>1, <2>2, <2>3, <2>4 DEF WorkerState
<1> QED
  BY <1>1, <1>7, <1>8, <1>10, <1>11, SameTokens DEF TokenDiscipline

\* The release gives the head of the bucket a token; it had none while the
\* repository was busy.
LEMMA ReleaseTokens ==
    ASSUME LifeInv, NEW w \in Workers, Release(w)
    PROVE  TokenDiscipline'
<1> DEFINE r == Repo(w)
           h == Head(parked[r])
<1>1. /\ pc[w] = "releasing"
      /\ active' = active \ {r}
      /\ IF parked[r] = <<>>
         THEN holds' = [holds EXCEPT ![w] = NoJob] /\ pc' = [pc EXCEPT ![w] = "get"]
         ELSE holds' = [holds EXCEPT ![w] = h] /\ pc' = [pc EXCEPT ![w] = "reenqueue"]
      /\ UNCHANGED <<state, arriving, queue, parked, cancelling>>
  BY DEF Release, Goto
<1>2. \A v \in Workers : v # w => pc'[v] = pc[v] /\ holds'[v] = holds[v]
  BY <1>1 DEF LifeInv, ExclusionInv, TypeOK
<1>3. /\ parked[r] = <<>> => pc'[w] = "get"
      /\ parked[r] # <<>> => pc'[w] = "reenqueue" /\ holds'[w] = h
  BY <1>1 DEF LifeInv, ExclusionInv, TypeOK
<1>4. r \in active /\ r \in Repos
  BY <1>1 DEF LifeInv, ExclusionInv, TypeOK, ClaimsMarked, InRepo
<1>5. /\ JobsOnce(parked[r])
      /\ \A k \in Jobs : Contains(parked[r], k) => ~Token(k)
  BY <1>4 DEF LifeInv, TokenDiscipline, BusyBuckets
<1>6. \A q \in Repos : parked[q] # <<>> =>
          Head(parked[q]) \in Jobs /\ Contains(parked[q], Head(parked[q]))
  BY TailOnce DEF LifeInv, ExclusionInv, TypeOK
<1>7. parked[r] # <<>> =>
          /\ h \in Jobs
          /\ RepoOf[h] = r
          /\ ~Token(h)
          /\ ~Spent(h)
  BY <1>4, <1>5, <1>6
  DEF LifeInv, TokenDiscipline, ParkedAtHome, NothingLeft
<1> HIDE DEF r, h
<1>8. \A k \in Jobs : Carried(k)' <=> Carried(k) \/ (parked[r] # <<>> /\ k = h)
  BY <1>1, <1>2, <1>3 DEF Carried, Carrying
<1>9. \A k \in Jobs : Token(k)' <=> Token(k) \/ (parked[r] # <<>> /\ k = h)
  BY <1>1, <1>8 DEF Token
<1>10. OneToken'
  <2>1. JobsOnce(queue)'
    BY <1>1 DEF LifeInv, TokenDiscipline, OneToken, JobsOnce
  <2>2. \A u, v \in Workers :
            pc'[u] \in Carrying /\ pc'[v] \in Carrying /\ holds'[u] = holds'[v]
              => u = v
    BY <1>2, <1>3, <1>7
    DEF LifeInv, TokenDiscipline, OneToken, Carried, Carrying, Token
  <2>3. \A k \in Jobs :
            /\ ~(k \in arriving' /\ Contains(queue', k))
            /\ ~(k \in arriving' /\ Carried(k)')
            /\ ~(Contains(queue', k) /\ Carried(k)')
    BY <1>1, <1>7, <1>8 DEF LifeInv, TokenDiscipline, OneToken, Token
  <2> QED
    BY <2>1, <2>2, <2>3 DEF OneToken
<1>11. ParkedAtHome'
  BY <1>1 DEF LifeInv, TokenDiscipline, ParkedAtHome
<1>12. \A q \in Repos : q # r /\ parked[r] # <<>> => ~Contains(parked[q], h)
  BY <1>7 DEF LifeInv, TokenDiscipline, ParkedAtHome
<1>13. BusyBuckets'
  <2> SUFFICES ASSUME NEW q \in active \ {r}
               PROVE  /\ JobsOnce(parked[q])
                      /\ \A k \in Jobs : Contains(parked[q], k) => ~Token(k)'
    BY <1>1 DEF BusyBuckets, JobsOnce
  <2>1. q \in Repos
    BY DEF LifeInv, ExclusionInv, TypeOK
  <2> QED
    BY <1>9, <1>12, <2>1 DEF LifeInv, TokenDiscipline, BusyBuckets
<1>14. IdleBuckets'
  <2> SUFFICES ASSUME NEW q \in Repos \ active',
                      parked[q] # <<>>, Token(Head(parked[q]))'
               PROVE  /\ JobsOnce(parked[q])
                      /\ \A k \in Jobs : Contains(parked[q], k) /\ k # Head(parked[q])
                                            => ~Token(k)'
    BY <1>1 DEF IdleBuckets, JobsOnce
  <2>1. CASE q = r
    BY <1>5, <1>9, <2>1 DEF h
  <2>2. CASE q # r
    <3>1. Head(parked[q]) \in Jobs /\ Contains(parked[q], Head(parked[q]))
      BY <1>6
    <3>2. Token(Head(parked[q]))
      BY <1>1, <1>9, <1>12, <2>2, <3>1
    <3>3. q \in Repos \ active
      BY <1>1, <2>2
    <3> QED
      BY <1>9, <1>12, <2>2, <3>2, <3>3 DEF LifeInv, TokenDiscipline, IdleBuckets
  <2> QED
    BY <2>1, <2>2
<1>15. \A k \in Jobs : Spent(k)' => Spent(k)
  BY <1>1, <1>2, <1>3 DEF Spent, InRepo
<1>16. NothingLeft'
  BY <1>1, <1>7, <1>9, <1>15 DEF LifeInv, TokenDiscipline, NothingLeft
<1>17. WorkerState'
  BY <1>1, <1>2, <1>3 DEF LifeInv, TokenDiscipline, WorkerState
<1> QED
  BY <1>10, <1>11, <1>13, <1>14, <1>16, <1>17 DEF TokenDiscipline

LEMMA ReenqueueTokens ==
    ASSUME LifeInv, NEW w \in Workers, Reenqueue(w)
    PROVE  TokenDiscipline'
<1> DEFINE j == holds[w]
<1>1. /\ pc[w] = "reenqueue"
      /\ pc' = [pc EXCEPT ![w] = "get"]
      /\ holds' = [holds EXCEPT ![w] = NoJob]
      /\ queue' = Append(queue, j)
      /\ UNCHANGED <<state, arriving, parked, active, cancelling>>
  BY DEF Reenqueue, Goto
<1>2. j \in Jobs /\ Carried(j)
  BY <1>1 DEF LifeInv, ExclusionInv, HoldsJob, Occupied, Carried, Carrying
<1>3. j \notin arriving /\ ~Contains(queue, j)
  BY <1>2 DEF LifeInv, TokenDiscipline, OneToken
<1> HIDE DEF j
<1>4. /\ \A x : Contains(queue', x) <=> Contains(queue, x) \/ x = j
      /\ JobsOnce(queue')
  BY <1>1, <1>2, <1>3, AppendOnce
  DEF LifeInv, ExclusionInv, TypeOK, TokenDiscipline, OneToken
<1>5. \A v \in Workers : v # w => pc'[v] = pc[v] /\ holds'[v] = holds[v]
  BY <1>1 DEF LifeInv, ExclusionInv, TypeOK
<1>6. pc'[w] = "get"
  BY <1>1 DEF LifeInv, ExclusionInv, TypeOK
<1>7. \A k : Carried(k)' <=> Carried(k) /\ k # j
  BY <1>1, <1>5, <1>6
  DEF j, LifeInv, TokenDiscipline, OneToken, Carried, Carrying
<1>8. \A k \in Jobs : Token(k)' <=> Token(k)
  BY <1>1, <1>2, <1>4, <1>7 DEF Token
<1>9. OneToken'
  <2>1. JobsOnce(queue)'
    BY <1>4 DEF JobsOnce
  <2>2. \A u, v \in Workers :
            pc'[u] \in Carrying /\ pc'[v] \in Carrying /\ holds'[u] = holds'[v]
              => u = v
    BY <1>5, <1>6 DEF LifeInv, TokenDiscipline, OneToken, Carrying
  <2>3. \A k \in Jobs :
            /\ ~(k \in arriving' /\ Contains(queue', k))
            /\ ~(k \in arriving' /\ Carried(k)')
            /\ ~(Contains(queue', k) /\ Carried(k)')
    BY <1>1, <1>3, <1>4, <1>7 DEF LifeInv, TokenDiscipline, OneToken
  <2> QED
    BY <2>1, <2>2, <2>3 DEF OneToken
<1>10. \A k \in Jobs : Spent(k)' => Spent(k)
  BY <1>1, <1>5, <1>6 DEF Spent, InRepo
<1>11. WorkerState'
  BY <1>1, <1>5, <1>6 DEF LifeInv, TokenDiscipline, WorkerState
<1> QED
  BY <1>1, <1>8, <1>9, <1>10, <1>11, SameTokens DEF TokenDiscipline

LEMMA InitLife == Init => LifeInv
  BY InitExclusion, InitTokens DEF LifeInv

LEMMA NextLife == LifeInv /\ [Next]_vars => LifeInv'
<1> SUFFICES ASSUME LifeInv, [Next]_vars PROVE LifeInv'
  OBVIOUS
<1>1. ExclusionInv'
  BY NextExclusion DEF LifeInv
<1>2. CASE \E j \in Jobs : Submit(j) \/ Enqueue(j) \/ Cancel(j) \/ CancelDone(j)
  BY <1>1, <1>2, SubmitTokens, EnqueueTokens, CancelTokens DEF LifeInv
<1>3. CASE Stop
  BY <1>1, <1>3, StopTokens DEF LifeInv
<1>4. CASE \E w \in Workers : WorkerStep(w)
  <2> PICK w \in Workers : WorkerStep(w)
    BY <1>4
  <2> QED
    BY <1>1, PopTokens, ExitTokens, ParkTokens, ClaimTokens, InsideTokens,
       ReleaseTokens, ReenqueueTokens DEF WorkerStep, LifeInv
<1>5. CASE UNCHANGED vars
  <2>1. \A k : Token(k)' <=> Token(k)
    BY <1>5 DEF vars, Token, Carried
  <2>2. OneToken'
    BY <1>5 DEF vars, LifeInv, TokenDiscipline, OneToken, Carried, JobsOnce
  <2>3. WorkerState'
    BY <1>5 DEF vars, LifeInv, TokenDiscipline, WorkerState
  <2>4. \A k \in Jobs : Spent(k)' => Spent(k)
    BY <1>5 DEF vars, Spent
  <2>5. UNCHANGED <<parked, active>>
    BY <1>5 DEF vars
  <2> QED
    BY <1>1, <2>1, <2>2, <2>3, <2>4, <2>5, SameTokens DEF LifeInv, TokenDiscipline
<1> QED
  BY <1>2, <1>3, <1>4, <1>5 DEF Next

\* Every reachable state of the queue obeys the token discipline.
THEOREM TokensDisciplined == Spec => []TokenDiscipline
<1>1. LifeInv => TokenDiscipline
  BY DEF LifeInv
<1> QED
  BY InitLife, NextLife, <1>1, PTL DEF Spec

-----------------------------------------------------------------------------
(***************************************************************************)
(* What a step does to the registry: it is a step of the lifecycle.        *)
(***************************************************************************)

\* A worker that starts a job finds it queued and its repository without a
\* running job.
LEMMA StartIsRun ==
    ASSUME LifeInv, NEW w \in Workers, Start(w)
    PROVE  Lifecycle!Run(holds[w])
<1>1. holds[w] \in Jobs /\ state[holds[w]] = "queued"
  BY DEF LifeInv, ExclusionInv, HoldsJob, Occupied, InRepo, TokenDiscipline,
     WorkerState, Start
<1>2. ASSUME NEW k \in Jobs, RepoOf[k] = RepoOf[holds[w]], state[k] = "running"
      PROVE  FALSE
  <2>1. PICK v \in Workers : pc[v] = "running" /\ holds[v] = k
    BY <1>2 DEF LifeInv, TokenDiscipline, WorkerState
  <2>2. v = w
    BY <1>2, <2>1
    DEF LifeInv, ExclusionInv, RepoExclusive, InRepo, Repo, Start
  <2> QED
    BY <2>1, <2>2 DEF Start
<1> QED
  BY <1>1, <1>2 DEF Start, Lifecycle!Run

LEMMA StepIsLifecycleStep ==
    LifeInv /\ [Next]_vars => [Lifecycle!LifecycleNext]_Lifecycle!lifecycleVars
<1> SUFFICES ASSUME LifeInv, [Next]_vars
             PROVE  [Lifecycle!LifecycleNext]_Lifecycle!lifecycleVars
  OBVIOUS
<1> USE DEF Lifecycle!LifecycleNext, Lifecycle!lifecycleVars
<1>1. CASE \E j \in Jobs : Submit(j) \/ Enqueue(j) \/ Cancel(j) \/ CancelDone(j)
  <2> PICK j \in Jobs : Submit(j) \/ Enqueue(j) \/ Cancel(j) \/ CancelDone(j)
    BY <1>1
  <2>1. CASE Submit(j)
    BY <2>1 DEF Submit, Lifecycle!Register
  <2>2. CASE Enqueue(j)
    BY <2>2 DEF Enqueue
  <2>3. CASE Cancel(j)
    BY <2>3 DEF Cancel, Lifecycle!Conclude
  <2>4. CASE CancelDone(j)
    <3>1. state[j] = "cancelled"
      BY <2>4 DEF CancelDone, LifeInv, TokenDiscipline, WorkerState
    <3> QED
      BY <2>4, <3>1 DEF CancelDone, Lifecycle!Announce, Lifecycle!Terminal
  <2> QED
    BY <2>1, <2>2, <2>3, <2>4
<1>2. CASE Stop
  BY <1>2 DEF Stop
<1>3. CASE \E w \in Workers : WorkerStep(w)
  <2> PICK w \in Workers : WorkerStep(w)
    BY <1>3
  <2>1. CASE Pop(w) \/ Exit(w) \/ Park(w) \/ Claim(w) \/ Skip(w) \/ Release(w)
               \/ Reenqueue(w)
    BY <2>1 DEF Pop, Exit, Park, Claim, Skip, Release, Reenqueue
  <2>2. CASE Start(w)
    <3>1. holds[w] \in Jobs
      BY <2>2 DEF LifeInv, ExclusionInv, HoldsJob, Occupied, InRepo, Start
    <3> QED
      BY <2>2, <3>1, StartIsRun
  <2>3. CASE \E result \in Results : Finish(w, result)
    <3> PICK result \in Results : Finish(w, result)
      BY <2>3
    <3>1. holds[w] \in Jobs /\ state[holds[w]] = "running"
      BY DEF LifeInv, ExclusionInv, HoldsJob, Occupied, InRepo, TokenDiscipline,
         WorkerState, Finish
    <3>2. Lifecycle!Conclude(holds[w])
      BY <3>1 DEF Finish, Results, Lifecycle!Conclude
    <3> QED
      BY <3>1, <3>2
  <2>4. CASE Settle(w)
    <3>1. holds[w] \in Jobs /\ state[holds[w]] \in Results
      BY <2>4 DEF LifeInv, ExclusionInv, HoldsJob, Occupied, InRepo,
         TokenDiscipline, WorkerState, Settle
    <3>2. Lifecycle!Announce(holds[w])
      BY <2>4, <3>1 DEF Settle, Results, Lifecycle!Announce, Lifecycle!Terminal
    <3> QED
      BY <3>1, <3>2
  <2> QED
    BY <2>1, <2>2, <2>3, <2>4 DEF WorkerStep
<1>4. CASE UNCHANGED vars
  BY <1>4 DEF vars
<1> QED
  BY <1>1, <1>2, <1>3, <1>4 DEF Next

\* Queue, buckets, pool and handler threads together implement the lifecycle
\* of a job, for any number of them.
THEOREM Refinement == Spec => ImplementsLifecycle
<1>1. Init => Lifecycle!LifecycleInit
  BY DEF Init, Lifecycle!LifecycleInit
<1> QED
  BY InitLife, NextLife, StepIsLifecycleStep, <1>1, PTL
  DEF Spec, ImplementsLifecycle, Lifecycle!LifecycleSpec

\* A recorded outcome is never overwritten: in particular no job runs twice.
THEOREM Final == Spec => OutcomeFinal
<1>1. ASSUME LifeInv, [Next]_vars
      PROVE  [\A j \in Jobs : state[j] \in Terminal => state'[j] = state[j]]_vars
  <2>1. [Lifecycle!LifecycleNext]_Lifecycle!lifecycleVars
    BY <1>1, StepIsLifecycleStep
  <2>2. state \in [Jobs -> States]
    BY <1>1 DEF LifeInv, ExclusionInv, TypeOK
  <2>3. CASE UNCHANGED Lifecycle!lifecycleVars
    BY <2>3 DEF Lifecycle!lifecycleVars
  <2>4. CASE Lifecycle!LifecycleNext
    BY <2>2, <2>4
    DEF Lifecycle!LifecycleNext, Lifecycle!Register, Lifecycle!Run,
        Lifecycle!Conclude, Lifecycle!Announce, Terminal
  <2> QED
    BY <2>1, <2>3, <2>4
<1> QED
  BY InitLife, NextLife, <1>1, PTL DEF Spec, OutcomeFinal

-----------------------------------------------------------------------------
(***************************************************************************)
(* No queued job is dropped.                                               *)
(***************************************************************************)

\* A worker step keeps hold of every job that is still queued after it.
LEMMA WorkerKeepsJobs ==
    ASSUME LifeInv, NoJobLost, NEW w \in Workers, WorkerStep(w),
           NEW j \in Jobs, state'[j] = "queued"
    PROVE  Tracked(j)'
<1>1. state[j] = "queued" /\ arriving' = arriving
  <2>1. CASE Pop(w) \/ Exit(w) \/ Park(w) \/ Claim(w) \/ Skip(w) \/ Release(w)
               \/ Reenqueue(w) \/ Settle(w)
    BY <2>1 DEF Pop, Exit, Park, Claim, Skip, Release, Reenqueue, Settle
  <2>2. CASE Start(w) \/ \E result \in Results : Finish(w, result)
    <3>1. holds[w] \in Jobs /\ state \in [Jobs -> States]
      BY <2>2 DEF LifeInv, ExclusionInv, TypeOK, HoldsJob, Occupied, InRepo,
         Start, Finish
    <3> QED
      BY <2>2, <3>1 DEF Start, Finish, Results
  <2> QED
    BY <2>1, <2>2 DEF WorkerStep
<1>2. Tracked(j)
  BY <1>1 DEF NoJobLost
<1>3. \A v \in Workers : v # w => pc'[v] = pc[v] /\ holds'[v] = holds[v]
  BY DEF LifeInv, ExclusionInv, TypeOK, WorkerStep, Pop, Exit, Park, Claim, Skip,
     Start, Finish, Settle, Release, Reenqueue, Goto
<1>4. CASE Pop(w)
  <2>1. /\ Contains(queue, j) => j = Head(queue) \/ Contains(queue', j)
        /\ pc'[w] = "popped" /\ holds'[w] = Head(queue)
        /\ pc[w] = "get" /\ parked' = parked
    BY <1>4, TailOnce DEF LifeInv, ExclusionInv, TypeOK, Pop, Goto
  <2> QED
    BY <1>1, <1>2, <1>3, <2>1 DEF Tracked
<1>5. CASE Exit(w)
  <2> DEFINE rest == Tail(queue)
  <2>1. /\ rest \in Seq(Jobs \cup {Shutdown})
        /\ Contains(queue, j) => j = Shutdown \/ Contains(rest, j)
        /\ queue' = Append(rest, Shutdown)
        /\ pc[w] = "get" /\ parked' = parked
    BY <1>5, TailOnce, HeadTailProperties DEF LifeInv, ExclusionInv, TypeOK, Exit
  <2> HIDE DEF rest
  <2>2. Contains(rest, j) => Contains(queue', j)
    BY <2>1, AppendOnce
  <2>3. j # Shutdown
    BY QueueAssumption
  <2> QED
    BY <1>1, <1>2, <1>3, <2>1, <2>2, <2>3 DEF Tracked
<1>6. CASE Park(w)
  <2> DEFINE r == Repo(w)
             bucket == InsertInSubmitOrder(parked[r], holds[w])
  <2>1. holds[w] \in Jobs /\ r \in Repos /\ parked[r] \in Seq(Jobs)
    BY <1>6, QueueAssumption
    DEF LifeInv, ExclusionInv, TypeOK, HoldsJob, Occupied, Park, Repo
  <2>2. \A x : Contains(bucket, x) <=> Contains(parked[r], x) \/ x = holds[w]
    BY <2>1, InsertOnce
  <2> HIDE DEF r, bucket
  <2>3. /\ parked'[r] = bucket
        /\ \A q \in Repos : q # r => parked'[q] = parked[q]
        /\ queue' = queue
    BY <1>6, <2>1 DEF LifeInv, ExclusionInv, TypeOK, Park, r, bucket
  <2> QED
    BY <1>1, <1>2, <1>3, <2>1, <2>2, <2>3 DEF Tracked
<1>7. CASE Claim(w)
  <2> DEFINE r == Repo(w)
  <2>1. holds[w] \in Jobs /\ r \in Repos /\ parked[r] \in Seq(Jobs)
    BY <1>7, QueueAssumption
    DEF LifeInv, ExclusionInv, TypeOK, HoldsJob, Occupied, Claim, Repo
  <2>2. Contains(parked[r], j) => j = holds[w] \/ Contains(parked'[r], j)
    BY <1>7, <2>1, TailOnce DEF LifeInv, ExclusionInv, TypeOK, Claim, MayRun
  <2>3. /\ \A q \in Repos : q # r => parked'[q] = parked[q]
        /\ queue' = queue /\ holds' = holds
        /\ pc'[w] = "claimed"
    BY <1>7, <2>1 DEF LifeInv, ExclusionInv, TypeOK, Claim, Goto
  <2> HIDE DEF r
  <2> QED
    BY <1>1, <1>2, <1>3, <2>1, <2>2, <2>3 DEF Tracked
<1>8. CASE Skip(w) \/ Start(w) \/ \E result \in Results : Finish(w, result)
  <2>1. pc[w] = "claimed" => holds[w] # j
    BY <1>1, <1>8
    DEF LifeInv, ExclusionInv, TypeOK, HoldsJob, Occupied, InRepo, Skip, Start, Finish
  <2>2. pc[w] # "popped" /\ queue' = queue /\ parked' = parked
    BY <1>8 DEF Skip, Start, Finish
  <2> QED
    BY <1>1, <1>2, <1>3, <2>1, <2>2 DEF Tracked
<1>9. CASE Settle(w) \/ Release(w)
  <2>1. pc[w] \notin {"popped", "claimed"} /\ queue' = queue /\ parked' = parked
    BY <1>9 DEF Settle, Release
  <2> QED
    BY <1>1, <1>2, <1>3, <2>1 DEF Tracked
<1>10. CASE Reenqueue(w)
  <2>1. /\ pc[w] = "reenqueue"
        /\ parked' = parked
        /\ queue' = Append(queue, holds[w])
    BY <1>10 DEF Reenqueue
  <2>2. queue \in Seq(Jobs \cup {Shutdown}) /\ holds[w] \in Jobs \cup {Shutdown}
    BY <2>1 DEF LifeInv, ExclusionInv, TypeOK, HoldsJob, Occupied
  <2>3. Contains(queue, j) => Contains(queue', j)
    BY <2>1, <2>2, AppendOnce
  <2> QED
    BY <2>3, <1>1, <1>2, <1>3, <2>1 DEF Tracked
<1> QED
  BY <1>4, <1>5, <1>6, <1>7, <1>8, <1>9, <1>10 DEF WorkerStep

\* Whatever the interleaving, the id of a queued job is in the hands of its
\* submitter, in the queue, in a bucket or with a worker about to decide it.
THEOREM NothingLost == Spec => []NoJobLost
<1>1. Init => NoJobLost
  BY DEF Init, NoJobLost
<1>2. ASSUME LifeInv, NoJobLost, [Next]_vars PROVE NoJobLost'
  <2> SUFFICES ASSUME NEW j \in Jobs, state'[j] = "queued" PROVE Tracked(j)'
    BY DEF NoJobLost
  <2>1. CASE \E k \in Jobs : Submit(k) \/ Enqueue(k) \/ Cancel(k) \/ CancelDone(k)
    <3> PICK k \in Jobs : Submit(k) \/ Enqueue(k) \/ Cancel(k) \/ CancelDone(k)
      BY <2>1
    <3>1. UNCHANGED <<parked, pc, holds>>
      BY DEF Submit, Enqueue, Cancel, CancelDone
    <3>2. CASE Submit(k)
      BY <1>2, <3>1, <3>2
      DEF LifeInv, ExclusionInv, TypeOK, NoJobLost, Tracked, Submit
    <3>3. CASE Enqueue(k)
      <4>1. Contains(queue', j) <=> Contains(queue, j) \/ j = k
        BY <1>2, <3>3, AppendOnce DEF LifeInv, ExclusionInv, TypeOK, Enqueue
      <4> QED
        BY <1>2, <3>1, <3>3, <4>1 DEF NoJobLost, Tracked, Enqueue
    <3>4. CASE Cancel(k) \/ CancelDone(k)
      BY <1>2, <3>1, <3>4
      DEF LifeInv, ExclusionInv, TypeOK, NoJobLost, Tracked, Cancel, CancelDone
    <3> QED
      BY <3>2, <3>3, <3>4
  <2>2. CASE Stop
    <3>1. Contains(queue', j) <=> Contains(queue, j) \/ j = Shutdown
      <4>1. /\ queue \in Seq(Jobs \cup {Shutdown})
            /\ Shutdown \in Jobs \cup {Shutdown}
            /\ queue' = Append(queue, Shutdown)
        BY <1>2, <2>2 DEF LifeInv, ExclusionInv, TypeOK, Stop
      <4> QED
        BY <4>1, AppendOnce
    <3> QED
      BY <1>2, <2>2, <3>1 DEF NoJobLost, Tracked, Stop
  <2>3. CASE \E w \in Workers : WorkerStep(w)
    BY <1>2, <2>3, WorkerKeepsJobs
  <2>4. CASE UNCHANGED vars
    BY <1>2, <2>4 DEF vars, NoJobLost, Tracked
  <2> QED
    BY <1>2, <2>1, <2>2, <2>3, <2>4 DEF Next
<1> QED
  BY InitLife, NextLife, <1>1, <1>2, PTL DEF Spec

-----------------------------------------------------------------------------
(***************************************************************************)
(* The order of submission.  A bucket is kept in it although jobs are      *)
(* parked in another one, and its head alone may be claimed.               *)
(***************************************************************************)

Place(j, ord) == CHOOSE i \in DOMAIN ord : ord[i] = j
Listed(j, ord) == \E i \in 1..Len(ord) : ord[i] = j
Distinct(ord) == \A i, k \in 1..Len(ord) : ord[i] = ord[k] => i = k

InOrder(s, ord) ==
    \A i, k \in 1..Len(s) : i < k => Place(s[i], ord) <= Place(s[k], ord)

\* Every registered job has one place in the order of submission, and each
\* bucket follows it.
OrderInv ==
    /\ Distinct(order)
    /\ \A j \in Jobs : state[j] # "absent" <=> Listed(j, order)
    /\ \A r \in Repos : InOrder(parked[r], order)

LEMMA IndexIsPlace ==
    /\ \A j : SubmitIndex(j) = Place(j, order)
    /\ \A j : SubmitIndex(j)' = Place(j, order')
BY DEF SubmitIndex, Place

LEMMA PlaceFacts ==
    ASSUME NEW ord \in Seq(Jobs), NEW j, Listed(j, ord)
    PROVE  Place(j, ord) \in 1..Len(ord) /\ ord[Place(j, ord)] = j
<1>1. DOMAIN ord = 1..Len(ord)
  OBVIOUS
<1> QED
  BY <1>1 DEF Place, Listed

\* A job that is submitted moves no other.
LEMMA PlaceStays ==
    ASSUME NEW ord \in Seq(Jobs), NEW x \in Jobs, ~Listed(x, ord), Distinct(ord),
           NEW j, Listed(j, ord)
    PROVE  Place(j, Append(ord, x)) = Place(j, ord)
<1> DEFINE longer == Append(ord, x)
<1>1. /\ longer \in Seq(Jobs) /\ Len(longer) = Len(ord) + 1 /\ Len(ord) \in Nat
      /\ \A i \in 1..Len(ord) : longer[i] = ord[i]
      /\ longer[Len(ord) + 1] = x
  OBVIOUS
<1> HIDE DEF longer
<1>2. Listed(j, longer) /\ j # x
  BY <1>1 DEF Listed
<1>3. Place(j, longer) \in 1..Len(longer) /\ longer[Place(j, longer)] = j
  BY <1>1, <1>2, PlaceFacts
<1>4. Place(j, ord) \in 1..Len(ord) /\ ord[Place(j, ord)] = j
  BY PlaceFacts
<1>5. Place(j, longer) \in 1..Len(ord)
  BY <1>1, <1>2, <1>3
<1>6. ord[Place(j, longer)] = j
  BY <1>1, <1>3, <1>5
<1> QED
  BY <1>4, <1>5, <1>6 DEF Distinct, longer

LEMMA AppendDistinct ==
    ASSUME NEW ord \in Seq(Jobs), NEW x \in Jobs, ~Listed(x, ord), Distinct(ord)
    PROVE  /\ Distinct(Append(ord, x))
           /\ \A j : Listed(j, Append(ord, x)) <=> Listed(j, ord) \/ j = x
<1> DEFINE longer == Append(ord, x)
<1>1. /\ Len(longer) = Len(ord) + 1 /\ Len(ord) \in Nat
      /\ \A i \in 1..Len(ord) : longer[i] = ord[i]
      /\ longer[Len(ord) + 1] = x
  OBVIOUS
<1> HIDE DEF longer
<1>2. Distinct(longer)
  BY <1>1 DEF Distinct, Listed
<1>3. \A j : Listed(j, longer) <=> Listed(j, ord) \/ j = x
  BY <1>1 DEF Listed
<1> QED
  BY <1>2, <1>3 DEF longer

\* In an ordered bucket the jobs that are not younger come first.
LEMMA OlderFirst ==
    ASSUME NEW bucket \in Seq(Jobs), NEW j,
           Place(j, order) \in Nat,
           \A i \in 1..Len(bucket) : Place(bucket[i], order) \in Nat,
           InOrder(bucket, order)
    PROVE  \A i \in 1..Len(bucket) :
              i <= Cardinality(Older(bucket, j)) <=> Place(bucket[i], order) <= Place(j, order)
<1> DEFINE older == Older(bucket, j)
           place(i) == Place(bucket[i], order)
<1>1. older = {i \in 1..Len(bucket) : place(i) <= Place(j, order)}
  BY IndexIsPlace DEF Older
<1>2. ASSUME NEW m \in Nat PROVE IsFiniteSet(1..m) /\ Cardinality(1..m) = m
  <2>1. 1 \in Int /\ m \in Int
    OBVIOUS
  <2>2. IsFiniteSet(1..m) /\ Cardinality(1..m) = IF 1 > m THEN 0 ELSE m - 1 + 1
    BY <2>1, FS_Interval, Zenon
  <2> QED
    BY <2>2
<1>3. Len(bucket) \in Nat
  OBVIOUS
<1>4. IsFiniteSet(older) /\ Cardinality(older) \in Nat
  <2>1. older \in SUBSET (1..Len(bucket))
    BY <1>1
  <2>2. IsFiniteSet(1..Len(bucket))
    BY <1>2, <1>3
  <2>3. IsFiniteSet(older)
    BY <2>1, <2>2, FS_Subset
  <2> QED
    BY <2>3, FS_CardinalityType
<1>5. \A i, k \in 1..Len(bucket) : i < k => place(i) <= place(k)
  BY DEF InOrder
<1>6. \A i \in 1..Len(bucket) : place(i) \in Nat
  OBVIOUS
<1> HIDE DEF older, place
<1>7. ASSUME NEW i \in 1..Len(bucket), place(i) <= Place(j, order)
      PROVE  i <= Cardinality(older)
  <2>1. \A k \in 1..i : place(k) <= Place(j, order)
    BY <1>3, <1>5, <1>6, <1>7
  <2>2. 1..i \in SUBSET older
    BY <1>1, <1>3, <2>1
  <2>3. Cardinality(1..i) <= Cardinality(older)
    BY <1>4, <2>2, FS_Subset
  <2>4. i \in Nat
    BY <1>3
  <2> QED
    BY <1>2, <2>3, <2>4
<1>8. ASSUME NEW i \in 1..Len(bucket), ~(place(i) <= Place(j, order))
      PROVE  ~(i <= Cardinality(older))
  <2>1. i - 1 \in Nat
    BY <1>3
  <2>2. ASSUME NEW k \in older PROVE k \in 1..(i - 1)
    <3>1. k \in 1..Len(bucket) /\ place(k) <= Place(j, order)
      BY <1>1
    <3>2. ~(i < k) /\ k # i
      BY <1>5, <1>6, <1>8, <3>1
    <3> QED
      BY <1>3, <3>1, <3>2
  <2>3. older \in SUBSET (1..(i - 1))
    BY <2>2
  <2>4. Cardinality(older) <= Cardinality(1..(i - 1))
    BY <1>2, <2>1, <2>3, FS_Subset
  <2>5. Cardinality(1..(i - 1)) = i - 1
    BY <1>2, <2>1
  <2> QED
    BY <1>3, <1>4, <2>4, <2>5
<1> QED
  BY <1>7, <1>8 DEF older, place

LEMMA InsertOrdered ==
    ASSUME NEW bucket \in Seq(Jobs), NEW j \in Jobs,
           Place(j, order) \in Nat,
           \A i \in 1..Len(bucket) : Place(bucket[i], order) \in Nat,
           InOrder(bucket, order)
    PROVE  InOrder(InsertInSubmitOrder(bucket, j), order)
<1> DEFINE t == InsertInSubmitOrder(bucket, j)
           place(x) == Place(x, order)
<1>1. PICK n \in 0..Len(bucket) :
          /\ Len(t) = Len(bucket) + 1
          /\ n = Cardinality(Older(bucket, j))
          /\ t[n + 1] = j
          /\ \A i \in 1..n : t[i] = bucket[i]
          /\ \A i \in n + 2 .. Len(t) : t[i] = bucket[i - 1]
  BY InsertFacts
<1>2. Len(bucket) \in Nat /\ n \in Nat
  BY <1>1
<1>3. \A i \in 1..Len(bucket) : i <= n <=> place(bucket[i]) <= place(j)
  BY <1>1, OlderFirst
<1>4. \A i, k \in 1..Len(bucket) : i < k => place(bucket[i]) <= place(bucket[k])
  BY DEF InOrder
<1>5. \A i \in 1..Len(bucket) : place(bucket[i]) \in Nat
  OBVIOUS
<1>6. place(j) \in Nat
  OBVIOUS
<1> HIDE DEF t, place
<1>7. ASSUME NEW i \in 1..Len(t), NEW k \in 1..Len(t), i < k
      PROVE  place(t[i]) <= place(t[k])
  <2>1. CASE k <= n
    <3>1. i \in 1..n /\ k \in 1..n /\ i \in 1..Len(bucket) /\ k \in 1..Len(bucket)
      BY <1>1, <1>2, <1>7, <2>1
    <3> QED
      BY <1>1, <1>4, <1>7, <3>1
  <2>2. CASE k = n + 1
    <3>1. i \in 1..n /\ i \in 1..Len(bucket)
      BY <1>1, <1>2, <1>7, <2>2
    <3> QED
      BY <1>1, <1>2, <1>3, <2>2, <3>1
  <2>3. CASE k > n + 1
    <3>1. k \in n + 2 .. Len(t) /\ k - 1 \in 1..Len(bucket) /\ ~(k - 1 <= n)
      BY <1>1, <1>2, <2>3
    <3>2. t[k] = bucket[k - 1]
      BY <1>1, <3>1
    <3>3. ~(place(bucket[k - 1]) <= place(j))
      BY <1>3, <3>1
    <3>4. CASE i <= n
      <4>1. i \in 1..n /\ i \in 1..Len(bucket) /\ i < k - 1
        BY <1>1, <1>2, <2>3, <3>4
      <4>2. t[i] = bucket[i]
        BY <1>1, <4>1
      <4> QED
        BY <1>4, <3>1, <3>2, <4>1, <4>2
    <3>5. CASE i = n + 1
      <4>0. place(bucket[k - 1]) \in Nat
        BY <1>5, <3>1
      <4>1. place(j) <= place(bucket[k - 1])
        BY <1>6, <3>3, <4>0
      <4>2. t[i] = j
        BY <1>1, <3>5
      <4> QED
        BY <3>2, <4>1, <4>2, Zenon
    <3>6. CASE i > n + 1
      <4>1. i \in n + 2 .. Len(t) /\ i - 1 \in 1..Len(bucket) /\ i - 1 < k - 1
        BY <1>1, <1>2, <1>7, <3>6
      <4>2. t[i] = bucket[i - 1]
        BY <1>1, <4>1
      <4> QED
        BY <1>4, <3>1, <3>2, <4>1, <4>2
    <3> QED
      BY <1>2, <3>4, <3>5, <3>6
  <2> QED
    BY <1>2, <2>1, <2>2, <2>3
<1> QED
  BY <1>7 DEF InOrder, t, place

LEMMA TailOrdered ==
    ASSUME NEW s \in Seq(Jobs), s # <<>>, NEW ord, InOrder(s, ord)
    PROVE  InOrder(Tail(s), ord)
<1> DEFINE t == Tail(s)
<1>1. /\ Len(s) \in Nat \ {0} /\ Len(t) = Len(s) - 1
      /\ \A i \in 1..Len(t) : t[i] = s[i + 1]
  OBVIOUS
<1> HIDE DEF t
<1>2. ASSUME NEW i \in 1..Len(t), NEW k \in 1..Len(t), i < k
      PROVE  Place(t[i], ord) <= Place(t[k], ord)
  <2>1. i + 1 \in 1..Len(s) /\ k + 1 \in 1..Len(s) /\ i + 1 < k + 1
    BY <1>1, <1>2
  <2>2. Place(s[i + 1], ord) <= Place(s[k + 1], ord)
    BY <2>1 DEF InOrder
  <2> QED
    BY <1>1, <2>2
<1> QED
  BY <1>2 DEF InOrder, t

\* A job with a token or in a bucket is registered, and so has a place.
LEMMA TravellersListed ==
    ASSUME LifeInv, OrderInv
    PROVE  /\ \A j \in Jobs : Token(j) => Listed(j, order)
           /\ \A r \in Repos : \A i \in 1..Len(parked[r]) :
                 parked[r][i] \in Jobs /\ Listed(parked[r][i], order)
<1>1. \A j \in Jobs : state[j] = "absent" => ~Token(j) /\ \A r \in Repos : ~Contains(parked[r], j)
  BY DEF LifeInv, TokenDiscipline, NothingLeft, Spent
<1>2. ASSUME NEW r \in Repos, NEW i \in 1..Len(parked[r])
      PROVE  parked[r][i] \in Jobs /\ Listed(parked[r][i], order)
  <2>1. parked[r] \in Seq(Jobs)
    BY DEF LifeInv, ExclusionInv, TypeOK
  <2>2. parked[r][i] \in Jobs
    BY <2>1
  <2>3. Contains(parked[r], parked[r][i])
    BY DEF Contains
  <2> QED
    BY <1>1, <2>2, <2>3 DEF OrderInv
<1> QED
  BY <1>1, <1>2 DEF OrderInv

LEMMA OrderStep == LifeInv /\ OrderInv /\ [Next]_vars => OrderInv'
<1> SUFFICES ASSUME LifeInv, OrderInv, [Next]_vars PROVE OrderInv'
  OBVIOUS
<1>0. /\ TypeOK /\ HoldsJob /\ WorkerState
      /\ order \in Seq(Jobs) /\ parked \in [Repos -> Seq(Jobs)] /\ state \in [Jobs -> States]
      /\ \A r \in Repos : InOrder(parked[r], order)
  BY DEF LifeInv, ExclusionInv, TypeOK, TokenDiscipline, OrderInv
<1>1. ASSUME NEW j \in Jobs, Submit(j) PROVE OrderInv'
  <2>1. /\ state[j] = "absent" /\ state' = [state EXCEPT ![j] = "queued"]
        /\ order' = Append(order, j) /\ parked' = parked
    BY <1>1 DEF Submit
  <2>2. ~Listed(j, order) /\ Distinct(order)
    BY <2>1 DEF OrderInv
  <2>3. Distinct(order') /\ \A k : Listed(k, order') <=> Listed(k, order) \/ k = j
    BY <1>0, <2>1, <2>2, AppendDistinct
  <2>4. \A k \in Jobs : state'[k] # "absent" <=> Listed(k, order')
    BY <1>0, <2>1, <2>3 DEF OrderInv
  <2>5. ASSUME NEW r \in Repos PROVE InOrder(parked'[r], order')
    <3>1. \A i \in 1..Len(parked[r]) : Place(parked[r][i], order') = Place(parked[r][i], order)
      BY <1>0, <2>1, <2>2, TravellersListed, PlaceStays
    <3> QED
      BY <1>0, <2>1, <3>1 DEF InOrder
  <2> QED
    BY <2>3, <2>4, <2>5 DEF OrderInv
<1>2. ASSUME order' = order, parked' = parked,
             \A j \in Jobs : state'[j] = "absent" <=> state[j] = "absent"
      PROVE  OrderInv'
  BY <1>2 DEF OrderInv
<1>3. ASSUME NEW j \in Jobs, Enqueue(j) \/ Cancel(j) \/ CancelDone(j) PROVE OrderInv'
  <2>1. \A k \in Jobs : state'[k] = "absent" <=> state[k] = "absent"
    BY <1>0, <1>3 DEF Enqueue, Cancel, CancelDone
  <2> QED
    BY <1>2, <1>3, <2>1 DEF Enqueue, Cancel, CancelDone
<1>4. ASSUME NEW w \in Workers, Park(w) PROVE OrderInv'
  <2> DEFINE r == Repo(w)
             b == parked[r]
  <2>1. holds[w] \in Jobs /\ r \in Repos /\ b \in Seq(Jobs)
    BY <1>0, <1>4, QueueAssumption DEF HoldsJob, Occupied, Park, Repo
  <2>2. Token(holds[w])
    BY <1>4, <2>1 DEF Park, Token, Carried, Carrying
  <2>3. Listed(holds[w], order) /\ \A i \in 1..Len(b) : Listed(b[i], order)
    BY <2>1, <2>2, TravellersListed
  <2>4. Place(holds[w], order) \in Nat /\ \A i \in 1..Len(b) : Place(b[i], order) \in Nat
    BY <1>0, <2>3, PlaceFacts
  <2>5. InOrder(InsertInSubmitOrder(b, holds[w]), order)
    BY <1>0, <2>1, <2>4, InsertOrdered
  <2>6. /\ parked'[r] = InsertInSubmitOrder(b, holds[w])
        /\ \A q \in Repos \ {r} : parked'[q] = parked[q]
        /\ order' = order /\ state' = state
    BY <1>0, <1>4, <2>1 DEF Park
  <2> HIDE DEF r, b
  <2>7. \A q \in Repos : InOrder(parked'[q], order')
    BY <1>0, <2>5, <2>6
  <2> QED
    BY <2>6, <2>7 DEF OrderInv
<1>5. ASSUME NEW w \in Workers, Claim(w) PROVE OrderInv'
  <2> DEFINE r == Repo(w)
  <2>1. parked' = [parked EXCEPT ![r] = IF @ = <<>> THEN @ ELSE Tail(@)]
        /\ order' = order /\ state' = state
    BY <1>5 DEF Claim
  <2> HIDE DEF r
  <2>2. ASSUME NEW q \in Repos PROVE InOrder(parked'[q], order)
    <3>1. parked'[q] = parked[q] \/ (parked[q] # <<>> /\ parked'[q] = Tail(parked[q]))
      BY <1>0, <2>1
    <3> QED
      BY <1>0, <3>1, TailOrdered
  <2> QED
    BY <2>1, <2>2 DEF OrderInv
<1>6. ASSUME NEW w \in Workers,
             Pop(w) \/ Exit(w) \/ Skip(w) \/ Settle(w) \/ Release(w) \/ Reenqueue(w)
      PROVE  OrderInv'
  BY <1>2, <1>6 DEF Pop, Exit, Skip, Settle, Release, Reenqueue
<1>7. ASSUME NEW w \in Workers, Start(w) \/ \E result \in Results : Finish(w, result)
      PROVE  OrderInv'
  <2>1. holds[w] \in Jobs /\ state[holds[w]] # "absent"
    BY <1>0, <1>7 DEF HoldsJob, Occupied, InRepo, WorkerState, Start, Finish
  <2>2. \A k \in Jobs : state'[k] = "absent" <=> state[k] = "absent"
    BY <1>0, <1>7, <2>1 DEF Start, Finish, Results
  <2> QED
    BY <1>2, <1>7, <2>2 DEF Start, Finish
<1>8. CASE Stop \/ UNCHANGED vars
  BY <1>2, <1>8 DEF Stop, vars
<1> QED
  BY <1>1, <1>3, <1>4, <1>5, <1>6, <1>7, <1>8 DEF Next, WorkerStep

LEMMA InitOrder == Init => OrderInv
<1> SUFFICES ASSUME Init PROVE OrderInv
  OBVIOUS
<1>1. Len(order) = 0 /\ \A r \in Repos : Len(parked[r]) = 0
  BY DEF Init
<1>2. \A j \in Jobs : state[j] = "absent"
  BY DEF Init
<1> QED
  BY <1>1, <1>2 DEF OrderInv, Distinct, Listed, InOrder

\* What was parked behind the head of an ordered bucket without doubles is
\* younger than the head.
LEMMA HeadOldest ==
    ASSUME NEW s \in Seq(Jobs), s # <<>>, JobsOnce(s), InOrder(s, order),
           order \in Seq(Jobs), \A i \in 1..Len(s) : Listed(s[i], order),
           NEW k \in ToSet(Tail(s))
    PROVE  SubmitIndex(Head(s)) < SubmitIndex(k)
<1>1. /\ Len(s) \in Nat \ {0} /\ Len(Tail(s)) = Len(s) - 1 /\ Head(s) = s[1]
      /\ \A i \in 1..Len(Tail(s)) : Tail(s)[i] = s[i + 1]
      /\ DOMAIN Tail(s) = 1..Len(Tail(s))
      /\ \A i \in 1..Len(s) : s[i] \in Jobs
  OBVIOUS
<1>2. PICK i \in 1..Len(Tail(s)) : k = Tail(s)[i]
  BY <1>1 DEF ToSet
<1>3. i + 1 \in 1..Len(s) /\ 1 \in 1..Len(s) /\ 1 < i + 1 /\ k = s[i + 1]
  BY <1>1, <1>2
<1>4. Place(s[1], order) <= Place(k, order)
  BY <1>3 DEF InOrder
<1>5. s[1] # k
  BY <1>1, <1>3 DEF JobsOnce
<1>6. /\ Place(s[1], order) \in Nat /\ order[Place(s[1], order)] = s[1]
      /\ Place(k, order) \in Nat /\ order[Place(k, order)] = k
  BY <1>3, PlaceFacts
<1>7. Place(s[1], order) # Place(k, order)
  BY <1>5, <1>6
<1> QED
  BY <1>1, <1>4, <1>6, <1>7, IndexIsPlace

\* A worker takes a repository with the oldest of the jobs that wait for it:
\* no job parked there at that moment was submitted before, in whatever order
\* the jobs were popped, parked, woken and cancelled.
THEOREM NoneOvertakes == Spec => NoOvertaking
<1>1. ASSUME LifeInv, OrderInv, [Next]_vars
      PROVE  [\A r \in active' \ active : \A w \in Workers :
                 pc'[w] = "claimed" /\ Repo(w) = r =>
                    \A k \in ToSet(parked'[r]) : SubmitIndex(holds[w]) < SubmitIndex(k)]_vars
  <2> SUFFICES ASSUME NEW r \in active' \ active, NEW w \in Workers,
                      pc'[w] = "claimed", Repo(w) = r, NEW k \in ToSet(parked'[r])
               PROVE  SubmitIndex(holds[w]) < SubmitIndex(k)
    OBVIOUS
  <2>0. /\ TypeOK /\ HoldsJob /\ ClaimsMarked /\ IdleBuckets
        /\ order \in Seq(Jobs) /\ parked \in [Repos -> Seq(Jobs)]
    BY <1>1 DEF LifeInv, ExclusionInv, TypeOK, TokenDiscipline
  <2>1. PICK v \in Workers : Claim(v) /\ Repo(v) = r
    BY <1>1 DEF Next, WorkerStep, Submit, Enqueue, Cancel, CancelDone, Stop, Pop, Exit,
       Park, Claim, Skip, Start, Finish, Settle, Release, Reenqueue, vars
  <2>2. v = w
    <3>1. SUFFICES ASSUME v # w PROVE FALSE
      OBVIOUS
    <3>2. pc[w] = "claimed"
      BY <2>0, <2>1, <3>1 DEF TypeOK, Claim, Goto
    <3> QED
      BY <2>0, <3>2 DEF ClaimsMarked, InRepo
  <2>3. /\ holds[w] \in Jobs /\ r \in Repos \ active /\ parked[r] \in Seq(Jobs)
        /\ pc[w] = "popped" /\ MayRun(w)
        /\ parked'[r] = IF parked[r] = <<>> THEN <<>> ELSE Tail(parked[r])
    BY <2>0, <2>1, <2>2, QueueAssumption DEF HoldsJob, Occupied, Claim, Repo, MayRun
  <2>4. parked[r] # <<>>
    BY <2>3 DEF ToSet
  <2>5. Head(parked[r]) = holds[w] /\ Token(holds[w])
    BY <2>3, <2>4 DEF MayRun, Token, Carried, Carrying
  <2>6. JobsOnce(parked[r])
    BY <2>0, <2>3, <2>4, <2>5 DEF IdleBuckets
  <2>7. InOrder(parked[r], order) /\ \A i \in 1..Len(parked[r]) : Listed(parked[r][i], order)
    BY <1>1, <2>3, TravellersListed DEF OrderInv
  <2> QED
    BY <2>0, <2>3, <2>4, <2>5, <2>6, <2>7, HeadOldest
<1> QED
  BY InitLife, NextLife, InitOrder, OrderStep, <1>1, PTL DEF Spec, NoOvertaking
=============================================================================
