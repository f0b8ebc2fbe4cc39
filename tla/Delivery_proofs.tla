--------------------------- MODULE Delivery_proofs ---------------------------
(***************************************************************************)
(* Theorems about the delivery engine, for any plan, number of workers,    *)
(* attempts, rounds and runs, and any costs: the shared stash, the         *)
(* spending of concurrent workers, and what may reach a commit.            *)
(***************************************************************************)
EXTENDS Delivery, FiniteSetTheorems, TLAPS

-----------------------------------------------------------------------------
(* Where workers are *)

\* Each worker is somewhere; between runs and after the task phase none is busy.
CrewInv ==
    /\ pc \in [Ids -> WorkerStates]
    /\ phase \in Stages
    /\ phase # "tasks" => Active = {}

\* The steps of the run as a whole, and of what surrounds it.
Stage ==
    \/ TasksEnd \/ ReplanStarves \/ EndRound \/ VisualDone \/ VisualFindings
    \/ FixRaises \/ FixKept \/ FixDropped \/ FixCommitFails \/ SecurityReview
    \/ SecurityDies \/ Artifacts \/ Withhold \/ Squash \/ Land \/ LandFails
    \/ \E t \in Ids : ReplanTask(t)

\* What ends a run.
Departure == PlanHalts \/ ReplanRaises \/ Finish \/ Crash

\* What comes before the tasks of a run.
Opening == SpendElsewhere \/ Begin \/ PlanCall \/ PlanReady

LEMMA NextParts ==
    ASSUME [Next]_vars
    PROVE  \/ \E t \in Ids : WorkerStep(t)
           \/ Stage \/ Departure \/ Opening \/ OperatorCommits \/ OperatorDiscards
           \/ UNCHANGED vars
BY DEF Next, Engine, Stage, Departure, Opening

\* A stage leaves the workers alone, and tasks are scheduled only by a round
\* that has changed the plan.
LEMMA StageLeavesCrew ==
    ASSUME CrewInv, Stage
    PROVE  /\ UNCHANGED <<pc, lock, stashLock, snap, stash, mode, runs, base>>
           /\ phase \in Stages \ {"idle", "planning"}
           /\ phase' \in Stages \ {"idle", "planning"}
           /\ Active = {} /\ UNCHANGED <<tries, asked>>
<1> USE DEF crew, replan, run, disk, tail, Stages
<1>1. CASE TasksEnd \/ ReplanStarves \/ EndRound \/ \E t \in Ids : ReplanTask(t)
  BY <1>1 DEF TasksEnd, ReplanStarves, EndRound, ReplanTask, CloseTasks, CrewInv
<1>2. CASE VisualDone \/ VisualFindings \/ FixRaises \/ FixKept \/ FixDropped \/ FixCommitFails
  BY <1>2 DEF VisualDone, VisualFindings, FixRaises, FixKept, FixDropped, FixCommitFails, Late,
              CrewInv
<1>3. CASE SecurityReview \/ SecurityDies \/ Artifacts \/ Withhold
  BY <1>3 DEF SecurityReview, SecurityDies, Artifacts, Withhold, Late, CrewInv
<1>4. CASE Squash \/ Land \/ LandFails
  BY <1>4 DEF Squash, Land, LandFails, CrewInv
<1> QED BY <1>1, <1>2, <1>3, <1>4 DEF Stage

\* Before the tasks nobody works, and nothing is written.
LEMMA OpeningLeaves ==
    ASSUME CrewInv, Opening
    PROVE  /\ UNCHANGED <<disk, tries, asked, lock, stashLock, snap, mode, verdict, head, past>>
           /\ Active = {} /\ \A t \in Ids : pc'[t] \in {"idle", "done", "failed"}
           /\ pc' \in [Ids -> WorkerStates]
           /\ phase \in {"idle", "planning"} /\ phase' \in {"idle", "planning", "tasks"}
           /\ phase' = "idle" => phase = "idle"
<1> USE DEF crew, run, tail
<1>1. CASE PlanReady
  BY <1>1 DEF PlanReady, CrewInv, WorkerStates
<1>2. CASE SpendElsewhere \/ Begin \/ PlanCall
  <2>1. UNCHANGED pc /\ phase # "tasks"
    BY <1>2 DEF SpendElsewhere, Begin, PlanCall
  <2>2. \A t \in Ids : pc[t] \in {"idle", "done", "failed"}
    BY <2>1 DEF CrewInv, Active
  <2> QED BY <1>2, <2>1, <2>2 DEF SpendElsewhere, Begin, PlanCall, CrewInv
<1> QED BY <1>1, <1>2 DEF Opening

\* A worker moves along its attempt, and only while tasks run.
LEMMA WorkerMoves ==
    ASSUME CrewInv, NEW t \in Ids, WorkerStep(t)
    PROVE  /\ \E s \in WorkerStates : pc' = [pc EXCEPT ![t] = s]
           /\ phase = "tasks" /\ phase' = "tasks"
           /\ UNCHANGED <<mode, runs, base, staged>>
<1> USE DEF WorkerStates, crew, disk, run, CrewInv
<1>1. pc = [pc EXCEPT ![t] = pc[t]] /\ pc[t] \in WorkerStates
  OBVIOUS
<1>2. CASE Launch(t)
  BY <1>2 DEF Launch
<1>3. CASE Attempt(t) \/ Starve(t) \/ Overspend(t) \/ AgentError(t)
  <2>1. t \in Active
    BY <1>3 DEF Attempt, Starve, Overspend, AgentError, Active, InFlight
  <2> QED BY <1>3, <2>1 DEF Attempt, Starve, Overspend, AgentError, Abandon, Undo
<1>4. CASE EngineerAnswers(t) \/ Integrate(t) \/ Reject(t) \/ SuiteWritten(t)
  <2>1. t \in Active
    BY <1>4 DEF EngineerAnswers, Integrate, Reject, SuiteWritten, Active
  <2> QED BY <1>4, <2>1 DEF EngineerAnswers, Integrate, Reject, SuiteWritten, Undo
<1>5. CASE Approve(t)
  <2>1. t \in Active
    BY <1>5 DEF Approve, Active
  <2> QED BY <1>5, <2>1 DEF Approve, Abandon, Undo
<1>6. CASE \/ GatesPass(t) \/ GatesFail(t) \/ Shelve(t) \/ PassCheck(t) \/ Unshelve(t)
           \/ FailCheck(t)
  <2>1. t \in Active
    BY <1>6 DEF GatesPass, GatesFail, Shelve, PassCheck, Unshelve, FailCheck, Active
  <2> QED BY <1>6, <2>1 DEF GatesPass, GatesFail, Shelve, PassCheck, Unshelve, FailCheck, Undo
<1>7. CASE \/ Bank(t) \/ BankFails(t) \/ Merge(t) \/ MergePasses(t) \/ MergeFails(t)
           \/ MergeBreaks(t)
  <2>1. t \in Active
    BY <1>7 DEF Bank, BankFails, Merge, MergePasses, MergeFails, MergeBreaks, Active
  <2> QED BY <1>7, <2>1 DEF Bank, BankFails, Merge, MergePasses, MergeFails, MergeBreaks
<1>8. CASE Record(t) \/ OutOfTries(t)
  <2>1. t \in Active
    BY <1>8 DEF Record, OutOfTries, Active
  <2> QED BY <1>1, <1>8, <2>1 DEF Record, OutOfTries
<1> QED BY <1>2, <1>3, <1>4, <1>5, <1>6, <1>7, <1>8 DEF WorkerStep

LEMMA CrewInvStep == ASSUME CrewInv, [Next]_vars PROVE CrewInv'
<1>1. CASE \E t \in Ids : WorkerStep(t)
  BY <1>1, WorkerMoves DEF CrewInv, Stages
<1>2. CASE Stage
  BY <1>2, StageLeavesCrew DEF CrewInv, Active
<1>3. CASE Departure
  BY <1>3 DEF Departure, ReplanRaises, PlanHalts, Finish, Crash, Leave, CrewInv, Active, WorkerStates,
              Stages
<1>4. CASE Opening
  BY <1>4, OpeningLeaves DEF CrewInv, Active, Stages
<1>5. CASE OperatorCommits \/ OperatorDiscards \/ UNCHANGED vars
  BY <1>5 DEF OperatorCommits, OperatorDiscards, vars, crew, CrewInv, Active
<1> QED BY <1>1, <1>2, <1>3, <1>4, <1>5, NextParts

-----------------------------------------------------------------------------
(* The stash *)

\* Who has shelved its work holds the lock of the stash, and its entry is on top.
StashInv ==
    /\ stash \in Seq(Ids)
    /\ \A t \in Ids : pc[t] = "shelved" => stashLock = t /\ stash # <<>> /\ Head(stash) = t

LEMMA StashInvStep == ASSUME CrewInv, StashInv, [Next]_vars PROVE StashInv'
<1>1. ASSUME NEW t \in Ids, WorkerStep(t) PROVE StashInv'
  <2> USE DEF StashInv, crew, disk
  <2>0. PICK s \in WorkerStates : pc' = [pc EXCEPT ![t] = s]
    BY <1>1, WorkerMoves
  <2>1. CASE UNCHANGED <<stash, stashLock>> /\ pc'[t] # "shelved"
    BY <2>0, <2>1 DEF CrewInv
  <2>2. CASE Shelve(t)
    <3>1. <<t>> \o stash \in Seq(Ids) /\ Head(<<t>> \o stash) = t /\ <<t>> \o stash # <<>>
      OBVIOUS
    <3>2. \A u \in Ids : pc[u] # "shelved"
      BY <2>2, DeliveryAssumption DEF Shelve
    <3> QED BY <2>2, <3>1, <3>2 DEF Shelve, CrewInv
  <2>3. CASE Unshelve(t) \/ FailCheck(t)
    <3>1. \A u \in Ids \ {t} : pc[u] # "shelved"
      BY <2>3 DEF Unshelve, FailCheck
    <3>2. stash' \in Seq(Ids) /\ pc'[t] # "shelved"
      BY <2>3 DEF Unshelve, FailCheck, Undo, CrewInv
    <3> QED BY <2>0, <3>1, <3>2 DEF CrewInv
  <2>4. CASE Launch(t) \/ Attempt(t) \/ Starve(t) \/ Overspend(t) \/ AgentError(t)
    BY <2>1, <2>4 DEF Launch, Attempt, Starve, Overspend, AgentError, Abandon, Undo, CrewInv
  <2>5. CASE EngineerAnswers(t) \/ Integrate(t) \/ Reject(t) \/ SuiteWritten(t)
    BY <2>1, <2>5 DEF EngineerAnswers, Integrate, Reject, SuiteWritten, Undo, CrewInv
  <2>6. CASE Approve(t)
    BY <2>1, <2>6 DEF Approve, Abandon, Undo, CrewInv
  <2>7. CASE GatesPass(t) \/ GatesFail(t) \/ PassCheck(t)
    BY <2>1, <2>7 DEF GatesPass, GatesFail, PassCheck, Undo, CrewInv
  <2>8. CASE \/ Bank(t) \/ BankFails(t) \/ Merge(t) \/ MergePasses(t) \/ MergeFails(t)
             \/ MergeBreaks(t)
    BY <2>1, <2>8 DEF Bank, BankFails, Merge, MergePasses, MergeFails, MergeBreaks, CrewInv
  <2>9. CASE Record(t) \/ OutOfTries(t)
    BY <2>1, <2>9 DEF Record, OutOfTries, CrewInv
  <2> QED BY <1>1, <2>2, <2>3, <2>4, <2>5, <2>6, <2>7, <2>8, <2>9 DEF WorkerStep
<1>2. CASE Stage
  BY <1>2, StageLeavesCrew DEF StashInv
<1>3. CASE Departure
  BY <1>3 DEF Departure, ReplanRaises, PlanHalts, Finish, Crash, Leave, StashInv, disk
<1>4. CASE Opening
  BY <1>4, OpeningLeaves DEF StashInv, disk
<1>5. CASE OperatorCommits \/ OperatorDiscards \/ UNCHANGED vars
  BY <1>5 DEF OperatorCommits, OperatorDiscards, vars, crew, disk, StashInv
<1> QED BY <1>1, <1>2, <1>3, <1>4, <1>5, NextParts
LEMMA CrewInvInit == Init => CrewInv /\ StashInv
<1>1. Init => pc \in [Ids -> WorkerStates]
  BY DEF Init, WorkerStates
<1> QED BY <1>1 DEF Init, CrewInv, StashInv, Active, Stages

\* However many tasks test their suites at once in worktrees of their own, each
\* takes back its own entry of the stash that they share (engine.py,
\* _tests_are_vacuous).
THEOREM PopsOwnHolds == Spec => []PopsOwn
<1>1. CrewInv /\ StashInv /\ [Next]_vars => (CrewInv /\ StashInv)'
  BY CrewInvStep, StashInvStep
<1>2. CrewInv /\ StashInv => PopsOwn
  BY DEF StashInv, PopsOwn
<1> QED BY <1>1, <1>2, CrewInvInit, PTL DEF Spec

-----------------------------------------------------------------------------
(* The money *)

\* Sets of tasks are finite.
LEMMA Slots ==
    ASSUME NEW B \in SUBSET Ids, NEW A \in SUBSET B
    PROVE  /\ IsFiniteSet(A) /\ Cardinality(A) \in Nat /\ Cardinality(B) \in Nat
           /\ Cardinality(A) <= Cardinality(B)
           /\ A # B => Cardinality(A) < Cardinality(B)
<1>1. IsFiniteSet(B)
  BY DeliveryAssumption, FS_Subset
<1> QED BY <1>1, FS_Subset, FS_CardinalityType

\* A call less, a product less.
LEMMA Products ==
    ASSUME NEW a \in Nat, NEW m \in Nat, NEW n \in Nat, m <= n
    PROVE  a * m \in Nat /\ a * n \in Nat /\ a * m <= a * n
<1>1. PICK k \in Nat : n = m + k
  <2>1. n - m \in Nat /\ n = m + (n - m)
    OBVIOUS
  <2> QED BY <2>1
<1>2. a * n = a * m + a * k
  BY <1>1
<1> QED BY <1>2

LEMMA OneMore ==
    ASSUME NEW a \in Nat, NEW m \in Nat PROVE a * (m + 1) = a * m + a
OBVIOUS

\* Sums of the two.
LEMMA Sums ==
    ASSUME NEW a \in Int, NEW b \in Int, NEW c \in Int, NEW d \in Int, a < b, c <= d
    PROVE  a + c < b + d
OBVIOUS

\* What is spent, with what the calls in flight may still cost, is below top
\* but for one call of each slot.
Fits(top) == spent + MaxCost * Cardinality(InFlight) < top + MaxCost * MaxConcurrency

\* No more workers than slots; the limit is kept to, and while tasks run what
\* the reserve leaves of it, from the first attempt on.
SpendInv ==
    /\ Cardinality(Active) <= MaxConcurrency
    /\ spent \in Nat /\ reserved \in {0, Reserve}
    /\ Fits(Limit) /\ (Fits(Ceiling) \/ Untouched)
    /\ phase \in {"idle", "planning"} => Untouched

LEMMA SpendIsBounded == SpendInv => SpendingBounded
BY DEF SpendInv, SpendingBounded, Fits

LEMMA SpendInvInit == Init => SpendInv
<1> SUFFICES ASSUME Init PROVE SpendInv
  OBVIOUS
<1>1. Active = {} /\ InFlight = {}
  BY DEF Init, Active, InFlight
<1>2. Cardinality(Active) = 0 /\ Cardinality(InFlight) = 0
  BY <1>1, FS_EmptySet
<1>3. MaxCost * MaxConcurrency \in Nat /\ MaxCost * 0 = 0
  BY MeteringAssumption, DeliveryAssumption, Products
<1>4. spent = 0 /\ reserved = 0 /\ Limit > 0 /\ Limit \in Nat /\ MaxConcurrency \in Nat
  BY MeteringAssumption, DeliveryAssumption DEF Init
<1>5. Untouched
  BY DEF Init, Untouched
<1> QED BY <1>2, <1>3, <1>4, <1>5 DEF SpendInv, Fits

\* The ceiling is at most the limit.
LEMMA CeilingTyped ==
    ASSUME NEW r \in {0, Reserve}
    PROVE  /\ r \in Nat /\ Limit \in Nat /\ Limit - r \in Int /\ Limit - r <= Limit
           /\ Limit - r <= Limit - 0
BY MeteringAssumption

\* Nothing is called.
LEMMA QuietSpends ==
    ASSUME CrewInv, SpendInv, InFlight' \subseteq InFlight, spent' = spent,
           NEW a \in Int, NEW b \in Int, a <= b, Fits(a)
    PROVE  spent' + MaxCost * Cardinality(InFlight') < b + MaxCost * MaxConcurrency
<1>1. InFlight \in SUBSET Ids /\ InFlight' \in SUBSET InFlight
  BY DEF InFlight
<1>2. /\ Cardinality(InFlight) \in Nat /\ Cardinality(InFlight') \in Nat
      /\ Cardinality(InFlight') <= Cardinality(InFlight)
  <2>1. Cardinality(InFlight') \in Nat
    BY <1>1, Slots
  <2> QED BY <1>1, <2>1, Slots
<1>3. MaxCost * Cardinality(InFlight') <= MaxCost * Cardinality(InFlight)
      /\ MaxCost * Cardinality(InFlight') \in Nat /\ MaxCost * Cardinality(InFlight) \in Nat
  BY <1>2, MeteringAssumption, Products
<1>4. MaxCost * MaxConcurrency \in Nat
  BY MeteringAssumption, DeliveryAssumption, Products
<1> QED BY <1>3, <1>4 DEF SpendInv, Fits

\* A call returns.
LEMMA ReturnSpends ==
    ASSUME CrewInv, SpendInv, NEW t \in InFlight, InFlight' \subseteq InFlight \ {t},
           NEW c \in Cost, spent' = spent + c, NEW a \in Int, Fits(a)
    PROVE  spent' + MaxCost * Cardinality(InFlight') < a + MaxCost * MaxConcurrency
<1> DEFINE m == Cardinality(InFlight')
           n == Cardinality(InFlight)
<1>1. m \in Nat /\ n \in Nat /\ m + 1 <= n
  <2>1. InFlight \in SUBSET Ids /\ InFlight' \in SUBSET InFlight /\ InFlight' # InFlight
    BY DEF InFlight
  <2> QED BY <2>1, Slots
<1> HIDE DEF m, n
<1>2. MaxCost * (m + 1) <= MaxCost * n /\ MaxCost * n \in Nat
  BY <1>1, MeteringAssumption, Products
<1>3. MaxCost * (m + 1) = MaxCost * m + MaxCost /\ MaxCost * m \in Nat
  BY <1>1, MeteringAssumption, OneMore, Products
<1>4. MaxCost * MaxConcurrency \in Nat
  BY MeteringAssumption, DeliveryAssumption, Products
<1>5. MaxCost \in Nat /\ c \in Nat /\ c <= MaxCost
  BY MeteringAssumption DEF Cost
<1>6. spent + MaxCost * n < a + MaxCost * MaxConcurrency
  BY DEF Fits, n
<1>7. spent' + MaxCost * m < a + MaxCost * MaxConcurrency
  BY <1>2, <1>3, <1>4, <1>5, <1>6 DEF SpendInv
<1> QED BY <1>7 DEF m

\* A call is made after a check, in one of the slots.
LEMMA CheckedSpends ==
    ASSUME Cardinality(Active') <= MaxConcurrency, NEW a \in Int, spent' \in Nat, spent' < a
    PROVE  spent' + MaxCost * Cardinality(InFlight') < a + MaxCost * MaxConcurrency
<1> DEFINE m == Cardinality(InFlight')
<1>1. m \in Nat /\ m <= MaxConcurrency /\ MaxConcurrency \in Nat
  <2>1. Active' \in SUBSET Ids /\ InFlight' \in SUBSET Active'
    BY DEF InFlight, Active
  <2> QED BY <2>1, Slots, DeliveryAssumption
<1> HIDE DEF m
<1>2. MaxCost * m <= MaxCost * MaxConcurrency /\ MaxCost * m \in Nat
      /\ MaxCost * MaxConcurrency \in Nat
  BY <1>1, MeteringAssumption, Products
<1>3. spent' + MaxCost * m < a + MaxCost * MaxConcurrency
  <2>1. spent' \in Int
    OBVIOUS
  <2> QED BY <1>2, <2>1, Sums
<1> QED BY <1>3 DEF m

\* The only call there is, after a check.
LEMMA AloneSpends ==
    ASSUME InFlight' = {}, NEW a \in Int, spent' \in Nat, spent' < a + MaxCost
    PROVE  spent' + MaxCost * Cardinality(InFlight') < a + MaxCost * MaxConcurrency
<1>1. Cardinality(InFlight') = 0
  BY FS_EmptySet
<1>2. MaxCost * 1 <= MaxCost * MaxConcurrency /\ MaxCost * MaxConcurrency \in Nat
  BY MeteringAssumption, DeliveryAssumption, Products
<1>3. MaxCost \in Nat
  BY MeteringAssumption
<1>4. MaxCost * 1 = MaxCost /\ MaxCost * Cardinality(InFlight') = 0
  BY <1>1, <1>3
<1>5. MaxCost <= MaxCost * MaxConcurrency
  BY <1>2, <1>4
<1>6. spent' + 0 < a + MaxCost * MaxConcurrency
  BY <1>2, <1>3, <1>5
<1> QED BY <1>4, <1>6

\* Who is in flight after a worker's step.
LEMMA FlightMoves ==
    ASSUME CrewInv, NEW t \in Ids, NEW s \in WorkerStates, pc' = [pc EXCEPT ![t] = s]
    PROVE  /\ s \notin {"engineer", "review", "qa"} => InFlight' \subseteq InFlight \ {t}
           /\ s \in {"idle", "done", "failed"} \/ t \in Active => Active' \subseteq Active
           /\ Active' \subseteq Active \union {t}
BY DEF CrewInv, InFlight, Active

\* A worker starts only in a free slot.
LEMMA SlotsKeep ==
    ASSUME CrewInv, SpendInv, NEW t \in Ids, WorkerStep(t)
    PROVE  Cardinality(Active') <= MaxConcurrency
<1>1. PICK s \in WorkerStates : pc' = [pc EXCEPT ![t] = s]
  BY WorkerMoves
<1>2. CASE Active' \subseteq Active
  <2>1. Active \in SUBSET Ids /\ Active' \in SUBSET Active
    BY <1>2 DEF Active
  <2>2. Active' \in SUBSET Ids
    BY <2>1
  <2>3. /\ Cardinality(Active') <= Cardinality(Active)
        /\ Cardinality(Active) \in Nat /\ Cardinality(Active') \in Nat
    BY <2>1, <2>2, Slots
  <2> QED BY <2>3, DeliveryAssumption DEF SpendInv
<1>3. CASE Launch(t)
  <2>1. Cardinality(Active) < MaxConcurrency
    BY <1>3 DEF Launch, Launchable
  <2>2. Active \in SUBSET Ids /\ IsFiniteSet(Active) /\ Cardinality(Active) \in Nat
    BY Slots DEF Active
  <2>3. Cardinality(Active \union {t}) <= Cardinality(Active) + 1
    <3>1. Cardinality(Active \union {t}) \in {Cardinality(Active), Cardinality(Active) + 1}
      BY <2>2, FS_AddElement
    <3> QED BY <2>2, <3>1
  <2>4. Active' \in SUBSET (Active \union {t}) /\ Active \union {t} \in SUBSET Ids
    BY <1>1, <2>2, FlightMoves
  <2>5. /\ Cardinality(Active') <= Cardinality(Active \union {t})
        /\ Cardinality(Active') \in Nat /\ Cardinality(Active \union {t}) \in Nat
    <3>1. Active' \in SUBSET Ids
      BY <2>4
    <3> QED BY <2>4, <3>1, Slots
  <2> QED BY <2>1, <2>2, <2>3, <2>5, DeliveryAssumption
<1>4. CASE t \in Active
  BY <1>1, <1>2, <1>4, FlightMoves
<1>5. Launch(t) \/ t \in Active
  BY DEF WorkerStep, Attempt, Starve, Overspend, AgentError, EngineerAnswers, Integrate,
         Approve, Reject, SuiteWritten, GatesPass, GatesFail, Shelve, PassCheck, Unshelve,
         FailCheck, Bank, BankFails, Merge, MergePasses, MergeFails, MergeBreaks, Record,
         OutOfTries, Active, InFlight
<1> QED BY <1>3, <1>4, <1>5

\* Whatever leaves the attempts alone, and keeps the spending where it was
\* below each of the two.
LEMMA SpendKeeps ==
    ASSUME SpendInv, Cardinality(Active') <= MaxConcurrency,
           spent' \in Nat, reserved' \in {0, Reserve}, phase' \notin {"idle", "planning"},
           UNCHANGED <<tries, asked>>, Fits(Limit)', Fits(Ceiling) => Fits(Ceiling)'
    PROVE  SpendInv'
<1>1. Untouched => Untouched'
  BY DEF Untouched
<1> QED BY <1>1 DEF SpendInv

LEMMA WorkerSpends ==
    ASSUME CrewInv, SpendInv, NEW t \in Ids, WorkerStep(t)
    PROVE  SpendInv'
<1>1. PICK s \in WorkerStates : pc' = [pc EXCEPT ![t] = s]
  BY WorkerMoves
<1>2. Cardinality(Active') <= MaxConcurrency /\ phase' = "tasks"
  BY SlotsKeep, WorkerMoves
<1>3. pc'[t] = s
  BY <1>1 DEF CrewInv
<1>0. /\ Limit \in Int /\ Limit - reserved \in Int /\ Limit - reserved <= Limit - reserved
      /\ Limit - reserved <= Limit /\ Limit <= Limit
  BY CeilingTyped DEF SpendInv
<1>4. CASE UNCHANGED <<purse, tries, asked>> /\ s \notin {"engineer", "review", "qa"}
  <2>1. InFlight' \subseteq InFlight /\ spent' = spent /\ reserved' = reserved
    BY <1>1, <1>4, FlightMoves DEF purse
  <2>2. Fits(Limit)' /\ (Fits(Ceiling) => Fits(Ceiling)')
    BY <1>0, <2>1, QuietSpends DEF SpendInv, Fits, Ceiling
  <2> QED BY <1>2, <1>4, <2>1, <2>2, SpendKeeps DEF SpendInv
<1>5. ASSUME t \in InFlight, s \notin {"engineer", "review", "qa"},
             UNCHANGED <<tries, asked>>, \E c \in Cost : Charge(c)
      PROVE  SpendInv'
  <2>1. PICK c \in Cost : spent' = spent + c /\ reserved' = reserved
    BY <1>5 DEF Charge
  <2>2. InFlight' \subseteq InFlight \ {t}
    BY <1>1, <1>5, FlightMoves
  <2>3. Fits(Limit)' /\ (Fits(Ceiling) => Fits(Ceiling)')
    BY <1>5, <1>0, <2>1, <2>2, ReturnSpends DEF SpendInv, Fits, Ceiling
  <2>4. spent' \in Nat
    BY <2>1, MeteringAssumption DEF SpendInv, Cost
  <2> QED BY <1>2, <1>5, <2>1, <2>3, <2>4, SpendKeeps DEF SpendInv
<1>6. ASSUME spent' \in Nat, reserved' = reserved, spent' < Limit - reserved' PROVE SpendInv'
  <2>1. spent' < Limit
    BY <1>6, CeilingTyped DEF SpendInv
  <2>2. Fits(Limit)' /\ Fits(Ceiling)'
    BY <1>2, <1>6, <1>0, <2>1, CheckedSpends DEF Fits, Ceiling
  <2> QED BY <1>2, <1>6, <2>2 DEF SpendInv
<1>7. CASE Launch(t)
  BY <1>3, <1>4, <1>7 DEF Launch, CrewInv
<1>8. ASSUME UNCHANGED purse, ~Exhausted PROVE SpendInv'
  BY <1>6, <1>8, MeteringAssumption DEF Exhausted, Ceiling, SpendInv, purse
<1>9. CASE Attempt(t) \/ Integrate(t)
  BY <1>8, <1>9 DEF Attempt, Integrate
<1>10. CASE Starve(t)
  BY <1>3, <1>4, <1>10 DEF Starve, Abandon, Undo, CrewInv
<1>11. CASE Overspend(t) \/ AgentError(t) \/ EngineerAnswers(t) \/ SuiteWritten(t) \/ Reject(t)
  BY <1>3, <1>5, <1>11 DEF Overspend, AgentError, EngineerAnswers, SuiteWritten, Reject,
                          Abandon, Undo, InFlight, CrewInv
<1>12. CASE Approve(t)
  <2>1. PICK c \in Cost : Charge(c) /\ \/ Abandon(t)
                                       \/ ~ExhaustedAfter(c)
    BY <1>12 DEF Approve
  <2>2. t \in InFlight
    BY <1>12 DEF Approve, InFlight
  <2>3. CASE Abandon(t)
    BY <1>3, <1>5, <2>1, <2>2, <2>3 DEF Abandon, Undo, CrewInv
  <2>4. CASE ~ExhaustedAfter(c)
    <3>1. spent' = spent + c /\ reserved' = reserved /\ c \in Nat
      BY <2>1, MeteringAssumption DEF Charge, Cost
    <3>2. spent + c \in Nat /\ spent + c < Limit - reserved
      BY <2>4, <3>1, MeteringAssumption DEF ExhaustedAfter, Ceiling, SpendInv
    <3> QED BY <1>6, <3>1, <3>2
  <2> QED BY <2>1, <2>3, <2>4
<1>13. CASE \/ GatesPass(t) \/ GatesFail(t) \/ Shelve(t) \/ PassCheck(t) \/ Unshelve(t)
            \/ FailCheck(t)
  BY <1>3, <1>4, <1>13 DEF GatesPass, GatesFail, Shelve, PassCheck, Unshelve, FailCheck, Undo,
                          CrewInv
<1>14. CASE \/ Bank(t) \/ BankFails(t) \/ Merge(t) \/ MergePasses(t) \/ MergeFails(t)
            \/ MergeBreaks(t)
  BY <1>3, <1>4, <1>14 DEF Bank, BankFails, Merge, MergePasses, MergeFails, MergeBreaks, CrewInv
<1>15. CASE Record(t)
  BY <1>3, <1>4, <1>15 DEF Record, CrewInv
<1>16. CASE OutOfTries(t)
  BY <1>3, <1>4, <1>8, <1>16 DEF OutOfTries, CrewInv
<1> QED BY <1>7, <1>9, <1>10, <1>11, <1>12, <1>13, <1>14, <1>15, <1>16 DEF WorkerStep

\* A call that is made alone, after a check.
LEMMA OneCall ==
    ASSUME SpendInv, InFlight' = {}, ~Exhausted, NEW c \in Cost, spent' = spent + c
    PROVE  /\ spent' \in Nat /\ Fits(Limit)'
           /\ reserved' = reserved => Fits(Ceiling)'
<1>1. /\ c \in Nat /\ c <= MaxCost /\ MaxCost \in Nat /\ spent \in Nat
      /\ reserved \in Nat /\ Limit \in Nat
  BY MeteringAssumption DEF Cost, SpendInv
<1>2. spent < Limit - reserved
  BY <1>1 DEF Exhausted, Ceiling
<1>3. /\ spent' \in Nat /\ spent' < Limit + MaxCost /\ spent' < (Limit - reserved) + MaxCost
      /\ Limit \in Int /\ Limit - reserved \in Int
  BY <1>1, <1>2
<1> QED BY <1>3, AloneSpends DEF Fits, Ceiling

\* Outside the task phase there is one call at a time.
LEMMA StageSpends == ASSUME CrewInv, SpendInv, Stage PROVE SpendInv'
<1>1. /\ Active = {} /\ UNCHANGED <<pc, tries, asked>>
      /\ phase' \notin {"idle", "planning"}
  BY StageLeavesCrew
<1>2. Active' = {} /\ InFlight' = {} /\ InFlight' \subseteq InFlight
  BY <1>1 DEF Active, InFlight
<1>3. Cardinality(Active') <= MaxConcurrency
  <2>1. Cardinality(Active') = 0 /\ MaxConcurrency \in Nat
    BY <1>2, FS_EmptySet, DeliveryAssumption
  <2> QED BY <2>1
<1>4. CASE spent' = spent /\ reserved' \in {reserved, 0}
  <2>1. /\ Limit \in Int /\ Limit - reserved \in Int /\ Limit - reserved' \in Int
        /\ Limit <= Limit /\ Limit - reserved <= Limit - reserved'
        /\ reserved' \in {0, Reserve}
    BY <1>4, CeilingTyped DEF SpendInv
  <2>2. Fits(Limit)' /\ (Fits(Ceiling) => Fits(Ceiling)')
    BY <1>2, <1>4, <2>1, QuietSpends DEF SpendInv, Fits, Ceiling
  <2> QED BY <1>1, <1>3, <1>4, <2>1, <2>2, SpendKeeps DEF SpendInv
<1>5. ASSUME NEW c \in Cost, spent' = spent + c, reserved' = reserved, ~Exhausted
      PROVE  SpendInv'
  BY <1>1, <1>2, <1>3, <1>5, OneCall, SpendKeeps DEF SpendInv
<1> USE DEF Charge, Answered, Died, purse
<1>6. CASE TasksEnd \/ EndRound
  BY <1>4, <1>6 DEF TasksEnd, EndRound, CloseTasks
<1>7. CASE ReplanStarves \/ \E t \in Ids : ReplanTask(t)
  BY <1>4, <1>5, <1>7 DEF ReplanStarves, ReplanTask
<1>8. CASE VisualDone \/ VisualFindings \/ FixRaises \/ FixKept \/ FixDropped \/ FixCommitFails
  BY <1>4, <1>5, <1>8 DEF VisualDone, VisualFindings, FixRaises, FixKept, FixDropped,
                         FixCommitFails, Late
<1>9. CASE SecurityReview \/ SecurityDies \/ Artifacts \/ Withhold
  BY <1>4, <1>5, <1>9 DEF SecurityReview, SecurityDies, Artifacts, Withhold, Late
<1>10. CASE Squash \/ Land \/ LandFails
  BY <1>4, <1>10 DEF Squash, Land, LandFails
<1> QED BY <1>6, <1>7, <1>8, <1>9, <1>10 DEF Stage

\* With nobody at work, what has been spent is below the limit but for a call.
LEMMA IdleSpends ==
    ASSUME CrewInv, SpendInv, NEW c \in Cost, c > 0 => ~Exhausted,
           \A t \in Ids : pc'[t] \in {"idle", "done", "failed"}, Untouched',
           spent' \in {0, spent + c}, reserved' \in {0, Reserve}
    PROVE  SpendInv'
<1>1. InFlight' = {} /\ Active' = {}
  BY DEF InFlight, Active
<1>2. Cardinality(Active') <= MaxConcurrency
  <2>1. Cardinality(Active') = 0 /\ MaxConcurrency \in Nat
    BY <1>1, FS_EmptySet, DeliveryAssumption
  <2> QED BY <2>1
<1>3. spent' \in Nat /\ Fits(Limit)'
  <2>1. /\ Limit \in Int /\ Limit <= Limit /\ 0 < Limit + MaxCost /\ 0 \in Nat
    BY MeteringAssumption
  <2>2. CASE spent' = 0
    BY <1>1, <2>1, <2>2, AloneSpends DEF Fits
  <2>3. CASE spent' = spent + c /\ c > 0
    BY <1>1, <2>3, OneCall
  <2>4. CASE spent' = spent + c /\ ~(c > 0)
    <3>1. spent' = spent /\ InFlight' \subseteq InFlight
      BY <1>1, <2>4, MeteringAssumption DEF Cost, SpendInv
    <3> QED BY <2>1, <3>1, QuietSpends DEF SpendInv, Fits
  <2> QED BY <2>2, <2>3, <2>4
<1> QED BY <1>2, <1>3 DEF SpendInv

LEMMA OpeningSpends == ASSUME CrewInv, SpendInv, Opening PROVE SpendInv'
<1>1. /\ \A t \in Ids : pc'[t] \in {"idle", "done", "failed"}
      /\ UNCHANGED <<tries, asked>> /\ phase \in {"idle", "planning"}
  BY OpeningLeaves
<1>2. Untouched'
  BY <1>1 DEF Untouched, SpendInv
<1>3. 0 \in Cost /\ ~(0 > 0) /\ (spent \in Nat => spent = spent + 0)
  BY MeteringAssumption DEF Cost
<1>4. CASE Begin
  BY <1>1, <1>2, <1>3, <1>4, IdleSpends DEF Begin, purse, SpendInv
<1>5. CASE SpendElsewhere \/ PlanCall \/ PlanReady
  <2>1. PICK c \in Cost : spent' = spent + c /\ reserved' \in {reserved, Reserve} /\ ~Exhausted
    BY <1>5 DEF SpendElsewhere, PlanCall, PlanReady, Charge
  <2> QED BY <1>1, <1>2, <2>1, IdleSpends DEF SpendInv
<1> QED BY <1>4, <1>5 DEF Opening

LEMMA DepartureSpends == ASSUME CrewInv, SpendInv, Departure PROVE SpendInv'
<1>1. Leave
  BY DEF Departure, PlanHalts, ReplanRaises, Finish, Crash
<1>2. /\ \A t \in Ids : pc'[t] \in {"idle", "done", "failed"}
      /\ Untouched' /\ reserved' \in {0, Reserve}
  BY <1>1 DEF Leave, Untouched
<1>3. 0 \in Cost /\ ~(0 > 0) /\ (spent \in Nat => spent = spent + 0)
  BY MeteringAssumption DEF Cost
<1>4. CASE PlanHalts \/ ReplanRaises
  <2>1. PICK c \in Cost : (c > 0 => ~Exhausted) /\ spent' \in {0, spent + c}
    BY <1>4 DEF PlanHalts, ReplanRaises, Purse
  <2> QED BY <1>2, <2>1, IdleSpends
<1>5. CASE Finish \/ Crash
  <2>1. spent' \in {0, spent}
    BY <1>5 DEF Finish, Crash, Purse
  <2> QED BY <1>2, <1>3, <2>1, IdleSpends DEF SpendInv
<1> QED BY <1>4, <1>5 DEF Departure

LEMMA SpendInvStep == ASSUME CrewInv, SpendInv, [Next]_vars PROVE SpendInv'
<1>1. CASE OperatorCommits \/ OperatorDiscards \/ UNCHANGED vars
  <2>1. UNCHANGED <<pc, spent, reserved, tries, asked, phase>>
    BY <1>1 DEF OperatorCommits, OperatorDiscards, vars, crew, purse
  <2>2. Active' = Active /\ InFlight' = InFlight /\ Untouched' = Untouched
    BY <2>1 DEF Active, InFlight, Untouched
  <2>3. Fits(Limit)' = Fits(Limit) /\ Fits(Ceiling)' = Fits(Ceiling)
    BY <2>1, <2>2 DEF Fits, Ceiling
  <2> QED BY <2>1, <2>2, <2>3 DEF SpendInv
<1> QED BY <1>1, NextParts, WorkerSpends, StageSpends, OpeningSpends, DepartureSpends

\* However many agents work at once, and whatever each of their calls costs,
\* the spending passes the limit by less than a call for each slot, over all
\* that a process does; while tasks run it passes what the reserve leaves of
\* the limit by no more, unless planning has used that up and no task is
\* attempted (budget.py, Budget; instrument.py; engine.py, deliver).
THEOREM SpendingBoundedHolds == Spec => []SpendingBounded
<1>1. CrewInv /\ SpendInv /\ [Next]_vars => (CrewInv /\ SpendInv)'
  BY CrewInvStep, SpendInvStep
<1> QED BY <1>1, SpendIsBounded, CrewInvInit, SpendInvInit, PTL DEF Spec

-----------------------------------------------------------------------------
(* What reaches a commit *)

GatedEdits(E) == \A e \in E : e.by \in Ids => e.gated

\* A sequence of commits of which all are in order.
Sound(b) == b \in Seq(Commit) /\ \A i \in 1..Len(b) : GatedEdits(b[i].work)

\* Where a worker holds the integration lock: in place, through the whole
\* attempt; with described changes, from applying one to its end; in worktrees,
\* for the merge.
Holding ==
    CASE mode = "agentic"   -> {"engineer", "drafted", "review", "qa", "gates", "verify",
                                "shelved", "bank"}
      [] mode = "described" -> {"review", "qa", "gates", "verify", "shelved", "bank"}
      [] OTHER              -> {"merge"}

\* The lock is held by whom it should be, and what lies in the working directory
\* while nobody holds it, or once the gates have passed over it, may be
\* committed.
LockInv ==
    /\ mode \in {"agentic", "worktree", "described"}
    /\ lock \in Ids \union {Nobody}
    /\ \A t \in Ids : lock = t <=> pc[t] \in Holding
    /\ \A t \in Ids : pc[t] = "merge" => mode = "worktree"

WorkInv ==
    /\ Sound(branch) /\ Sound(head)
    /\ tree \subseteq Edit /\ staged \subseteq Edit /\ snap \subseteq Edit
    /\ GatedEdits(staged) /\ GatedEdits(snap)
    /\ phase # "idle" /\ lock = Nobody => GatedEdits(tree)
    /\ \A t \in Ids : lock = t /\ pc[t] \in {"verify", "shelved", "bank"} => GatedEdits(tree)
    /\ runs \in 0..MaxRuns /\ (phase # "idle" => runs \in 1..MaxRuns)
    /\ base \in Nat /\ ckpt.base \in Nat

\* The commits that are made.
LEMMA CommitSound ==
    ASSUME NEW b, Sound(b), NEW E \in SUBSET Edit, GatedEdits(E),
           NEW k \in {"user", "wip", "fix", "feature"}
    PROVE  Sound(Append(b, [kind |-> k, work |-> E]))
<1> DEFINE c == [kind |-> k, work |-> E]
<1>1. c \in Commit /\ GatedEdits(c.work)
  BY DEF Commit
<1> HIDE DEF c
<1>2. /\ Append(b, c) \in Seq(Commit) /\ Len(Append(b, c)) = Len(b) + 1
      /\ Append(b, c)[Len(b) + 1] = c
      /\ \A i \in 1..Len(b) : Append(b, c)[i] = b[i]
  BY <1>1 DEF Sound
<1>3. \A i \in 1..(Len(b) + 1) : GatedEdits(Append(b, c)[i].work)
  <2> TAKE i \in 1..(Len(b) + 1)
  <2>1. CASE i = Len(b) + 1
    BY <1>1, <1>2, <2>1
  <2>2. CASE i \in 1..Len(b)
    BY <1>2, <2>2 DEF Sound
  <2> QED BY <2>1, <2>2 DEF Sound
<1> QED BY <1>2, <1>3 DEF Sound, c

LEMMA PrefixSound ==
    ASSUME NEW b, Sound(b), NEW n \in Nat, n <= Len(b)
    PROVE  Sound(SubSeq(b, 1, n))
<1>1. /\ SubSeq(b, 1, n) \in Seq(Commit) /\ Len(SubSeq(b, 1, n)) = n
      /\ \A i \in 1..n : SubSeq(b, 1, n)[i] = b[i]
  BY DEF Sound
<1> QED BY <1>1 DEF Sound

LEMMA SinceSound ==
    ASSUME Sound(branch), NEW n \in Nat PROVE Since(n) \subseteq Edit /\ GatedEdits(Since(n))
<1>1. \A i \in (n + 1)..Len(branch) : i \in 1..Len(branch)
  BY DEF Sound
<1>2. \A i \in 1..Len(branch) : branch[i].work \subseteq Edit
  <2>1. \A i \in 1..Len(branch) : branch[i] \in Commit
    BY DEF Sound
  <2> QED BY <2>1 DEF Commit
<1> QED BY <1>1, <1>2 DEF Since, Sound, GatedEdits

LEMMA GatedIsGated ==
    ASSUME NEW E \in SUBSET Edit PROVE Gated(E) \subseteq Edit /\ GatedEdits(Gated(E))
<1>1. \A e \in E : [e EXCEPT !.gated = TRUE] \in Edit /\ [e EXCEPT !.gated = TRUE].gated
  BY DEF Edit
<1> QED BY <1>1 DEF Gated, GatedEdits

LEMMA RawIsEdit ==
    ASSUME NEW a \in Author, runs \in 1..MaxRuns
    PROVE  Raw(a) \in Edit /\ (a \notin Ids => GatedEdits({Raw(a)}))
BY DEF Raw, Edit, GatedEdits
\* The lock changes hands as workers come to where it is held and leave.
LEMMA LockInvStep == ASSUME CrewInv, LockInv, [Next]_vars PROVE LockInv'
<1>1. ASSUME NEW t \in Ids, WorkerStep(t) PROVE LockInv'
  <2>0. PICK s \in WorkerStates :
           /\ pc' = [pc EXCEPT ![t] = s]
           /\ phase = "tasks" /\ UNCHANGED mode
    BY <1>1, WorkerMoves
  <2>1. pc'[t] = s /\ Holding' = Holding /\ t # Nobody
    BY <2>0, DeliveryAssumption DEF CrewInv, Holding
  <2>2. ASSUME UNCHANGED lock, s \in Holding <=> pc[t] \in Holding, s # "merge"
        PROVE  LockInv'
    BY <2>0, <2>1, <2>2 DEF CrewInv, LockInv
  <2>3. ASSUME lock = Nobody, lock' = t, s \in Holding, s = "merge" => mode = "worktree"
        PROVE  LockInv'
    <3>1. \A u \in Ids : u # Nobody /\ (u # t => pc'[u] = pc[u])
      BY <2>0, DeliveryAssumption DEF CrewInv
    <3>2. \A u \in Ids : lock' = u <=> pc'[u] \in Holding'
      BY <2>1, <2>3, <3>1 DEF LockInv
    <3> QED BY <2>0, <2>1, <2>3, <3>1, <3>2 DEF LockInv
  <2>4. ASSUME lock' = Unlocked(t), s \notin Holding, s # "merge" PROVE LockInv'
    <3>1. \A u \in Ids : u # Nobody /\ (u # t => pc'[u] = pc[u])
      BY <2>0, DeliveryAssumption DEF CrewInv
    <3>2. \A u \in Ids : lock' = u <=> lock = u /\ u # t
      BY <2>4, <3>1 DEF Unlocked
    <3>3. \A u \in Ids : lock' = u <=> pc'[u] \in Holding'
      BY <2>1, <2>4, <3>1, <3>2 DEF LockInv
    <3>4. lock' \in Ids \union {Nobody}
      BY <2>4 DEF LockInv, Unlocked
    <3>5. \A u \in Ids : pc'[u] = "merge" => mode' = "worktree"
      BY <2>0, <2>1, <2>4, <3>1 DEF LockInv
    <3>6. mode' \in {"agentic", "worktree", "described"}
      BY <2>0 DEF LockInv
    <3> QED BY <3>3, <3>4, <3>5, <3>6 DEF LockInv
  <2>5. {"begin", "failed", "record", "done"} \intersect Holding = {}
    BY DEF Holding
  <2> USE DEF Holding
  <2>6. CASE \/ Starve(t) \/ Overspend(t) \/ AgentError(t) \/ Reject(t) \/ GatesFail(t)
             \/ FailCheck(t)
    BY <2>1, <2>4, <2>5, <2>6 DEF Starve, Overspend, AgentError, Reject, GatesFail, FailCheck,
                                 Abandon, Undo, CrewInv
  <2>7. CASE Launch(t) \/ Record(t) \/ OutOfTries(t)
    BY <2>1, <2>2, <2>7 DEF Launch, Launchable, Record, OutOfTries, CrewInv, crew
  <2>8. CASE Attempt(t)
    BY <2>1, <2>2, <2>3, <2>8 DEF Attempt, CrewInv, LockInv
  <2>9. CASE Integrate(t)
    BY <2>1, <2>2, <2>3, <2>9 DEF Integrate, CrewInv, LockInv
  <2>10. CASE Approve(t)
    BY <2>1, <2>2, <2>4, <2>5, <2>10 DEF Approve, Abandon, Undo, CrewInv, LockInv
  <2>11. CASE EngineerAnswers(t)
    BY <2>1, <2>2, <2>11 DEF EngineerAnswers, CrewInv, LockInv
  <2>12. CASE SuiteWritten(t) \/ GatesPass(t) \/ Shelve(t) \/ PassCheck(t) \/ Unshelve(t)
    BY <2>1, <2>2, <2>12 DEF SuiteWritten, GatesPass, Shelve, PassCheck, Unshelve, CrewInv,
                            LockInv
  <2>13. CASE Bank(t) \/ BankFails(t)
    BY <2>1, <2>4, <2>5, <2>13 DEF Bank, BankFails, CrewInv
  <2>14. CASE Merge(t)
    BY <2>1, <2>3, <2>14 DEF Merge, CrewInv
  <2>15. CASE MergePasses(t) \/ MergeFails(t) \/ MergeBreaks(t)
    <3>1. lock' = Unlocked(t) /\ s \in {"record", "begin", "failed"}
      BY <2>1, <2>15 DEF MergePasses, MergeFails, MergeBreaks, LockInv, CrewInv, Unlocked
    <3> QED BY <2>4, <2>5, <3>1
  <2> QED BY <1>1, <2>6, <2>7, <2>8, <2>9, <2>10, <2>11, <2>12, <2>13, <2>14, <2>15
          DEF WorkerStep
<1>2. CASE Stage
  BY <1>2, StageLeavesCrew DEF LockInv, Holding
<1>3. CASE Departure
  <2>1. UNCHANGED mode /\ lock' = Nobody /\ \A t \in Ids : pc'[t] = "idle"
    BY <1>3 DEF Departure, ReplanRaises, PlanHalts, Finish, Crash, Leave
  <2> QED BY <2>1, DeliveryAssumption DEF LockInv, Holding
<1>4. CASE Opening
  <2>1. UNCHANGED <<mode, lock>> /\ \A t \in Ids : pc'[t] \in {"idle", "done", "failed"}
    BY <1>4, OpeningLeaves
  <2>2. \A t \in Ids : pc[t] \notin Holding
    BY <1>4, OpeningLeaves DEF Active, Holding
  <2> QED BY <2>1, <2>2, DeliveryAssumption DEF LockInv, Holding
<1>5. CASE OperatorCommits \/ OperatorDiscards \/ UNCHANGED vars
  BY <1>5 DEF OperatorCommits, OperatorDiscards, vars, crew, run, LockInv, Holding
<1> QED BY <1>1, <1>2, <1>3, <1>4, <1>5, NextParts
\* Rolling an attempt back: what is put back may be committed.
LEMMA UndoKeeps ==
    ASSUME CrewInv, LockInv, WorkInv, NEW t \in Ids, NEW s \in {"begin", "failed"},
           phase = "tasks", UNCHANGED <<phase, mode, runs, base, head>>, Undo(t, s)
    PROVE  WorkInv'
<1>1. \A u \in Ids : u # Nobody /\ (u # t => pc'[u] = pc[u])
  BY DeliveryAssumption DEF Undo, CrewInv
<1>2. pc'[t] = s
  BY DEF Undo, CrewInv
<1>3. CASE lock = t
  <2>1. lock' = Nobody /\ tree' \subseteq Edit /\ GatedEdits(tree') /\ snap' = {}
    BY <1>3 DEF Undo, Restored, Unlocked, WorkInv, GatedEdits
  <2> QED BY <1>1, <2>1 DEF WorkInv, Undo, GatedEdits
<1>4. CASE lock # t
  <2>1. UNCHANGED <<lock, snap>> /\ tree' \in {{}, tree}
    BY <1>4 DEF Undo, Restored, Unlocked
  <2> QED BY <1>1, <1>4, <2>1 DEF WorkInv, Undo, GatedEdits
<1> QED BY <1>3, <1>4

LEMMA WorkerKeeps ==
    ASSUME CrewInv, LockInv, WorkInv, LockInv', NEW t \in Ids, WorkerStep(t)
    PROVE  WorkInv'
<1>1. PICK s \in WorkerStates :
         /\ pc' = [pc EXCEPT ![t] = s]
         /\ phase = "tasks" /\ phase' = "tasks" /\ UNCHANGED <<mode, runs, base, staged>>
  BY WorkerMoves
<1>2. /\ pc'[t] = s /\ t # Nobody /\ t \in Author
      /\ \A u \in Ids : u # Nobody /\ (u # t => pc'[u] = pc[u])
  BY <1>1, DeliveryAssumption DEF CrewInv, Author
<1>3. runs \in 1..MaxRuns /\ Raw(t) \in Edit /\ Gated(tree) \subseteq Edit
      /\ GatedEdits(Gated(tree))
  BY <1>1, <1>2, RawIsEdit, GatedIsGated DEF WorkInv
<1> USE DEF disk, tail
<1>4. ASSUME NEW S \in {"begin", "failed"}, Undo(t, S), UNCHANGED head PROVE WorkInv'
  BY <1>1, <1>4, UndoKeeps
\* The files and the lock are left alone.
<1>5. ASSUME UNCHANGED <<branch, head, tree, snap, lock>>,
             lock = t /\ s \in {"verify", "shelved", "bank"} =>
                 pc[t] \in {"verify", "shelved", "bank"},
             ckpt'.base \in Nat
      PROVE  WorkInv'
  BY <1>1, <1>2, <1>5 DEF WorkInv
\* The lock is taken, and edits are written that no gate has passed.
<1>6. ASSUME lock = Nobody, lock' = t, tree' = tree \union {Raw(t)}, snap' \in {snap, tree},
             UNCHANGED <<branch, head, ckpt>>, s \notin {"verify", "shelved", "bank"}
      PROVE  WorkInv'
  <2>1. GatedEdits(tree)
    BY <1>1, <1>6 DEF WorkInv
  <2> QED BY <1>1, <1>2, <1>3, <1>6, <2>1 DEF WorkInv
\* The lock is given back.
<1>7. ASSUME Sound(branch'), tree' \subseteq Edit, GatedEdits(tree'), snap' \in {snap, {}},
             UNCHANGED <<head, ckpt>>
      PROVE  WorkInv'
  BY <1>1, <1>2, <1>7 DEF WorkInv, GatedEdits
<1>8. CASE Starve(t) \/ Overspend(t) \/ AgentError(t) \/ Reject(t) \/ GatesFail(t)
           \/ FailCheck(t)
  BY <1>4, <1>8 DEF Starve, Overspend, AgentError, Reject, GatesFail, FailCheck, Abandon
<1>9. CASE Launch(t) \/ OutOfTries(t) \/ EngineerAnswers(t) \/ SuiteWritten(t)
  BY <1>1, <1>2, <1>5, <1>9 DEF Launch, OutOfTries, EngineerAnswers, SuiteWritten, WorkInv, CrewInv
<1>10. CASE Record(t)
  <2>1. ckpt'.base \in Nat
    BY <1>10 DEF Record, SavedBase, WorkInv
  <2> QED BY <1>2, <1>5, <1>10, <2>1 DEF Record
<1>11. CASE Attempt(t) \/ Integrate(t)
  BY <1>2, <1>5, <1>6, <1>11 DEF Attempt, Integrate, WorkInv, CrewInv
<1>12. CASE Approve(t)
  BY <1>2, <1>4, <1>5, <1>12 DEF Approve, Abandon, WorkInv, CrewInv
<1>13. CASE GatesPass(t)
  <2>1. CASE lock = t
    BY <1>1, <1>2, <1>3, <1>13, <2>1 DEF GatesPass, WorkInv
  <2>2. CASE lock # t
    BY <1>5, <1>13, <2>2 DEF GatesPass, WorkInv
  <2> QED BY <2>1, <2>2
<1>14. CASE Shelve(t) \/ PassCheck(t) \/ Unshelve(t)
  BY <1>5, <1>14 DEF Shelve, PassCheck, Unshelve, WorkInv
<1>15. CASE Bank(t)
  <2>1. GatedEdits(tree) /\ tree \in SUBSET Edit
    BY <1>15 DEF Bank, LockInv, WorkInv, Holding
  <2>2. Sound(branch')
    BY <1>15, <2>1, CommitSound DEF Bank, Committed, WorkInv
  <2> QED BY <1>7, <1>15, <2>2 DEF Bank, GatedEdits
<1>16. CASE BankFails(t)
  <2>1. CASE lock = t
    <3>1. GatedEdits(tree) /\ tree \in SUBSET Edit
      BY <1>16, <2>1 DEF BankFails, WorkInv
    <3> QED BY <1>7, <1>16, <2>1, <3>1 DEF BankFails, WorkInv
  <2>2. CASE lock # t
    BY <1>2, <1>5, <1>16, <2>2 DEF BankFails, Unlocked, WorkInv
  <2> QED BY <2>1, <2>2
<1>17. CASE Merge(t)
  BY <1>2, <1>6, <1>17 DEF Merge, CrewInv
<1>18. CASE MergePasses(t)
  <2>1. Sound(branch')
    BY <1>3, <1>18, CommitSound DEF MergePasses, Committed, WorkInv
  <2> QED BY <1>7, <1>18, <2>1 DEF MergePasses, GatedEdits
<1>19. CASE MergeFails(t) \/ MergeBreaks(t)
  BY <1>3, <1>7, <1>19 DEF MergeFails, MergeBreaks, WorkInv, GatedEdits
<1> QED BY <1>8, <1>9, <1>10, <1>11, <1>12, <1>13, <1>14, <1>15, <1>16, <1>17, <1>18, <1>19
        DEF WorkerStep
\* Outside the task phase nobody holds the lock, so what lies in the working
\* directory may be committed; visual fixes and documents may lie there too.
LEMMA StageKeeps ==
    ASSUME CrewInv, LockInv, WorkInv, Stage PROVE WorkInv'
<1>1. /\ UNCHANGED <<pc, lock, stashLock, snap, stash, mode, runs, base>>
      /\ phase # "idle" /\ phase' # "idle" /\ Active = {}
  BY StageLeavesCrew
<1>2. lock = Nobody
  BY <1>1 DEF LockInv, Holding, Active
<1>3. GatedEdits(tree) /\ runs \in 1..MaxRuns /\ \A t \in Ids : t # Nobody
  BY <1>1, <1>2, DeliveryAssumption DEF WorkInv
<1>4. ASSUME Sound(branch'), Sound(head'), tree' \subseteq Edit, GatedEdits(tree'),
             staged' \subseteq Edit, GatedEdits(staged'), ckpt'.base \in Nat
      PROVE  WorkInv'
  BY <1>1, <1>2, <1>3, <1>4 DEF WorkInv
<1>5. \A a \in {Visual, Docs} : GatedEdits(tree \union {Raw(a)}) /\ Raw(a) \in Edit
  BY <1>3, RawIsEdit, DeliveryAssumption DEF GatedEdits, Author
<1>6. Gated(tree) \subseteq Edit /\ GatedEdits(Gated(tree)) /\ GatedEdits({})
  BY GatedIsGated DEF WorkInv, GatedEdits
<1>7. Since(base) \subseteq Edit /\ GatedEdits(Since(base))
  BY SinceSound DEF WorkInv
<1> USE DEF disk, tail, replan, WorkInv
<1>8. CASE TasksEnd \/ ReplanStarves \/ \E t \in Ids : ReplanTask(t)
  BY <1>3, <1>4, <1>8 DEF TasksEnd, ReplanStarves, ReplanTask
<1>9. CASE EndRound
  <2>1. ckpt'.base \in Nat
    BY <1>9 DEF EndRound, SavedBase
  <2> QED BY <1>3, <1>4, <1>9, <2>1 DEF EndRound
<1>10. CASE VisualDone \/ FixRaises \/ SecurityReview \/ SecurityDies \/ Withhold
  BY <1>3, <1>4, <1>10 DEF VisualDone, FixRaises, SecurityReview, SecurityDies, Withhold, Late
<1>11. CASE VisualFindings \/ FixDropped \/ FixCommitFails \/ Artifacts
  BY <1>3, <1>4, <1>5, <1>6, <1>11 DEF VisualFindings, FixDropped, FixCommitFails, Artifacts,
                                     Late
<1>12. CASE FixKept
  <2>1. Sound(branch')
    BY <1>6, <1>12, CommitSound DEF FixKept, Committed
  <2> QED BY <1>4, <1>6, <1>12, <2>1 DEF FixKept, Late
<1>13. CASE Squash
  <2>1. Sound(branch')
    BY <1>13, PrefixSound DEF Squash
  <2> QED BY <1>3, <1>4, <1>7, <1>13, <2>1 DEF Squash
<1>14. CASE Land
  <2>1. staged \union tree \in SUBSET Edit /\ GatedEdits(staged \union tree)
    BY <1>3 DEF GatedEdits
  <2>2. Sound(branch')
    BY <1>14, <2>1, CommitSound DEF Land, Committed
  <2>3. Sound(<<>>)
    BY DEF Sound
  <2> QED BY <1>4, <1>6, <1>14, <2>2, <2>3 DEF Land
<1>15. CASE LandFails
  <2>1. Sound(<<>>)
    BY DEF Sound
  <2> QED BY <1>4, <1>6, <1>15, <2>1 DEF LandFails
<1> QED BY <1>8, <1>9, <1>10, <1>11, <1>12, <1>13, <1>14, <1>15 DEF Stage

LEMMA WorkInvInit == Init => LockInv /\ WorkInv
<1> SUFFICES ASSUME Init PROVE LockInv /\ WorkInv
  OBVIOUS
<1>1. LockInv
  BY DeliveryAssumption DEF Init, LockInv, Holding
<1>2. Sound(branch) /\ Sound(head)
  BY DEF Init, Sound, Commit, GatedEdits
<1>3. ckpt.base = 0 /\ runs \in 0..MaxRuns
  BY DeliveryAssumption DEF Init, NoCheckpoint
<1> QED BY <1>1, <1>2, <1>3, DeliveryAssumption DEF Init, WorkInv, GatedEdits

LEMMA WorkInvStep ==
    ASSUME CrewInv, LockInv, WorkInv, [Next]_vars PROVE WorkInv'
<1>1. CASE \E t \in Ids : WorkerStep(t)
  BY <1>1, WorkerKeeps, LockInvStep
<1>2. CASE Departure
  <2>1. /\ UNCHANGED <<branch, tree, staged, mode, runs>> /\ phase' = "idle"
        /\ head' = <<>> /\ snap' = {} /\ base' = 0 /\ lock' = Nobody
        /\ \A t \in Ids : t # Nobody
    BY <1>2, DeliveryAssumption DEF Departure, ReplanRaises, PlanHalts, Finish, Crash, Leave, disk
  <2>2. ckpt'.base \in Nat
    BY <1>2 DEF Departure, ReplanRaises, PlanHalts, Finish, Crash, disk, NoCheckpoint, WorkInv
  <2>3. Sound(<<>>) /\ GatedEdits({})
    BY DEF Sound, GatedEdits
  <2> QED BY <2>1, <2>2, <2>3 DEF WorkInv
<1>3. CASE Opening
  <2>1. /\ UNCHANGED <<branch, tree, staged, ckpt, head, snap, lock>>
        /\ \A t \in Ids : pc'[t] \notin {"verify", "shelved", "bank"}
    BY <1>3, OpeningLeaves DEF disk
  <2>2. CASE Begin
    <3>1. tree = {} /\ runs \in 0..MaxRuns /\ runs < MaxRuns /\ MaxRuns \in Nat
      BY <2>2, DeliveryAssumption DEF Begin, CleanTree, WorkInv
    <3>2. runs' \in 1..MaxRuns
      BY <2>2, <3>1 DEF Begin
    <3>3. base' \in Nat
      BY <2>2 DEF Begin, WorkInv, Sound
    <3> QED BY <2>1, <3>1, <3>2, <3>3 DEF WorkInv, GatedEdits
  <2>3. CASE SpendElsewhere \/ PlanCall \/ PlanReady
    <3>1. UNCHANGED <<runs, base>> /\ (phase' # "idle" => phase # "idle")
      BY <2>3 DEF SpendElsewhere, PlanCall, PlanReady, run
    <3> QED BY <2>1, <3>1 DEF WorkInv
  <2> QED BY <1>3, <2>2, <2>3 DEF Opening
<1>4. CASE OperatorCommits
  <2>1. Sound(branch')
    <3>1. staged \union {e \in tree : e.gated} \in SUBSET Edit
          /\ GatedEdits(staged \union {e \in tree : e.gated})
      BY DEF WorkInv, GatedEdits
    <3> QED BY <1>4, <3>1, CommitSound DEF OperatorCommits, Committed, WorkInv
  <2> QED BY <1>4, <2>1 DEF OperatorCommits, WorkInv, GatedEdits, crew, tail, run
<1>5. CASE OperatorDiscards
  BY <1>5 DEF OperatorDiscards, WorkInv, GatedEdits, crew, tail, run
<1>6. CASE UNCHANGED vars
  BY <1>6 DEF vars, disk, crew, tail, run, WorkInv
<1> QED BY <1>1, <1>2, <1>3, <1>4, <1>5, <1>6, NextParts, StageKeeps

\* No commit of the engine has edits of a task that the gates have not passed,
\* however tasks share the working directory, fail, crash or are run again
\* (engine.py, _attempt_task and
\* _merge_task).
THEOREM OnlyGatedWorkHolds == Spec => []OnlyGatedWork
<1>1. CrewInv /\ LockInv /\ WorkInv /\ [Next]_vars => (CrewInv /\ LockInv /\ WorkInv)'
  BY CrewInvStep, LockInvStep, WorkInvStep
<1>2. CrewInv /\ LockInv /\ WorkInv => OnlyGatedWork
  BY DEF WorkInv, Sound, GatedEdits, OnlyGatedWork
<1> QED BY <1>1, <1>2, CrewInvInit, WorkInvInit, PTL DEF Spec
-----------------------------------------------------------------------------
(* What a run that is started again finds *)

SinceOf(b, n) == UNION {b[i].work : i \in (n + 1)..Len(b)}

\* What the checkpoint calls done, and what a worker is about to enter there,
\* is behind the baseline that goes with it; who holds the lock has its edits
\* in the working directory; and while the commits are squashed the old head
\* still has them.
ResumeInv ==
    /\ ckpt.base <= Len(branch) /\ 1 <= Len(branch)
    /\ ckpt.base = 0 => ckpt.done = {}
    /\ phase # "idle" => 1 <= base /\ ckpt.base <= base /\ base <= Len(branch)
    /\ phase \notin {"idle", "squash"} => staged = {}
    /\ \A t \in Ids : lock = t => t \in Authors(tree)
    /\ \A t \in Ids : pc[t] = "record" => t \in Authors(SinceOf(branch, SavedBase))
    /\ ckpt.done \subseteq Authors(SinceOf(branch, ckpt.base) \union staged)
    /\ phase = "squash" => /\ base <= Len(head)
                           /\ ckpt.done \subseteq Authors(SinceOf(head, ckpt.base))

LEMMA SinceIsSinceOf == \A n : Since(n) = SinceOf(branch, n)
BY DEF Since, SinceOf

\* A commit adds its work, and takes none away.
LEMMA SinceAppend ==
    ASSUME NEW b \in Seq(Commit), NEW c \in Commit, NEW n \in Nat
    PROVE  /\ SinceOf(b, n) \subseteq SinceOf(Append(b, c), n)
           /\ n <= Len(b) => c.work \subseteq SinceOf(Append(b, c), n)
           /\ Len(Append(b, c)) = Len(b) + 1
<1>1. /\ Len(Append(b, c)) = Len(b) + 1 /\ Append(b, c)[Len(b) + 1] = c
      /\ \A i \in 1..Len(b) : Append(b, c)[i] = b[i]
  OBVIOUS
<1>2. \A i \in (n + 1)..Len(b) : i \in 1..Len(b) /\ i \in (n + 1)..(Len(b) + 1)
  OBVIOUS
<1>3. n <= Len(b) => Len(b) + 1 \in (n + 1)..(Len(b) + 1)
  OBVIOUS
<1> QED BY <1>1, <1>2, <1>3 DEF SinceOf

\* A reset to m takes away what came since m.
LEMMA SincePrefix ==
    ASSUME NEW b \in Seq(Commit), NEW m \in Nat, m <= Len(b), NEW n \in Nat
    PROVE  /\ SinceOf(b, n) \subseteq SinceOf(SubSeq(b, 1, m), n) \union SinceOf(b, m)
           /\ Len(SubSeq(b, 1, m)) = m
<1>1. Len(SubSeq(b, 1, m)) = m /\ \A i \in 1..m : SubSeq(b, 1, m)[i] = b[i]
  OBVIOUS
<1>2. \A i \in (n + 1)..Len(b) :
         i \in (m + 1)..Len(b) \/ (i \in 1..m /\ i \in (n + 1)..m)
  OBVIOUS
<1> QED BY <1>1, <1>2 DEF SinceOf

LEMMA AuthorsKept ==
    ASSUME NEW E, NEW F PROVE /\ E \subseteq F => Authors(E) \subseteq Authors(F)
                              /\ Authors(E \union F) = Authors(E) \union Authors(F)
BY DEF Authors

LEMMA GatedAuthors ==
    ASSUME NEW E \in SUBSET Edit PROVE Authors(Gated(E)) = Authors(E)
<1>1. \A e \in E : [e EXCEPT !.gated = TRUE].by = e.by
  BY DEF Edit
<1> QED BY <1>1 DEF Gated, Authors

\* The baseline of the next save, and of the one after it.
LEMMA SavedBaseTyped ==
    ASSUME WorkInv, ResumeInv, phase # "idle"
    PROVE  /\ SavedBase \in Nat /\ 1 <= SavedBase /\ SavedBase <= base
           /\ SavedBase <= Len(branch) /\ (ckpt.base # 0 => SavedBase = ckpt.base)
BY DEF WorkInv, ResumeInv, SavedBase, Sound

\* A commit of a worker's own.
LEMMA CommitKeeps ==
    ASSUME CrewInv, WorkInv, ResumeInv, NEW t \in Ids, phase = "tasks",
           UNCHANGED <<phase, base, ckpt, staged, head>>,
           NEW E \in SUBSET Edit, t \in Authors(E), branch' = Committed("wip", E),
           \A u \in Ids : u # t => pc'[u] = pc[u], \A u \in Ids : lock' # u
    PROVE  ResumeInv'
<1> DEFINE c == [kind |-> "wip", work |-> E]
<1>1. c \in Commit /\ c.work = E /\ branch \in Seq(Commit)
  BY DEF Commit, WorkInv, Sound
<1>2. branch' = Append(branch, c)
  BY DEF Committed
<1> HIDE DEF c
<1>3. SavedBase' = SavedBase /\ SavedBase \in Nat /\ SavedBase <= Len(branch)
      /\ ckpt.base \in Nat /\ base \in Nat
  BY SavedBaseTyped DEF SavedBase, WorkInv
<1>4. /\ \A n \in Nat : Authors(SinceOf(branch, n)) \subseteq Authors(SinceOf(branch', n))
      /\ t \in Authors(SinceOf(branch', SavedBase))
      /\ Len(branch') = Len(branch) + 1
  BY <1>1, <1>2, <1>3, SinceAppend, AuthorsKept
<1>5. \A u \in Ids : pc'[u] = "record" => u \in Authors(SinceOf(branch', SavedBase'))
  BY <1>3, <1>4 DEF ResumeInv
<1>6. ckpt'.done \subseteq Authors(SinceOf(branch', ckpt'.base) \union staged')
  <2>1. /\ Authors(SinceOf(branch, ckpt.base) \union staged)
             = Authors(SinceOf(branch, ckpt.base)) \union Authors(staged)
        /\ Authors(SinceOf(branch', ckpt.base) \union staged)
             = Authors(SinceOf(branch', ckpt.base)) \union Authors(staged)
    BY AuthorsKept
  <2>2. Authors(SinceOf(branch, ckpt.base)) \subseteq Authors(SinceOf(branch', ckpt.base))
    BY <1>3, <1>4
  <2> QED BY <2>1, <2>2 DEF ResumeInv
<1>7. /\ ckpt.base <= Len(branch) + 1 /\ 1 <= Len(branch) + 1 /\ base <= Len(branch) + 1
      /\ 1 <= base /\ ckpt.base <= base
  BY <1>1, <1>3 DEF ResumeInv
<1>8. /\ ckpt'.base <= Len(branch') /\ 1 <= Len(branch') /\ 1 <= base' /\ ckpt'.base <= base'
      /\ base' <= Len(branch')
  BY <1>4, <1>7
<1>9. /\ ckpt'.base = 0 => ckpt'.done = {}
      /\ phase' \notin {"idle", "squash"} => staged' = {}
      /\ phase' # "squash"
  BY DEF ResumeInv
<1> QED BY <1>5, <1>6, <1>8, <1>9 DEF ResumeInv
\* A step of a worker that leaves the commits alone.
LEMMA WorkerResumes ==
    ASSUME CrewInv, LockInv, WorkInv, ResumeInv, LockInv', NEW t \in Ids, WorkerStep(t)
    PROVE  ResumeInv'
<1>1. PICK s \in WorkerStates :
         /\ pc' = [pc EXCEPT ![t] = s]
         /\ phase = "tasks" /\ phase' = "tasks" /\ UNCHANGED <<mode, runs, base, staged>>
  BY WorkerMoves
<1>2. /\ pc'[t] = s /\ t # Nobody /\ runs \in 1..MaxRuns
      /\ \A u \in Ids : u # Nobody /\ (u # t => pc'[u] = pc[u])
  BY <1>1, DeliveryAssumption DEF CrewInv, WorkInv
<1>3. Authors(Gated(tree)) = Authors(tree) /\ \A u \in Ids : u \in Authors({Raw(u)})
  BY GatedAuthors DEF WorkInv, Authors, Raw
<1>4. Authors(tree \union {Raw(t)}) = Authors(tree) \union Authors({Raw(t)})
  BY AuthorsKept
<1> USE DEF disk, tail
<1>5. ASSUME UNCHANGED <<branch, ckpt, head>>, s # "record",
             \A u \in Ids : lock' = u => u \in Authors(tree')
      PROVE  ResumeInv'
  BY <1>1, <1>2, <1>5 DEF ResumeInv, SavedBase
<1>6. ASSUME NEW S \in {"begin", "failed"}, Undo(t, S), UNCHANGED head,
             pc[t] \in Holding \/ lock = Nobody \/ mode # "agentic"
      PROVE  ResumeInv'
  <2>1. \A u \in Ids : lock' = u => u \in Authors(tree')
    <3>1. CASE lock = t
      BY <1>2, <1>6, <3>1 DEF Undo, Unlocked
    <3>2. CASE lock # t
      BY <1>2, <1>6, <3>2 DEF Undo, Unlocked, Restored, LockInv, ResumeInv
    <3> QED BY <3>1, <3>2
  <2>2. UNCHANGED <<branch, ckpt>> /\ s # "record"
    BY <1>2, <1>6 DEF Undo, CrewInv
  <2> QED BY <1>5, <1>6, <2>1, <2>2
<1>7. CASE \/ Starve(t) \/ Overspend(t) \/ AgentError(t) \/ Reject(t) \/ GatesFail(t)
           \/ FailCheck(t)
  <2>1. pc[t] \in Holding \/ lock = Nobody \/ mode # "agentic"
    BY <1>7 DEF Starve, Overspend, AgentError, Reject, GatesFail, FailCheck, InFlight, Holding
  <2> QED BY <1>6, <1>7, <2>1
          DEF Starve, Overspend, AgentError, Reject, GatesFail, FailCheck, Abandon
<1>8. CASE Launch(t) \/ OutOfTries(t) \/ EngineerAnswers(t) \/ SuiteWritten(t)
  BY <1>1, <1>2, <1>5, <1>8 DEF Launch, OutOfTries, EngineerAnswers, SuiteWritten, ResumeInv,
                               CrewInv, crew
<1>9. CASE Record(t)
  <2>1. /\ ckpt'.base = SavedBase /\ ckpt'.done = ckpt.done \union {t}
        /\ t \in Authors(SinceOf(branch, SavedBase))
        /\ UNCHANGED <<branch, tree, lock, head, base, staged>>
    BY <1>1, <1>9 DEF Record, ResumeInv
  <2>2. /\ SavedBase \in Nat /\ 1 <= SavedBase /\ SavedBase <= base
        /\ SavedBase <= Len(branch) /\ SavedBase # 0
        /\ ckpt.base # 0 => SavedBase = ckpt.base
    BY <1>1, SavedBaseTyped
  <2>3. SavedBase' = SavedBase
    BY <2>1, <2>2 DEF SavedBase
  <2>4. ckpt'.done \subseteq Authors(SinceOf(branch', ckpt'.base) \union staged')
    <3>1. Authors(SinceOf(branch, SavedBase)) \subseteq
            Authors(SinceOf(branch, SavedBase) \union staged)
      BY AuthorsKept
    <3> QED BY <2>1, <2>2, <3>1 DEF ResumeInv
  <2>5. \A u \in Ids : pc'[u] = "record" => u \in Authors(SinceOf(branch', SavedBase'))
    BY <1>2, <1>9, <2>1, <2>3 DEF Record, ResumeInv, CrewInv
  <2> QED BY <1>1, <2>1, <2>2, <2>4, <2>5 DEF ResumeInv
<1>10. CASE Attempt(t) \/ Integrate(t)
  BY <1>2, <1>3, <1>4, <1>5, <1>10 DEF Attempt, Integrate, ResumeInv, CrewInv
<1>11. CASE Approve(t)
  <2>1. pc[t] \in Holding \/ mode # "agentic"
    BY <1>11 DEF Approve, Holding
  <2> QED BY <1>2, <1>5, <1>6, <1>11, <2>1 DEF Approve, Abandon, ResumeInv, CrewInv
<1>12. CASE GatesPass(t)
  BY <1>2, <1>3, <1>5, <1>12 DEF GatesPass, ResumeInv, CrewInv
<1>13. CASE Shelve(t) \/ PassCheck(t) \/ Unshelve(t)
  BY <1>2, <1>5, <1>13 DEF Shelve, PassCheck, Unshelve, ResumeInv, CrewInv
<1>14. CASE Bank(t)
  <2>1. lock = t /\ t \in Authors(tree) /\ tree \in SUBSET Edit
    BY <1>14 DEF Bank, LockInv, Holding, ResumeInv, WorkInv
  <2>2. \A u \in Ids : lock' # u
    BY <1>2, <1>14, <2>1 DEF Bank, Unlocked
  <2> QED BY <1>1, <1>2, <1>14, <2>1, <2>2, CommitKeeps DEF Bank
<1>15. CASE BankFails(t)
  BY <1>2, <1>5, <1>15 DEF BankFails, Unlocked, ResumeInv, CrewInv
<1>16. CASE Merge(t)
  BY <1>2, <1>3, <1>4, <1>5, <1>16 DEF Merge, CrewInv
<1>17. CASE MergePasses(t)
  <2>1. lock = t /\ t \in Authors(Gated(tree)) /\ Gated(tree) \in SUBSET Edit
    BY <1>3, <1>17, GatedIsGated DEF MergePasses, LockInv, Holding, ResumeInv, WorkInv
  <2>2. \A u \in Ids : lock' # u
    BY <1>2, <1>17 DEF MergePasses
  <2> QED BY <1>1, <1>2, <1>17, <2>1, <2>2, CommitKeeps DEF MergePasses
<1>18. CASE MergeFails(t) \/ MergeBreaks(t)
  BY <1>2, <1>5, <1>18 DEF MergeFails, MergeBreaks, CrewInv
<1> QED BY <1>7, <1>8, <1>9, <1>10, <1>11, <1>12, <1>13, <1>14, <1>15, <1>16, <1>17, <1>18
        DEF WorkerStep
\* A commit that takes in what is staged, or nothing is.
LEMMA AppendResumes ==
    ASSUME WorkInv, ResumeInv, NEW E \in SUBSET Edit, staged \subseteq E,
           NEW k \in {"user", "fix", "feature"}, branch' = Committed(k, E), UNCHANGED ckpt
    PROVE  /\ ckpt'.done \subseteq Authors(SinceOf(branch', ckpt'.base))
           /\ ckpt'.base <= Len(branch') /\ 1 <= Len(branch')
           /\ (base <= Len(branch) => base <= Len(branch'))
<1> DEFINE c == [kind |-> k, work |-> E]
<1>1. c \in Commit /\ c.work = E /\ branch \in Seq(Commit) /\ branch' = Append(branch, c)
  BY DEF Commit, WorkInv, Sound, Committed
<1> HIDE DEF c
<1>2. ckpt.base \in Nat /\ ckpt.base <= Len(branch) /\ Len(branch) \in Nat /\ base \in Nat
  BY <1>1 DEF WorkInv, ResumeInv
<1>3. /\ SinceOf(branch, ckpt.base) \subseteq SinceOf(branch', ckpt.base)
      /\ staged \subseteq SinceOf(branch', ckpt.base) /\ Len(branch') = Len(branch) + 1
  BY <1>1, <1>2, SinceAppend
<1>4. Authors(SinceOf(branch, ckpt.base) \union staged)
        \subseteq Authors(SinceOf(branch', ckpt.base))
  BY <1>3, AuthorsKept
<1>5. /\ ckpt.base <= Len(branch) + 1 /\ 1 <= Len(branch) + 1
      /\ base <= Len(branch) => base <= Len(branch) + 1
  BY <1>2
<1> QED BY <1>3, <1>4, <1>5 DEF ResumeInv

LEMMA StageResumes ==
    ASSUME CrewInv, LockInv, WorkInv, ResumeInv, Stage PROVE ResumeInv'
<1>1. /\ UNCHANGED <<pc, lock, mode, runs, base>> /\ phase \in Stages \ {"idle"}
      /\ phase' \in Stages \ {"idle"} /\ Active = {}
  BY StageLeavesCrew
<1>2. \A t \in Ids : lock' # t /\ pc'[t] # "record"
  BY <1>1 DEF LockInv, Holding, Active
<1>3. staged \subseteq Edit /\ tree \subseteq Edit /\ branch \in Seq(Commit) /\ base \in Nat
      /\ ckpt.base \in Nat
  BY DEF WorkInv, Sound
<1> USE DEF disk, tail, replan
<1>4. CASE UNCHANGED <<branch, staged, ckpt, head>> /\ "squash" \notin {phase, phase'}
  BY <1>1, <1>2, <1>4 DEF ResumeInv
<1>5. CASE TasksEnd \/ ReplanStarves \/ \E t \in Ids : ReplanTask(t)
  BY <1>4, <1>5 DEF TasksEnd, CloseTasks, ReplanStarves, ReplanTask
<1>6. CASE \/ VisualDone \/ VisualFindings \/ FixRaises \/ FixDropped \/ FixCommitFails
           \/ SecurityReview \/ SecurityDies \/ Artifacts \/ Withhold
  BY <1>4, <1>6 DEF VisualDone, VisualFindings, FixRaises, FixDropped, FixCommitFails,
                    SecurityReview, SecurityDies, Artifacts, Withhold, Late
<1>7. CASE EndRound
  <2>1. /\ SavedBase \in Nat /\ 1 <= SavedBase /\ SavedBase <= base
        /\ SavedBase <= Len(branch) /\ SavedBase # 0
        /\ ckpt.base # 0 => SavedBase = ckpt.base
    BY <1>1, SavedBaseTyped
  <2>2. /\ UNCHANGED <<branch, staged, head>> /\ "squash" \notin {phase, phase'}
        /\ \/ UNCHANGED ckpt
           \/ ckpt'.done = ckpt.done /\ ckpt'.base = SavedBase
    BY <1>7 DEF EndRound, CloseTasks
  <2>3. CASE UNCHANGED ckpt
    BY <1>4, <2>2, <2>3
  <2>4. CASE ckpt'.done = ckpt.done /\ ckpt'.base = SavedBase
    <3>1. ckpt'.done \subseteq Authors(SinceOf(branch', ckpt'.base) \union staged')
      BY <2>1, <2>2, <2>4 DEF ResumeInv
    <3> QED BY <1>1, <1>2, <2>1, <2>2, <2>4, <3>1 DEF ResumeInv
  <2> QED BY <2>2, <2>3, <2>4
<1>8. CASE FixKept
  <2>1. /\ phase = "fix" /\ phase' = "visual" /\ UNCHANGED <<staged, ckpt, head>> /\ staged = {}
        /\ branch' = Committed("fix", Gated(tree)) /\ Gated(tree) \in SUBSET Edit
    BY <1>3, <1>8, GatedIsGated DEF FixKept, Late, ResumeInv
  <2>2. /\ ckpt'.done \subseteq Authors(SinceOf(branch', ckpt'.base))
        /\ ckpt'.base <= Len(branch') /\ 1 <= Len(branch') /\ base <= Len(branch')
    BY <1>1, <2>1, AppendResumes DEF ResumeInv
  <2> QED BY <1>1, <1>2, <2>1, <2>2 DEF ResumeInv
<1>9. CASE Squash
  <2>1. /\ phase = "commit" /\ phase' = "squash" /\ head' = branch /\ staged = {}
        /\ branch' = SubSeq(branch, 1, base) /\ staged' = SinceOf(branch, base)
        /\ UNCHANGED ckpt
    BY <1>9, SinceIsSinceOf DEF Squash, ResumeInv
  <2>2. /\ SinceOf(branch, ckpt.base) \subseteq SinceOf(branch', ckpt.base) \union staged'
        /\ Len(branch') = base
    BY <1>1, <1>3, <2>1, SincePrefix DEF ResumeInv
  <2>3. ckpt.done \subseteq Authors(SinceOf(branch, ckpt.base))
    BY <2>1 DEF ResumeInv
  <2>4. ckpt.done \subseteq Authors(SinceOf(branch', ckpt.base) \union staged')
    BY <2>2, <2>3, AuthorsKept
  <2>5. base <= base
    BY <1>3
  <2> QED BY <1>1, <1>2, <2>1, <2>2, <2>3, <2>4, <2>5 DEF ResumeInv
<1>10. CASE Land
  <2>1. /\ phase' = "finish" /\ staged' = {} /\ UNCHANGED ckpt
        /\ branch' = Committed("feature", staged \union tree)
        /\ staged \union tree \in SUBSET Edit
    BY <1>3, <1>10 DEF Land
  <2>2. /\ ckpt'.done \subseteq Authors(SinceOf(branch', ckpt'.base))
        /\ ckpt'.base <= Len(branch') /\ 1 <= Len(branch') /\ base <= Len(branch')
    BY <1>1, <2>1, AppendResumes DEF ResumeInv
  <2> QED BY <1>1, <1>2, <2>1, <2>2 DEF ResumeInv
<1>11. CASE LandFails
  <2>1. /\ phase = "squash" /\ phase' = "finish" /\ staged' = {} /\ branch' = head
        /\ UNCHANGED ckpt
    BY <1>11 DEF LandFails
  <2>2. Len(head) \in Nat
    BY DEF WorkInv, Sound
  <2>3. ckpt.base <= Len(head) /\ 1 <= Len(head) /\ base <= Len(head) /\ 1 <= base
        /\ ckpt.base <= base
    BY <1>1, <1>3, <2>1, <2>2 DEF ResumeInv
  <2>4. ckpt.done \subseteq Authors(SinceOf(head, ckpt.base))
    BY <2>1 DEF ResumeInv
  <2> QED BY <1>1, <1>2, <2>1, <2>3, <2>4 DEF ResumeInv
<1> QED BY <1>5, <1>6, <1>7, <1>8, <1>9, <1>10, <1>11 DEF Stage

LEMMA ResumeInvInit == Init => ResumeInv
<1> SUFFICES ASSUME Init PROVE ResumeInv
  OBVIOUS
<1>1. ckpt.base = 0 /\ ckpt.done = {} /\ Len(branch) = 1
  BY DEF Init, NoCheckpoint
<1> QED BY <1>1, DeliveryAssumption DEF Init, ResumeInv

LEMMA ResumeInvStep ==
    ASSUME CrewInv, LockInv, WorkInv, ResumeInv, [Next]_vars PROVE ResumeInv'
<1>0. \A t \in Ids : t # Nobody
  BY DeliveryAssumption
<1>1. CASE \E t \in Ids : WorkerStep(t)
  BY <1>1, WorkerResumes, LockInvStep
<1>2. CASE Departure
  <2>1. /\ UNCHANGED <<branch, staged>> /\ phase' = "idle" /\ lock' = Nobody
        /\ \A t \in Ids : pc'[t] = "idle"
        /\ UNCHANGED ckpt \/ ckpt' = NoCheckpoint
    BY <1>2 DEF Departure, ReplanRaises, PlanHalts, Finish, Crash, Leave, disk
  <2>2. CASE UNCHANGED ckpt
    BY <1>0, <2>1, <2>2 DEF ResumeInv
  <2>3. CASE ckpt' = NoCheckpoint
    <3>1. ckpt'.base = 0 /\ ckpt'.done = {} /\ 0 <= Len(branch)
      BY <2>3 DEF NoCheckpoint, WorkInv, Sound
    <3> QED BY <1>0, <2>1, <3>1 DEF ResumeInv
  <2> QED BY <2>1, <2>2, <2>3
<1>3. CASE Opening
  <2>1. /\ UNCHANGED <<branch, tree, staged, ckpt, lock, head>>
        /\ phase \in {"idle", "planning"} /\ phase' \in {"idle", "planning", "tasks"}
        /\ \A t \in Ids : pc'[t] # "record"
    BY <1>3, OpeningLeaves DEF disk
  <2>2. \A t \in Ids : lock # t
    BY <1>3, OpeningLeaves DEF LockInv, Active, Holding
  <2>3. CASE Begin
    <3>1. ckpt.base \in Nat /\ Len(branch) \in Nat /\ staged = {}
      BY <2>3 DEF WorkInv, Sound, Begin, CleanTree
    <3>2. CASE Resuming
      <4>1. base' = ckpt.base /\ ckpt.base # 0
        BY <2>3, <3>2 DEF Begin, Resuming, ResumeInv
      <4>2. 1 <= ckpt.base /\ ckpt.base <= ckpt.base
        BY <3>1, <4>1
      <4> QED BY <2>1, <2>2, <3>1, <4>1, <4>2 DEF ResumeInv
    <3>3. CASE ~Resuming
      <4>1. base' = Len(branch) /\ Len(branch) <= Len(branch)
        BY <2>3, <3>1, <3>3 DEF Begin
      <4> QED BY <2>1, <2>2, <3>1, <4>1 DEF ResumeInv
    <3> QED BY <3>2, <3>3
  <2>4. CASE SpendElsewhere \/ PlanCall \/ PlanReady
    <3>1. UNCHANGED base /\ (phase' = "idle" <=> phase = "idle")
      BY <2>4 DEF SpendElsewhere, PlanCall, PlanReady, run
    <3> QED BY <2>1, <2>2, <3>1 DEF ResumeInv
  <2> QED BY <1>3, <2>3, <2>4 DEF Opening
<1>4. CASE OperatorCommits
  <2>1. /\ phase = "idle" /\ UNCHANGED <<phase, ckpt, pc, lock>> /\ staged' = {}
        /\ branch' = Committed("user", staged \union {e \in tree : e.gated})
        /\ staged \union {e \in tree : e.gated} \in SUBSET Edit
    BY <1>4 DEF OperatorCommits, crew, WorkInv
  <2>2. /\ ckpt'.done \subseteq Authors(SinceOf(branch', ckpt'.base))
        /\ ckpt'.base <= Len(branch') /\ 1 <= Len(branch')
    BY <2>1, AppendResumes
  <2>3. \A t \in Ids : lock # t /\ pc[t] # "record"
    BY <2>1 DEF CrewInv, LockInv, Active, Holding
  <2> QED BY <2>1, <2>2, <2>3 DEF ResumeInv
<1>5. CASE OperatorDiscards
  <2>1. \A t \in Ids : lock # t /\ pc[t] # "record"
    BY <1>5 DEF OperatorDiscards, CrewInv, LockInv, Active, Holding
  <2> QED BY <1>5, <2>1 DEF OperatorDiscards, ResumeInv, crew, tail, run
<1>6. CASE UNCHANGED vars
  BY <1>6 DEF vars, disk, crew, tail, run, ResumeInv, SavedBase
<1> QED BY <1>1, <1>2, <1>3, <1>4, <1>5, <1>6, NextParts, StageResumes

\* Whatever fails or crashes, and however often the operator starts the feature
\* again: what the checkpoint calls done is behind the baseline that a resumed
\* run reviews and squashes from (engine.py, _record_progress and
\* _commit_if_approved).
THEOREM ResumableWorkHolds == Spec => []ResumableWork
<1>1. CrewInv /\ LockInv /\ WorkInv /\ ResumeInv /\ [Next]_vars
        => (CrewInv /\ LockInv /\ WorkInv /\ ResumeInv)'
  BY CrewInvStep, LockInvStep, WorkInvStep, ResumeInvStep
<1>2. ResumeInv => ResumableWork
  BY SinceIsSinceOf DEF ResumeInv, ResumableWork
<1> QED BY <1>1, <1>2, CrewInvInit, WorkInvInit, ResumeInvInit, PTL DEF Spec
-----------------------------------------------------------------------------
(* The ledger of finished work *)

\* An approval covers what will be squashed; documents, which come later, are
\* not followed; and the old head has all that the squash has taken apart.
VetInv ==
    /\ verdict = "approved" => phase \in {"artifacts", "commit", "squash", "finish"}
    /\ phase \in {"artifacts", "commit"} /\ verdict = "approved" =>
           Tracked(WorkOf(SinceOf(branch, base) \union tree)) \subseteq vetted
    /\ phase = "squash" =>
           /\ Tracked(WorkOf(staged \union tree)) \subseteq vetted
           /\ SinceOf(branch, 0) \union staged \subseteq SinceOf(head, 0)

Banked == Tracked(WorkOf(SinceOf(branch, 0) \union staged))

LEMMA WorkKept ==
    ASSUME NEW E, NEW F
    PROVE  /\ E \subseteq F => Tracked(WorkOf(E)) \subseteq Tracked(WorkOf(F))
           /\ Tracked(WorkOf(E \union F)) = Tracked(WorkOf(E)) \union Tracked(WorkOf(F))
BY DEF WorkOf, Tracked

LEMMA DocsUntracked == Tracked(WorkOf({Raw(Docs)})) = {}
BY DEF WorkOf, Tracked, Raw

LEMMA WorkTyped ==
    ASSUME NEW E \in SUBSET Edit
    PROVE  Tracked(WorkOf(E)) \subseteq [by : Ids \union {Visual}, run : 1..MaxRuns]
BY DEF WorkOf, Tracked, Edit, Author

LEMMA PrefixSince ==
    ASSUME NEW b \in Seq(Commit), NEW m \in Nat, m <= Len(b)
    PROVE  SinceOf(SubSeq(b, 1, m), 0) \union SinceOf(b, m) \subseteq SinceOf(b, 0)
<1>1. Len(SubSeq(b, 1, m)) = m /\ \A i \in 1..m : SubSeq(b, 1, m)[i] = b[i]
  OBVIOUS
<1>2. /\ \A i \in (0 + 1)..m : i \in 1..m /\ i \in (0 + 1)..Len(b)
      /\ \A i \in (m + 1)..Len(b) : i \in (0 + 1)..Len(b)
  OBVIOUS
<1> QED BY <1>1, <1>2 DEF SinceOf

LEMMA VetInvStep ==
    ASSUME CrewInv, LockInv, WorkInv, ResumeInv, VetInv, [Next]_vars PROVE VetInv'
<1>1. CASE \E t \in Ids : WorkerStep(t)
  <2>1. phase = "tasks" /\ phase' = "tasks"
    BY <1>1, WorkerMoves
  <2>2. verdict' = verdict
    BY <1>1 DEF WorkerStep, Launch, Attempt, Starve, Overspend, AgentError, EngineerAnswers,
                Integrate, Approve, Reject, SuiteWritten, GatesPass, GatesFail, Shelve,
                PassCheck, Unshelve, FailCheck, Bank, BankFails, Merge, MergePasses,
                MergeFails, MergeBreaks, Record, OutOfTries, tail
  <2> QED BY <2>1, <2>2 DEF VetInv
<1>2. CASE Stage
  <2> USE DEF tail, VetInv
  <2>1. CASE TasksEnd \/ ReplanStarves \/ EndRound \/ \E t \in Ids : ReplanTask(t)
    BY <2>1 DEF TasksEnd, CloseTasks, ReplanStarves, EndRound, ReplanTask
  <2>2. CASE \/ VisualDone \/ VisualFindings \/ FixRaises \/ FixKept \/ FixDropped
             \/ FixCommitFails \/ SecurityDies
    BY <2>2 DEF VisualDone, VisualFindings, FixRaises, FixKept, FixDropped, FixCommitFails,
                SecurityDies, Late
  <2>3. CASE SecurityReview
    <3>1. /\ phase' = "artifacts" /\ UNCHANGED <<branch, tree, base>>
          /\ verdict' = "approved" =>
                 vetted' = vetted \union WorkOf(SinceOf(branch, base) \union tree)
      BY <2>3, SinceIsSinceOf DEF SecurityReview, Late, run
    <3> QED BY <3>1 DEF Tracked
  <2>4. CASE Artifacts
    <3>1. /\ phase = "artifacts" /\ phase' = "commit" /\ UNCHANGED <<branch, verdict, base, vetted>>
          /\ tree' \in {tree, tree \union {Raw(Docs)}}
      BY <2>4 DEF Artifacts, Late, run, past
    <3>2. Tracked(WorkOf(SinceOf(branch, base) \union tree'))
            = Tracked(WorkOf(SinceOf(branch, base) \union tree))
      BY <3>1, WorkKept, DocsUntracked
    <3> QED BY <3>1, <3>2
  <2>5. CASE Withhold \/ Land \/ LandFails
    BY <2>5 DEF Withhold, Late, Land, LandFails
  <2>6. CASE Squash
    <3>1. /\ phase = "commit" /\ phase' = "squash" /\ verdict = "approved" /\ head' = branch
          /\ branch' = SubSeq(branch, 1, base) /\ staged' = SinceOf(branch, base)
          /\ UNCHANGED <<tree, vetted, verdict>>
      BY <2>6, SinceIsSinceOf DEF Squash, past
    <3>2. branch \in Seq(Commit) /\ base \in Nat /\ base <= Len(branch)
      BY <3>1 DEF WorkInv, Sound, ResumeInv
    <3>3. SinceOf(branch', 0) \union staged' \subseteq SinceOf(branch, 0)
      BY <3>1, <3>2, PrefixSince
    <3> QED BY <3>1, <3>3
  <2> QED BY <1>2, <2>1, <2>2, <2>3, <2>4, <2>5, <2>6 DEF Stage
<1>3. CASE Departure
  BY <1>3 DEF Departure, ReplanRaises, PlanHalts, Finish, Crash, Leave, VetInv
<1>4. CASE Opening
  BY <1>4, OpeningLeaves DEF VetInv
<1>5. CASE OperatorCommits \/ OperatorDiscards
  BY <1>5 DEF OperatorCommits, OperatorDiscards, VetInv, tail
<1>6. CASE UNCHANGED vars
  BY <1>6 DEF vars, disk, tail, run, past, VetInv
<1> QED BY <1>1, <1>2, <1>3, <1>4, <1>5, <1>6, NextParts

\* No step loses banked work, and but for the review and the feature commit
\* none does anything else.
BanksOnly == Banked \subseteq Banked' /\ UNCHANGED past

LEMMA AppendBanks ==
    ASSUME WorkInv, NEW E \in SUBSET Edit, NEW k \in {"user", "wip", "fix", "feature"},
           branch' = Committed(k, E), staged' = staged \/ (staged' = {} /\ staged \subseteq E)
    PROVE  Banked \subseteq Banked'
<1> DEFINE c == [kind |-> k, work |-> E]
<1>1. c \in Commit /\ c.work = E /\ branch \in Seq(Commit) /\ branch' = Append(branch, c)
  BY DEF Commit, WorkInv, Sound, Committed
<1> HIDE DEF c
<1>2. 0 <= Len(branch)
  BY <1>1
<1>3. SinceOf(branch, 0) \subseteq SinceOf(branch', 0) /\ E \subseteq SinceOf(branch', 0)
  BY <1>1, <1>2, SinceAppend
<1>4. SinceOf(branch, 0) \union staged \subseteq SinceOf(branch', 0) \union staged'
  BY <1>3
<1> QED BY <1>4, WorkKept DEF Banked

LEMMA WorkerBanks ==
    ASSUME CrewInv, LockInv, WorkInv, NEW t \in Ids, WorkerStep(t) PROVE BanksOnly
<1> USE DEF BanksOnly, past, disk, crew
<1>1. tree \in SUBSET Edit /\ Gated(tree) \in SUBSET Edit /\ UNCHANGED staged
  BY WorkerMoves, GatedIsGated DEF WorkInv
<1>2. CASE UNCHANGED branch /\ UNCHANGED past
  BY <1>1, <1>2 DEF Banked
<1>3. CASE Bank(t)
  BY <1>1, <1>3, AppendBanks DEF Bank
<1>4. CASE MergePasses(t)
  BY <1>1, <1>4, AppendBanks DEF MergePasses
<1>5. CASE Launch(t) \/ Attempt(t) \/ Starve(t) \/ Overspend(t) \/ AgentError(t)
  BY <1>2, <1>5 DEF Launch, Attempt, Starve, Overspend, AgentError, Abandon, Undo
<1>6. CASE EngineerAnswers(t) \/ Integrate(t) \/ Approve(t) \/ Reject(t) \/ SuiteWritten(t)
  BY <1>2, <1>6 DEF EngineerAnswers, Integrate, Approve, Reject, SuiteWritten, Abandon, Undo
<1>7. CASE \/ GatesPass(t) \/ GatesFail(t) \/ Shelve(t) \/ PassCheck(t) \/ Unshelve(t)
           \/ FailCheck(t)
  BY <1>2, <1>7 DEF GatesPass, GatesFail, Shelve, PassCheck, Unshelve, FailCheck, Undo
<1>8. CASE \/ BankFails(t) \/ Merge(t) \/ MergeFails(t) \/ MergeBreaks(t) \/ Record(t)
           \/ OutOfTries(t)
  BY <1>2, <1>8 DEF BankFails, Merge, MergeFails, MergeBreaks, Record, OutOfTries
<1> QED BY <1>3, <1>4, <1>5, <1>6, <1>7, <1>8 DEF WorkerStep

LEMMA StageBanks ==
    ASSUME CrewInv, LockInv, WorkInv, ResumeInv, VetInv, Stage, ~SecurityReview, ~Land
    PROVE  BanksOnly
<1> USE DEF BanksOnly, past, disk
<1>1. tree \in SUBSET Edit /\ Gated(tree) \in SUBSET Edit /\ branch \in Seq(Commit) /\ base \in Nat
  BY GatedIsGated DEF WorkInv, Sound
<1>2. CASE UNCHANGED <<branch, staged, past>>
  BY <1>2 DEF Banked
<1>3. CASE TasksEnd \/ ReplanStarves \/ EndRound \/ \E t \in Ids : ReplanTask(t)
  BY <1>2, <1>3 DEF TasksEnd, ReplanStarves, EndRound, ReplanTask
<1>4. CASE \/ VisualDone \/ VisualFindings \/ FixRaises \/ FixDropped \/ FixCommitFails
           \/ SecurityDies \/ Artifacts \/ Withhold
  BY <1>2, <1>4 DEF VisualDone, VisualFindings, FixRaises, FixDropped, FixCommitFails,
                    SecurityDies, Artifacts, Withhold, Late
<1>5. CASE FixKept
  <2>1. branch' = Committed("fix", Gated(tree)) /\ UNCHANGED <<staged, past>>
    BY <1>5 DEF FixKept, Late
  <2> QED BY <1>1, <2>1, AppendBanks
<1>6. CASE Squash
  <2>1. /\ staged = {} /\ branch' = SubSeq(branch, 1, base) /\ staged' = SinceOf(branch, base)
        /\ UNCHANGED past /\ base <= Len(branch)
    BY <1>6, SinceIsSinceOf DEF Squash, ResumeInv
  <2>2. SinceOf(branch, 0) \union staged \subseteq SinceOf(branch', 0) \union staged'
    BY <1>1, <2>1, SincePrefix
  <2> QED BY <2>1, <2>2, WorkKept DEF Banked
<1>7. CASE LandFails
  <2>1. /\ branch' = head /\ staged' = {} /\ UNCHANGED past
        /\ SinceOf(branch, 0) \union staged \subseteq SinceOf(head, 0)
    BY <1>7 DEF LandFails, VetInv
  <2>2. SinceOf(branch, 0) \union staged \subseteq SinceOf(branch', 0) \union staged'
    BY <2>1
  <2> QED BY <2>1, <2>2, WorkKept DEF Banked
<1> QED BY <1>3, <1>4, <1>5, <1>6, <1>7 DEF Stage
\* The feature commit ships what was staged and what lay in the working
\* directory, all of it approved.
LEMMA LandShips ==
    ASSUME WorkInv, VetInv, Land
    PROVE  \E W \in SUBSET Tracked(vetted) :
              Banked' = Banked \union W /\ shipped' = shipped \union W /\ UNCHANGED vetted
<1> DEFINE E == staged \union tree
           c == [kind |-> "feature", work |-> E]
           W == Tracked(WorkOf(E))
<1>1. /\ phase = "squash" /\ branch' = Append(branch, c) /\ staged' = {} /\ UNCHANGED vetted
      /\ shipped' = shipped \union W
  BY DEF Land, Committed, Tracked
<1>2. W \subseteq Tracked(vetted)
  BY <1>1 DEF VetInv, Tracked
<1>3. SinceOf(branch', 0) = SinceOf(branch, 0) \union E
  <2>1. branch \in Seq(Commit) /\ c \in Commit /\ c.work = E
    BY DEF WorkInv, Sound, Commit
  <2> HIDE DEF c
  <2>2. /\ Len(branch') = Len(branch) + 1 /\ branch'[Len(branch) + 1] = c
        /\ \A i \in 1..Len(branch) : branch'[i] = branch[i]
    BY <1>1, <2>1
  <2>3. \A i \in (0 + 1)..(Len(branch) + 1) :
           i = Len(branch) + 1 \/ (i \in 1..Len(branch) /\ i \in (0 + 1)..Len(branch))
    BY <2>1
  <2>4. /\ Len(branch) + 1 \in (0 + 1)..(Len(branch) + 1)
        /\ \A i \in (0 + 1)..Len(branch) : i \in (0 + 1)..(Len(branch) + 1) /\ i \in 1..Len(branch)
    BY <2>1
  <2> QED BY <2>1, <2>2, <2>3, <2>4 DEF SinceOf
<1>4. Banked' = Banked \union W
  <2>1. SinceOf(branch', 0) \union staged' = (SinceOf(branch, 0) \union staged) \union E
    BY <1>1, <1>3
  <2> QED BY <2>1, WorkKept DEF Banked
<1> QED BY <1>1, <1>2, <1>4

LEMMA LedgerInvInit == Init => VetInv /\ Ledger!LedgerInit
<1> SUFFICES ASSUME Init PROVE VetInv /\ Ledger!LedgerInit
  OBVIOUS
<1>1. Since(0) = {} /\ staged = {} /\ vetted = {} /\ shipped = {}
  BY DEF Init, Since
<1>2. Tracked(WorkOf(Since(0) \union staged)) = {} /\ Tracked(vetted) = {}
  BY <1>1 DEF WorkOf, Tracked
<1> QED BY <1>1, <1>2 DEF Init, VetInv, Ledger!LedgerInit

LEMMA LedgerStep ==
    ASSUME CrewInv, LockInv, WorkInv, WorkInv', ResumeInv, VetInv, [Next]_vars
    PROVE  [Ledger!LedgerNext]_(Ledger!ledgerVars)
<1> DEFINE Done == [by : Ids \union {Visual}, run : 1..MaxRuns]
<1>1. Since(0) = SinceOf(branch, 0) /\ Since(0)' = SinceOf(branch', 0)
  BY DEF Since, SinceOf
<1>2. Banked' \subseteq Done
  <2>1. Sound(branch') /\ staged' \subseteq Edit
    BY DEF WorkInv
  <2>2. SinceOf(branch', 0) \subseteq Edit
    <3>1. \A i \in (0 + 1)..Len(branch') : i \in 1..Len(branch')
      BY <2>1 DEF Sound
    <3>2. \A i \in 1..Len(branch') : branch'[i] \in Commit
      BY <2>1 DEF Sound
    <3> QED BY <3>1, <3>2 DEF SinceOf, Commit
  <2>3. SinceOf(branch', 0) \union staged' \in SUBSET Edit
    BY <2>1, <2>2
  <2> QED BY <2>3, WorkTyped DEF Banked
<1>3. ASSUME BanksOnly PROVE Ledger!LedgerNext
  <2>1. Banked' \in SUBSET Done /\ Banked' = Banked \union Banked' /\ UNCHANGED past
    BY <1>2, <1>3 DEF BanksOnly
  <2>2. Ledger!Bank
    BY <1>1, <2>1 DEF Ledger!Bank, Banked, past, Tracked
  <2> QED BY <2>2 DEF Ledger!LedgerNext
<1>4. CASE \E t \in Ids : WorkerStep(t)
  BY <1>3, <1>4, WorkerBanks
<1>5. CASE Stage /\ ~SecurityReview /\ ~Land
  BY <1>3, <1>5, StageBanks
<1>6. CASE SecurityReview
  <2>1. UNCHANGED <<branch, staged, shipped>>
    BY <1>6 DEF SecurityReview, Late
  <2>2. Since(base) \union tree \in SUBSET Edit
    BY SinceSound DEF WorkInv
  <2>3. PICK W \in SUBSET WorkOf(Since(base) \union tree) : vetted' = vetted \union W
    <3>1. \/ vetted' = vetted \union WorkOf(Since(base) \union tree)
          \/ vetted' = vetted \union {}
      BY <1>6 DEF SecurityReview
    <3> QED BY <3>1
  <2>4. Tracked(W) \in SUBSET Done /\ Tracked(vetted') = Tracked(vetted) \union Tracked(W)
    BY <2>2, <2>3, WorkTyped DEF Tracked
  <2>5. Ledger!Vet
    BY <1>1, <2>1, <2>4 DEF Ledger!Vet, Tracked
  <2> QED BY <2>5 DEF Ledger!LedgerNext
<1>7. CASE Land
  <2>1. Ledger!Ship
    BY <1>1, <1>7, LandShips DEF Ledger!Ship, Banked, Tracked
  <2> QED BY <2>1 DEF Ledger!LedgerNext
<1>8. CASE Departure \/ Opening \/ OperatorDiscards \/ UNCHANGED vars
  <2>1. UNCHANGED <<branch, staged, past>>
    BY <1>8, OpeningLeaves
       DEF Departure, ReplanRaises, PlanHalts, Finish, Crash, OperatorDiscards, vars, disk, past
  <2> QED BY <1>3, <2>1 DEF BanksOnly, Banked, past
<1>9. CASE OperatorCommits
  <2>1. /\ branch' = Committed("user", staged \union {e \in tree : e.gated}) /\ staged' = {}
        /\ UNCHANGED past /\ staged \union {e \in tree : e.gated} \in SUBSET Edit
    BY <1>9 DEF OperatorCommits, WorkInv
  <2> QED BY <1>3, <2>1, AppendBanks DEF BanksOnly
<1> QED BY <1>4, <1>5, <1>6, <1>7, <1>8, <1>9, NextParts

\* The engine implements the ledger: banked work stays on the branch, over
\* squashes, refused commits, crashes and new runs, and only work that an
\* approving security review has seen becomes the feature (engine.py,
\* _commit_if_approved).
THEOREM LedgerHolds == Spec => ImplementsLedger
<1>1. Init => CrewInv /\ LockInv /\ WorkInv /\ ResumeInv /\ VetInv
  BY CrewInvInit, WorkInvInit, ResumeInvInit, LedgerInvInit
<1>2. CrewInv /\ LockInv /\ WorkInv /\ ResumeInv /\ VetInv /\ [Next]_vars
        => (CrewInv /\ LockInv /\ WorkInv /\ ResumeInv /\ VetInv)'
  BY CrewInvStep, LockInvStep, WorkInvStep, ResumeInvStep, VetInvStep
<1>3. CrewInv /\ LockInv /\ WorkInv /\ WorkInv' /\ ResumeInv /\ VetInv /\ [Next]_vars
        => [Ledger!LedgerNext]_(Ledger!ledgerVars)
  BY LedgerStep
<1> QED BY <1>1, <1>2, <1>3, LedgerInvInit, PTL
        DEF Spec, ImplementsLedger, Ledger!LedgerSpec
=============================================================================
