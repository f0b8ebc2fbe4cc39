------------------------ MODULE TaskScheduler_proofs ------------------------
(***************************************************************************)
(* Theorems about the task scheduler for plans of every length, every      *)
(* dependency graph and every bound on concurrency.                        *)
(***************************************************************************)
EXTENDS TaskScheduler, FiniteSetTheorems, WellFoundedInduction, NaturalsInduction, TLAPS

\* What a turn relies on.  What runs is in flight, within the bound; only
\* launched tasks succeed or fail; a skipped one has its cause.
Bookkeeping ==
    /\ Running \subseteq inFlight
    /\ Cardinality(inFlight) <= MaxConcurrency
    /\ \A t \in Tasks : status[t] \in {"done", "failed"} => t \in started
    /\ \A t \in Tasks : status[t] = "skipped" =>
          /\ t \notin started
          /\ \E d \in deps[t] : status[d] \in {"failed", "skipped"}

TurnInv ==
    /\ TypeOK
    /\ Bookkeeping
    /\ BuildsOnDone
    /\ pc = "returned" => Open = {}
    /\ CycleIsReal

LEMMA FiniteFlight == TypeOK => IsFiniteSet(inFlight) /\ IsFiniteSet(Running)
<1> SUFFICES ASSUME TypeOK
             PROVE  IsFiniteSet(inFlight) /\ IsFiniteSet(Running)
  OBVIOUS
<1>1. IsFiniteSet(Tasks)
  BY SchedulerAssumption, FS_Interval DEF Tasks
<1>2. inFlight \subseteq Tasks /\ Running \subseteq Tasks
  BY DEF TypeOK, Running, Open
<1> QED
  BY <1>1, <1>2, FS_Subset

LEMMA InitTurn == Init => TurnInv
<1> SUFFICES ASSUME Init
             PROVE  TurnInv
  OBVIOUS
<1>1. Cardinality(inFlight) <= MaxConcurrency
  <2>1. Cardinality(inFlight) = 0
    BY FS_EmptySet DEF Init
  <2> QED
    BY <2>1, SchedulerAssumption
<1>2. TypeOK
  BY DEF Init, TypeOK
<1>3. Bookkeeping
  BY <1>1 DEF Init, Bookkeeping, Running
<1> QED
  BY <1>2, <1>3 DEF Init, TurnInv, BuildsOnDone, CycleIsReal

LEMMA SkipTurn ==
    ASSUME TurnInv, NEW t \in Tasks, Skip(t)
    PROVE  TurnInv'
<1>1. /\ pc = "turn"
      /\ t \in Tasks /\ status[t] = "open" /\ t \notin started
      /\ \E d \in deps[t] : status[d] \in {"failed", "skipped"}
      /\ status'[t] = "skipped"
      /\ \A u \in Tasks : u # t => status'[u] = status[u]
      /\ UNCHANGED <<deps, started, inFlight, pc, serving>>
  BY DEF Skip, Doomed, Fresh, Open, TurnInv, TypeOK
<1>2. TypeOK'
  BY DEF Skip, TurnInv, TypeOK
<1>3. Bookkeeping'
  <2>1. \A u \in Tasks : deps[u] \subseteq Tasks
    BY DEF TurnInv, TypeOK
  <2>2. Running' = Running
    BY <1>1 DEF Running, Open
  <2> QED
    BY <1>1, <2>1, <2>2 DEF TurnInv, Bookkeeping
<1>4. BuildsOnDone'
  BY <1>1 DEF TurnInv, TypeOK, BuildsOnDone
<1> QED
  BY <1>1, <1>2, <1>3, <1>4 DEF TurnInv, CycleIsReal

LEMMA LaunchTurn ==
    ASSUME TurnInv, NEW t \in Tasks, Launch(t)
    PROVE  TurnInv'
<1>1. /\ pc = "turn"
      /\ status[t] = "open" /\ t \notin started
      /\ \A d \in deps[t] : status[d] = "done"
      /\ started' = started \cup {t}
      /\ inFlight' = inFlight \cup {t}
      /\ UNCHANGED <<deps, status, pc, serving>>
  BY DEF Launch, Ready, Fresh, Open
<1>2. TypeOK'
  BY <1>1 DEF TurnInv, TypeOK
<1>3. Cardinality(inFlight') <= MaxConcurrency
  <2>1. IsFiniteSet(inFlight) /\ Cardinality(inFlight) < MaxConcurrency
    BY FiniteFlight DEF TurnInv, Launch, HasCapacity
  <2>2. /\ Cardinality(inFlight) \in Nat
        /\ \/ Cardinality(inFlight') = Cardinality(inFlight)
           \/ Cardinality(inFlight') = Cardinality(inFlight) + 1
    BY <1>1, <2>1, FS_CardinalityType, FS_AddElement
  <2> QED
    BY <2>1, <2>2, SchedulerAssumption
<1>4. Bookkeeping'
  BY <1>1, <1>3 DEF TurnInv, TypeOK, Bookkeeping, Running, Open
<1>5. BuildsOnDone'
  BY <1>1 DEF TurnInv, BuildsOnDone
<1> QED
  BY <1>1, <1>2, <1>4, <1>5 DEF TurnInv, CycleIsReal

\* The end of a turn, and the limit that may end the schedule instead.
LEMMA PauseTurn ==
    ASSUME TurnInv, Await \/ Return \/ Abort \/ ServeNextJob
    PROVE  TurnInv'
<1>1. /\ UNCHANGED <<deps, status, started, inFlight>>
      /\ pc' \in {"turn", "waiting", "returned", "aborted"}
      /\ pc' = "returned" => Open = {}
      /\ serving' \in BOOLEAN
  BY DEF Await, Return, Abort, ServeNextJob, TurnInv, TypeOK
<1> QED
  BY <1>1 DEF TurnInv, TypeOK, Bookkeeping, BuildsOnDone, CycleIsReal, Running, Open

LEMMA CycleTurn ==
    ASSUME TurnInv, RaiseCycle
    PROVE  TurnInv'
<1>1. UNCHANGED <<deps, status, started, inFlight, serving>> /\ pc' = "cycle"
  BY DEF RaiseCycle
<1>2. Running = {}
  BY DEF RaiseCycle, TurnInv, Bookkeeping
<1>3. Doomed = {} /\ Open # {} /\ Ready = {}
  <2>1. Cardinality(inFlight) = 0
    BY FS_EmptySet DEF RaiseCycle
  <2>2. HasCapacity
    BY <2>1, SchedulerAssumption DEF HasCapacity
  <2> QED
    BY <2>2 DEF RaiseCycle, Scanned
<1>4. ASSUME NEW t \in Open
      PROVE  deps[t] \cap Open # {}
  <2>1. t \in Fresh
    BY <1>2 DEF Fresh, Running
  <2>2. PICK d \in deps[t] : status[d] # "done"
    BY <1>3, <2>1 DEF Ready
  <2>3. status[d] \notin {"failed", "skipped"}
    BY <1>3, <2>1 DEF Doomed
  <2>4. d \in Tasks
    BY DEF TurnInv, TypeOK, Open
  <2> QED
    BY <2>2, <2>3, <2>4 DEF TurnInv, TypeOK, Open
<1> QED
  BY <1>1, <1>2, <1>3, <1>4
  DEF TurnInv, TypeOK, Bookkeeping, BuildsOnDone, CycleIsReal, Running, Open

LEMMA WakeTurn ==
    ASSUME TurnInv, Wake
    PROVE  TurnInv'
<1>1. /\ UNCHANGED <<deps, status, started, serving>>
      /\ pc' = "turn"
      /\ inFlight' = inFlight \cap Open
  BY DEF Wake
<1>2. Cardinality(inFlight') <= MaxConcurrency
  <2>1. IsFiniteSet(inFlight) /\ inFlight' \subseteq inFlight
    BY <1>1, FiniteFlight DEF TurnInv
  <2>2. /\ Cardinality(inFlight') <= Cardinality(inFlight)
        /\ Cardinality(inFlight') \in Nat /\ Cardinality(inFlight) \in Nat
    BY <2>1, FS_Subset, FS_CardinalityType
  <2> QED
    BY <2>2, SchedulerAssumption DEF TurnInv, Bookkeeping
<1> QED
  BY <1>1, <1>2
  DEF TurnInv, TypeOK, Bookkeeping, BuildsOnDone, CycleIsReal, Running, Open

LEMMA ResolveTurn ==
    ASSUME TurnInv, NEW t \in Tasks, NEW outcome \in {"done", "failed"},
           Resolve(t, outcome), pc # "cycle"
    PROVE  TurnInv'
<1>1. /\ t \in started /\ status[t] = "open"
      /\ status'[t] = outcome
      /\ \A u \in Tasks : u # t => status'[u] = status[u]
      /\ UNCHANGED <<deps, started, inFlight, pc, serving>>
  BY DEF Resolve, Running, Open, TurnInv, TypeOK
<1>2. TypeOK'
  BY DEF Resolve, TurnInv, TypeOK
<1>3. \A u \in Tasks : deps[u] \subseteq Tasks
  BY DEF TurnInv, TypeOK
<1>4. Open' \subseteq Open /\ Running' \subseteq Running
  BY <1>1 DEF Running, Open
<1>5. Bookkeeping'
  BY <1>1, <1>3, <1>4 DEF TurnInv, Bookkeeping
<1>6. BuildsOnDone'
  BY <1>1, <1>3 DEF TurnInv, TypeOK, BuildsOnDone
<1>7. pc' = "returned" => Open' = {}
  BY <1>1, <1>4 DEF TurnInv
<1> QED
  BY <1>1, <1>2, <1>5, <1>6, <1>7 DEF TurnInv, CycleIsReal

LEMMA NextTurn == TurnInv /\ [Next]_vars => TurnInv'
<1> SUFFICES ASSUME TurnInv, [Next]_vars
             PROVE  TurnInv'
  OBVIOUS
<1>1. CASE UNCHANGED vars
  BY <1>1
  DEF vars, TurnInv, TypeOK, Bookkeeping, BuildsOnDone, CycleIsReal, Running, Open
<1>2. CASE Turn
  BY <1>2, SkipTurn, LaunchTurn, PauseTurn, CycleTurn, WakeTurn DEF Turn
<1>3. ASSUME NEW t \in Tasks, NEW outcome \in {"done", "failed"}, Resolve(t, outcome)
      PROVE  TurnInv'
  <2>1. pc # "cycle"
    BY <1>3 DEF Resolve, TurnInv, CycleIsReal
  <2> QED
    BY <1>3, <2>1, ResolveTurn
<1>4. CASE Abort \/ ServeNextJob
  BY <1>4, PauseTurn
<1> QED
  BY <1>1, <1>2, <1>3, <1>4 DEF Next

LEMMA TurnsHold == Spec => []TurnInv
  BY InitTurn, NextTurn, PTL DEF Spec

\* Every variable stays in its type.
THEOREM TypeCorrect == Spec => []TypeOK
<1>1. TurnInv => TypeOK
  BY DEF TurnInv
<1> QED
  BY <1>1, TurnsHold, PTL

\* Never more than max_concurrency workers run.
THEOREM BoundedHolds == Spec => []Bounded
<1>1. TurnInv => Bounded
  <2> SUFFICES ASSUME TurnInv
               PROVE  Cardinality(Running) <= MaxConcurrency
    BY DEF Bounded
  <2>1. IsFiniteSet(inFlight) /\ Running \subseteq inFlight
    BY FiniteFlight DEF TurnInv, Bookkeeping
  <2>2. /\ Cardinality(Running) <= Cardinality(inFlight)
        /\ Cardinality(Running) \in Nat /\ Cardinality(inFlight) \in Nat
    BY <2>1, FS_Subset, FS_CardinalityType
  <2> QED
    BY <2>2, SchedulerAssumption DEF TurnInv, Bookkeeping
<1> QED
  BY <1>1, TurnsHold, PTL

\* A launched task builds on tasks that are done.
THEOREM BuildsOnDoneHolds == Spec => []BuildsOnDone
<1>1. TurnInv => BuildsOnDone
  BY DEF TurnInv
<1> QED
  BY <1>1, TurnsHold, PTL

\* The cascade skips exactly what a failure reaches.
THEOREM ExactCascadeHolds == Spec => []ExactCascade
<1>1. TurnInv => ExactCascade
  <2> SUFFICES ASSUME TurnInv, pc = "returned", NEW t \in Tasks,
                      NEW d \in deps[t], status[d] # "done"
               PROVE  status[t] = "skipped"
    BY DEF TurnInv, Bookkeeping, ExactCascade
  <2>1. t \notin started
    BY DEF TurnInv, BuildsOnDone
  <2>2. status[t] \notin {"open", "done", "failed"}
    BY <2>1 DEF TurnInv, Bookkeeping, Open
  <2> QED
    BY <2>2 DEF TurnInv, TypeOK
<1> QED
  BY <1>1, TurnsHold, PTL

\* A reported cycle is one: each remaining task waits for a remaining task.
THEOREM CycleIsRealHolds == Spec => []CycleIsReal
<1>1. TurnInv => CycleIsReal
  BY DEF TurnInv
<1> QED
  BY <1>1, TurnsHold, PTL

(***************************************************************************)
(* Plans that can be ordered.                                              *)
(***************************************************************************)

\* The order of the natural numbers has no infinite descent.
LEMMA NatOrder == IsWellFoundedOn({p \in Nat \X Nat : p[1] < p[2]}, Nat)
  BY NatLessThanWellFounded DEF OpToRel

\* Of tasks that each wait for one of them, none is of lowest rank.
LEMMA NoLowest ==
    ASSUME NEW S \in SUBSET Tasks, S # {}, NEW rank \in [Tasks -> Tasks]
    PROVE  \E t \in S : \A u \in S : ~ rank[u] < rank[t]
<1> DEFINE less  == {p \in Nat \X Nat : p[1] < p[2]}
           ranks == {rank[t] : t \in S}
<1>1. ranks \subseteq Nat /\ ranks # {}
  <2>1. Tasks \subseteq Nat
    BY DEF Tasks
  <2>2. \A t \in S : rank[t] \in Tasks
    OBVIOUS
  <2>3. \A r \in ranks : r \in Nat
    BY <2>1, <2>2
  <2>4. PICK t \in S : TRUE
    OBVIOUS
  <2>5. rank[t] \in ranks
    BY <2>4
  <2> QED
    BY <2>3, <2>5
<1>2. IsWellFoundedOn(less, Nat)
  BY NatOrder
<1>3. PICK low \in ranks : \A r \in ranks : <<r, low>> \notin less
  <2> HIDE DEF less, ranks
  <2> QED
    BY <1>1, <1>2, WFMin
<1>4. PICK t \in S : low = rank[t]
  BY <1>3
<1>5. ASSUME NEW u \in S
      PROVE  ~ rank[u] < rank[t]
  <2>1. rank[u] \in ranks /\ rank[u] \in Nat /\ low \in Nat
    BY <1>1, <1>3
  <2>2. <<rank[u], low>> \notin less
    <3> HIDE DEF less
    <3> QED
      BY <1>3, <2>1
  <2> QED
    BY <1>4, <2>1, <2>2 DEF less
<1> QED
  BY <1>5

\* A plan that can be ordered never ends in DependencyCycleError.
THEOREM SortableReturnsHolds == Spec => []SortableReturns
<1>1. TurnInv => SortableReturns
  <2> SUFFICES ASSUME TurnInv, pc = "cycle", NEW rank \in [Tasks -> Tasks],
                      \A t \in Tasks : \A d \in deps[t] : rank[d] < rank[t]
               PROVE  FALSE
    BY DEF SortableReturns, Sortable
  <2>1. Open \in SUBSET Tasks /\ Open # {}
    BY DEF TurnInv, CycleIsReal, Open
  <2>2. PICK t \in Open : \A u \in Open : ~ rank[u] < rank[t]
    BY <2>1, NoLowest
  <2>3. PICK d \in Open : d \in deps[t]
    BY DEF TurnInv, CycleIsReal
  <2> QED
    BY <2>1, <2>2, <2>3
<1> QED
  BY <1>1, TurnsHold, PTL

(***************************************************************************)
(* No slot is slept on.  That a spare slot is filled needs fairness; that  *)
(* schedule() only goes to sleep, and stays asleep, when it could launch   *)
(* nothing does not.                                                       *)
(***************************************************************************)

\* It awaits, and nothing that it awaits has ended.
Asleep == pc = "waiting" /\ inFlight \subseteq Open

NothingToLaunch == Asleep /\ Cardinality(inFlight) < MaxConcurrency => Ready = {}

LEMMA SleepStep ==
    ASSUME TurnInv, NothingToLaunch, [Next]_vars
    PROVE  NothingToLaunch'
<1> USE DEF NothingToLaunch, Asleep
<1>1. CASE Await
  BY <1>1 DEF Await, Scanned, HasCapacity, Ready, Fresh, Open
<1>2. ASSUME NEW t \in Tasks, NEW outcome \in {"done", "failed"}, Resolve(t, outcome)
      PROVE  NothingToLaunch'
  <2>1. t \in inFlight /\ inFlight' = inFlight /\ status'[t] = outcome
    BY <1>2 DEF Resolve, TurnInv, TypeOK, Bookkeeping
  <2> QED
    BY <2>1 DEF Open
<1>3. ASSUME NEW t \in Tasks, Skip(t) \/ Launch(t)
      PROVE  NothingToLaunch'
  BY <1>3 DEF Skip, Launch
<1>4. CASE RaiseCycle \/ Return \/ Wake \/ Abort \/ ServeNextJob
  BY <1>4 DEF RaiseCycle, Return, Wake, Abort, ServeNextJob
<1>5. CASE UNCHANGED vars
  BY <1>5 DEF vars, Ready, Fresh, Open
<1> QED
  BY <1>1, <1>2, <1>3, <1>4, <1>5 DEF Next, Turn

\* While a slot is spare, schedule() is in the middle of a turn or has one to
\* take: it never sleeps on a ready task (schedule(), its wait for the first
\* task that ends).
THEOREM SpareIsSeen == Spec => [](Spare => ~Asleep)
<1>1. Init => NothingToLaunch
  BY DEF Init, NothingToLaunch, Asleep
<1>2. TurnInv /\ NothingToLaunch => (Spare => ~Asleep)
  <2> SUFFICES ASSUME TurnInv, NothingToLaunch, Spare, Asleep
               PROVE  FALSE
    OBVIOUS
  <2>1. Running = inFlight
    BY DEF Asleep, Running, TurnInv, TypeOK, Bookkeeping
  <2> QED
    BY <2>1 DEF Spare, NothingToLaunch
<1> QED
  BY <1>1, <1>2, SleepStep, TurnsHold, PTL DEF Spec
=============================================================================
