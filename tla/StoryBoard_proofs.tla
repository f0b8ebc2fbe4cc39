-------------------------- MODULE StoryBoard_proofs --------------------------
(***************************************************************************)
(* Theorems about the story board, for every number of jobs and stories    *)
(* and every batch size.                                                   *)
(***************************************************************************)
EXTENDS StoryBoard, TLAPS, WellFoundedInduction, FiniteSetTheorems

(***************************************************************************)
(* Smallest and largest numbers.  The library states the well-foundedness  *)
(* of the natural numbers for a relation; minimal elements follow.         *)
(***************************************************************************)

\* The order of the natural numbers has no infinite descent.
LEMMA NatOrder == IsWellFoundedOn({p \in Nat \X Nat : p[1] < p[2]}, Nat)
BY NatLessThanWellFounded DEF OpToRel

\* A non-empty set of natural numbers has a smallest element.
LEMMA Smallest ==
    ASSUME NEW S, S \subseteq Nat, S # {}
    PROVE  \E x \in S : \A y \in S : x <= y
<1> DEFINE less == {p \in Nat \X Nat : p[1] < p[2]}
<1>1. IsWellFoundedOn(less, Nat)
  BY NatOrder
<1> HIDE DEF less
<1>2. PICK x \in S : \A y \in S : <<y, x>> \notin less
  BY <1>1, WFMin
<1>3. ASSUME NEW y \in S PROVE x <= y
  <2>1. x \in Nat /\ y \in Nat
    OBVIOUS
  <2>2. y < x => <<y, x>> \in less
    BY <2>1 DEF less
  <2> QED
    BY <1>2, <2>1, <2>2
<1> QED
  BY <1>3

\* A non-empty set of natural numbers up to some bound has a largest element.
LEMMA Largest ==
    ASSUME NEW n \in Nat, NEW S, S \subseteq 0..n, S # {}
    PROVE  \E x \in S : \A y \in S : x >= y
<1> DEFINE mirror == {k \in 0..n : n - k \in S}
<1>1. mirror # {} /\ mirror \subseteq Nat
  <2>1. PICK x \in S : TRUE
    OBVIOUS
  <2>2. n - x \in mirror
    BY <2>1
  <2>3. \A k \in mirror : k \in Nat
    OBVIOUS
  <2> HIDE DEF mirror
  <2> QED
    BY <2>2, <2>3
<1> HIDE DEF mirror
<1>2. PICK k \in mirror : \A y \in mirror : k <= y
  BY <1>1, Smallest
<1>3. n - k \in S /\ k \in 0..n
  BY DEF mirror
<1>4. ASSUME NEW y \in S PROVE n - k >= y
  <2>1. n - y \in mirror
    BY DEF mirror
  <2>2. k <= n - y
    BY <1>2, <2>1
  <2>3. y \in Nat /\ k \in Nat
    BY <1>3
  <2> QED
    BY <2>2, <2>3
<1> QED
  BY <1>3, <1>4

\* The number of a new story is positive and larger than every number in use.
LEMMA Minted ==
    ASSUME TypeOK
    PROVE  /\ NextStory \in Nat \ {0}
           /\ \A i \in cards : i < NextStory
<1> DEFINE used == cards \cup {0}
<1>1. used \subseteq 0..MaxStory /\ used # {} /\ MaxStory \in Nat
  BY BoardAssumption DEF TypeOK, Stories
<1> HIDE DEF used
<1>2. \E x \in used : \A y \in used : x >= y
  BY <1>1, Largest
<1>3. Max(used) \in used /\ \A y \in used : Max(used) >= y
  BY <1>2 DEF Max
<1>4. Max(used) \in Nat /\ \A y \in used : y \in Nat
  <2>1. \A y \in 0..MaxStory : y \in Nat
    BY <1>1
  <2> QED
    BY <1>1, <1>3, <2>1
<1>5. NextStory = Max(used) + 1
  BY DEF NextStory, used
<1>6. \A y \in used : y < Max(used) + 1
  BY <1>3, <1>4
<1> QED
  BY <1>4, <1>5, <1>6 DEF used

\* The smallest story of a batch is one of the batch.
LEMMA Picked ==
    ASSUME TypeOK, batch # {}
    PROVE  Min(batch) \in batch
<1>1. batch \subseteq Nat
  BY BoardAssumption DEF TypeOK, Stories
<1>2. \E x \in batch : \A y \in batch : x <= y
  BY <1>1, Smallest
<1> QED
  BY <1>2 DEF Min

(***************************************************************************)
(* Type correctness.                                                       *)
(***************************************************************************)

\* Filing cards keeps the types.
LEMMA FileTyped ==
    ASSUME TypeOK, NEW last \in Nat, NEW initial \in Statuses,
           NEW chained \in BOOLEAN, File(NextStory, last, initial, chained)
    PROVE  TypeOK'
<1>1. PICK first \in Nat \ {0} : first = NextStory
  BY Minted
<1>2. first..last \subseteq Stories
  BY <1>1, BoardAssumption DEF File, Stories
<1>3. cards' \subseteq Stories
  BY <1>1, <1>2 DEF File, TypeOK
<1>4. status' \in [Stories -> Statuses]
  BY <1>1 DEF File, TypeOK
<1>5. deps' \in [Stories -> SUBSET Stories]
  <2>1. \A i \in first..last : i > first => i - 1 \in Stories
    BY <1>1, <1>2, BoardAssumption DEF Stories
  <2> QED
    BY <1>1, <2>1 DEF File, TypeOK
<1>6. history' \in [Stories -> Histories]
  BY DEF File, TypeOK, Marked, Histories
<1> QED
  BY <1>3, <1>4, <1>5, <1>6 DEF File, TypeOK, jobVars, passVars

\* Every step keeps the types.
LEMMA TypeStep == TypeOK /\ [Next]_vars => TypeOK'
<1> SUFFICES ASSUME TypeOK, [Next]_vars PROVE TypeOK'
  OBVIOUS
<1> USE DEF boardVars, jobVars, passVars
<1>1. ASSUME NEW initial \in PersonStatuses, AddStory(initial) PROVE TypeOK'
  <2>1. NextStory \in Nat /\ initial \in Statuses
    BY Minted, BoardAssumption
  <2> QED
    BY <1>1, <2>1, FileTyped DEF AddStory
<1>2. ASSUME NEW size \in Stories, MergePlan(size) PROVE TypeOK'
  <2>1. NextStory + size - 1 \in Nat /\ "todo" \in Statuses
    BY Minted, BoardAssumption DEF Stories, Statuses
  <2> QED
    BY <1>2, <2>1, FileTyped DEF MergePlan
<1>3. ASSUME NEW i \in Stories, NEW new \in PersonStatuses, SetStatus(i, new)
      PROVE  TypeOK'
  BY <1>3, BoardAssumption DEF TypeOK, SetStatus, Marked, Histories
<1>4. ASSUME NEW i \in Stories, NEW on \in SUBSET Stories, SetDeps(i, on)
      PROVE  TypeOK'
  BY <1>4 DEF TypeOK, SetDeps
<1>5. ASSUME NEW i \in Stories, DeleteStory(i) PROVE TypeOK'
  BY <1>5 DEF TypeOK, DeleteStory, Marked, Histories, Statuses
<1>6. ASSUME NEW eligible \in SUBSET Stories, Select(eligible) PROVE TypeOK'
  BY <1>6 DEF TypeOK, Select, FirstOf
<1>7. ASSUME NEW j \in Jobs, SubmitNext(j) PROVE TypeOK'
  <2>1. Min(batch) \in Stories
    BY <1>7, Picked DEF SubmitNext, TypeOK
  <2> QED
    BY <1>7, <2>1 DEF TypeOK, SubmitNext, JobStates, Live
<1>8. ASSUME QueueFull PROVE TypeOK'
  BY <1>8 DEF TypeOK, QueueFull
<1>9. ASSUME Save PROVE TypeOK'
  <2>1. ASSUME NEW i \in Submitted
        PROVE  (CHOOSE j \in enqueued : storyOf[j] = i) \in Jobs
    BY DEF Submitted, TypeOK
  <2>2. deliveryJob' \in [Stories -> Jobs \cup {NoJob}]
    BY <1>9, <2>1 DEF Save, TypeOK
  <2> QED
    BY <1>9, <2>2 DEF TypeOK, Save, Statuses
<1>10. ASSUME SaveFails PROVE TypeOK'
  BY <1>10 DEF TypeOK, SaveFails, ForgetPass, Histories
<1>11. ASSUME NEW j \in Jobs, Compensate(j) PROVE TypeOK'
  BY <1>11 DEF TypeOK, Compensate, Withdraw, JobStates, Statuses
<1>12. ASSUME NEW j \in Jobs, Cancel(j) PROVE TypeOK'
  BY <1>12 DEF TypeOK, Cancel, Withdraw, JobStates, Statuses
<1>13. ASSUME NEW j \in Jobs, Start(j) PROVE TypeOK'
  BY <1>13 DEF TypeOK, Start, JobStates, Live
<1>14. ASSUME NEW j \in Jobs, NEW verdict \in Verdicts, Finish(j, verdict)
       PROVE  TypeOK'
  BY <1>14 DEF TypeOK, Finish, Verdicts, JobStates, Statuses
<1>15. ASSUME NEW j \in Jobs, WriteBack(j) PROVE TypeOK'
  BY <1>15 DEF TypeOK, WriteBack
<1>16. ASSUME NEW j \in Jobs, WriteBackFails(j) PROVE TypeOK'
  BY <1>16 DEF TypeOK, WriteBackFails
<1>17. ASSUME Restart PROVE TypeOK'
  BY <1>17 DEF TypeOK, Restart, ForgetPass, Histories, JobStates
<1>18. ASSUME UNCHANGED vars PROVE TypeOK'
  BY <1>18 DEF TypeOK, vars
<1> QED
  BY <1>1, <1>2, <1>3, <1>4, <1>5, <1>6, <1>7, <1>8, <1>9, <1>10, <1>11,
     <1>12, <1>13, <1>14, <1>15, <1>16, <1>17, <1>18 DEF Next

LEMMA InitTyped == Init => TypeOK
<1> SUFFICES ASSUME Init PROVE TypeOK
  OBVIOUS
<1>1. "todo" \in Statuses /\ "absent" \in JobStates
  BY DEF Statuses, JobStates
<1>2. history \in [Stories -> Histories]
  BY DEF Init, Histories
<1> QED
  BY <1>1, <1>2 DEF Init, TypeOK

\* The model's variables keep their types.
THEOREM TypeCorrect == Spec => []TypeOK
BY InitTyped, TypeStep, PTL DEF Spec

(***************************************************************************)
(* The dependency graph.                                                   *)
(***************************************************************************)

Sound == ValidEdges(deps)

\* New cards, chained or not, depend only on one another and downwards.
LEMMA FileSound ==
    ASSUME TypeOK, Sound, NEW last \in Nat, NEW initial, NEW chained \in BOOLEAN,
           File(NextStory, last, initial, chained)
    PROVE  Sound'
<1>1. PICK first \in Nat \ {0} : first = NextStory /\ \A i \in cards : i < first
  BY Minted
<1>2. cards' = cards \cup (first..last) /\ first..last \subseteq Stories
  BY <1>1, BoardAssumption DEF File, Stories
<1>3. \A i \in cards : i \notin first..last
  BY <1>1, BoardAssumption DEF TypeOK, Stories
<1>4. \A i \in cards : deps'[i] = deps[i]
  BY <1>1, <1>3 DEF File, TypeOK
<1>5. \A i \in first..last : /\ deps'[i] \subseteq {i - 1}
                             /\ i > first => i - 1 \in first..last
                             /\ ~(i > first) => deps'[i] = {}
  BY <1>1, <1>2 DEF File
<1>6. \A i \in cards' : deps'[i] \subseteq cards' \ {i}
  <2>1. \A i \in first..last : i - 1 # i
    BY <1>1
  <2> QED
    BY <1>2, <1>4, <1>5, <2>1 DEF Sound, ValidEdges
<1>7. ASSUME NEW set \in SUBSET cards', Stuck(set, deps') PROVE set = {}
  <2> DEFINE new == set \cap (first..last)
  <2>1. new = {}
    <3> SUFFICES ASSUME new # {} PROVE FALSE
      OBVIOUS
    <3>1. new \subseteq Nat
      BY <1>1
    <3> HIDE DEF new
    <3>2. PICK low \in new : \A i \in new : low <= i
      BY <3>1, Smallest
    <3>3. low \in set /\ low \in first..last
      BY DEF new
    <3>4. deps'[low] \cap set # {}
      BY <1>7, <3>3 DEF Stuck
    <3>5. low > first /\ low - 1 \in set
      BY <1>5, <3>3, <3>4
    <3>6. low - 1 \in new
      BY <1>5, <3>3, <3>5 DEF new
    <3> QED
      BY <3>1, <3>2, <3>6
  <2>2. set \subseteq cards
    BY <1>2, <2>1
  <2>3. Stuck(set, deps)
    BY <1>4, <1>7, <2>2 DEF Stuck
  <2> QED
    BY <2>2, <2>3 DEF Sound, ValidEdges
<1> QED
  BY <1>6, <1>7 DEF Sound, ValidEdges

\* Without the deleted card and the edges to it no cycle appears.
LEMMA DeleteSound ==
    ASSUME TypeOK, Sound, NEW i \in Stories, DeleteStory(i)
    PROVE  Sound'
<1>1. cards' = cards \ {i} /\ \A k \in cards' : deps'[k] = deps[k] \ {i}
  BY DEF DeleteStory, TypeOK
<1>2. \A k \in cards' : deps'[k] \subseteq cards' \ {k}
  BY <1>1 DEF Sound, ValidEdges
<1>3. ASSUME NEW set \in SUBSET cards', Stuck(set, deps') PROVE set = {}
  <2>1. Stuck(set, deps)
    BY <1>1, <1>3 DEF Stuck
  <2> QED
    BY <1>1, <2>1 DEF Sound, ValidEdges
<1> QED
  BY <1>2, <1>3 DEF Sound, ValidEdges

\* Every other step leaves the cards and their edges alone or validates them.
LEMMA SoundStep == TypeOK /\ Sound /\ [Next]_vars => Sound'
<1> SUFFICES ASSUME TypeOK, Sound, [Next]_vars PROVE Sound'
  OBVIOUS
<1>1. ASSUME NEW initial \in PersonStatuses, AddStory(initial) PROVE Sound'
  <2>1. NextStory \in Nat
    BY Minted
  <2> QED
    BY <1>1, <2>1, FileSound DEF AddStory
<1>2. ASSUME NEW size \in Stories, MergePlan(size) PROVE Sound'
  <2>1. NextStory + size - 1 \in Nat
    BY Minted, BoardAssumption DEF Stories
  <2> QED
    BY <1>2, <2>1, FileSound DEF MergePlan
<1>3. ASSUME NEW i \in Stories, NEW on \in SUBSET Stories, SetDeps(i, on)
      PROVE  Sound'
  BY <1>3 DEF SetDeps, Sound, ValidEdges
<1>4. ASSUME NEW i \in Stories, DeleteStory(i) PROVE Sound'
  BY <1>4, DeleteSound
<1>5. ASSUME UNCHANGED <<cards, deps>> PROVE Sound'
  BY <1>5 DEF Sound, ValidEdges
<1> QED
  BY <1>1, <1>2, <1>3, <1>4, <1>5
  DEF Next, SetStatus, Select, SubmitNext, QueueFull, Save, SaveFails, Compensate,
      Cancel, Start, Finish, WriteBack, WriteBackFails, Restart, vars, boardVars

\* In a sound graph the stories to do contain one that waits for none of them;
\* what it waits for is then satisfied, unless it is delivered or blocked.
LEMMA SoundNotWedged == TypeOK /\ Sound => NeverWedged
<1> SUFFICES ASSUME TypeOK, Sound,
                    NEW first \in cards, status[first] = "todo",
                    \A i \in cards : status[i] \notin {"in_progress", "blocked"}
             PROVE  Ready # {}
  BY DEF NeverWedged
<1> DEFINE todo == {i \in cards : status[i] = "todo"}
<1>1. ~Stuck(todo, deps)
  BY DEF Sound, ValidEdges
<1>2. PICK i \in todo : deps[i] \cap todo = {}
  BY <1>1 DEF Stuck
<1>3. \A d \in deps[i] : d \in cards /\ status[d] \in Satisfied
  BY <1>2 DEF Sound, ValidEdges, TypeOK, Statuses, Satisfied
<1> QED
  BY <1>2, <1>3 DEF Ready

\* A backlog with work left always has a story that is ready, being delivered
\* or blocked, however the board was edited.
THEOREM NotWedged == Spec => []NeverWedged
<1>1. Init => Sound
  BY DEF Init, Sound, ValidEdges, Stuck
<1>2. TypeOK /\ Sound => NeverWedged
  BY SoundNotWedged
<1> QED
  BY <1>1, <1>2, SoundStep, TypeCorrect, PTL DEF Spec

(***************************************************************************)
(* An order of delivery.  A graph without stuck sets can be numbered: some *)
(* story of a set waits for none of it and goes first.                     *)
(***************************************************************************)

\* A set of natural numbers with 0 and every successor is all of them.
LEMMA SetInduction ==
    ASSUME NEW T \in SUBSET Nat, 0 \in T, \A n \in T : n + 1 \in T
    PROVE  T = Nat
<1> SUFFICES ASSUME T # Nat PROVE FALSE
  OBVIOUS
<1> DEFINE rest == Nat \ T
<1>1. PICK x \in rest : \A y \in rest : x <= y
  BY Smallest
<1>2. x \in Nat /\ x # 0
  OBVIOUS
<1>3. x - 1 \in rest
  BY <1>2
<1> QED
  BY <1>1, <1>2, <1>3

Numbers(rank, set, n) ==
    rank \in [set -> 1..n] /\ \A i \in set : \A d \in deps[i] \cap set : rank[d] < rank[i]

LEMMA Numbered ==
    ASSUME Sound
    PROVE  \A n \in Nat : \A set \in SUBSET cards :
              IsFiniteSet(set) /\ Cardinality(set) = n => \E rank : Numbers(rank, set, n)
<1> DEFINE T == {n \in Nat : \A set \in SUBSET cards :
                    IsFiniteSet(set) /\ Cardinality(set) = n => \E rank : Numbers(rank, set, n)}
<1>1. 0 \in T
  <2> SUFFICES ASSUME NEW set \in SUBSET cards, IsFiniteSet(set), Cardinality(set) = 0
               PROVE  \E rank : Numbers(rank, set, 0)
    OBVIOUS
  <2>1. set = {}
    BY FS_EmptySet
  <2>2. Numbers([i \in {} |-> 1], set, 0)
    BY <2>1 DEF Numbers
  <2> QED
    BY <2>2
<1>2. ASSUME NEW n \in T PROVE n + 1 \in T
  <2> SUFFICES ASSUME NEW set \in SUBSET cards, IsFiniteSet(set), Cardinality(set) = n + 1
               PROVE  \E rank : Numbers(rank, set, n + 1)
    OBVIOUS
  <2>1. set # {}
    BY FS_EmptySet
  <2>2. PICK first \in set : deps[first] \cap set = {}
    BY <2>1 DEF Sound, ValidEdges, Stuck
  <2> DEFINE others == set \ {first}
  <2>3. IsFiniteSet(others) /\ Cardinality(others) = n
    BY <2>2, FS_RemoveElement
  <2>4. PICK r : Numbers(r, others, n)
    BY <2>3
  <2> DEFINE rank == [i \in set |-> IF i = first THEN 1 ELSE r[i] + 1]
  <2>5. \A i \in others : r[i] \in 1..n
    BY <2>4 DEF Numbers
  <2>6. rank \in [set -> 1..(n + 1)]
    BY <2>5
  <2>7. ASSUME NEW i \in set, NEW d \in deps[i] \cap set PROVE rank[d] < rank[i]
    <3>1. i \in others
      BY <2>2, <2>7
    <3>2. CASE d = first
      BY <2>5, <3>1, <3>2
    <3>3. CASE d # first
      <4>1. d \in deps[i] \cap others /\ r[d] < r[i]
        BY <2>4, <3>1, <3>3 DEF Numbers
      <4> QED
        BY <2>5, <3>1, <4>1
    <3> QED
      BY <3>2, <3>3
  <2>8. Numbers(rank, set, n + 1)
    <3> HIDE DEF rank
    <3> QED
      BY <2>6, <2>7 DEF Numbers
  <2> QED
    BY <2>8
<1>3. T = Nat
  <2>1. T \in SUBSET Nat
    OBVIOUS
  <2> HIDE DEF T
  <2> QED
    BY <1>1, <1>2, <2>1, SetInduction
<1> QED
  BY <1>3

LEMMA SoundIsOrdered == TypeOK /\ Sound => SoundGraph
<1> SUFFICES ASSUME TypeOK, Sound PROVE SoundGraph
  OBVIOUS
<1>1. \A i \in cards : deps[i] \subseteq cards
  BY DEF Sound, ValidEdges
<1>2. IsFiniteSet(Stories) /\ Cardinality(Stories) = MaxStory
  <2>1. 1 \in Int /\ MaxStory \in Int /\ MaxStory \in Nat
    BY BoardAssumption
  <2>2. /\ IsFiniteSet(1..MaxStory)
        /\ Cardinality(1..MaxStory) = IF 1 > MaxStory THEN 0 ELSE MaxStory - 1 + 1
    BY <2>1, FS_Interval, Zenon
  <2> QED
    BY <2>1, <2>2 DEF Stories
<1>3. IsFiniteSet(cards) /\ Cardinality(cards) \in Nat /\ Cardinality(cards) <= MaxStory
  BY <1>2, FS_Subset, FS_CardinalityType DEF TypeOK
<1>4. PICK rank : Numbers(rank, cards, Cardinality(cards))
  BY <1>3, Numbered
<1>5. rank \in [cards -> Stories]
  BY <1>3, <1>4, BoardAssumption DEF Numbers, Stories
<1>6. \A i \in cards : \A d \in deps[i] : rank[d] < rank[i]
  BY <1>1, <1>4 DEF Numbers
<1> QED
  BY <1>1, <1>5, <1>6 DEF SoundGraph

\* The graph in the file has no dangling edge, and its stories can be
\* delivered one after the other, however cards are added, merged in chains,
\* rewired and deleted.
THEOREM SoundGraphHolds == Spec => []SoundGraph
<1>1. Init => Sound
  BY DEF Init, Sound, ValidEdges, Stuck
<1> QED
  BY <1>1, SoundIsOrdered, SoundStep, TypeCorrect, PTL DEF Spec

-----------------------------------------------------------------------------
(***************************************************************************)
(* Theorems about the deliveries of stories: one attempt per story,        *)
(* in_progress backed by a job, verdicts that wait for a person, and       *)
(* submission of ready stories only.  They follow from one inductive       *)
(* invariant, AttemptInv.                                                  *)
(***************************************************************************)


\* The job may have run or may still write to its story: it is not one that
\* was cancelled and has said so.
Counts(j) ==
    /\ jobState[j] # "absent"
    /\ jobState[j] = "cancelled" => owed[j] # Nothing \/ j \in abandoned

\* What a job owes agrees with how it ended.
JobFacts ==
    \A j \in Jobs :
        /\ jobState[j] = "absent" => j \notin enqueued /\ j \notin recalled
        /\ jobState[j] = "absent" <=> storyOf[j] = NoStory
        /\ owed[j] # Nothing => jobState[j] \in {"succeeded", "failed", "cancelled"}
        /\ owed[j] \in {Nothing, "todo", "done", "blocked"}
        /\ owed[j] # Nothing => (owed[j] = "todo" <=> jobState[j] = "cancelled")
        /\ jobState[j] = "lost" => j \in abandoned
        /\ j \in abandoned => /\ owed[j] = Nothing
                              /\ jobState[j] \notin Live \cup {"absent"}

\* Inside a pass the board does not move and nothing submitted has reported;
\* outside there is no pass.
PassFacts ==
    /\ ~selecting => batch = {} /\ enqueued = {}
    /\ batch \subseteq Ready
    /\ \A j \in enqueued : /\ storyOf[j] \in cards \ batch
                           /\ status[storyOf[j]] = "todo"
                           /\ jobState[j] \in Live \/ owed[j] # Nothing

\* A job's story is in the file or was deleted.
StoryFacts ==
    \A j \in Jobs : storyOf[j] # NoStory
        => storyOf[j] \in cards \/ history[storyOf[j]] = "deleted"

\* The stories of a pass that was not saved are not the foreman's own.
RecallFacts == \A j \in recalled : history[storyOf[j]] # "own"

\* An own story has one job that counts, at most.
SingleJob ==
    \A j, k \in Jobs :
        storyOf[j] = storyOf[k] /\ Counts(j) /\ Counts(k) /\ storyOf[j] # NoStory
            /\ history[storyOf[j]] = "own" => j = k

\* It has none while it is still to do, but for the pass that submits it.
NoneWhenTodo ==
    \A j \in Jobs :
        Counts(j) /\ storyOf[j] \in cards /\ history[storyOf[j]] = "own"
            /\ status[storyOf[j]] = "todo" => j \in enqueued

\* And nothing more comes once it has its verdict.
Settled ==
    \A j \in Jobs :
        storyOf[j] \in cards /\ history[storyOf[j]] = "own"
            /\ status[storyOf[j]] \in {"done", "blocked", "declined"}
            => owed[j] = Nothing /\ jobState[j] \notin Live

AttemptInv ==
    /\ JobFacts
    /\ PassFacts
    /\ StoryFacts
    /\ RecallFacts
    /\ SingleJob
    /\ NoneWhenTodo
    /\ Settled
    /\ InProgressIsBacked

\* Filing cards keeps the invariant: no job has ever been submitted for the
\* number of a new card, unless its former bearer was deleted.
LEMMA FileKeeps ==
    ASSUME TypeOK, AttemptInv, LockFree,
           NEW last \in Nat, NEW initial \in Statuses, NEW chained \in BOOLEAN,
           initial = "todo" \/ last = NextStory,
           File(NextStory, last, initial, chained)
    PROVE  AttemptInv'
<1> USE DEF AttemptInv, boardVars, jobVars, passVars, NoStory, Nothing
<1>1. PICK first \in Nat \ {0} : first = NextStory /\ \A i \in cards : i < first
  BY Minted
<1>2. cards' = cards \cup (first..last) /\ first..last \subseteq Stories
  BY <1>1, BoardAssumption DEF File, Stories
<1>3. \A i \in cards : i \notin first..last /\ i \in Stories
  BY <1>1, BoardAssumption DEF TypeOK, Stories
<1>4. \A i \in cards : status'[i] = status[i] /\ history'[i] = history[i]
  BY <1>1, <1>2, <1>3 DEF File, Marked, TypeOK
<1>5. \A i \in first..last : /\ status'[i] = initial
                             /\ history'[i] \in {"own", "unsaved"} => initial = "todo"
  BY <1>1, <1>2 DEF File, Marked, TypeOK
<1>6. \A i \in Stories : /\ history[i] = "deleted" => history'[i] = "deleted"
                         /\ history'[i] = "own" => history[i] = "own"
                         /\ history'[i] \in {"own", "unsaved"} => history'[i] = history[i]
  BY DEF File, Marked, TypeOK
<1>7. UNCHANGED <<deliveryJob, jobVars, passVars>>
  BY DEF File
<1>8. \A j \in Jobs : storyOf[j] # NoStory => storyOf[j] \in Stories
  BY DEF TypeOK
<1>9. \A j \in Jobs : Counts(j)' = Counts(j)
  BY <1>7 DEF Counts
<1>10. JobFacts' /\ PassFacts'
  BY <1>7 DEF LockFree, JobFacts, PassFacts
<1>11. StoryFacts'
  BY <1>2, <1>4, <1>6, <1>7, <1>8 DEF StoryFacts
<1>12. RecallFacts'
  BY <1>6, <1>7, <1>8 DEF RecallFacts, JobFacts, TypeOK
<1>13. SingleJob'
  BY <1>6, <1>7, <1>8, <1>9 DEF SingleJob
<1>14. \A j \in Jobs : storyOf[j] \in cards' /\ history'[storyOf[j]] = "own"
                          => storyOf[j] \in cards
  BY <1>2, <1>6, <1>8 DEF StoryFacts, Stories
<1>15. NoneWhenTodo'
  BY <1>4, <1>7, <1>9, <1>14 DEF NoneWhenTodo
<1>16. Settled'
  BY <1>4, <1>7, <1>14 DEF Settled
<1>17. InProgressIsBacked'
  <2> SUFFICES ASSUME NEW i \in cards', status'[i] = "in_progress",
                      history'[i] \in {"own", "unsaved"}
               PROVE  \E j \in Jobs : /\ deliveryJob[i] = j
                                      /\ storyOf[j] = i
                                      /\ \/ jobState[j] \in Live
                                         \/ owed[j] # Nothing
                                         \/ j \in abandoned
    BY <1>7 DEF InProgressIsBacked
  <2>1. i \in cards
    BY <1>2, <1>5
  <2> QED
    BY <1>4, <2>1 DEF InProgressIsBacked
<1> QED
  BY <1>10, <1>11, <1>12, <1>13, <1>15, <1>16, <1>17

\* A person's status keeps the invariant.
LEMMA SetStatusKeeps ==
    ASSUME TypeOK, AttemptInv, NEW i \in Stories, NEW new \in PersonStatuses, SetStatus(i, new)
    PROVE  AttemptInv'
<1> USE DEF AttemptInv, TypeOK, boardVars, jobVars, passVars, LockFree, Nothing, NoStory, Live, Stories, Ready
<1>1. JobFacts'
  BY DEF JobFacts, PassFacts, SetStatus, Marked
<1>2. PassFacts'
  BY DEF JobFacts, PassFacts, StoryFacts, SetStatus, Marked
<1>3. StoryFacts'
  BY DEF StoryFacts, PassFacts, SetStatus, Marked
<1>4. RecallFacts'
  BY DEF RecallFacts, JobFacts, PassFacts, SetStatus, Marked
<1>5. SingleJob'
  BY DEF SingleJob, Counts, JobFacts, NoneWhenTodo, PassFacts, SetStatus, Marked
<1>6. NoneWhenTodo'
  BY DEF NoneWhenTodo, Counts, JobFacts, StoryFacts, SingleJob, PassFacts, RecallFacts, SetStatus, Marked
<1>7. Settled'
  BY DEF Settled, JobFacts, SingleJob, Counts, StoryFacts, PassFacts, SetStatus, Marked
<1>8. InProgressIsBacked'
  BY DEF InProgressIsBacked, JobFacts, PassFacts, SetStatus, Marked
<1> QED
  BY <1>1, <1>2, <1>3, <1>4, <1>5, <1>6, <1>7, <1>8

\* New edges keeps the invariant.
LEMMA SetDepsKeeps ==
    ASSUME TypeOK, AttemptInv, NEW i \in Stories, NEW on \in SUBSET Stories, SetDeps(i, on)
    PROVE  AttemptInv'
<1> USE DEF AttemptInv, TypeOK, boardVars, jobVars, passVars, LockFree, Nothing, NoStory, Live, Stories, Ready
<1>1. JobFacts'
  BY DEF JobFacts, PassFacts, SetDeps
<1>2. PassFacts'
  BY DEF JobFacts, PassFacts, StoryFacts, SetDeps
<1>3. StoryFacts'
  BY DEF StoryFacts, PassFacts, SetDeps
<1>4. RecallFacts'
  BY DEF RecallFacts, JobFacts, PassFacts, SetDeps
<1>5. SingleJob'
  BY DEF SingleJob, Counts, JobFacts, NoneWhenTodo, PassFacts, SetDeps
<1>6. NoneWhenTodo'
  BY DEF NoneWhenTodo, Counts, JobFacts, StoryFacts, SingleJob, PassFacts, RecallFacts, SetDeps
<1>7. Settled'
  BY DEF Settled, JobFacts, SingleJob, Counts, StoryFacts, PassFacts, SetDeps
<1>8. InProgressIsBacked'
  BY DEF InProgressIsBacked, JobFacts, PassFacts, SetDeps
<1> QED
  BY <1>1, <1>2, <1>3, <1>4, <1>5, <1>6, <1>7, <1>8

\* A deletion keeps the invariant.
LEMMA DeleteKeeps ==
    ASSUME TypeOK, AttemptInv, NEW i \in Stories, DeleteStory(i)
    PROVE  AttemptInv'
<1> USE DEF AttemptInv, TypeOK, boardVars, jobVars, passVars, LockFree, Nothing, NoStory, Live, Stories, Ready
<1>1. JobFacts'
  BY DEF JobFacts, PassFacts, DeleteStory, Marked
<1>2. PassFacts'
  BY DEF JobFacts, PassFacts, StoryFacts, DeleteStory, Marked
<1>3. StoryFacts'
  BY DEF StoryFacts, PassFacts, DeleteStory, Marked
<1>4. RecallFacts'
  BY DEF RecallFacts, JobFacts, PassFacts, DeleteStory, Marked
<1>5. SingleJob'
  BY DEF SingleJob, Counts, JobFacts, NoneWhenTodo, PassFacts, DeleteStory, Marked
<1>6. NoneWhenTodo'
  BY DEF NoneWhenTodo, Counts, JobFacts, StoryFacts, SingleJob, PassFacts, RecallFacts, DeleteStory, Marked
<1>7. Settled'
  BY DEF Settled, JobFacts, SingleJob, Counts, StoryFacts, PassFacts, DeleteStory, Marked
<1>8. InProgressIsBacked'
  BY DEF InProgressIsBacked, JobFacts, PassFacts, DeleteStory, Marked
<1> QED
  BY <1>1, <1>2, <1>3, <1>4, <1>5, <1>6, <1>7, <1>8

\* The selection keeps the invariant.
LEMMA SelectKeeps ==
    ASSUME TypeOK, AttemptInv, NEW eligible \in SUBSET Stories, Select(eligible)
    PROVE  AttemptInv'
<1> USE DEF AttemptInv, TypeOK, boardVars, jobVars, passVars, LockFree, Nothing, NoStory, Live, Stories, Ready
<1>1. JobFacts'
  BY DEF JobFacts, PassFacts, Select, FirstOf
<1>2. PassFacts'
  BY DEF JobFacts, PassFacts, StoryFacts, Select, FirstOf
<1>3. StoryFacts'
  BY DEF StoryFacts, PassFacts, Select, FirstOf
<1>4. RecallFacts'
  BY DEF RecallFacts, JobFacts, PassFacts, Select, FirstOf
<1>5. SingleJob'
  BY DEF SingleJob, Counts, JobFacts, NoneWhenTodo, PassFacts, Select, FirstOf
<1>6. NoneWhenTodo'
  BY DEF NoneWhenTodo, Counts, JobFacts, StoryFacts, SingleJob, PassFacts, RecallFacts, Select, FirstOf
<1>7. Settled'
  BY DEF Settled, JobFacts, SingleJob, Counts, StoryFacts, PassFacts, Select, FirstOf
<1>8. InProgressIsBacked'
  BY DEF InProgressIsBacked, JobFacts, PassFacts, Select, FirstOf
<1> QED
  BY <1>1, <1>2, <1>3, <1>4, <1>5, <1>6, <1>7, <1>8

\* A submission keeps the invariant: a story of the batch is still to do, so
\* no job counts for it but those of the pass, and those are for others.
LEMMA SubmitKeeps ==
    ASSUME TypeOK, AttemptInv, NEW j \in Jobs, SubmitNext(j)
    PROVE  AttemptInv'
<1> USE DEF AttemptInv, boardVars, jobVars, passVars, NoStory, Nothing
<1>1. PICK i \in batch : i = Min(batch)
  BY Picked DEF SubmitNext
<1>2. i \in Ready /\ i \in cards /\ i \in Stories /\ i # NoStory
  BY <1>1, BoardAssumption DEF PassFacts, Ready, TypeOK, Stories
<1>3. /\ status[i] = "todo"
      /\ \A k \in enqueued : storyOf[k] # i
  BY <1>1, <1>2 DEF PassFacts, Ready
<1>4. /\ jobState' = [jobState EXCEPT ![j] = "queued"]
      /\ storyOf' = [storyOf EXCEPT ![j] = i]
      /\ batch' = batch \ {i}
      /\ enqueued' = enqueued \cup {j}
      /\ UNCHANGED <<boardVars, owed, abandoned, selecting, recalled, uncancellable>>
      /\ selecting
      /\ jobState[j] = "absent"
  BY <1>1 DEF SubmitNext
<1>5. \A k \in Jobs \ {j} : Counts(k)' = Counts(k)
  BY <1>4 DEF Counts, TypeOK
<1>6. owed[j] = Nothing /\ j \notin enqueued /\ j \notin recalled
  BY <1>4 DEF JobFacts
<1>7. JobFacts'
  BY <1>2, <1>4, <1>6 DEF JobFacts, TypeOK
<1>8. PassFacts'
  BY <1>2, <1>3, <1>4 DEF PassFacts, TypeOK, Ready, Live
<1>9. StoryFacts'
  BY <1>2, <1>4 DEF StoryFacts, TypeOK
<1>10. RecallFacts'
  BY <1>4, <1>6 DEF RecallFacts, TypeOK
<1>11. ASSUME NEW k \in Jobs \ {j}, Counts(k), storyOf[k] = i, history[i] = "own"
       PROVE  FALSE
  BY <1>2, <1>3, <1>11 DEF NoneWhenTodo
<1>12. SingleJob'
  BY <1>4, <1>5, <1>11 DEF SingleJob, TypeOK
<1>13. NoneWhenTodo'
  BY <1>4, <1>5 DEF NoneWhenTodo, TypeOK
<1>14. Settled'
  BY <1>3, <1>4 DEF Settled, TypeOK
<1>15. InProgressIsBacked'
  <2> SUFFICES ASSUME NEW m \in cards, status[m] = "in_progress",
                      history[m] \in {"own", "unsaved"}
               PROVE  \E k \in Jobs : /\ deliveryJob[m] = k
                                      /\ storyOf'[k] = m
                                      /\ \/ jobState'[k] \in Live
                                         \/ owed[k] # Nothing
                                         \/ k \in abandoned
    BY <1>4 DEF InProgressIsBacked
  <2>1. PICK k \in Jobs : /\ deliveryJob[m] = k
                          /\ storyOf[k] = m
                          /\ jobState[k] \in Live \/ owed[k] # Nothing \/ k \in abandoned
    BY DEF InProgressIsBacked
  <2>2. k # j
    BY <1>4, <1>6, <2>1 DEF JobFacts, Live
  <2> QED
    BY <1>4, <2>1, <2>2 DEF TypeOK
<1> QED
  BY <1>7, <1>8, <1>9, <1>10, <1>12, <1>13, <1>14, <1>15

\* A full queue keeps the invariant.
LEMMA FullKeeps ==
    ASSUME TypeOK, AttemptInv, QueueFull
    PROVE  AttemptInv'
<1> USE DEF AttemptInv, TypeOK, boardVars, jobVars, passVars, LockFree, Nothing, NoStory, Live, Stories, Ready
<1>1. JobFacts'
  BY DEF JobFacts, PassFacts, QueueFull
<1>2. PassFacts'
  BY DEF JobFacts, PassFacts, StoryFacts, QueueFull
<1>3. StoryFacts'
  BY DEF StoryFacts, PassFacts, QueueFull
<1>4. RecallFacts'
  BY DEF RecallFacts, JobFacts, PassFacts, QueueFull
<1>5. SingleJob'
  BY DEF SingleJob, Counts, JobFacts, NoneWhenTodo, PassFacts, QueueFull
<1>6. NoneWhenTodo'
  BY DEF NoneWhenTodo, Counts, JobFacts, StoryFacts, SingleJob, PassFacts, RecallFacts, QueueFull
<1>7. Settled'
  BY DEF Settled, JobFacts, SingleJob, Counts, StoryFacts, PassFacts, QueueFull
<1>8. InProgressIsBacked'
  BY DEF InProgressIsBacked, JobFacts, PassFacts, QueueFull
<1> QED
  BY <1>1, <1>2, <1>3, <1>4, <1>5, <1>6, <1>7, <1>8

\* A saved pass keeps the invariant.
LEMMA SaveKeeps ==
    ASSUME TypeOK, AttemptInv, Save
    PROVE  AttemptInv'
<1> USE DEF AttemptInv, TypeOK, boardVars, jobVars, passVars, LockFree, Nothing, NoStory, Live, Stories, Ready
<1>1. JobFacts'
  BY DEF JobFacts, PassFacts, Save, Submitted
<1>2. PassFacts'
  BY DEF JobFacts, PassFacts, StoryFacts, Save, Submitted
<1>3. StoryFacts'
  BY DEF StoryFacts, PassFacts, Save, Submitted
<1>4. RecallFacts'
  BY DEF RecallFacts, JobFacts, PassFacts, Save, Submitted
<1>5. SingleJob'
  BY DEF SingleJob, Counts, JobFacts, NoneWhenTodo, PassFacts, Save, Submitted
<1>6. NoneWhenTodo'
  BY DEF NoneWhenTodo, Counts, JobFacts, StoryFacts, SingleJob, PassFacts, RecallFacts, Save, Submitted
<1>7. Settled'
  BY DEF Settled, JobFacts, SingleJob, Counts, StoryFacts, PassFacts, Save, Submitted
<1>8. InProgressIsBacked'
  BY DEF InProgressIsBacked, JobFacts, PassFacts, Save, Submitted
<1> QED
  BY <1>1, <1>2, <1>3, <1>4, <1>5, <1>6, <1>7, <1>8

\* A pass that is not saved keeps the invariant.
LEMMA SaveFailsKeeps ==
    ASSUME TypeOK, AttemptInv, SaveFails
    PROVE  AttemptInv'
<1> USE DEF AttemptInv, TypeOK, boardVars, jobVars, passVars, LockFree, Nothing, NoStory, Live, Stories, Ready
<1>1. JobFacts'
  BY DEF JobFacts, PassFacts, SaveFails, ForgetPass, Submitted
<1>2. PassFacts'
  BY DEF JobFacts, PassFacts, StoryFacts, SaveFails, ForgetPass, Submitted
<1>3. StoryFacts'
  BY DEF StoryFacts, PassFacts, SaveFails, ForgetPass, Submitted
<1>4. RecallFacts'
  BY DEF RecallFacts, JobFacts, PassFacts, SaveFails, ForgetPass, Submitted
<1>5. SingleJob'
  BY DEF SingleJob, Counts, JobFacts, NoneWhenTodo, PassFacts, SaveFails, ForgetPass, Submitted
<1>6. NoneWhenTodo'
  BY DEF NoneWhenTodo, Counts, JobFacts, StoryFacts, SingleJob, PassFacts, RecallFacts, SaveFails, ForgetPass, Submitted
<1>7. Settled'
  BY DEF Settled, JobFacts, SingleJob, Counts, StoryFacts, PassFacts, SaveFails, ForgetPass, Submitted
<1>8. InProgressIsBacked'
  BY DEF InProgressIsBacked, JobFacts, PassFacts, SaveFails, ForgetPass, Submitted
<1> QED
  BY <1>1, <1>2, <1>3, <1>4, <1>5, <1>6, <1>7, <1>8

\* A compensation keeps the invariant.
LEMMA CompensateKeeps ==
    ASSUME TypeOK, AttemptInv, NEW j \in Jobs, Compensate(j)
    PROVE  AttemptInv'
<1> USE DEF AttemptInv, TypeOK, boardVars, jobVars, passVars, LockFree, Nothing, NoStory, Live, Stories, Ready
<1>1. JobFacts'
  BY DEF JobFacts, PassFacts, Compensate, Withdraw
<1>2. PassFacts'
  BY DEF JobFacts, PassFacts, StoryFacts, Compensate, Withdraw
<1>3. StoryFacts'
  BY DEF StoryFacts, PassFacts, Compensate, Withdraw
<1>4. RecallFacts'
  BY DEF RecallFacts, JobFacts, PassFacts, Compensate, Withdraw
<1>5. SingleJob'
  BY DEF SingleJob, Counts, JobFacts, NoneWhenTodo, PassFacts, Compensate, Withdraw
<1>6. NoneWhenTodo'
  BY DEF NoneWhenTodo, Counts, JobFacts, StoryFacts, SingleJob, PassFacts, RecallFacts, Compensate, Withdraw
<1>7. Settled'
  BY DEF Settled, JobFacts, SingleJob, Counts, StoryFacts, PassFacts, Compensate, Withdraw
<1>8. InProgressIsBacked'
  BY DEF InProgressIsBacked, JobFacts, PassFacts, Compensate, Withdraw
<1> QED
  BY <1>1, <1>2, <1>3, <1>4, <1>5, <1>6, <1>7, <1>8

\* A cancellation keeps the invariant.
LEMMA CancelKeeps ==
    ASSUME TypeOK, AttemptInv, NEW j \in Jobs, Cancel(j)
    PROVE  AttemptInv'
<1> USE DEF AttemptInv, TypeOK, boardVars, jobVars, passVars, LockFree, Nothing, NoStory, Live, Stories, Ready
<1>1. JobFacts'
  BY DEF JobFacts, PassFacts, Cancel, Withdraw
<1>2. PassFacts'
  BY DEF JobFacts, PassFacts, StoryFacts, Cancel, Withdraw
<1>3. StoryFacts'
  BY DEF StoryFacts, PassFacts, Cancel, Withdraw
<1>4. RecallFacts'
  BY DEF RecallFacts, JobFacts, PassFacts, Cancel, Withdraw
<1>5. SingleJob'
  BY DEF SingleJob, Counts, JobFacts, NoneWhenTodo, PassFacts, Cancel, Withdraw
<1>6. NoneWhenTodo'
  BY DEF NoneWhenTodo, Counts, JobFacts, StoryFacts, SingleJob, PassFacts, RecallFacts, Cancel, Withdraw
<1>7. Settled'
  BY DEF Settled, JobFacts, SingleJob, Counts, StoryFacts, PassFacts, Cancel, Withdraw
<1>8. InProgressIsBacked'
  BY DEF InProgressIsBacked, JobFacts, PassFacts, Cancel, Withdraw
<1> QED
  BY <1>1, <1>2, <1>3, <1>4, <1>5, <1>6, <1>7, <1>8

\* A start keeps the invariant.
LEMMA StartKeeps ==
    ASSUME TypeOK, AttemptInv, NEW j \in Jobs, Start(j)
    PROVE  AttemptInv'
<1> USE DEF AttemptInv, TypeOK, boardVars, jobVars, passVars, LockFree, Nothing, NoStory, Live, Stories, Ready
<1>1. JobFacts'
  BY DEF JobFacts, PassFacts, Start
<1>2. PassFacts'
  BY DEF JobFacts, PassFacts, StoryFacts, Start
<1>3. StoryFacts'
  BY DEF StoryFacts, PassFacts, Start
<1>4. RecallFacts'
  BY DEF RecallFacts, JobFacts, PassFacts, Start
<1>5. SingleJob'
  BY DEF SingleJob, Counts, JobFacts, NoneWhenTodo, PassFacts, Start
<1>6. NoneWhenTodo'
  BY DEF NoneWhenTodo, Counts, JobFacts, StoryFacts, SingleJob, PassFacts, RecallFacts, Start
<1>7. Settled'
  BY DEF Settled, JobFacts, SingleJob, Counts, StoryFacts, PassFacts, Start
<1>8. InProgressIsBacked'
  BY DEF InProgressIsBacked, JobFacts, PassFacts, Start
<1> QED
  BY <1>1, <1>2, <1>3, <1>4, <1>5, <1>6, <1>7, <1>8

\* An end keeps the invariant.
LEMMA FinishKeeps ==
    ASSUME TypeOK, AttemptInv, NEW j \in Jobs, NEW verdict \in Verdicts, Finish(j, verdict)
    PROVE  AttemptInv'
<1> USE DEF AttemptInv, TypeOK, boardVars, jobVars, passVars, LockFree, Nothing, NoStory, Live, Stories, Ready
<1>1. JobFacts'
  BY DEF JobFacts, PassFacts, Finish, Verdicts
<1>2. PassFacts'
  BY DEF JobFacts, PassFacts, StoryFacts, Finish, Verdicts
<1>3. StoryFacts'
  BY DEF StoryFacts, PassFacts, Finish, Verdicts
<1>4. RecallFacts'
  BY DEF RecallFacts, JobFacts, PassFacts, Finish, Verdicts
<1>5. SingleJob'
  BY DEF SingleJob, Counts, JobFacts, NoneWhenTodo, PassFacts, Finish, Verdicts
<1>6. NoneWhenTodo'
  BY DEF NoneWhenTodo, Counts, JobFacts, StoryFacts, SingleJob, PassFacts, RecallFacts, Finish, Verdicts
<1>7. Settled'
  BY DEF Settled, JobFacts, SingleJob, Counts, StoryFacts, PassFacts, Finish, Verdicts
<1>8. InProgressIsBacked'
  BY DEF InProgressIsBacked, JobFacts, PassFacts, Finish, Verdicts
<1> QED
  BY <1>1, <1>2, <1>3, <1>4, <1>5, <1>6, <1>7, <1>8

\* A write-back keeps the invariant: on an own story it is the only job that
\* counts, so its verdict is the last word.
LEMMA WriteBackKeeps ==
    ASSUME TypeOK, AttemptInv, NEW j \in Jobs, WriteBack(j)
    PROVE  AttemptInv'
<1> USE DEF AttemptInv, boardVars, jobVars, passVars, NoStory, Nothing
<1>1. /\ owed[j] # Nothing
      /\ owed[j] \in {"todo", "done", "blocked"}
      /\ jobState[j] \in {"succeeded", "failed", "cancelled"}
      /\ owed[j] = "todo" <=> jobState[j] = "cancelled"
      /\ storyOf[j] \in Stories
      /\ Counts(j)
  BY DEF WriteBack, JobFacts, Counts, TypeOK
<1>2. /\ ~selecting /\ batch = {} /\ enqueued = {}
      /\ owed' = [owed EXCEPT ![j] = Nothing]
      /\ UNCHANGED <<cards, deps, history, jobState, storyOf, abandoned, passVars>>
  BY DEF WriteBack, LockFree, PassFacts
<1>3. \A i \in cards : i # storyOf[j] =>
        status'[i] = status[i] /\ deliveryJob'[i] = deliveryJob[i]
  BY <1>1 DEF WriteBack, TypeOK
<1>4. storyOf[j] \in cards => status'[storyOf[j]] = owed[j]
  BY <1>1 DEF WriteBack, TypeOK
<1>5. \A k \in Jobs : /\ k # j => Counts(k)' = Counts(k)
                      /\ Counts(k)' => Counts(k)
  BY <1>1, <1>2 DEF Counts, TypeOK
<1>6. JobFacts' /\ StoryFacts' /\ RecallFacts'
  BY <1>2 DEF JobFacts, StoryFacts, RecallFacts, TypeOK
<1>7. PassFacts'
  BY <1>2 DEF PassFacts
<1>8. SingleJob'
  BY <1>2, <1>5 DEF SingleJob
<1>9. ASSUME NEW k \in Jobs, storyOf[k] = storyOf[j], k # j,
             history[storyOf[j]] = "own"
      PROVE  ~Counts(k)
  BY <1>1, <1>9, BoardAssumption DEF SingleJob, Stories
<1>10. owed[j] = "todo" /\ j \notin abandoned => ~Counts(j)'
  BY <1>1, <1>2 DEF Counts, TypeOK
<1>11. NoneWhenTodo'
  BY <1>1, <1>2, <1>3, <1>4, <1>5, <1>9, <1>10 DEF NoneWhenTodo, JobFacts
<1>12. \A k \in Jobs : ~Counts(k) =>
          /\ jobState[k] \notin Live
          /\ owed[k] = Nothing
  BY DEF Counts, JobFacts, Live
<1>13. Settled'
  BY <1>1, <1>2, <1>3, <1>4, <1>9, <1>12 DEF Settled, TypeOK, Live
<1>14. InProgressIsBacked'
  BY <1>1, <1>2, <1>3, <1>4 DEF InProgressIsBacked, TypeOK
<1> QED
  BY <1>6, <1>7, <1>8, <1>11, <1>13, <1>14

\* A lost write-back keeps the invariant.
LEMMA WriteBackFailsKeeps ==
    ASSUME TypeOK, AttemptInv, NEW j \in Jobs, WriteBackFails(j)
    PROVE  AttemptInv'
<1> USE DEF AttemptInv, TypeOK, boardVars, jobVars, passVars, LockFree, Nothing, NoStory, Live, Stories, Ready
<1>1. JobFacts'
  BY DEF JobFacts, PassFacts, WriteBackFails
<1>2. PassFacts'
  BY DEF JobFacts, PassFacts, StoryFacts, WriteBackFails
<1>3. StoryFacts'
  BY DEF StoryFacts, PassFacts, WriteBackFails
<1>4. RecallFacts'
  BY DEF RecallFacts, JobFacts, PassFacts, WriteBackFails
<1>5. SingleJob'
  BY DEF SingleJob, Counts, JobFacts, NoneWhenTodo, PassFacts, WriteBackFails
<1>6. NoneWhenTodo'
  BY DEF NoneWhenTodo, Counts, JobFacts, StoryFacts, SingleJob, PassFacts, RecallFacts, WriteBackFails
<1>7. Settled'
  BY DEF Settled, JobFacts, SingleJob, Counts, StoryFacts, PassFacts, WriteBackFails
<1>8. InProgressIsBacked'
  BY DEF InProgressIsBacked, JobFacts, PassFacts, WriteBackFails
<1> QED
  BY <1>1, <1>2, <1>3, <1>4, <1>5, <1>6, <1>7, <1>8

\* A restart keeps the invariant.
LEMMA RestartKeeps ==
    ASSUME TypeOK, AttemptInv, Restart
    PROVE  AttemptInv'
<1> USE DEF AttemptInv, TypeOK, boardVars, jobVars, passVars, LockFree, Nothing, NoStory, Live, Stories, Ready
<1>1. JobFacts'
  BY DEF JobFacts, PassFacts, Restart, ForgetPass, Submitted
<1>2. PassFacts'
  BY DEF JobFacts, PassFacts, StoryFacts, Restart, ForgetPass, Submitted
<1>3. StoryFacts'
  BY DEF StoryFacts, PassFacts, Restart, ForgetPass, Submitted
<1>4. RecallFacts'
  BY DEF RecallFacts, JobFacts, PassFacts, Restart, ForgetPass, Submitted
<1>5. SingleJob'
  BY DEF SingleJob, Counts, JobFacts, NoneWhenTodo, PassFacts, Restart, ForgetPass, Submitted
<1>6. NoneWhenTodo'
  BY DEF NoneWhenTodo, Counts, JobFacts, StoryFacts, SingleJob, PassFacts, RecallFacts, Restart, ForgetPass, Submitted
<1>7. Settled'
  BY DEF Settled, JobFacts, SingleJob, Counts, StoryFacts, PassFacts, Restart, ForgetPass, Submitted
<1>8. InProgressIsBacked'
  BY DEF InProgressIsBacked, JobFacts, PassFacts, Restart, ForgetPass, Submitted
<1> QED
  BY <1>1, <1>2, <1>3, <1>4, <1>5, <1>6, <1>7, <1>8

\* Every step keeps the invariant.
LEMMA AttemptStep == TypeOK /\ AttemptInv /\ [Next]_vars => AttemptInv'
<1> SUFFICES ASSUME TypeOK, AttemptInv, [Next]_vars PROVE AttemptInv'
  OBVIOUS
<1>1. ASSUME NEW initial \in PersonStatuses, AddStory(initial) PROVE AttemptInv'
  <2>1. NextStory \in Nat /\ initial \in Statuses
    BY Minted, BoardAssumption
  <2> QED
    BY <1>1, <2>1, FileKeeps DEF AddStory
<1>2. ASSUME NEW size \in Stories, MergePlan(size) PROVE AttemptInv'
  <2>1. NextStory + size - 1 \in Nat /\ "todo" \in Statuses
    BY Minted, BoardAssumption DEF Stories, Statuses
  <2> QED
    BY <1>2, <2>1, FileKeeps DEF MergePlan
<1>3. ASSUME UNCHANGED vars PROVE AttemptInv'
  BY <1>3 DEF vars, boardVars, jobVars, passVars, AttemptInv, JobFacts, PassFacts,
     StoryFacts, RecallFacts, SingleJob, NoneWhenTodo, Settled, Counts, Ready,
     InProgressIsBacked
<1> QED
  BY <1>1, <1>2, <1>3, SetStatusKeeps, SetDepsKeeps, DeleteKeeps, SelectKeeps,
     SubmitKeeps, FullKeeps, SaveKeeps, SaveFailsKeeps, CompensateKeeps,
     CancelKeeps, StartKeeps, FinishKeeps, WriteBackKeeps, WriteBackFailsKeeps,
     RestartKeeps DEF Next

\* The empty board satisfies it.
LEMMA AttemptInit == Init => AttemptInv
BY BoardAssumption
   DEF Init, AttemptInv, JobFacts, PassFacts, StoryFacts, RecallFacts, SingleJob,
       NoneWhenTodo, Settled, Counts, Ready, InProgressIsBacked, Nothing, NoStory, Live

LEMMA AttemptsInvariant == Spec => [](TypeOK /\ AttemptInv)
BY AttemptInit, AttemptStep, InitTyped, TypeStep, PTL DEF Spec

\* Two jobs of one story start only if a person stepped in or a pass was not
\* saved.
THEOREM AttemptedOnce == Spec => []OneAttempt
<1>1. TypeOK /\ AttemptInv => OneAttempt
  <2> SUFFICES ASSUME TypeOK, AttemptInv, NEW j \in Jobs, NEW k \in Jobs, j # k,
                      storyOf[j] = storyOf[k], Attempted(j), Attempted(k)
               PROVE  history[storyOf[j]] # "own"
    BY DEF OneAttempt
  <2>1. Counts(j) /\ Counts(k)
    BY DEF Attempted, Counts
  <2>2. storyOf[j] # NoStory
    BY DEF AttemptInv, JobFacts, Attempted
  <2> QED
    BY <2>1, <2>2 DEF AttemptInv, SingleJob
<1> QED
  BY <1>1, AttemptsInvariant, PTL

\* A story nobody edited shows in_progress only with a job behind it.
THEOREM InProgressBacked == Spec => []InProgressIsBacked
<1>1. AttemptInv => InProgressIsBacked
  BY DEF AttemptInv
<1> QED
  BY <1>1, AttemptsInvariant, PTL

\* Whatever is submitted is ready at that moment.
THEOREM SubmittedReady == Spec => ReadyWhenSubmitted
<1>1. TypeOK /\ AttemptInv /\ [Next]_vars
        => [\A j \in Jobs : jobState[j] = "absent" /\ jobState'[j] = "queued"
                                => storyOf'[j] \in Ready]_vars
  <2> SUFFICES ASSUME TypeOK, AttemptInv, Next,
                      NEW j \in Jobs, jobState[j] = "absent", jobState'[j] = "queued"
               PROVE  storyOf'[j] \in Ready
    OBVIOUS
  <2>1. PICK k \in Jobs : SubmitNext(k)
    BY DEF Next, AddStory, MergePlan, File, SetStatus, SetDeps, DeleteStory, Select,
       QueueFull, Save, SaveFails, Compensate, Withdraw, Cancel, Start, Finish,
       WriteBack, WriteBackFails, Restart, Verdicts, jobVars, TypeOK, Live
  <2>2. k = j
    BY <2>1 DEF SubmitNext, TypeOK
  <2>3. storyOf'[j] = Min(batch) /\ batch # {}
    BY <2>1, <2>2 DEF SubmitNext, TypeOK
  <2> QED
    BY <2>3, Picked DEF AttemptInv, PassFacts
<1> QED
  BY <1>1, AttemptsInvariant, PTL DEF Spec, ReadyWhenSubmitted

\* A verdict on a story that only the foreman has written stays.
THEOREM VerdictsWait == Spec => VerdictWaits
<1>1. TypeOK /\ AttemptInv /\ [Next]_vars
        => [\A i \in cards \cap cards' :
               status[i] \in {"done", "declined", "blocked"} /\ status'[i] # status[i]
                   => history'[i] # "own"]_vars
  <2> SUFFICES ASSUME TypeOK, AttemptInv, Next, NEW i \in cards \cap cards',
                      status[i] \in {"done", "declined", "blocked"},
                      status'[i] # status[i], history'[i] = "own"
               PROVE  FALSE
    OBVIOUS
  <2>1. i \in Stories
    BY DEF TypeOK
  <2>2. CASE \E initial \in PersonStatuses : AddStory(initial)
    BY <2>2, Minted, BoardAssumption DEF AddStory, File, TypeOK, Stories
  <2>3. CASE \E size \in Stories : MergePlan(size)
    BY <2>3, Minted, BoardAssumption DEF MergePlan, File, TypeOK, Stories
  <2>4. CASE \E m \in Stories, new \in PersonStatuses : SetStatus(m, new)
    BY <2>1, <2>4 DEF SetStatus, Marked, TypeOK
  <2>5. CASE \E m \in Stories : DeleteStory(m)
    BY <2>1, <2>5 DEF DeleteStory, Marked, TypeOK
  <2>6. CASE Save
    <3>1. PICK j \in enqueued : storyOf[j] = i
      BY <2>1, <2>6 DEF Save, Submitted, TypeOK
    <3> QED
      BY <3>1 DEF AttemptInv, PassFacts
  <2>7. CASE \E j \in Jobs : WriteBack(j)
    <3>1. PICK j \in Jobs : WriteBack(j)
      BY <2>7
    <3>2. storyOf[j] = i /\ history[i] = "own"
      BY <2>1, <3>1 DEF WriteBack, TypeOK
    <3>3. owed[j] = Nothing
      BY <3>2 DEF AttemptInv, Settled
    <3> QED
      BY <3>1, <3>3 DEF WriteBack
  <2>8. CASE UNCHANGED status
    BY <2>8
  <2> QED
    BY <2>2, <2>3, <2>4, <2>5, <2>6, <2>7, <2>8
    DEF Next, SetDeps, Select, SubmitNext, QueueFull, SaveFails, Compensate, Cancel,
        Start, Finish, WriteBackFails, Restart, boardVars
<1> QED
  BY <1>1, AttemptsInvariant, PTL DEF Spec, VerdictWaits
=============================================================================
