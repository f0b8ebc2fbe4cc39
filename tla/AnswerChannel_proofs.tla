------------------------ MODULE AnswerChannel_proofs ------------------------
(***************************************************************************)
(* Theorems about the answer channel for every set of questions, tasks and *)
(* replies, concurrent asking tasks included.                              *)
(***************************************************************************)
EXTENDS AnswerChannel, TLAPS

\* A reply found in a slot was validated against the question of that slot,
\* and so was the reply whose put is blocked.
SlotsValidated ==
    /\ \A q \in Questions : slot[q] # None => target[slot[q]] = q
    /\ \A c \in Replies : post[c] = "unsent" =>
          /\ lockedBy # c
          /\ \A q \in Questions : slot[q] # c /\ result[q] # c

DeliveryInv == TypeOK /\ SlotsValidated /\ NoCrossDelivery

LEMMA InitDelivery == Init => DeliveryInv
  BY ChannelAssumption
  DEF Init, DeliveryInv, TypeOK, SlotsValidated, NoCrossDelivery, Askings, Postings

\* The steps of an asking thread.
LEMMA AskDelivery ==
    ASSUME DeliveryInv, NEW q \in Questions, Ask(q) \/ AskStep(q)
    PROVE  DeliveryInv'
<1> USE ChannelAssumption
<1>1. CASE Ask(q) \/ Leave(q)
  <2>1. UNCHANGED <<slot, result, post, target, lockedBy>>
    BY <1>1 DEF Ask, Leave
  <2>2. TypeOK'
    BY <1>1 DEF DeliveryInv, TypeOK, Ask, Leave, Askings
  <2> QED
    BY <2>1, <2>2 DEF DeliveryInv, SlotsValidated, NoCrossDelivery
<1>2. CASE Take(q)
  <2>1. /\ slot[q] \in Replies
        /\ target[slot[q]] = q
        /\ UNCHANGED <<pending, post, target, lockedBy>>
    BY <1>2 DEF DeliveryInv, TypeOK, SlotsValidated, Take
  <2>2. /\ result'[q] = slot[q]
        /\ slot'[q] = None
        /\ \A p \in Questions : p # q => result'[p] = result[p] /\ slot'[p] = slot[p]
    BY <1>2 DEF DeliveryInv, TypeOK, Take
  <2>3. TypeOK'
    BY <1>2, <2>1 DEF DeliveryInv, TypeOK, Take, Askings
  <2>4. SlotsValidated'
    BY <2>1, <2>2 DEF DeliveryInv, SlotsValidated
  <2>5. NoCrossDelivery'
    BY <2>1, <2>2 DEF DeliveryInv, NoCrossDelivery
  <2> QED
    BY <2>3, <2>4, <2>5 DEF DeliveryInv
<1>3. CASE TimeOut(q)
  <2>1. UNCHANGED <<slot, post, target, lockedBy>>
    BY <1>3 DEF TimeOut
  <2>2. /\ result'[q] = "default"
        /\ \A p \in Questions : p # q => result'[p] = result[p]
    BY <1>3 DEF DeliveryInv, TypeOK, TimeOut
  <2>3. TypeOK'
    BY <1>3 DEF DeliveryInv, TypeOK, TimeOut, Askings
  <2> QED
    BY <2>1, <2>2, <2>3 DEF DeliveryInv, SlotsValidated, NoCrossDelivery
<1> QED
  BY <1>1, <1>2, <1>3 DEF AskStep

\* The steps of a posting thread.
LEMMA PostDelivery ==
    ASSUME DeliveryInv, NEW c \in Replies, PostStep(c)
    PROVE  DeliveryInv'
<1> USE ChannelAssumption
<1>1. CASE PostUnasked(c) \/ PostRejected(c)
  <2>1. /\ UNCHANGED <<asker, pending, slot, result, target, lockedBy>>
        /\ post'[c] # "unsent"
        /\ \A d \in Replies : d # c => post'[d] = post[d]
        /\ post' \in [Replies -> Postings]
    BY <1>1 DEF DeliveryInv, TypeOK, PostUnasked, PostRejected, Postings
  <2> QED
    BY <2>1 DEF DeliveryInv, TypeOK, SlotsValidated, NoCrossDelivery
<1>2. CASE PostAccepted(c)
  <2>1. /\ pending \in Questions
        /\ slot'[pending] = c
        /\ target'[c] = pending
        /\ post'[c] = "accepted"
        /\ \A q \in Questions : q # pending => slot'[q] = slot[q]
        /\ \A d \in Replies : d # c => target'[d] = target[d] /\ post'[d] = post[d]
        /\ UNCHANGED <<asker, pending, result, lockedBy>>
    BY <1>2 DEF DeliveryInv, TypeOK, PostAccepted
  <2>2. lockedBy # c /\ \A q \in Questions : slot[q] # c /\ result[q] # c
    BY <1>2 DEF DeliveryInv, SlotsValidated, PostAccepted
  <2>3. TypeOK'
    BY <1>2, <2>1 DEF DeliveryInv, TypeOK, PostAccepted, Postings
  <2>4. SlotsValidated'
    BY <2>1, <2>2 DEF DeliveryInv, TypeOK, SlotsValidated
  <2>5. NoCrossDelivery'
    BY <2>1, <2>2 DEF DeliveryInv, NoCrossDelivery
  <2> QED
    BY <2>3, <2>4, <2>5 DEF DeliveryInv
<1>3. CASE PostBlocked(c)
  <2>1. /\ pending \in Questions
        /\ lockedBy' = c
        /\ target'[c] = pending
        /\ post'[c] = "blocked"
        /\ \A d \in Replies : d # c => target'[d] = target[d] /\ post'[d] = post[d]
        /\ UNCHANGED <<asker, pending, slot, result>>
    BY <1>3 DEF DeliveryInv, TypeOK, PostBlocked
  <2>2. \A q \in Questions : slot[q] # c /\ result[q] # c
    BY <1>3 DEF DeliveryInv, SlotsValidated, PostBlocked
  <2>3. TypeOK'
    BY <1>3, <2>1 DEF DeliveryInv, TypeOK, PostBlocked, Postings
  <2>4. SlotsValidated'
    BY <2>1, <2>2 DEF DeliveryInv, TypeOK, SlotsValidated
  <2>5. NoCrossDelivery'
    BY <2>1, <2>2 DEF DeliveryInv, NoCrossDelivery
  <2> QED
    BY <2>3, <2>4, <2>5 DEF DeliveryInv
<1>4. CASE Unblock(c)
  <2> DEFINE q == target[c]
  <2>1. post[c] # "unsent"
    BY <1>4 DEF DeliveryInv, SlotsValidated, Unblock
  <2>2. CASE q \in Questions
    <3>1. /\ slot'[q] = c
          /\ \A p \in Questions : p # q => slot'[p] = slot[p]
          /\ post'[c] = "accepted"
          /\ \A d \in Replies : d # c => post'[d] = post[d]
          /\ lockedBy' = None
          /\ UNCHANGED <<asker, pending, result, target>>
      BY <1>4, <2>2 DEF DeliveryInv, TypeOK, Unblock
    <3>2. TypeOK'
      BY <1>4, <3>1 DEF DeliveryInv, TypeOK, Unblock, Postings
    <3>3. SlotsValidated'
      BY <2>1, <2>2, <3>1 DEF DeliveryInv, TypeOK, SlotsValidated
    <3> QED
      BY <3>1, <3>2, <3>3 DEF DeliveryInv, NoCrossDelivery
  <2>3. CASE q = None
    <3>1. slot' = slot
      BY <1>4, <2>3 DEF DeliveryInv, TypeOK, Unblock
    <3>2. /\ post'[c] = "accepted"
          /\ \A d \in Replies : d # c => post'[d] = post[d]
          /\ lockedBy' = None
          /\ UNCHANGED <<asker, pending, result, target>>
      BY <1>4 DEF DeliveryInv, TypeOK, Unblock
    <3>3. TypeOK'
      BY <1>4, <3>1, <3>2 DEF DeliveryInv, TypeOK, Unblock, Postings
    <3> QED
      BY <3>1, <3>2, <3>3 DEF DeliveryInv, SlotsValidated, NoCrossDelivery
  <2> QED
    BY <2>2, <2>3 DEF DeliveryInv, TypeOK
<1> QED
  BY <1>1, <1>2, <1>3, <1>4 DEF PostStep

LEMMA NextDelivery == DeliveryInv /\ [Next]_vars => DeliveryInv'
<1> SUFFICES ASSUME DeliveryInv, [Next]_vars PROVE DeliveryInv'
  OBVIOUS
<1>1. CASE UNCHANGED vars
  BY <1>1 DEF vars, DeliveryInv, TypeOK, SlotsValidated, NoCrossDelivery
<1> QED
  BY <1>1, AskDelivery, PostDelivery DEF Next

\* A human's answer never reaches a question it was not validated against,
\* for any number of questions, concurrent tasks and posts.
THEOREM DeliveredToItsQuestion == Spec => []NoCrossDelivery
<1>1. DeliveryInv => NoCrossDelivery
  BY DEF DeliveryInv
<1> QED
  BY InitDelivery, NextDelivery, <1>1, PTL DEF Spec

-----------------------------------------------------------------------------
(***************************************************************************)
(* What is published, when a single task asks.                             *)
(***************************************************************************)

PublicationInv == DeliveryInv /\ PublishedIffAwaited

LEMMA NextPublication ==
    ASSUME \A p, q \in Questions : TaskOf[p] = TaskOf[q],
           PublicationInv, [Next]_vars
    PROVE  PublicationInv'
<1>1. DeliveryInv'
  BY NextDelivery DEF PublicationInv
<1>2. CASE \E q \in Questions : Ask(q)
  <2> PICK q \in Questions : Ask(q)
    BY <1>2
  <2>1. \A p \in Questions : asker[p] \notin {"waiting", "leaving"}
    BY DEF Ask, Awaiting
  <2>2. /\ asker'[q] = "waiting"
        /\ \A p \in Questions : p # q => asker'[p] = asker[p]
        /\ pending' = q
    BY DEF PublicationInv, DeliveryInv, TypeOK, Ask
  <2> QED
    BY <1>1, <2>1, <2>2 DEF PublicationInv, PublishedIffAwaited
<1>3. CASE \E q \in Questions : Take(q) \/ TimeOut(q)
  <2> PICK q \in Questions : Take(q) \/ TimeOut(q)
    BY <1>3
  <2>1. /\ asker[q] = "waiting"
        /\ asker'[q] = "leaving"
        /\ \A p \in Questions : p # q => asker'[p] = asker[p]
        /\ pending' = pending
    BY DEF PublicationInv, DeliveryInv, TypeOK, Take, TimeOut
  <2> QED
    BY <1>1, <2>1 DEF PublicationInv, PublishedIffAwaited
<1>4. CASE \E q \in Questions : Leave(q)
  <2> PICK q \in Questions : Leave(q)
    BY <1>4
  <2>1. /\ pending = q
        /\ asker'[q] = "returned"
        /\ \A p \in Questions : p # q => asker'[p] = asker[p]
        /\ pending' = None
    BY DEF PublicationInv, PublishedIffAwaited, DeliveryInv, TypeOK, Leave
  <2> QED
    BY <1>1, <2>1, ChannelAssumption DEF PublicationInv, PublishedIffAwaited
<1>5. CASE \E c \in Replies : PostStep(c)
  <2>1. UNCHANGED <<asker, pending>>
    BY <1>5 DEF PostStep, PostUnasked, PostRejected, PostAccepted, PostBlocked, Unblock
  <2> QED
    BY <1>1, <2>1 DEF PublicationInv, PublishedIffAwaited
<1>6. CASE UNCHANGED vars
  BY <1>1, <1>6 DEF vars, PublicationInv, PublishedIffAwaited
<1> QED
  BY <1>2, <1>3, <1>4, <1>5, <1>6 DEF Next, AskStep

\* When one task asks at a time, the question a human sees is the one the
\* engine waits for, however timeouts and replies interleave.
THEOREM PublishedWhileAwaited ==
    ASSUME \A p, q \in Questions : TaskOf[p] = TaskOf[q]
    PROVE  Spec => []PublishedIffAwaited
<1>1. Init => PublicationInv
  BY InitDelivery, ChannelAssumption DEF Init, PublicationInv, PublishedIffAwaited
<1>2. PublicationInv /\ [Next]_vars => PublicationInv'
  BY NextPublication
<1>3. PublicationInv => PublishedIffAwaited
  BY DEF PublicationInv
<1> QED
  BY <1>1, <1>2, <1>3, PTL DEF Spec
=============================================================================
