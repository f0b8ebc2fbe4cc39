---------------------------- MODULE AnswerChannel ----------------------------
(***************************************************************************)
(* The question channel of an interactive job: class _TrackedChannel of    *)
(* dev_team/dispatch.py.                                                   *)
(*                                                                         *)
(* ask() runs on a thread of its own for every question the engine puts to *)
(* a human (ask_in_thread): it publishes the question with a fresh         *)
(* one-place reply queue, waits for a reply or for the timeout, and        *)
(* unpublishes in a `finally'.  submit_reply() runs on a handler thread    *)
(* for every POST /jobs/{id}/answer: it validates the choice against the   *)
(* published question and puts the reply into that question's slot, all    *)
(* under _answer_lock.  The put blocks when the slot is full, and the      *)
(* handler then keeps the lock.                                            *)
(*                                                                         *)
(* A question stands for one ask() call, a reply for one POST; the lock    *)
(* needs a holder of its own only while a put blocks, every other critical *)
(* section is one step.                                                    *)
(***************************************************************************)
CONSTANTS
    Questions,  \* the ask() calls of a job
    Tasks,      \* the engine tasks that ask
    TaskOf,     \* which task asks which question
    Replies,    \* the answers posted, each by a handler thread of its own
    None        \* no question, no reply, nobody

ASSUME ChannelAssumption ==
    /\ TaskOf \in [Questions -> Tasks]
    /\ None \notin Questions
    /\ None \notin Replies
    /\ "default" \notin Replies

VARIABLES
    asker,      \* where each ask() call is
    pending,    \* current and _pending: the published question
    slot,       \* the one-place reply queue of each question
    result,     \* what each ask() is going to return
    post,       \* where each submit_reply() call is, or what it answered
    target,     \* the question a reply was validated against
    lockedBy    \* the reply whose blocked put holds _answer_lock

vars == <<asker, pending, slot, result, post, target, lockedBy>>

Askings == {"idle", "waiting", "leaving", "returned"}

\* accepted, rejected, unasked: HTTP 202, 400 and 409.
Postings == {"unsent", "blocked", "accepted", "rejected", "unasked"}

TypeOK ==
    /\ asker \in [Questions -> Askings]
    /\ pending \in Questions \cup {None}
    /\ slot \in [Questions -> Replies \cup {None}]
    /\ result \in [Questions -> Replies \cup {None, "default"}]
    /\ post \in [Replies -> Postings]
    /\ target \in [Replies -> Questions \cup {None}]
    /\ lockedBy \in Replies \cup {None}

Init ==
    /\ asker = [q \in Questions |-> "idle"]
    /\ pending = None
    /\ slot = [q \in Questions |-> None]
    /\ result = [q \in Questions |-> None]
    /\ post = [c \in Replies |-> "unsent"]
    /\ target = [c \in Replies |-> None]
    /\ lockedBy = None

LockFree == lockedBy = None

\* A task awaits one question at a time.
Awaiting(t) ==
    \E q \in Questions : TaskOf[q] = t /\ asker[q] \in {"waiting", "leaving"}

(***************************************************************************)
(* ask()                                                                   *)
(***************************************************************************)

\* Publish the question and its empty slot, under the lock.
Ask(q) ==
    /\ asker[q] = "idle"
    /\ ~Awaiting(TaskOf[q])
    /\ LockFree
    /\ asker' = [asker EXCEPT ![q] = "waiting"]
    /\ pending' = q
    /\ UNCHANGED <<slot, result, post, target, lockedBy>>

\* Mutant of Take: one reply queue for the whole life of the channel.
TakeAny(q) ==
    \E p \in Questions :
        /\ asker[q] = "waiting"
        /\ slot[p] # None
        /\ result' = [result EXCEPT ![q] = slot[p]]
        /\ slot' = [slot EXCEPT ![p] = None]
        /\ asker' = [asker EXCEPT ![q] = "leaving"]
        /\ UNCHANGED <<pending, post, target, lockedBy>>

\* reply_slot.get() finds a reply.
Take(q) ==
    /\ asker[q] = "waiting"
    /\ slot[q] # None
    /\ result' = [result EXCEPT ![q] = slot[q]]
    /\ slot' = [slot EXCEPT ![q] = None]
    /\ asker' = [asker EXCEPT ![q] = "leaving"]
    /\ UNCHANGED <<pending, post, target, lockedBy>>

\* reply_slot.get() times out on an empty slot: the default is taken.
TimeOut(q) ==
    /\ asker[q] = "waiting"
    /\ slot[q] = None
    /\ result' = [result EXCEPT ![q] = "default"]
    /\ asker' = [asker EXCEPT ![q] = "leaving"]
    /\ UNCHANGED <<pending, slot, post, target, lockedBy>>

\* Mutant of Leave: the reply is returned before the question is unpublished.
LeavePublished(q) ==
    /\ asker[q] = "leaving"
    /\ asker' = [asker EXCEPT ![q] = "returned"]
    /\ UNCHANGED <<pending, slot, result, post, target, lockedBy>>

\* The finally clause unpublishes whatever is published, under the lock.
Leave(q) ==
    /\ asker[q] = "leaving"
    /\ LockFree
    /\ asker' = [asker EXCEPT ![q] = "returned"]
    /\ pending' = None
    /\ UNCHANGED <<slot, result, post, target, lockedBy>>

(***************************************************************************)
(* submit_reply()                                                          *)
(***************************************************************************)

\* 409: no live question.
PostUnasked(c) ==
    /\ post[c] = "unsent"
    /\ LockFree
    /\ pending = None
    /\ post' = [post EXCEPT ![c] = "unasked"]
    /\ UNCHANGED <<asker, pending, slot, result, target, lockedBy>>

\* 400: the choice is not one of the live question's keys.
PostRejected(c) ==
    /\ post[c] = "unsent"
    /\ LockFree
    /\ pending # None
    /\ post' = [post EXCEPT ![c] = "rejected"]
    /\ UNCHANGED <<asker, pending, slot, result, target, lockedBy>>

\* 202: the slot has room.
PostAccepted(c) ==
    /\ post[c] = "unsent"
    /\ LockFree
    /\ pending # None
    /\ slot[pending] = None
    /\ slot' = [slot EXCEPT ![pending] = c]
    /\ target' = [target EXCEPT ![c] = pending]
    /\ post' = [post EXCEPT ![c] = "accepted"]
    /\ UNCHANGED <<asker, pending, result, lockedBy>>

\* reply_slot.put() blocks on a full slot, with the lock held.
PostBlocked(c) ==
    /\ post[c] = "unsent"
    /\ LockFree
    /\ pending # None
    /\ slot[pending] # None
    /\ lockedBy' = c
    /\ target' = [target EXCEPT ![c] = pending]
    /\ post' = [post EXCEPT ![c] = "blocked"]
    /\ UNCHANGED <<asker, pending, slot, result>>

\* The blocked put goes through once the slot has been emptied.
Unblock(c) ==
    /\ lockedBy = c
    /\ slot[target[c]] = None
    /\ slot' = [slot EXCEPT ![target[c]] = c]
    /\ post' = [post EXCEPT ![c] = "accepted"]
    /\ lockedBy' = None
    /\ UNCHANGED <<asker, pending, result, target>>

AskStep(q) == Take(q) \/ TimeOut(q) \/ Leave(q)

PostStep(c) ==
    \/ PostUnasked(c) \/ PostRejected(c) \/ PostAccepted(c) \/ PostBlocked(c)
    \/ Unblock(c)

Next ==
    \/ \E q \in Questions : Ask(q) \/ AskStep(q)
    \/ \E c \in Replies : PostStep(c)

Spec == Init /\ [][Next]_vars

\* A reply or the timeout ends every wait, a blocked put goes on when it can;
\* nobody has to ask or to answer.
Fairness ==
    /\ \A q \in Questions : SF_vars(AskStep(q))
    /\ \A c \in Replies : WF_vars(Unblock(c))

FairSpec == Spec /\ Fairness

(***************************************************************************)
(* Properties.                                                             *)
(***************************************************************************)

\* A reply is delivered to no question but the one its choice was validated
\* against, however the asking threads and the posts interleave
\* (submit_reply(): "a question can never time out and be replaced by a
\* different one between validation and delivery").
NoCrossDelivery ==
    \A q \in Questions : \A c \in Replies :
        result[q] = c => target[c] = q

\* With one asking task, the published question is always the one that is
\* waited for: a late `finally' never hides a newer question from the human,
\* and no question stays published after its answer was returned.
PublishedIffAwaited ==
    \A q \in Questions :
        pending = q <=> asker[q] \in {"waiting", "leaving"}

\* Every question is decided: by a reply, or by the timeout's default
\* (QueueChannel: "A timeout protects the run from a servicer that died: on
\* expiry the question's default choice is taken").
EveryAskReturns ==
    \A q \in Questions : asker[q] = "waiting" ~> asker[q] = "returned"
=============================================================================
