----------------------------- MODULE FrontDoor ------------------------------
(***************************************************************************)
(* The HTTP side of the dispatch service (dispatch.py): one thread for     *)
(* each request, which consults the guard, compares the credential, asks   *)
(* the guard a second time on most operator routes, answers, and appends   *)
(* one record to the bounded access log, a file that is rewritten whole.   *)
(* Sign-in routes take no part in the guard.                               *)
(***************************************************************************)
EXTENDS AuthGuard, SignIn, FiniteSets

CONSTANTS Handler,       \* threads that serve requests
          Nobody,
          MaxRecords,    \* MAX_ACCESS_RECORDS
          MaxTime,       \* bound: the clock stops here
          MaxRequests    \* bound: requests served

ASSUME DoorAssumption ==
    /\ IsFiniteSet(Handler) /\ Nobody \notin Handler
    /\ MaxRecords \in Nat \ {0, 1} /\ {MaxTime, MaxRequests} \subseteq Nat

VARIABLES
    req,       \* what each thread is doing
    served,    \* requests that have arrived
    log,       \* access.jsonl; a record is the number of its append
    logLock,   \* AccessLog._lock
    draft,     \* what a thread read of the log
    appends,   \* appends that succeeded
    wrong,     \* history: failures in the window since the last success
    minted,    \* history: states and tokens that were ever given out
    openings   \* history: the state of each session a login opened

guard  == <<tracked, failures, wrong>>
signIn == <<states, sessions, minted, openings>>
access == <<log, logLock, draft, appends>>
vars == <<now, guard, signIn, access, req, served>>

Idle == [pc |-> "idle"]

\* "good" is the operator's token, "bad" matches nothing.
Credential == {"good", "bad"} \union Token

-----------------------------------------------------------------------------
Init ==
    /\ now = 0 /\ tracked = <<>> /\ failures = [s \in Source |-> <<>>]
    /\ wrong = [s \in Source |-> <<>>]
    /\ states = [s \in {} |-> 0] /\ sessions = [k \in {} |-> 0]
    /\ minted = {} /\ openings = [k \in {} |-> 0]
    /\ req = [h \in Handler |-> Idle] /\ served = 0
    /\ log = <<>> /\ logLock = Nobody /\ appends = 0
    /\ draft = [h \in Handler |-> <<>>]

Goto(h, r) == req' = [req EXCEPT ![h] = r]

\* The thread has sent a response and turns to the access log.
Respond(h) == Goto(h, [pc |-> "log"])

Arrives(h) == req[h] = Idle /\ served < MaxRequests /\ served' = served + 1

-----------------------------------------------------------------------------
(* Guarded routes *)

Refuse(h, s) == LockedOut(s) /\ Consult(s) /\ Respond(h)

Admit(h, s, c, operator) ==
    /\ ~LockedOut(s) /\ Consult(s)
    /\ Goto(h, [pc |-> "compare", src |-> s, cred |-> c, operator |-> operator])

\* The guard is asked when a request arrives, ...
Gate(h) ==
    /\ Arrives(h)
    /\ \E s \in Source, c \in Credential, o \in BOOLEAN :
          Refuse(h, s) \/ Admit(h, s, c, o)
    /\ UNCHANGED <<now, wrong, signIn, access>>

\* ... and again by _operator_only; the second comparison may answer at once.
GateAgain(h) ==
    /\ req[h].pc = "again"
    /\ Refuse(h, req[h].src) \/ Admit(h, req[h].src, req[h].cred, FALSE)
    /\ UNCHANGED <<now, wrong, signIn, access, served>>

Accepted(c) == c = "good" \/ (c \in Token /\ Live(c, now))

\* _authenticate and the guard's note of it.
Compare(h) ==
    /\ req[h].pc = "compare"
    /\ LET s == req[h].src  IN
          IF Accepted(req[h].cred)
          THEN /\ RecordSuccess(s) /\ wrong' = [wrong EXCEPT ![s] = <<>>]
               /\ \/ Respond(h)
                  \/ req[h].operator /\ Goto(h, [req[h] EXCEPT !.pc = "again"])
          ELSE /\ RecordFailure(s) /\ wrong' = [wrong EXCEPT ![s] = Append(@, now)]
               /\ Respond(h)
    /\ UNCHANGED <<now, signIn, access, served>>

-----------------------------------------------------------------------------
(* Sign-in *)

Login(h) ==
    /\ Arrives(h) /\ Respond(h)
    /\ \E st \in State \ minted : IssueState(st, now) /\ minted' = minted \union {st}
    /\ UNCHANGED <<now, guard, openings, access>>

Callback(h) ==
    /\ Arrives(h)
    /\ \E st \in State :
          /\ Redeem(st)
          /\ \/ ~Redeemable(st, now) /\ Respond(h)
             \/ Redeemable(st, now)
                /\ Goto(h, [pc |-> "exchange", state |-> st, since |-> now])
    /\ UNCHANGED <<now, guard, minted, openings, access>>

\* GitHub has answered the exchange.
Exchanged(h) ==
    /\ req[h].pc = "exchange" /\ Respond(h)
    /\ \/ UNCHANGED signIn
       \/ \E k \in Token \ minted :
             /\ Open(k, req[h].state, req[h].since)
             /\ minted' = minted \union {k}
             /\ openings' = With(openings, k, req[h].state)
    /\ UNCHANGED <<now, guard, access, served>>

Refresh(h) ==
    /\ Arrives(h)
    /\ \E k \in Token :
          \/ ~Live(k, now) /\ Respond(h)
          \/ Live(k, now) /\ Goto(h, [pc |-> "renew", token |-> k,
                                      state |-> sessions[k].state])
    /\ UNCHANGED <<now, guard, signIn, access>>

\* GitHub has answered the renewal.
Renewed(h) ==
    /\ req[h].pc = "renew" /\ Respond(h)
    /\ \/ UNCHANGED signIn
       \/ \E n \in Token \ minted :
             /\ Rotate(req[h].token, n, now, req[h].state)
             /\ minted' = minted \union {n}
             /\ UNCHANGED openings
    /\ UNCHANGED <<now, guard, access, served>>

-----------------------------------------------------------------------------
(* The access log *)

\* Past its bound a journal keeps the newest half.
Truncated(lines) ==
    IF Len(lines) > MaxRecords
    THEN SubSeq(lines, Len(lines) - (MaxRecords \div 2) + 1, Len(lines))
    ELSE lines

\* Mutant of ReadLog: the threads do not exclude each other.
ReadLogUnlocked(h) ==
    /\ req[h].pc = "log" /\ Goto(h, [pc |-> "append"])
    /\ draft' = [draft EXCEPT ![h] = log]
    /\ UNCHANGED <<now, guard, signIn, log, logLock, appends, served>>

ReadLog(h) ==
    /\ req[h].pc = "log" /\ logLock = Nobody
    /\ logLock' = h /\ Goto(h, [pc |-> "append"])
    /\ draft' = [draft EXCEPT ![h] = log]
    /\ UNCHANGED <<now, guard, signIn, log, appends, served>>

Logged(h) == logLock' = Nobody /\ draft' = [draft EXCEPT ![h] = <<>>] /\ Goto(h, Idle)

WriteLog(h) ==
    /\ req[h].pc = "append" /\ Logged(h)
    /\ appends' = appends + 1
    /\ log' = Truncated(Append(draft[h], appends + 1))
    /\ UNCHANGED <<now, guard, signIn, served>>

\* OSError: the record is dropped, the response was sent.
LogFails(h) ==
    /\ req[h].pc = "append" /\ Logged(h)
    /\ UNCHANGED <<now, guard, signIn, log, appends, served>>

-----------------------------------------------------------------------------
Tick ==
    /\ now < MaxTime /\ now' = now + 1
    /\ wrong' = [s \in Source |-> Since(wrong[s], now + 1 - Window)]
    /\ UNCHANGED <<tracked, failures, signIn, access, req, served>>

Next ==
    \/ Tick
    \/ \E h \in Handler :
          \/ Gate(h) \/ GateAgain(h) \/ Compare(h)
          \/ Login(h) \/ Callback(h) \/ Exchanged(h) \/ Refresh(h) \/ Renewed(h)
          \/ ReadLog(h) \/ WriteLog(h) \/ LogFails(h)

Spec == Init /\ [][Next]_vars

-----------------------------------------------------------------------------
(* Properties *)

\* Every variable keeps its type.
Times == Seq(0..MaxTime)
Request ==
    [pc : {"idle", "log", "append"}]
    \union [pc : {"compare", "again"}, src : Source, cred : Credential, operator : BOOLEAN]
    \union [pc : {"exchange"}, state : State, since : 0..MaxTime]
    \union [pc : {"renew"}, token : Token, state : State]

TypeOK ==
    /\ now \in 0..MaxTime /\ tracked \in Seq(Source)
    /\ failures \in [Source -> Times] /\ wrong \in [Source -> Times]
    /\ Issued \subseteq State /\ \A st \in Issued : states[st] \in 0..MaxTime
    /\ Sessions \subseteq Token
    /\ \A k \in Sessions : sessions[k] \in [expires : Nat, state : State]
    /\ minted \subseteq State \union Token
    /\ DOMAIN openings \subseteq Token /\ \A k \in DOMAIN openings : openings[k] \in State
    /\ req \in [Handler -> Request] /\ served \in 0..MaxRequests
    /\ log \in Seq(Nat) /\ draft \in [Handler -> Seq(Nat)] /\ appends \in Nat
    /\ logLock \in Handler \union {Nobody}

\* A source is refused only for failures of its own, in the present window
\* and after its last success, whatever was pruned, evicted or recorded by
\* other threads meanwhile.
RefusedForCause == \A s \in Source : LockedOut(s) => Len(wrong[s]) >= Threshold

\* Threads that passed the guard together may fail together, but no more than
\* they: the failures that still count stay below the threshold and one for
\* each thread.
Counting(s) ==
    {i \in 1..Len(failures[s]) :
        failures[s][i] >= now - Window /\ now - failures[s][i] < Lockout}

GuessesBounded ==
    \A s \in Source :
        Cardinality(Counting(s)) < Threshold + Cardinality(Handler)

\* A state opens one session, however often and at whatever moments GitHub's
\* redirection is replayed.
OneSessionPerSignIn ==
    \A k, l \in DOMAIN openings : openings[k] = openings[l] => k = l

\* The log is what the appends that succeeded would have left one after the
\* other: none is lost to another thread's rewriting.
Kept[n \in Nat] == IF n = 0 THEN <<>> ELSE Truncated(Append(Kept[n - 1], n))

NoRecordLost == log = Kept[appends]
=============================================================================
