-------------------------- MODULE FrontDoor_proofs --------------------------
(***************************************************************************)
(* Theorems about the HTTP side of the service, for any number of sources, *)
(* threads and requests: a source is locked out only for failures of its   *)
(* own, threads that race past the guard gain no more guesses than there   *)
(* are threads, no record of the access log is lost, and a sign-in opens   *)
(* one session.                                                            *)
(***************************************************************************)
EXTENDS FrontDoor, SequenceTheorems, FiniteSetTheorems, FunctionTheorems, TLAPS

-----------------------------------------------------------------------------
(* Induction over the natural numbers, for a set                           *)

LEMMA SetInduction ==
    ASSUME NEW T \in SUBSET Nat, 0 \in T, \A n \in T : n + 1 \in T
    PROVE  T = Nat
<1> SUFFICES ASSUME T # Nat PROVE FALSE OBVIOUS
<1> DEFINE U == Nat \ T
<1>1. U \subseteq Nat /\ U # {} OBVIOUS
<1> HIDE DEF U
<1>2. PICK x \in U : \A y \in U : ~(<<y, x>> \in OpToRel(<,Nat))
  BY <1>1, WFMin, NatLessThanWellFounded
<1>3. x \in Nat /\ x # 0 BY <1>1 DEF U
<1>4. x - 1 \in U BY <1>3 DEF U
<1>5. <<x - 1, x>> \in OpToRel(<,Nat) BY <1>3 DEF OpToRel
<1> QED BY <1>2, <1>4, <1>5

\* A function on the naturals may be defined from its value before.
Approximates(g, n, V, c, step) ==
    /\ g \in [0..n -> V] /\ g[0] = c
    /\ \A i \in 0..(n - 1) : g[i + 1] = step[<<i, g[i]>>]

LEMMA ApproximationsAgree ==
    ASSUME NEW V, NEW c, NEW step, NEW m \in Nat, NEW n \in Nat, NEW g, NEW h,
           Approximates(g, m, V, c, step), Approximates(h, n, V, c, step)
    PROVE  \A i \in Nat : i <= m /\ i <= n => g[i] = h[i]
<1> DEFINE T == {i \in Nat : i <= m /\ i <= n => g[i] = h[i]}
<1>1. 0 \in T BY DEF Approximates
<1>2. ASSUME NEW i \in T PROVE i + 1 \in T
  <2> SUFFICES ASSUME i + 1 <= m, i + 1 <= n PROVE g[i + 1] = h[i + 1] OBVIOUS
  <2>1. i \in 0..(m - 1) /\ i \in 0..(n - 1) OBVIOUS
  <2>2. g[i] = h[i] OBVIOUS
  <2> QED BY <2>1, <2>2 DEF Approximates
<1>3. T \in SUBSET Nat OBVIOUS
<1>4. T = Nat
  <2> HIDE DEF T
  <2> QED BY <1>1, <1>2, <1>3, SetInduction
<1> QED BY <1>4

LEMMA ApproximationExists ==
    ASSUME NEW V, NEW c \in V, NEW step \in [Nat \X V -> V], NEW n \in Nat
    PROVE  \E g : Approximates(g, n, V, c, step)
<1> DEFINE T == {m \in Nat : \E g : Approximates(g, m, V, c, step)}
<1>1. 0 \in T
  <2>1. Approximates([i \in 0..0 |-> c], 0, V, c, step) BY DEF Approximates
  <2> QED BY <2>1
<1>2. ASSUME NEW m \in T PROVE m + 1 \in T
  <2>1. PICK g : Approximates(g, m, V, c, step) OBVIOUS
  <2> DEFINE next == [i \in 0..(m + 1) |-> IF i <= m THEN g[i] ELSE step[<<m, g[m]>>]]
  <2>2. g[m] \in V BY <2>1 DEF Approximates
  <2>3. step[<<m, g[m]>>] \in V BY <2>2
  <2>4. next \in [0..(m + 1) -> V] /\ next[0] = c BY <2>1, <2>3 DEF Approximates
  <2>5. ASSUME NEW i \in 0..m PROVE next[i + 1] = step[<<i, next[i]>>]
    <3>1. CASE i = m
      <4>1. next[m + 1] = step[<<m, g[m]>>] OBVIOUS
      <4>2. next[m] = g[m] OBVIOUS
      <4> HIDE DEF next
      <4> QED BY <3>1, <4>1, <4>2
    <3>2. CASE i \in 0..(m - 1) BY <2>1, <3>2 DEF Approximates
    <3>3. i = m \/ i \in 0..(m - 1) OBVIOUS
    <3> HIDE DEF next
    <3> QED BY <3>1, <3>2, <3>3
  <2>6. Approximates(next, m + 1, V, c, step)
    <3> HIDE DEF next
    <3> QED BY <2>4, <2>5 DEF Approximates
  <2> QED BY <2>6
<1>3. T \in SUBSET Nat OBVIOUS
<1>4. T = Nat
  <2> HIDE DEF T
  <2> QED BY <1>1, <1>2, <1>3, SetInduction
<1> QED BY <1>4

Recurses(f, c, step) == f[0] = c /\ \A n \in Nat : f[n + 1] = step[<<n, f[n]>>]

LEMMA Recursion ==
    ASSUME NEW V, NEW c \in V, NEW step \in [Nat \X V -> V]
    PROVE  \E f \in [Nat -> V] : Recurses(f, c, step)
<1> DEFINE upTo(n) == CHOOSE g : Approximates(g, n, V, c, step)
           f == [n \in Nat |-> upTo(n)[n]]
<1>1. \A n \in Nat : Approximates(upTo(n), n, V, c, step) BY ApproximationExists
<1> HIDE DEF upTo
<1>2. f \in [Nat -> V] /\ f[0] = c BY <1>1 DEF Approximates
<1>3. ASSUME NEW n \in Nat PROVE f[n + 1] = step[<<n, f[n]>>]
  <2>1. Approximates(upTo(n), n, V, c, step) /\ Approximates(upTo(n + 1), n + 1, V, c, step)
    BY <1>1
  <2>2. upTo(n)[n] = upTo(n + 1)[n] BY <2>1, ApproximationsAgree
  <2>3. upTo(n + 1)[n + 1] = step[<<n, upTo(n + 1)[n]>>] BY <2>1 DEF Approximates
  <2> QED BY <2>2, <2>3
<1> QED BY <1>2, <1>3 DEF Recurses

\* What the log should hold after so many appends.
LEMMA TruncatedTyped ==
    ASSUME NEW lines \in Seq(Nat) PROVE Truncated(lines) \in Seq(Nat)
<1>1. MaxRecords \div 2 \in Nat /\ MaxRecords \div 2 <= MaxRecords
  BY DoorAssumption
<1> QED BY <1>1, DoorAssumption DEF Truncated

LEMMA KeptDefined ==
    /\ Kept \in [Nat -> Seq(Nat)] /\ Kept[0] = <<>>
    /\ \A n \in Nat : Kept[n + 1] = Truncated(Append(Kept[n], n + 1))
<1> DEFINE step == [p \in Nat \X Seq(Nat) |-> Truncated(Append(p[2], p[1] + 1))]
           Defines(K) == K = [n \in Nat |-> IF n = 0 THEN <<>>
                                            ELSE Truncated(Append(K[n - 1], n))]
<1>0. <<>> \in Seq(Nat) OBVIOUS
<1>1. step \in [Nat \X Seq(Nat) -> Seq(Nat)]
  <2>1. ASSUME NEW p \in Nat \X Seq(Nat)
        PROVE  Truncated(Append(p[2], p[1] + 1)) \in Seq(Nat)
    <3>1. Append(p[2], p[1] + 1) \in Seq(Nat) OBVIOUS
    <3> QED BY <3>1, TruncatedTyped
  <2> QED BY <2>1
<1>2. \A n \in Nat, l \in Seq(Nat) : step[<<n, l>>] = Truncated(Append(l, n + 1)) OBVIOUS
<1> HIDE DEF step
<1>3. PICK f \in [Nat -> Seq(Nat)] : Recurses(f, <<>>, step)
  BY <1>0, <1>1, Recursion
<1>4. Defines(f)
  <2>1. ASSUME NEW n \in Nat \ {0} PROVE f[n] = Truncated(Append(f[n - 1], n))
    <3>1. n - 1 \in Nat /\ n - 1 + 1 = n OBVIOUS
    <3> QED BY <1>2, <1>3, <3>1 DEF Recurses
  <2> QED BY <1>3, <2>1 DEF Recurses
<1>5. Kept = CHOOSE K : Defines(K) BY DEF Kept
<1>6. Defines(Kept) BY <1>4, <1>5
<1>7. Kept[0] = <<>> /\ \A n \in Nat : Kept[n + 1] = Truncated(Append(Kept[n], n + 1))
  <2>1. ASSUME NEW n \in Nat PROVE Kept[n + 1] = Truncated(Append(Kept[n], n + 1))
    <3>1. n + 1 \in Nat /\ n + 1 # 0 /\ (n + 1) - 1 = n OBVIOUS
    <3> QED BY <1>6, <3>1
  <2> QED BY <1>6, <2>1
<1>8. Kept \in [Nat -> Seq(Nat)]
  <2> DEFINE T == {n \in Nat : Kept[n] \in Seq(Nat)}
  <2>1. 0 \in T BY <1>0, <1>7
  <2>2. ASSUME NEW n \in T PROVE n + 1 \in T
    <3>1. n \in Nat /\ n + 1 \in Nat /\ Append(Kept[n], n + 1) \in Seq(Nat) OBVIOUS
    <3>2. Kept[n + 1] \in Seq(Nat) BY <1>7, <3>1, TruncatedTyped, Zenon
    <3> QED BY <3>1, <3>2
  <2>3. T \in SUBSET Nat OBVIOUS
  <2>4. T = Nat
    <3> HIDE DEF T
    <3> QED BY <2>1, <2>2, <2>3, SetInduction
  <2>5. Kept = [n \in Nat |-> Kept[n]] BY <1>6
  <2> QED BY <2>4, <2>5
<1> QED BY <1>7, <1>8

-----------------------------------------------------------------------------
(* Pruning                                                                 *)

\* How many times lie before the first one that is not before the cutoff.
Old(times, cutoff, n) ==
    /\ n \in 0..Len(times)
    /\ \A i \in 1..n : times[i] < cutoff
    /\ n < Len(times) => times[n + 1] >= cutoff

LEMMA OldExists ==
    ASSUME NEW times \in Seq(Int), NEW cutoff \in Int
    PROVE  \E n : Old(times, cutoff, n)
<1> DEFINE T == {n \in Nat : \/ \E m : Old(times, cutoff, m)
                             \/ n <= Len(times) /\ \A i \in 1..n : times[i] < cutoff
                             \/ n > Len(times)}
<1>0. Len(times) \in Nat /\ \A i \in 1..Len(times) : times[i] \in Int
  OBVIOUS
<1>1. 0 \in T
  BY <1>0
<1>2. ASSUME NEW n \in T PROVE n + 1 \in T
  <2>1. CASE \E m : Old(times, cutoff, m)
    BY <2>1
  <2>2. CASE n < Len(times) /\ \A i \in 1..n : times[i] < cutoff
    <3>1. CASE times[n + 1] < cutoff
      BY <1>0, <2>2, <3>1
    <3>2. CASE ~(times[n + 1] < cutoff)
      <4>1. Old(times, cutoff, n) BY <1>0, <2>2, <3>2 DEF Old
      <4> QED BY <4>1
    <3> QED BY <3>1, <3>2
  <2>3. CASE n >= Len(times)
    BY <1>0, <2>3
  <2> QED BY <1>0, <2>1, <2>2, <2>3
<1>3. T = Nat
  <2> HIDE DEF T
  <2> QED BY <1>1, <1>2, SetInduction, T \subseteq Nat DEF T
<1>4. Len(times) \in T
  BY <1>0, <1>3
<1> QED
  BY <1>0, <1>4 DEF Old

\* To prune drops times before the cutoff from the front, and nothing more.
LEMMA SinceProperties ==
    ASSUME NEW times \in Seq(Int), NEW cutoff \in Int
    PROVE  \E n \in 0..Len(times) :
              /\ Old(times, cutoff, n)
              /\ Len(Since(times, cutoff)) = Len(times) - n
              /\ \A i \in 1..(Len(times) - n) : Since(times, cutoff)[i] = times[n + i]
<1> DEFINE n == CHOOSE n \in 0..Len(times) :
                   /\ \A i \in 1..n : times[i] < cutoff
                   /\ n < Len(times) => times[n + 1] >= cutoff
<1>1. Old(times, cutoff, n)
  BY OldExists DEF Old
<1>2. Since(times, cutoff) = SubSeq(times, n + 1, Len(times))
  BY DEF Since
<1> HIDE DEF n
<1>3. n \in 0..Len(times) /\ Len(times) \in Nat
  BY <1>1 DEF Old
<1>4. /\ Len(SubSeq(times, n + 1, Len(times))) = Len(times) - n
      /\ \A i \in 1..(Len(times) - n) : SubSeq(times, n + 1, Len(times))[i] = times[n + i]
  <2>1. n + 1 \in Int /\ Len(times) \in Int /\ \A i \in (n + 1)..Len(times) : times[i] \in Int
    BY <1>3
  <2>2. /\ Len(SubSeq(times, n + 1, Len(times))) =
              IF n + 1 <= Len(times) THEN Len(times) - (n + 1) + 1 ELSE 0
        /\ \A i \in 1..(Len(times) - (n + 1) + 1) :
              SubSeq(times, n + 1, Len(times))[i] = times[n + 1 + i - 1]
    BY <2>1, SubSeqProperties
  <2>3. Len(times) - (n + 1) + 1 = Len(times) - n
    BY <1>3
  <2>4. \A i \in 1..(Len(times) - n) : n + 1 + i - 1 = n + i
    BY <1>3
  <2> DEFINE rest == SubSeq(times, n + 1, Len(times))
  <2>5. Len(rest) = Len(times) - n
    BY <1>3, <2>2
  <2>6. \A i \in 1..(Len(times) - n) : rest[i] = times[n + i]
    BY <2>2, <2>3, <2>4
  <2> HIDE DEF rest
  <2>7. Len(rest) = Len(times) - n /\ \A i \in 1..(Len(times) - n) : rest[i] = times[n + i]
    BY <2>5, <2>6
  <2> QED BY <2>7 DEF rest
<1> QED BY <1>1, <1>2, <1>3, <1>4

\* It leaves times of the set that they were from.
LEMMA SinceTyped ==
    ASSUME NEW S \in SUBSET Int, NEW times \in Seq(S), NEW cutoff \in Int
    PROVE  Since(times, cutoff) \in Seq(S)
<1>1. times \in Seq(Int)
  BY SeqMonotonic
<1>2. PICK n \in 0..Len(times) :
         Since(times, cutoff) = SubSeq(times, n + 1, Len(times))
  <2> DEFINE n == CHOOSE n \in 0..Len(times) :
                     /\ \A i \in 1..n : times[i] < cutoff
                     /\ n < Len(times) => times[n + 1] >= cutoff
  <2>1. n \in 0..Len(times)
    BY <1>1, OldExists DEF Old
  <2>2. Since(times, cutoff) = SubSeq(times, n + 1, Len(times))
    BY DEF Since
  <2> HIDE DEF n
  <2> QED BY <2>1, <2>2
<1> QED BY <1>2, SubSeqProperties

-----------------------------------------------------------------------------
(* The inductive invariant                                                 *)

\* Times are noted in the order of the clock.
InOrder(times, t) ==
    \A i, j \in 1..Len(times) : i <= j => times[i] <= times[j] /\ times[j] <= t

\* The times that still count at time t are the last of all.
Matches(times, all, t) ==
    \A i \in 1..Len(times) :
        times[i] >= t - Window =>
            /\ Len(times) - i < Len(all)
            /\ all[Len(all) - (Len(times) - i)] = times[i]

\* The failures of a source that still count are the last that it had since
\* its last success.
Justified(s) == InOrder(failures[s], now) /\ Matches(failures[s], wrong[s], now)

\* Threads that passed the guard and have a credential to compare.
Guessing(s) == {h \in Handler : req[h].pc = "compare" /\ req[h].src = s}

\* A thread that has failed since it passed has used its guess up.
GuessesLeft(s) ==
    Cardinality(Counting(s)) + Cardinality(Guessing(s)) < Threshold + Cardinality(Handler)

GuardInv == \A s \in Source : Justified(s) /\ GuessesLeft(s)

\* The thread that rewrites the log has its lock and has read all of it.
LogInv ==
    /\ log = Kept[appends]
    /\ \A h \in Handler : (req[h].pc = "append") <=> (logLock = h)
    /\ \A h \in Handler : logLock = h => draft[h] = log

Exchanging(h) == req[h].pc = "exchange"

\* A state is issued, in a thread's hands or spent, and is so once.
SignInInv ==
    /\ Issued \subseteq minted /\ DOMAIN openings \subseteq minted
    /\ \A k \in DOMAIN openings : openings[k] \in minted \ Issued
    /\ \A h \in Handler : Exchanging(h) =>
          /\ req[h].state \in minted \ Issued
          /\ \A k \in DOMAIN openings : openings[k] # req[h].state
          /\ \A g \in Handler : Exchanging(g) /\ req[g].state = req[h].state => g = h
    /\ OneSessionPerSignIn

DoorInv == TypeOK /\ GuardInv /\ LogInv /\ SignInInv

-----------------------------------------------------------------------------
(* Types                                                                   *)

LEMMA RequestTyped ==
    ASSUME TypeOK, NEW h \in Handler
    PROVE  /\ req[h] \in Request
           /\ req[h].pc \in {"compare", "again"} =>
                 req[h].src \in Source /\ req[h].cred \in Credential
           /\ req[h].pc = "exchange" => req[h].state \in State /\ req[h].since \in 0..MaxTime
           /\ req[h].pc = "renew" => req[h].token \in Token /\ req[h].state \in State
<1>1. req[h] \in Request BY DEF TypeOK
<1> QED BY <1>1 DEF Request

LEMMA TimesAreIntegers == Times \subseteq Seq(Int) /\ (0..MaxTime) \subseteq Int
BY DoorAssumption DEF Times

\* The guard's own steps keep its types.
GuardTyped == failures \in [Source -> Times] /\ tracked \in Seq(Source)

LEMMA ForgetTyped ==
    ASSUME NEW tr \in Seq(Source), NEW s PROVE Forget(tr, s) \in Seq(Source)
<1>1. CASE \E i \in 1..Len(tr) : tr[i] = s
  <2> DEFINE at == CHOOSE i \in 1..Len(tr) : tr[i] = s
  <2>1. at \in 1..Len(tr) BY <1>1
  <2>2. Forget(tr, s) = SubSeq(tr, 1, at - 1) \o SubSeq(tr, at + 1, Len(tr))
    BY <1>1 DEF Forget
  <2> HIDE DEF at
  <2>3. SubSeq(tr, 1, at - 1) \in Seq(Source) /\ SubSeq(tr, at + 1, Len(tr)) \in Seq(Source)
    BY <2>1
  <2> QED BY <2>2, <2>3
<1> QED BY <1>1 DEF Forget

LEMMA PrunedTyped ==
    ASSUME TypeOK, NEW s \in Source PROVE Pruned(failures[s]) \in Times
<1>1. failures[s] \in Seq(0..MaxTime) /\ now - Window \in Int /\ 0..MaxTime \in SUBSET Int
  BY DoorAssumption, GuardAssumption DEF TypeOK, Times
<1> QED BY <1>1, SinceTyped DEF Pruned, Times

LEMMA GuardKeepsTypes ==
    ASSUME TypeOK, NEW s \in Source, Consult(s) \/ RecordFailure(s) \/ RecordSuccess(s)
    PROVE  GuardTyped'
<1>0. /\ tracked \in Seq(Source) /\ failures \in [Source -> Times] /\ now \in 0..MaxTime
      /\ <<>> \in Times
  BY DEF TypeOK, Times
<1>1. Pruned(failures[s]) \in Times BY PrunedTyped
<1>2. CASE Consult(s)
  BY <1>0, <1>1, <1>2, ForgetTyped DEF Consult, GuardTyped
<1>3. CASE RecordFailure(s)
  <2>1. Append(Pruned(failures[s]), now) \in Times BY <1>0, <1>1 DEF Times
  <2>2. failures' \in [Source -> Times] BY <1>0, <1>3, <2>1 DEF RecordFailure
  <2>3. tracked # <<>> => Tail(tracked) \in Seq(Source) BY <1>0
  <2>4. Len(tracked) >= MaxSources => tracked # <<>> BY <1>0, GuardAssumption
  <2>5. tracked' \in Seq(Source) BY <1>0, <1>3, <2>3, <2>4 DEF RecordFailure
  <2> QED BY <2>2, <2>5 DEF GuardTyped
<1>4. CASE RecordSuccess(s)
  BY <1>0, <1>4, ForgetTyped DEF RecordSuccess, GuardTyped
<1> QED BY <1>2, <1>3, <1>4

\* So do the steps of signing in.
SignInTyped ==
    /\ Issued \subseteq State /\ \A st \in Issued : states[st] \in 0..MaxTime
    /\ Sessions \subseteq Token
    /\ \A k \in Sessions : sessions[k] \in [expires : Nat, state : State]

LEMMA SignInKeepsTypes ==
    ASSUME TypeOK, NEW st \in State, NEW k \in Token, NEW n \in Token, NEW since \in 0..MaxTime,
           \/ IssueState(st, now) \/ Redeem(st)
           \/ Open(n, st, since) \/ Rotate(k, n, now, st)
    PROVE  SignInTyped'
<1>0. /\ SignInTyped /\ now \in 0..MaxTime /\ 0..MaxTime \subseteq Nat
      /\ since + SessionTtl \in Nat /\ now + SessionTtl \in Nat
  <2>1. SignInTyped /\ now \in 0..MaxTime
    BY DEF TypeOK, SignInTyped
  <2>2. MaxTime \in Nat /\ SessionTtl \in Nat
    BY SignInAssumption, DoorAssumption
  <2> QED BY <2>1, <2>2
<1>1. CASE IssueState(st, now)
  <2> DEFINE fresh == [s \in {r \in Issued : now - states[r] <= StateTtl} |-> states[s]]
  <2>1. /\ DOMAIN fresh \subseteq Issued /\ \A s \in DOMAIN fresh : fresh[s] = states[s]
        /\ states' = With(fresh, st, now) /\ sessions' = sessions
    BY <1>1 DEF IssueState
  <2> HIDE DEF fresh
  <2> QED BY <1>0, <2>1 DEF With, Without, SignInTyped, Issued, Sessions
<1>2. CASE Redeem(st)
  BY <1>0, <1>2 DEF With, Without, Redeem, SignInTyped, Issued, Sessions
<1>3. CASE Open(n, st, since)
  <2> DEFINE new == [expires |-> since + SessionTtl, state |-> st]
  <2>1. new \in [expires : Nat, state : State] BY <1>0
  <2>2. sessions' = With(sessions, n, new) /\ states' = states BY <1>3 DEF Open
  <2> HIDE DEF new
  <2> QED BY <1>0, <2>1, <2>2 DEF With, Without, SignInTyped, Issued, Sessions
<1>4. CASE Rotate(k, n, now, st)
  <2> DEFINE new == [expires |-> now + SessionTtl, state |-> st]
             rest == Without(sessions, k)
  <2>1. new \in [expires : Nat, state : State] BY <1>0
  <2>2. sessions' = With(rest, n, new) /\ states' = states BY <1>4 DEF Rotate
  <2>3. DOMAIN rest \subseteq Sessions /\ \A y \in DOMAIN rest : rest[y] = sessions[y]
    BY DEF With, Without, Sessions
  <2> HIDE DEF new, rest
  <2> QED BY <1>0, <2>1, <2>2, <2>3 DEF With, Without, SignInTyped, Issued, Sessions
<1> QED BY <1>1, <1>2, <1>3, <1>4

\* A thread goes on with a request of one of the forms.
LEMMA GotoTyped ==
    ASSUME TypeOK, NEW h \in Handler, NEW r \in Request, Goto(h, r)
    PROVE  req' \in [Handler -> Request] /\ req'[h] = r
               /\ \A g \in Handler \ {h} : req'[g] = req[g]
BY DEF TypeOK, Goto

LEMMA RequestForms ==
    /\ \A x \in {"idle", "log", "append"} : [pc |-> x] \in Request
    /\ \A s \in Source, c \in Credential, o \in BOOLEAN, x \in {"compare", "again"} :
          [pc |-> x, src |-> s, cred |-> c, operator |-> o] \in Request
    /\ \A st \in State, t \in 0..MaxTime :
          [pc |-> "exchange", state |-> st, since |-> t] \in Request
    /\ \A k \in Token, st \in State : [pc |-> "renew", token |-> k, state |-> st] \in Request
BY DEF Request

\* The parts of the type invariant that few actions touch.
GhostTyped ==
    /\ wrong \in [Source -> Times] /\ minted \subseteq State \union Token
    /\ DOMAIN openings \subseteq Token /\ \A k \in DOMAIN openings : openings[k] \in State
AccessTyped ==
    /\ log \in Seq(Nat) /\ draft \in [Handler -> Seq(Nat)] /\ appends \in Nat
    /\ logLock \in Handler \union {Nobody}
ThreadsTyped == req \in [Handler -> Request] /\ served \in 0..MaxRequests

LEMMA TypeParts ==
    /\ TypeOK <=> /\ now \in 0..MaxTime
                  /\ GuardTyped /\ SignInTyped /\ GhostTyped /\ AccessTyped /\ ThreadsTyped
    /\ TypeOK' <=> /\ now' \in 0..MaxTime
                   /\ GuardTyped' /\ SignInTyped' /\ GhostTyped' /\ AccessTyped' /\ ThreadsTyped'
BY DEF TypeOK, GuardTyped, SignInTyped, GhostTyped, AccessTyped, ThreadsTyped

LEMMA InitTyped == Init => TypeOK
<1> SUFFICES ASSUME Init PROVE TypeOK OBVIOUS
<1>1. <<>> \in Times /\ <<>> \in Seq(Nat) /\ <<>> \in Seq(Source) BY DEF Times
<1>2. Idle \in Request BY RequestForms DEF Idle
<1>3. GuardTyped /\ ThreadsTyped /\ now \in 0..MaxTime
  BY <1>1, <1>2, DoorAssumption DEF Init, GuardTyped, ThreadsTyped
<1>4. SignInTyped /\ GhostTyped
  BY <1>1 DEF Init, SignInTyped, GhostTyped, Issued, Sessions
<1>5. AccessTyped BY <1>1 DEF Init, AccessTyped
<1> QED BY <1>3, <1>4, <1>5, TypeParts

\* What a step of the guarded routes, the sign-in routes and the log changes.
GuardedStep(h) == Gate(h) \/ GateAgain(h) \/ Compare(h)
SignInStep(h) == Login(h) \/ Callback(h) \/ Exchanged(h) \/ Refresh(h) \/ Renewed(h)
LogStep(h) == ReadLog(h) \/ WriteLog(h) \/ LogFails(h)

LEMMA StepCases ==
    ASSUME [Next]_vars
    PROVE  \/ Tick \/ UNCHANGED vars
           \/ \E h \in Handler : GuardedStep(h) \/ SignInStep(h) \/ LogStep(h)
BY DEF Next, GuardedStep, SignInStep, LogStep

LEMMA RequestsGoOn ==
    ASSUME TypeOK, NEW h \in Handler, GuardedStep(h) \/ SignInStep(h) \/ LogStep(h)
    PROVE  ThreadsTyped' /\ \A g \in Handler \ {h} : req'[g] = req[g]
<1>1. served' \in 0..MaxRequests
  <2>1. Arrives(h) \/ served' = served
    BY DEF GuardedStep, SignInStep, LogStep, Gate, GateAgain, Compare, Login,
       Callback, Exchanged, Refresh, Renewed, ReadLog, WriteLog, LogFails
  <2> QED BY <2>1, DoorAssumption DEF TypeOK, Arrives
<1>2. PICK r \in Request : Goto(h, r)
  <2>0. /\ [pc |-> "log"] \in Request /\ [pc |-> "append"] \in Request /\ Idle \in Request
        /\ now \in 0..MaxTime
    BY RequestForms DEF Idle, TypeOK
  <2>1. CASE Respond(h) \/ LogStep(h)
    BY <2>0, <2>1 DEF Respond, LogStep, ReadLog, WriteLog, LogFails, Logged
  <2>2. CASE Gate(h)
    <3>1. PICK s \in Source, c \in Credential, o \in BOOLEAN :
             Refuse(h, s) \/ Admit(h, s, c, o)
      BY <2>2 DEF Gate
    <3>2. [pc |-> "compare", src |-> s, cred |-> c, operator |-> o] \in Request
      BY RequestForms
    <3> QED BY <2>0, <3>1, <3>2 DEF Refuse, Respond, Admit
  <2>3. CASE GateAgain(h)
    <3>1. req[h].src \in Source /\ req[h].cred \in Credential
      BY <2>3, RequestTyped DEF GateAgain
    <3>2. [pc |-> "compare", src |-> req[h].src, cred |-> req[h].cred, operator |-> FALSE]
             \in Request
      BY <3>1, RequestForms
    <3> QED BY <2>0, <2>3, <3>2 DEF GateAgain, Refuse, Respond, Admit
  <2>4. CASE Compare(h)
    <3>1. req[h] \in Request /\ req[h].pc = "compare" BY <2>4, RequestTyped DEF Compare
    <3>2. [req[h] EXCEPT !.pc = "again"] \in Request BY <3>1 DEF Request
    <3> QED BY <2>0, <2>4, <3>2 DEF Compare, Respond
  <2>5. CASE Callback(h)
    <3>1. PICK st \in State :
             Respond(h) \/ Goto(h, [pc |-> "exchange", state |-> st, since |-> now])
      BY <2>5 DEF Callback
    <3>2. [pc |-> "exchange", state |-> st, since |-> now] \in Request
      BY <2>0, RequestForms
    <3> QED BY <2>1, <3>1, <3>2
  <2>6. CASE Refresh(h)
    <3>1. PICK k \in Token :
             \/ Respond(h)
             \/ /\ Live(k, now)
                /\ Goto(h, [pc |-> "renew", token |-> k, state |-> sessions[k].state])
      BY <2>6 DEF Refresh
    <3>2. Live(k, now) => sessions[k].state \in State BY DEF Live, TypeOK
    <3>3. Live(k, now) =>
             [pc |-> "renew", token |-> k, state |-> sessions[k].state] \in Request
      BY <3>2, RequestForms
    <3> QED BY <2>1, <3>1, <3>3
  <2> QED BY <2>1, <2>2, <2>3, <2>4, <2>5, <2>6 DEF GuardedStep, SignInStep, Login, Exchanged, Renewed
<1> QED BY <1>1, <1>2, GotoTyped DEF ThreadsTyped

\* A step of a guarded route asks the guard, or tells it, about one source.
Failing(s) == RecordFailure(s) /\ wrong' = [wrong EXCEPT ![s] = Append(@, now)]
Succeeding(s) == RecordSuccess(s) /\ wrong' = [wrong EXCEPT ![s] = <<>>]

LEMMA GuardedStepIs ==
    ASSUME TypeOK, NEW h \in Handler, GuardedStep(h)
    PROVE  /\ UNCHANGED <<now, signIn, access>>
           /\ \E s \in Source :
                 \/ Consult(s) /\ UNCHANGED wrong
                 \/ Failing(s) \/ Succeeding(s)
<1>1. CASE Gate(h) BY <1>1 DEF Gate, Refuse, Admit
<1>2. CASE GateAgain(h)
  <2>1. req[h].src \in Source BY <1>2, RequestTyped DEF GateAgain
  <2> QED BY <1>2, <2>1 DEF GateAgain, Refuse, Admit
<1>3. CASE Compare(h)
  <2>1. req[h].src \in Source BY <1>3, RequestTyped DEF Compare
  <2> QED BY <1>3, <2>1 DEF Compare, Failing, Succeeding
<1> QED BY <1>1, <1>2, <1>3 DEF GuardedStep

\* A step of a sign-in route leaves the guard and the log alone.
LEMMA SignInStepIs ==
    ASSUME NEW h \in Handler, SignInStep(h)
    PROVE  UNCHANGED <<now, guard, access>>
BY DEF SignInStep, Login, Callback, Exchanged, Refresh, Renewed, signIn

LEMMA LogStepIs ==
    ASSUME NEW h \in Handler, LogStep(h)
    PROVE  UNCHANGED <<now, guard, signIn>>
BY DEF LogStep, ReadLog, WriteLog, LogFails

LEMMA StepTyped == TypeOK /\ [Next]_vars => TypeOK'
<1> SUFFICES ASSUME TypeOK, [Next]_vars PROVE TypeOK' OBVIOUS
<1>0. /\ now \in 0..MaxTime
      /\ GuardTyped /\ SignInTyped /\ GhostTyped /\ AccessTyped /\ ThreadsTyped
  BY TypeParts
<1>1. CASE UNCHANGED vars
  BY <1>1 DEF vars, guard, signIn, access, TypeOK, Issued, Sessions
<1>2. CASE Tick
  <2>1. \A s \in Source : Since(wrong[s], now + 1 - Window) \in Times
    <3> TAKE s \in Source
    <3>1. wrong[s] \in Seq(0..MaxTime) /\ now + 1 - Window \in Int /\ 0..MaxTime \in SUBSET Int
      BY DoorAssumption, GuardAssumption DEF TypeOK, Times
    <3> QED BY <3>1, SinceTyped DEF Times
  <2>2. wrong' \in [Source -> Times] /\ now' \in 0..MaxTime
    BY <1>2, <2>1, DoorAssumption DEF Tick, TypeOK
  <2> QED BY <1>2, <2>2 DEF Tick, signIn, access, TypeOK, Issued, Sessions
<1>3. ASSUME NEW h \in Handler, GuardedStep(h) PROVE TypeOK'
  <2>1. PICK s \in Source : (Consult(s) /\ UNCHANGED wrong) \/ Failing(s) \/ Succeeding(s)
    BY <1>3, GuardedStepIs
  <2>2. UNCHANGED <<now, signIn, access>> BY <1>3, GuardedStepIs
  <2>3. GuardTyped' BY <2>1, GuardKeepsTypes DEF Failing, Succeeding
  <2>4. wrong' \in [Source -> Times]
    <3>1. Append(wrong[s], now) \in Times /\ <<>> \in Times BY <1>0 DEF GhostTyped, Times
    <3> QED BY <1>0, <2>1, <3>1 DEF Failing, Succeeding, GhostTyped
  <2>5. ThreadsTyped' BY <1>3, RequestsGoOn
  <2>6. now' \in 0..MaxTime /\ SignInTyped' /\ GhostTyped' /\ AccessTyped'
    BY <1>0, <2>2, <2>4 DEF signIn, access, SignInTyped, GhostTyped, AccessTyped, Issued, Sessions
  <2> QED BY <2>3, <2>5, <2>6, TypeParts
<1>4. ASSUME NEW h \in Handler, SignInStep(h) PROVE TypeOK'
  <2>1. now' \in 0..MaxTime /\ GuardTyped' /\ wrong' \in [Source -> Times] /\ AccessTyped'
    BY <1>0, <1>4, SignInStepIs DEF guard, access, GuardTyped, GhostTyped, AccessTyped
  <2>2. ThreadsTyped' BY <1>4, RequestsGoOn
  <2>3. SignInTyped' /\ GhostTyped'
    <3>1. CASE Login(h)
      <4>1. PICK st \in State : IssueState(st, now) /\ minted' = minted \union {st}
        BY <3>1 DEF Login
      <4>2. SignInTyped'
        <5>1. CASE Token = {}
          BY <1>0, <4>1, <5>1 DEF IssueState, SignInTyped, With, Issued, Sessions
        <5>2. CASE Token # {} BY <1>0, <4>1, <5>2, SignInKeepsTypes
        <5> QED BY <5>1, <5>2
      <4> QED BY <1>0, <2>1, <3>1, <4>1, <4>2 DEF Login, GhostTyped
    <3>2. CASE Callback(h)
      <4>1. PICK st \in State : Redeem(st) BY <3>2 DEF Callback
      <4>2. SignInTyped'
        BY <1>0, <4>1 DEF Redeem, SignInTyped, Without, Issued, Sessions
      <4> QED BY <1>0, <2>1, <3>2, <4>2 DEF Callback, GhostTyped
    <3>3. CASE Exchanged(h) /\ ~UNCHANGED signIn
      <4>1. PICK k \in Token \ minted :
               /\ Open(k, req[h].state, req[h].since)
               /\ minted' = minted \union {k} /\ openings' = With(openings, k, req[h].state)
        BY <3>3 DEF Exchanged
      <4>2. req[h].state \in State /\ req[h].since \in 0..MaxTime
        BY <3>3, RequestTyped DEF Exchanged
      <4>3. SignInTyped' BY <4>1, <4>2, SignInKeepsTypes
      <4> QED BY <1>0, <2>1, <4>1, <4>2, <4>3 DEF GhostTyped, With
    <3>4. CASE Renewed(h) /\ ~UNCHANGED signIn
      <4>1. PICK n \in Token \ minted :
               /\ Rotate(req[h].token, n, now, req[h].state)
               /\ minted' = minted \union {n} /\ UNCHANGED openings
        BY <3>4 DEF Renewed
      <4>2. req[h].state \in State /\ req[h].token \in Token
        BY <3>4, RequestTyped DEF Renewed
      <4>3. SignInTyped' BY <1>0, <4>1, <4>2, SignInKeepsTypes
      <4> QED BY <1>0, <2>1, <4>1, <4>3 DEF GhostTyped
    <3>5. CASE UNCHANGED signIn
      BY <1>0, <2>1, <3>5 DEF signIn, SignInTyped, GhostTyped, Issued, Sessions
    <3> QED BY <1>4, <3>1, <3>2, <3>3, <3>4, <3>5 DEF SignInStep, Refresh
  <2> QED BY <2>1, <2>2, <2>3, TypeParts DEF GhostTyped
<1>5. ASSUME NEW h \in Handler, LogStep(h) PROVE TypeOK'
  <2>1. ThreadsTyped' BY <1>5, RequestsGoOn
  <2>2. now' \in 0..MaxTime /\ GuardTyped' /\ SignInTyped' /\ GhostTyped'
    BY <1>0, <1>5, LogStepIs
       DEF guard, signIn, GuardTyped, SignInTyped, GhostTyped, Issued, Sessions
  <2>3. AccessTyped'
    <3>1. CASE ReadLog(h) BY <1>0, <3>1 DEF ReadLog, AccessTyped
    <3>2. CASE WriteLog(h) \/ LogFails(h)
      <4>1. draft' \in [Handler -> Seq(Nat)] /\ logLock' = Nobody /\ appends' \in Nat
        <5>1. <<>> \in Seq(Nat) OBVIOUS
        <5>2. logLock' = Nobody /\ draft' = [draft EXCEPT ![h] = <<>>]
          BY <3>2 DEF WriteLog, LogFails, Logged
        <5>3. appends' \in Nat BY <1>0, <3>2 DEF WriteLog, LogFails, AccessTyped
        <5>4. draft' \in [Handler -> Seq(Nat)]
          BY <1>0, <5>1, <5>2 DEF AccessTyped
        <5> QED BY <5>2, <5>3, <5>4
      <4>2. Append(draft[h], appends + 1) \in Seq(Nat) BY <1>0 DEF AccessTyped
      <4>3. Truncated(Append(draft[h], appends + 1)) \in Seq(Nat) BY <4>2, TruncatedTyped
      <4>4. log' \in Seq(Nat) BY <1>0, <3>2, <4>3 DEF WriteLog, LogFails, AccessTyped
      <4> QED BY <4>1, <4>4 DEF AccessTyped
    <3> QED BY <1>5, <3>1, <3>2 DEF LogStep
  <2> QED BY <2>1, <2>2, <2>3, TypeParts
<1> QED BY <1>1, <1>2, <1>3, <1>4, <1>5, StepCases

-----------------------------------------------------------------------------
(* The access log                                                          *)

LEMMA OthersNotAppending ==
    ASSUME TypeOK, NEW h \in Handler, GuardedStep(h) \/ SignInStep(h)
    PROVE  req[h].pc # "append" /\ req'[h].pc # "append"
<1> USE DEF TypeOK
<1>1. CASE Gate(h)
  BY <1>1 DEF Gate, Refuse, Admit, Respond, Goto, Arrives, Idle
<1>2. CASE GateAgain(h)
  BY <1>2 DEF GateAgain, Refuse, Admit, Respond, Goto
<1>3. CASE Compare(h)
  <2>1. req[h] \in Request /\ req[h].pc = "compare" BY <1>3 DEF Compare
  <2>2. [req[h] EXCEPT !.pc = "again"].pc = "again" BY <2>1 DEF Request
  <2>3. Respond(h) \/ Goto(h, [req[h] EXCEPT !.pc = "again"]) BY <1>3 DEF Compare
  <2>4. req'[h] = [pc |-> "log"] \/ req'[h] = [req[h] EXCEPT !.pc = "again"]
    BY <2>3 DEF Respond, Goto
  <2>5. CASE req'[h] = [pc |-> "log"] BY <2>1, <2>5
  <2>6. CASE req'[h] = [req[h] EXCEPT !.pc = "again"]
    <3>1. req'[h].pc = "again" BY <2>2, <2>6, Zenon
    <3> QED BY <2>1, <3>1
  <2> QED BY <2>4, <2>5, <2>6
<1>4. CASE SignInStep(h)
  BY <1>4 DEF SignInStep, Login, Callback, Exchanged, Refresh, Renewed, Respond, Goto, Arrives, Idle
<1> QED BY <1>1, <1>2, <1>3, <1>4 DEF GuardedStep

LEMMA LogKept == TypeOK /\ LogInv /\ [Next]_vars => LogInv'
<1> SUFFICES ASSUME TypeOK, LogInv, [Next]_vars PROVE LogInv' OBVIOUS
<1>1. CASE UNCHANGED vars BY <1>1 DEF vars, access, LogInv
<1>2. CASE Tick BY <1>2 DEF Tick, access, LogInv
<1>3. ASSUME NEW h \in Handler, GuardedStep(h) \/ SignInStep(h) PROVE LogInv'
  <2>1. UNCHANGED access BY <1>3, GuardedStepIs, SignInStepIs
  <2>2. \A g \in Handler \ {h} : req'[g] = req[g] BY <1>3, RequestsGoOn
  <2>3. req[h].pc # "append" /\ req'[h].pc # "append" BY <1>3, OthersNotAppending
  <2> QED BY <2>1, <2>2, <2>3 DEF access, LogInv
<1>4. ASSUME NEW h \in Handler, LogStep(h) PROVE LogInv'
  <2>0. \A g \in Handler \ {h} : req'[g] = req[g] BY <1>4, RequestsGoOn
  <2>1. CASE ReadLog(h)
    <3>1. /\ req'[h].pc = "append" /\ logLock = Nobody /\ logLock' = h
          /\ draft'[h] = log /\ log' = log /\ appends' = appends
      BY <2>1 DEF ReadLog, Goto, TypeOK
    <3>2. \A g \in Handler : req[g].pc # "append" BY <3>1, DoorAssumption DEF LogInv
    <3> QED BY <2>0, <3>1, <3>2 DEF LogInv
  <2>2. CASE WriteLog(h) \/ LogFails(h)
    <3>1. /\ req[h].pc = "append" /\ req'[h].pc = "idle" /\ logLock' = Nobody
      BY <2>2 DEF WriteLog, LogFails, Logged, Goto, TypeOK, Idle
    <3>2. logLock = h /\ draft[h] = log BY <3>1 DEF LogInv
    <3>3. \A g \in Handler \ {h} : req'[g].pc # "append" BY <2>0, <3>2 DEF LogInv
    <3>4. log' = Kept[appends']
      <4>1. CASE WriteLog(h)
        <5>1. appends' = appends + 1 /\ log' = Truncated(Append(log, appends + 1))
          BY <3>2, <4>1 DEF WriteLog
        <5>2. appends \in Nat /\ log = Kept[appends] BY DEF TypeOK, LogInv
        <5> QED BY <5>1, <5>2, KeptDefined
      <4>2. CASE LogFails(h) BY <4>2 DEF LogFails, LogInv
      <4> QED BY <2>2, <4>1, <4>2
    <3> QED BY <3>1, <3>3, <3>4, DoorAssumption DEF LogInv
  <2> QED BY <1>4, <2>1, <2>2 DEF LogStep
<1> QED BY <1>1, <1>2, <1>3, <1>4, StepCases

-----------------------------------------------------------------------------
(* Sign-in                                                                 *)

\* Nothing is issued, taken in hand or spent by a step, though less may be
\* issued or in hand after it and more given out.
Subdued ==
    /\ Issued' \subseteq Issued /\ minted \subseteq minted' /\ openings' = openings
    /\ \A g \in Handler : Exchanging(g)' => Exchanging(g) /\ req'[g].state = req[g].state

LEMMA SubduedKeeps ==
    ASSUME SignInInv, Subdued PROVE SignInInv'
<1>0. Issued' \subseteq minted' BY DEF SignInInv, Subdued
<1> QED BY <1>0 DEF SignInInv, Subdued, Exchanging, OneSessionPerSignIn

\* The threads that do not take a state in hand.
LEMMA HandsEmpty ==
    ASSUME TypeOK, NEW h \in Handler,
           \/ GuardedStep(h) \/ LogStep(h) \/ Login(h)
           \/ Exchanged(h) \/ Refresh(h) \/ Renewed(h)
    PROVE  /\ ~Exchanging(h)'
           /\ \A g \in Handler : Exchanging(g)' => Exchanging(g) /\ req'[g].state = req[g].state
<1>1. ~Exchanging(h)'
  <2> USE DEF TypeOK, Exchanging
  <2>1. CASE Gate(h) \/ GateAgain(h)
    BY <2>1 DEF Gate, GateAgain, Refuse, Admit, Respond, Goto
  <2>2. CASE Compare(h)
    <3>1. req[h] \in Request /\ req[h].pc = "compare" BY <2>2 DEF Compare
    <3>2. [req[h] EXCEPT !.pc = "again"].pc = "again" BY <3>1 DEF Request
    <3>3. Respond(h) \/ Goto(h, [req[h] EXCEPT !.pc = "again"]) BY <2>2 DEF Compare
    <3>4. req'[h] = [pc |-> "log"] \/ req'[h] = [req[h] EXCEPT !.pc = "again"]
      BY <3>3 DEF Respond, Goto
    <3>5. CASE req'[h] = [pc |-> "log"] BY <3>5
    <3>6. CASE req'[h] = [req[h] EXCEPT !.pc = "again"]
      <4>1. req'[h].pc = "again" BY <3>2, <3>6, Zenon
      <4> QED BY <4>1
    <3> QED BY <3>4, <3>5, <3>6
  <2>3. CASE LogStep(h) BY <2>3 DEF LogStep, ReadLog, WriteLog, LogFails, Logged, Goto, Idle
  <2>4. CASE Login(h) \/ Exchanged(h) \/ Renewed(h)
    BY <2>4 DEF Login, Exchanged, Renewed, Respond, Goto
  <2>5. CASE Refresh(h) BY <2>5 DEF Refresh, Respond, Goto
  <2> QED BY <2>1, <2>2, <2>3, <2>4, <2>5 DEF GuardedStep
<1>2. \A g \in Handler \ {h} : req'[g] = req[g] BY RequestsGoOn DEF SignInStep
<1> QED BY <1>1, <1>2 DEF Exchanging

LEMMA SignInKept == TypeOK /\ SignInInv /\ [Next]_vars => SignInInv'
<1> SUFFICES ASSUME TypeOK, SignInInv, [Next]_vars PROVE SignInInv' OBVIOUS
<1>1. CASE UNCHANGED vars
  <2>1. Subdued BY <1>1 DEF vars, signIn, Subdued, Issued, Exchanging
  <2> QED BY <2>1, SubduedKeeps
<1>2. CASE Tick
  <2>1. Subdued BY <1>2 DEF Tick, signIn, Subdued, Issued, Exchanging
  <2> QED BY <2>1, SubduedKeeps
<1>3. ASSUME NEW h \in Handler, GuardedStep(h) \/ LogStep(h) PROVE SignInInv'
  <2>1. UNCHANGED signIn BY <1>3, GuardedStepIs, LogStepIs
  <2>2. Subdued BY <1>3, <2>1, HandsEmpty DEF signIn, Subdued, Issued
  <2> QED BY <2>2, SubduedKeeps
<1>4. ASSUME NEW h \in Handler, Login(h) PROVE SignInInv'
  <2>1. PICK st \in State \ minted : IssueState(st, now) /\ minted' = minted \union {st}
    BY <1>4 DEF Login
  <2>2. Issued' \subseteq Issued \union {st} BY <2>1 DEF IssueState, With, Issued
  <2>3. UNCHANGED openings BY <1>4 DEF Login
  <2>4. \A g \in Handler : Exchanging(g)' => Exchanging(g) /\ req'[g].state = req[g].state
    BY <1>4, HandsEmpty
  <2> QED BY <2>1, <2>2, <2>3, <2>4 DEF SignInInv, Exchanging, OneSessionPerSignIn
<1>5. ASSUME NEW h \in Handler, Callback(h) PROVE SignInInv'
  <2>1. PICK st \in State :
           /\ Redeem(st)
           /\ \/ Respond(h)
              \/ st \in Issued /\ Goto(h, [pc |-> "exchange", state |-> st, since |-> now])
    BY <1>5 DEF Callback, Redeemable
  <2>2. Issued' = Issued \ {st} /\ UNCHANGED <<minted, openings>>
    BY <1>5, <2>1 DEF Callback, Redeem, Without, Issued
  <2>3. \A g \in Handler \ {h} : req'[g] = req[g] BY <1>5, RequestsGoOn DEF SignInStep
  <2>4. CASE Respond(h)
    <3>1. ~Exchanging(h)' BY <2>4 DEF Respond, Goto, Exchanging, TypeOK
    <3>2. Subdued BY <2>2, <2>3, <3>1 DEF Subdued, Exchanging
    <3> QED BY <3>2, SubduedKeeps
  <2>5. CASE st \in Issued /\ Goto(h, [pc |-> "exchange", state |-> st, since |-> now])
    <3>1. req'[h].state = st BY <2>5 DEF Goto, TypeOK
    <3> QED BY <2>2, <2>3, <2>5, <3>1 DEF SignInInv, Exchanging, OneSessionPerSignIn
  <2> QED BY <2>1, <2>4, <2>5
<1>6. ASSUME NEW h \in Handler, Exchanged(h) PROVE SignInInv'
  <2>1. CASE UNCHANGED signIn
    <3>1. Subdued BY <1>6, <2>1, HandsEmpty DEF signIn, Subdued, Issued
    <3> QED BY <3>1, SubduedKeeps
  <2>2. CASE ~UNCHANGED signIn
    <3>1. PICK k \in Token \ minted :
             /\ UNCHANGED states /\ minted' = minted \union {k}
             /\ openings' = With(openings, k, req[h].state)
      BY <1>6, <2>2 DEF Exchanged, Open
    <3>2. Exchanging(h) /\ ~Exchanging(h)' BY <1>6, HandsEmpty DEF Exchanged, Exchanging
    <3>3. \A g \in Handler \ {h} : req'[g] = req[g] BY <1>6, RequestsGoOn DEF SignInStep
    <3>4. k \notin DOMAIN openings BY <3>1 DEF SignInInv
    <3>5. /\ DOMAIN openings' = DOMAIN openings \union {k}
          /\ openings'[k] = req[h].state
          /\ \A l \in DOMAIN openings : openings'[l] = openings[l]
      BY <3>1, <3>4 DEF With
    <3>6. Issued' = Issued BY <3>1 DEF Issued
    <3>7. OneSessionPerSignIn' BY <3>2, <3>5 DEF SignInInv, OneSessionPerSignIn
    <3> QED BY <3>1, <3>2, <3>3, <3>5, <3>6, <3>7 DEF SignInInv, Exchanging
  <2> QED BY <2>1, <2>2
<1>7. ASSUME NEW h \in Handler, Refresh(h) \/ Renewed(h) PROVE SignInInv'
  <2>1. UNCHANGED <<states, openings>> /\ minted \subseteq minted'
    BY <1>7 DEF Refresh, Renewed, Rotate, signIn
  <2>2. Subdued BY <1>7, <2>1, HandsEmpty DEF Subdued, Issued
  <2> QED BY <2>2, SubduedKeeps
<1> QED BY <1>1, <1>2, <1>3, <1>4, <1>5, <1>6, <1>7, StepCases DEF SignInStep

-----------------------------------------------------------------------------
(* The failures that count                                                 *)

\* Which of the times count at time t.
Counts(times, t) ==
    {i \in 1..Len(times) : times[i] >= t - Window /\ t - times[i] < Lockout}

LEMMA CountsFinite ==
    ASSUME NEW times \in Seq(Int), NEW t
    PROVE  IsFiniteSet(Counts(times, t)) /\ Cardinality(Counts(times, t)) \in Nat
<1>1. Len(times) \in Nat OBVIOUS
<1>2. IsFiniteSet(1..Len(times)) BY <1>1, FS_Interval
<1>3. Counts(times, t) \in SUBSET (1..Len(times)) BY DEF Counts
<1>4. IsFiniteSet(Counts(times, t)) BY <1>2, <1>3, FS_Subset
<1> QED BY <1>4, FS_CardinalityType

\* None counts anew by pruning, or as time goes by.
LEMMA CountsPruned ==
    ASSUME NEW times \in Seq(Int), NEW t \in Int
    PROVE  Cardinality(Counts(Since(times, t - Window), t)) <= Cardinality(Counts(times, t))
<1>0. t - Window \in Int BY GuardAssumption
<1>1. PICK n \in 0..Len(times) :
         /\ Len(Since(times, t - Window)) = Len(times) - n
         /\ \A i \in 1..(Len(times) - n) : Since(times, t - Window)[i] = times[n + i]
  BY <1>0, SinceProperties
<1> DEFINE S == Counts(Since(times, t - Window), t)
           T == Counts(times, t)
           f == [i \in S |-> n + i]
<1>2. ASSUME NEW i \in S PROVE i \in 1..(Len(times) - n) /\ n + i \in T
  <2> DEFINE s == Since(times, t - Window)
  <2>1. i \in 1..Len(s) /\ s[i] >= t - Window /\ t - s[i] < Lockout
    BY DEF Counts
  <2>2. Len(times) \in Nat /\ i \in 1..(Len(times) - n) /\ s[i] = times[n + i]
    BY <1>1, <2>1
  <2> HIDE DEF s
  <2>3. n + i \in 1..Len(times)
    BY <2>2
  <2> QED BY <2>1, <2>2, <2>3 DEF Counts
<1>3. f \in [S -> T] BY <1>2
<1>4. \A i, j \in S : f[i] = f[j] => i = j BY <1>2
<1>5. f \in Injection(S, T)
  <2> HIDE DEF S, T, f
  <2> QED BY <1>3, <1>4, Fun_IsInj
<1>6. IsFiniteSet(T) BY CountsFinite
<1> QED BY <1>5, <1>6, FS_Injection

LEMMA CountsLater ==
    ASSUME NEW times \in Seq(Int), NEW t \in Int
    PROVE  Cardinality(Counts(times, t + 1)) <= Cardinality(Counts(times, t))
<1>1. \A i \in 1..Len(times) : times[i] \in Int OBVIOUS
<1>2. Window \in Int /\ Lockout \in Int BY GuardAssumption
<1>3. Counts(times, t + 1) \in SUBSET Counts(times, t) BY <1>1, <1>2 DEF Counts
<1>4. IsFiniteSet(Counts(times, t)) BY CountsFinite
<1> QED BY <1>3, <1>4, FS_Subset

\* A failure is one more.
LEMMA CountsAppended ==
    ASSUME NEW times \in Seq(Int), NEW t \in Int
    PROVE  Cardinality(Counts(Append(times, t), t)) <= Cardinality(Counts(times, t)) + 1
<1> DEFINE last == Len(times) + 1
           T == Counts(times, t)
<1>1. Counts(Append(times, t), t) \in SUBSET (T \union {last}) BY DEF Counts
<1>2. IsFiniteSet(T) /\ Cardinality(T) \in Nat BY CountsFinite
<1> HIDE DEF T, last
<1>3. IsFiniteSet(T \union {last}) /\ Cardinality(T \union {last}) <= Cardinality(T) + 1
  <2>1. /\ IsFiniteSet(T \union {last})
        /\ Cardinality(T \union {last}) =
              IF last \in T THEN Cardinality(T) ELSE Cardinality(T) + 1
    BY <1>2, FS_AddElement, Zenon
  <2> QED BY <1>2, <2>1
<1>4. Append(times, t) \in Seq(Int) BY AppendProperties
<1>5. Cardinality(Counts(Append(times, t), t)) \in Nat BY <1>4, CountsFinite
<1>6. Cardinality(T \union {last}) \in Nat BY <1>3, FS_CardinalityType
<1>7. Cardinality(Counts(Append(times, t), t)) <= Cardinality(T \union {last})
  BY <1>1, <1>3, FS_Subset
<1> QED BY <1>2, <1>3, <1>5, <1>6, <1>7 DEF T

LEMMA CountsOfNone == \A t : Cardinality(Counts(<<>>, t)) = 0
<1>0. Len(<<>>) = 0 /\ 1..0 = {} OBVIOUS
<1>1. \A t : Counts(<<>>, t) = {} BY <1>0, Zenon DEF Counts
<1> QED BY <1>1, FS_EmptySet

\* A source that is let in is below the threshold.
LEMMA AdmittedBelow ==
    ASSUME NEW s, failures[s] \in Seq(Int), now \in Int, InOrder(failures[s], now), ~LockedOut(s)
    PROVE  Cardinality(Counts(failures[s], now)) < Threshold
<1> DEFINE times == failures[s]
<1>0. Window \in Nat /\ Lockout \in Nat /\ Threshold \in Nat \ {0} /\ now - Window \in Int
  BY GuardAssumption
<1>1. PICK n \in 0..Len(times) :
         /\ Old(times, now - Window, n)
         /\ Len(Pruned(times)) = Len(times) - n
         /\ \A i \in 1..(Len(times) - n) : Pruned(times)[i] = times[n + i]
  BY <1>0, SinceProperties DEF Pruned
<1>2. Len(times) \in Nat /\ \A i \in 1..Len(times) : times[i] \in Int OBVIOUS
<1>3. CASE Len(times) - n < Threshold
  <2>1. Counts(times, now) \in SUBSET ((n + 1)..Len(times))
    <3>1. ASSUME NEW i \in Counts(times, now) PROVE i \in (n + 1)..Len(times)
      <4>1. i \in 1..Len(times) /\ times[i] >= now - Window BY DEF Counts
      <4>2. ~(times[i] < now - Window) BY <1>0, <1>2, <4>1
      <4>3. i \notin 1..n BY <1>1, <4>2 DEF Old
      <4> QED BY <1>2, <4>1, <4>3
    <3> QED BY <3>1
  <2>2. IsFiniteSet((n + 1)..Len(times)) /\ Cardinality((n + 1)..Len(times)) = Len(times) - n
    <3>1. n + 1 \in Int /\ Len(times) \in Int BY <1>2
    <3>2. /\ IsFiniteSet((n + 1)..Len(times))
          /\ Cardinality((n + 1)..Len(times)) =
                IF n + 1 > Len(times) THEN 0 ELSE Len(times) - (n + 1) + 1
      BY <3>1, FS_Interval, Zenon
    <3> QED BY <1>2, <3>2
  <2>3. Cardinality(Counts(times, now)) <= Len(times) - n BY <2>1, <2>2, FS_Subset
  <2>4. Cardinality(Counts(times, now)) \in Nat BY CountsFinite
  <2> QED BY <1>0, <1>2, <1>3, <2>3, <2>4
<1>4. CASE ~(Len(times) - n < Threshold)
  <2>1. Len(times) - n >= 1 BY <1>0, <1>2, <1>4
  <2>2. Pruned(times)[Len(times) - n] = times[Len(times)]
    <3>1. Len(times) - n \in 1..(Len(times) - n) /\ n + (Len(times) - n) = Len(times)
      BY <1>2, <2>1
    <3> QED BY <1>1, <3>1
  <2>3. ~(now - times[Len(times)] < Lockout)
    <3>1. Len(Pruned(times)) >= Threshold BY <1>0, <1>1, <1>2, <1>4
    <3>2. ~(now - Pruned(times)[Len(Pruned(times))] < Lockout) BY <3>1 DEF LockedOut
    <3> QED BY <1>1, <2>2, <3>2
  <2>4. ASSUME NEW i \in 1..Len(times) PROVE ~(now - times[i] < Lockout)
    <3>1. times[i] <= times[Len(times)] BY <1>2 DEF InOrder
    <3> QED BY <1>0, <1>2, <2>3, <3>1
  <2>5. Counts(times, now) = {} BY <2>4 DEF Counts
  <2> QED BY <1>0, <2>5, FS_EmptySet
<1> QED BY <1>3, <1>4

-----------------------------------------------------------------------------
(* The failures behind a lockout                                           *)

LEMMA MatchesPruned ==
    ASSUME NEW times \in Seq(Int), NEW all \in Seq(Int), NEW t \in Int,
           InOrder(times, t), Matches(times, all, t)
    PROVE  /\ InOrder(Since(times, t - Window), t)
           /\ Matches(Since(times, t - Window), all, t)
<1> DEFINE p == Since(times, t - Window)
<1>0. t - Window \in Int /\ Window \in Nat BY GuardAssumption
<1>1. PICK n \in 0..Len(times) :
         Len(p) = Len(times) - n /\ \A i \in 1..(Len(times) - n) : p[i] = times[n + i]
  BY <1>0, SinceProperties
<1>2. /\ Len(times) \in Nat /\ \A i \in 1..Len(times) : times[i] \in Int
      /\ \A i \in 1..(Len(times) - n) : n + i \in 1..Len(times)
      /\ \A i \in 1..(Len(times) - n) : Len(times) - (n + i) = Len(times) - n - i
  OBVIOUS
<1> HIDE DEF p
<1>3. ASSUME NEW i \in 1..Len(p), NEW j \in 1..Len(p), i <= j
      PROVE  p[i] <= p[j] /\ p[j] <= t
  <2>1. /\ i \in 1..(Len(times) - n) /\ j \in 1..(Len(times) - n) /\ n + i <= n + j
        /\ n + i \in 1..Len(times) /\ n + j \in 1..Len(times)
    BY <1>1, <1>2, <1>3
  <2>2. p[i] = times[n + i] /\ p[j] = times[n + j] BY <1>1, <2>1
  <2> QED BY <2>1, <2>2 DEF InOrder
<1>4. ASSUME NEW i \in 1..Len(p), p[i] >= t - Window
      PROVE  Len(p) - i < Len(all) /\ all[Len(all) - (Len(p) - i)] = p[i]
  <2>1. i \in 1..(Len(times) - n) BY <1>1
  <2>2. n + i \in 1..Len(times) /\ times[n + i] = p[i] BY <1>1, <1>2, <2>1
  <2>3. /\ Len(times) - (n + i) < Len(all)
        /\ all[Len(all) - (Len(times) - (n + i))] = times[n + i]
    BY <1>4, <2>2 DEF Matches
  <2>4. Len(times) - (n + i) = Len(p) - i BY <1>1, <1>2, <2>1
  <2> QED BY <2>2, <2>3, <2>4
<1>5. InOrder(p, t) BY <1>3 DEF InOrder
<1>6. Matches(p, all, t) BY <1>4 DEF Matches
<1> QED BY <1>5, <1>6 DEF p

LEMMA MatchesAppended ==
    ASSUME NEW times \in Seq(Int), NEW all \in Seq(Int), NEW t \in Int,
           InOrder(times, t), Matches(times, all, t)
    PROVE  /\ InOrder(Append(times, t), t)
           /\ Matches(Append(times, t), Append(all, t), t)
<1> DEFINE f == Append(times, t)
           w == Append(all, t)
<1>1. /\ Len(f) = Len(times) + 1 /\ f[Len(times) + 1] = t
      /\ \A i \in 1..Len(times) : f[i] = times[i]
      /\ Len(w) = Len(all) + 1 /\ w[Len(all) + 1] = t
      /\ \A i \in 1..Len(all) : w[i] = all[i]
      /\ Len(times) \in Nat /\ Len(all) \in Nat
      /\ \A i \in 1..Len(times) : times[i] \in Int
  OBVIOUS
<1> HIDE DEF f, w
<1>2. ASSUME NEW i \in 1..Len(f), NEW j \in 1..Len(f), i <= j
      PROVE  f[i] <= f[j] /\ f[j] <= t
  <2>1. CASE j \in 1..Len(times)
    <3>1. i \in 1..Len(times) BY <1>2, <2>1
    <3>2. times[i] <= times[j] /\ times[j] <= t BY <1>2, <2>1, <3>1 DEF InOrder
    <3> QED BY <1>1, <2>1, <3>1, <3>2
  <2>2. CASE j = Len(times) + 1
    <3>1. \A k \in 1..Len(times) : times[k] <= t
      BY <1>1 DEF InOrder
    <3>2. i = Len(times) + 1 \/ i \in 1..Len(times)
      BY <1>1
    <3>3. f[i] <= t
      BY <1>1, <3>1, <3>2
    <3> QED BY <1>1, <2>2, <3>3
  <2> QED BY <1>1, <2>1, <2>2
<1>3. ASSUME NEW i \in 1..Len(f), f[i] >= t - Window
      PROVE  Len(f) - i < Len(w) /\ w[Len(w) - (Len(f) - i)] = f[i]
  <2>1. CASE i = Len(times) + 1 BY <1>1, <2>1
  <2>2. CASE i \in 1..Len(times)
    <3>1. Len(times) - i < Len(all) /\ all[Len(all) - (Len(times) - i)] = f[i]
      BY <1>1, <1>3, <2>2 DEF Matches
    <3>2. /\ Len(w) - (Len(f) - i) = Len(all) - (Len(times) - i)
          /\ Len(all) - (Len(times) - i) \in 1..Len(all)
      BY <1>1, <2>2, <3>1
    <3>3. w[Len(w) - (Len(f) - i)] = f[i] BY <1>1, <3>1, <3>2
    <3>4. Len(f) - i < Len(w) BY <1>1, <2>2, <3>1
    <3> QED BY <3>3, <3>4
  <2> QED BY <1>1, <2>1, <2>2
<1>4. InOrder(f, t) BY <1>2 DEF InOrder
<1>5. Matches(f, w, t) BY <1>3 DEF Matches
<1> QED BY <1>4, <1>5 DEF f, w

LEMMA MatchesNone == \A all, t : InOrder(<<>>, t) /\ Matches(<<>>, all, t)
<1>1. Len(<<>>) = 0 /\ 1..0 = {} OBVIOUS
<1> QED BY <1>1, Zenon DEF InOrder, Matches

LEMMA MatchesLater ==
    ASSUME NEW times \in Seq(Int), NEW all \in Seq(Int), NEW t \in Int,
           InOrder(times, t), Matches(times, all, t)
    PROVE  /\ InOrder(times, t + 1)
           /\ Matches(times, Since(all, t + 1 - Window), t + 1)
<1> DEFINE w == Since(all, t + 1 - Window)
<1>0. /\ t + 1 - Window \in Int /\ Window \in Nat /\ Len(all) \in Nat /\ Len(times) \in Nat
      /\ \A i \in 1..Len(times) : times[i] \in Int
      /\ \A i \in 1..Len(all) : all[i] \in Int
  BY GuardAssumption
<1>1. InOrder(times, t + 1) BY <1>0 DEF InOrder
<1>2. PICK n \in 0..Len(all) :
         /\ Old(all, t + 1 - Window, n) /\ Len(w) = Len(all) - n
         /\ \A i \in 1..(Len(all) - n) : w[i] = all[n + i]
  BY <1>0, SinceProperties
<1> HIDE DEF w
<1>3. ASSUME NEW i \in 1..Len(times), times[i] >= t + 1 - Window
      PROVE  Len(times) - i < Len(w) /\ w[Len(w) - (Len(times) - i)] = times[i]
  <2> DEFINE k == Len(all) - (Len(times) - i)
  <2>1. Len(times) - i < Len(all) /\ all[k] = times[i]
    BY <1>0, <1>3 DEF Matches
  <2>2. k \in 1..Len(all) BY <1>0, <2>1
  <2> HIDE DEF k
  <2>3. k > n
    <3>1. ~(all[k] < t + 1 - Window) BY <1>0, <1>3, <2>1
    <3>2. k \in 1..n => all[k] < t + 1 - Window BY <1>2 DEF Old
    <3> QED BY <2>2, <3>1, <3>2
  <2> USE DEF k
  <2>4. k - n \in 1..(Len(all) - n) /\ n + (k - n) = k BY <1>0, <2>2, <2>3
  <2>5. Len(w) - (Len(times) - i) = k - n BY <1>0, <1>2
  <2>6. w[k - n] = all[k] BY <1>2, <2>4
  <2>7. Len(times) - i < Len(w) BY <1>0, <1>2, <2>3
  <2> HIDE DEF k
  <2> QED BY <2>1, <2>5, <2>6, <2>7
<1>4. Matches(times, w, t + 1) BY <1>0, <1>3 DEF Matches
<1> QED BY <1>1, <1>4 DEF w

\* What the guard's operations do to the failures of each source.
LEMMA ConsultEffect ==
    ASSUME TypeOK, NEW s \in Source, NEW r \in Source, Consult(s)
    PROVE  failures'[r] = IF r = s THEN Pruned(failures[s]) ELSE failures[r]
BY DEF Consult, TypeOK

LEMMA FailureEffect ==
    ASSUME TypeOK, NEW s \in Source, NEW r \in Source, RecordFailure(s)
    PROVE  IF r = s THEN failures'[r] = Append(Pruned(failures[s]), now)
           ELSE failures'[r] \in {<<>>, failures[r]}
BY DEF RecordFailure, TypeOK

LEMMA SuccessEffect ==
    ASSUME TypeOK, NEW s \in Source, NEW r \in Source, RecordSuccess(s)
    PROVE  failures'[r] = IF r = s THEN <<>> ELSE failures[r]
BY DEF RecordSuccess, TypeOK

LEMMA GuardFacts ==
    ASSUME TypeOK, NEW s \in Source
    PROVE  /\ failures[s] \in Seq(Int) /\ wrong[s] \in Seq(Int) /\ now \in Int
           /\ Pruned(failures[s]) \in Seq(Int)
<1>1. failures[s] \in Times /\ wrong[s] \in Times /\ now \in 0..MaxTime BY DEF TypeOK
<1>2. Pruned(failures[s]) \in Times BY PrunedTyped
<1> QED BY <1>1, <1>2, TimesAreIntegers

LEMMA JustifiedKept ==
    ASSUME TypeOK, GuardInv, [Next]_vars, NEW r \in Source
    PROVE  Justified(r)'
<1> DEFINE f == failures[r]
           w == wrong[r]
<1>0. f \in Seq(Int) /\ w \in Seq(Int) /\ now \in Int /\ InOrder(f, now) /\ Matches(f, w, now)
  BY GuardFacts DEF GuardInv, Justified
<1>1. InOrder(Pruned(f), now) /\ Matches(Pruned(f), w, now) /\ Pruned(f) \in Seq(Int)
  BY <1>0, MatchesPruned, GuardFacts DEF Pruned
<1>2. CASE UNCHANGED <<now, guard>>
  BY <1>0, <1>2 DEF guard, Justified
<1>3. CASE Tick
  <2>1. now' = now + 1 /\ failures'[r] = f /\ wrong'[r] = Since(w, now + 1 - Window)
    BY <1>3 DEF Tick, TypeOK
  <2> HIDE DEF f, w
  <2>2. InOrder(f, now + 1) /\ Matches(f, Since(w, now + 1 - Window), now + 1)
    BY <1>0, MatchesLater
  <2> QED BY <2>1, <2>2 DEF Justified
<1>4. ASSUME NEW h \in Handler, GuardedStep(h) PROVE Justified(r)'
  <2>0. now' = now BY <1>4, GuardedStepIs
  <2>1. PICK s \in Source : (Consult(s) /\ UNCHANGED wrong) \/ Failing(s) \/ Succeeding(s)
    BY <1>4, GuardedStepIs
  <2>2. CASE Consult(s) /\ UNCHANGED wrong
    <3>1. failures'[r] \in {f, Pruned(f)} /\ wrong'[r] = w BY <2>2, ConsultEffect
    <3> QED BY <1>0, <1>1, <2>0, <3>1 DEF Justified
  <2>3. CASE Failing(s)
    <3>1. CASE r = s
      <4>1. failures'[r] = Append(Pruned(f), now) /\ wrong'[r] = Append(w, now)
        BY <2>3, <3>1, FailureEffect DEF Failing, TypeOK
      <4> HIDE DEF f, w
      <4>2. /\ InOrder(Append(Pruned(f), now), now)
            /\ Matches(Append(Pruned(f), now), Append(w, now), now)
        BY <1>0, <1>1, MatchesAppended
      <4> QED BY <2>0, <4>1, <4>2 DEF Justified
    <3>2. CASE r # s
      <4>1. failures'[r] \in {<<>>, f} /\ wrong'[r] = w
        BY <2>3, <3>2, FailureEffect DEF Failing, TypeOK
      <4> QED BY <1>0, <2>0, <4>1, MatchesNone DEF Justified
    <3> QED BY <3>1, <3>2
  <2>4. CASE Succeeding(s)
    <3>1. failures'[r] = <<>> \/ (failures'[r] = f /\ wrong'[r] = w)
      BY <2>4, SuccessEffect DEF Succeeding, TypeOK
    <3> QED BY <1>0, <2>0, <3>1, MatchesNone DEF Justified
  <2> QED BY <2>1, <2>2, <2>3, <2>4
<1> QED BY <1>2, <1>3, <1>4, StepCases, SignInStepIs, LogStepIs DEF vars

-----------------------------------------------------------------------------
(* Threads that guess together                                             *)

LEMMA CountingIs ==
    /\ \A s : Counting(s) = Counts(failures[s], now)
    /\ \A s : Counting(s)' = Counts(failures'[s], now')
BY DEF Counting, Counts

LEMMA GuessingFinite ==
    ASSUME NEW s
    PROVE  /\ IsFiniteSet(Guessing(s)) /\ Cardinality(Guessing(s)) \in Nat
           /\ Cardinality(Guessing(s)) <= Cardinality(Handler)
           /\ IsFiniteSet(Guessing(s)') /\ Cardinality(Guessing(s)') \in Nat
           /\ Cardinality(Guessing(s)') <= Cardinality(Handler)
           /\ Cardinality(Handler) \in Nat
<1>1. IsFiniteSet(Handler) BY DoorAssumption
<1>2. Guessing(s) \in SUBSET Handler /\ Guessing(s)' \in SUBSET Handler BY DEF Guessing
<1>3. IsFiniteSet(Guessing(s)) /\ Cardinality(Guessing(s)) <= Cardinality(Handler)
  BY <1>1, <1>2, FS_Subset
<1>4. IsFiniteSet(Guessing(s)') /\ Cardinality(Guessing(s)') <= Cardinality(Handler)
  BY <1>1, <1>2, FS_Subset
<1> QED BY <1>1, <1>3, <1>4, FS_CardinalityType

\* No step makes more of the failures of a source count, except one thread's
\* failure, and no thread guesses that was not let in.
NoNewGuess(r) ==
    /\ Guessing(r)' \subseteq Guessing(r)
    /\ Cardinality(Counting(r)') <= Cardinality(Counting(r))
GuessUsed(r) ==
    /\ \E h \in Guessing(r) : Guessing(r)' = Guessing(r) \ {h}
    /\ Cardinality(Counting(r)') <= Cardinality(Counting(r)) + 1
LetIn(r) == Cardinality(Counting(r)') < Threshold

LEMMA GuessesAreKept ==
    ASSUME TypeOK, GuardInv, TypeOK', NEW r \in Source,
           NoNewGuess(r) \/ GuessUsed(r) \/ LetIn(r)
    PROVE  GuessesLeft(r)'
<1>0. failures[r] \in Seq(Int) /\ failures'[r] \in Seq(Int)
  <2>1. failures'[r] \in Times BY DEF TypeOK
  <2> QED BY <2>1, GuardFacts, TimesAreIntegers
<1>1. Cardinality(Counting(r)) \in Nat /\ Cardinality(Counting(r)') \in Nat
  BY <1>0, CountingIs, CountsFinite
<1>2. Threshold \in Nat BY GuardAssumption
<1>3. Cardinality(Counting(r)) + Cardinality(Guessing(r)) < Threshold + Cardinality(Handler)
  BY DEF GuardInv, GuessesLeft
<1>4. CASE NoNewGuess(r)
  <2>1. Guessing(r)' \in SUBSET Guessing(r) BY <1>4 DEF NoNewGuess
  <2>2. Cardinality(Guessing(r)') <= Cardinality(Guessing(r))
    BY <2>1, GuessingFinite, FS_Subset
  <2> QED BY <1>1, <1>2, <1>3, <1>4, <2>2, GuessingFinite DEF NoNewGuess, GuessesLeft
<1>5. CASE GuessUsed(r)
  <2>1. PICK h \in Guessing(r) : Guessing(r)' = Guessing(r) \ {h} BY <1>5 DEF GuessUsed
  <2>2. Cardinality(Guessing(r)') = Cardinality(Guessing(r)) - 1
    BY <2>1, GuessingFinite, FS_RemoveElement
  <2> QED BY <1>1, <1>2, <1>3, <1>5, <2>2, GuessingFinite DEF GuessUsed, GuessesLeft
<1>6. CASE LetIn(r)
  BY <1>1, <1>2, <1>6, GuessingFinite DEF LetIn, GuessesLeft
<1> QED BY <1>4, <1>5, <1>6

\* Who guesses after a step.
LEMMA GuessersOf ==
    ASSUME TypeOK, NEW h \in Handler, NEW r \in Source,
           \A g \in Handler \ {h} : req'[g] = req[g]
    PROVE  /\ req'[h].pc # "compare" \/ req'[h].src # r => Guessing(r)' = Guessing(r) \ {h}
           /\ \A g \in Guessing(r)' : g = h \/ g \in Guessing(r)
BY DEF Guessing

\* A thread that is refused, or let in after the guard was asked.
Refused(h, s) == Consult(s) /\ UNCHANGED wrong /\ req'[h].pc # "compare"
Admitted(h, s) ==
    /\ ~LockedOut(s) /\ Consult(s) /\ UNCHANGED wrong
    /\ req'[h].pc = "compare" /\ req'[h].src = s

LEMMA GuardedStepBy ==
    ASSUME TypeOK, NEW h \in Handler, GuardedStep(h)
    PROVE  \/ \E s \in Source : Refused(h, s) \/ Admitted(h, s)
           \/ \E s \in Source : /\ Failing(s) \/ Succeeding(s)
                                /\ h \in Guessing(s) /\ req'[h].pc # "compare"
<1>0. req \in [Handler -> Request] BY DEF TypeOK
<1>1. CASE Gate(h)
  <2>1. PICK s \in Source, c \in Credential, o \in BOOLEAN :
           /\ Refuse(h, s) \/ Admit(h, s, c, o)
           /\ UNCHANGED wrong
    BY <1>1 DEF Gate
  <2>2. Refuse(h, s) => Refused(h, s) BY <1>0, <2>1 DEF Refuse, Refused, Respond, Goto
  <2>3. Admit(h, s, c, o) => Admitted(h, s) BY <1>0, <2>1 DEF Admit, Admitted, Goto
  <2> QED BY <2>1, <2>2, <2>3
<1>2. CASE GateAgain(h)
  <2> DEFINE s == req[h].src
  <2>1. /\ Refuse(h, s) \/ Admit(h, s, req[h].cred, FALSE)
        /\ UNCHANGED wrong /\ s \in Source
    BY <1>2, RequestTyped DEF GateAgain
  <2>2. Refuse(h, s) => Refused(h, s) BY <1>0, <2>1 DEF Refuse, Refused, Respond, Goto
  <2>3. Admit(h, s, req[h].cred, FALSE) => Admitted(h, s)
    BY <1>0, <2>1 DEF Admit, Admitted, Goto
  <2> QED BY <2>1, <2>2, <2>3
<1>3. CASE Compare(h)
  <2> DEFINE s == req[h].src
  <2>1. s \in Source /\ req[h] \in Request /\ req[h].pc = "compare" /\ h \in Guessing(s)
    BY <1>3, RequestTyped DEF Compare, Guessing
  <2>2. Failing(s) \/ Succeeding(s) BY <1>3 DEF Compare, Failing, Succeeding
  <2>3. req'[h].pc # "compare"
    <3>1. Respond(h) \/ Goto(h, [req[h] EXCEPT !.pc = "again"]) BY <1>3 DEF Compare
    <3>2. req'[h] = [pc |-> "log"] \/ req'[h] = [req[h] EXCEPT !.pc = "again"]
      BY <1>0, <3>1 DEF Respond, Goto
    <3>3. [req[h] EXCEPT !.pc = "again"].pc = "again" BY <2>1 DEF Request
    <3>4. CASE req'[h] = [pc |-> "log"] BY <3>4
    <3>5. CASE req'[h] = [req[h] EXCEPT !.pc = "again"]
      <4>1. req'[h].pc = "again" BY <3>3, <3>5, Zenon
      <4> QED BY <4>1
    <3> QED BY <3>2, <3>4, <3>5
  <2> QED BY <2>1, <2>2, <2>3
<1> QED BY <1>1, <1>2, <1>3 DEF GuardedStep

\* The steps of the other routes and of the log begin no guess.
LEMMA NoGuessElsewhere ==
    ASSUME TypeOK, NEW h \in Handler, SignInStep(h) \/ LogStep(h)
    PROVE  req'[h].pc # "compare"
<1> USE DEF TypeOK
<1>1. CASE SignInStep(h)
  BY <1>1 DEF SignInStep, Login, Callback, Exchanged, Refresh, Renewed, Respond, Goto
<1>2. CASE LogStep(h)
  BY <1>2 DEF LogStep, ReadLog, WriteLog, LogFails, Logged, Goto, Idle
<1> QED BY <1>1, <1>2

LEMMA GuessesKept ==
    ASSUME TypeOK, GuardInv, TypeOK', [Next]_vars, NEW r \in Source
    PROVE  NoNewGuess(r) \/ GuessUsed(r) \/ LetIn(r)
<1> DEFINE f == failures[r]
<1>0. f \in Seq(Int) /\ now \in Int /\ Cardinality(Counts(f, now)) \in Nat
      /\ Pruned(f) \in Seq(Int) /\ Cardinality(Counts(Pruned(f), now)) \in Nat
  BY GuardFacts, CountsFinite
<1>1. Cardinality(Counts(Pruned(f), now)) <= Cardinality(Counts(f, now))
  BY <1>0, CountsPruned DEF Pruned
<1>2. CASE UNCHANGED vars
  <2>1. Guessing(r)' = Guessing(r) /\ Counting(r)' = Counting(r)
    BY <1>2 DEF vars, guard, Guessing, Counting
  <2> QED BY <1>0, <2>1, CountingIs DEF NoNewGuess
<1>3. CASE Tick
  <2>1. Guessing(r)' = Guessing(r) /\ failures'[r] = f /\ now' = now + 1
    BY <1>3 DEF Tick, Guessing
  <2>2. Cardinality(Counts(f, now + 1)) <= Cardinality(Counts(f, now)) BY <1>0, CountsLater
  <2> QED BY <2>1, <2>2, CountingIs DEF NoNewGuess
<1>4. ASSUME NEW h \in Handler, SignInStep(h) \/ LogStep(h) PROVE NoNewGuess(r)
  <2>1. UNCHANGED <<now, guard>> BY <1>4, SignInStepIs, LogStepIs
  <2>2. Counting(r)' = Counting(r) BY <2>1 DEF guard, Counting
  <2>3. Guessing(r)' = Guessing(r) \ {h}
    BY <1>4, NoGuessElsewhere, RequestsGoOn, GuessersOf
  <2> QED BY <1>0, <2>2, <2>3, CountingIs DEF NoNewGuess
<1>5. ASSUME NEW h \in Handler, GuardedStep(h)
      PROVE  NoNewGuess(r) \/ GuessUsed(r) \/ LetIn(r)
  <2>0. now' = now /\ \A g \in Handler \ {h} : req'[g] = req[g]
    BY <1>5, GuardedStepIs, RequestsGoOn
  <2>1. ASSUME NEW s \in Source, Consult(s)
        PROVE  Cardinality(Counting(r)') <= Cardinality(Counting(r))
    <3>1. failures'[r] \in {f, Pruned(f)} BY <2>1, ConsultEffect
    <3> QED BY <1>0, <1>1, <2>0, <3>1, CountingIs
  <2>2. ASSUME NEW s \in Source, Refused(h, s) PROVE NoNewGuess(r)
    <3>1. Guessing(r)' = Guessing(r) \ {h} BY <2>0, <2>2, GuessersOf DEF Refused
    <3> QED BY <2>1, <2>2, <3>1 DEF Refused, NoNewGuess
  <2>3. ASSUME NEW s \in Source, Admitted(h, s) PROVE NoNewGuess(r) \/ LetIn(r)
    <3>1. CASE r # s
      <4>1. Guessing(r)' = Guessing(r) \ {h} BY <2>0, <2>3, <3>1, GuessersOf DEF Admitted
      <4> QED BY <2>1, <2>3, <4>1 DEF Admitted, NoNewGuess
    <3>2. CASE r = s
      <4>1. Cardinality(Counts(f, now)) < Threshold
        BY <1>0, <2>3, <3>2, AdmittedBelow DEF Admitted, GuardInv, Justified
      <4>2. failures'[r] = Pruned(f) BY <2>3, <3>2, ConsultEffect DEF Admitted
      <4>3. Cardinality(Counts(Pruned(f), now)) < Threshold
        BY <1>0, <1>1, <4>1, GuardAssumption
      <4> QED BY <2>0, <4>2, <4>3, CountingIs DEF LetIn
    <3> QED BY <3>1, <3>2
  <2>4. ASSUME NEW s \in Source, Failing(s) \/ Succeeding(s),
               h \in Guessing(s), req'[h].pc # "compare"
        PROVE  NoNewGuess(r) \/ GuessUsed(r)
    <3>1. Guessing(r)' = Guessing(r) \ {h} BY <2>0, <2>4, GuessersOf
    <3>2. CASE r = s /\ Failing(s)
      <4>1. failures'[r] = Append(Pruned(f), now) BY <3>2, FailureEffect DEF Failing
      <4>2. Cardinality(Counts(Append(Pruned(f), now), now))
               <= Cardinality(Counts(Pruned(f), now)) + 1
        BY <1>0, CountsAppended
      <4>3. Append(Pruned(f), now) \in Seq(Int) BY <1>0
      <4>4. Cardinality(Counts(Append(Pruned(f), now), now)) \in Nat BY <4>3, CountsFinite
      <4>5. Cardinality(Counts(Append(Pruned(f), now), now)) <= Cardinality(Counts(f, now)) + 1
        BY <1>0, <1>1, <4>2, <4>4
      <4>6. Cardinality(Counting(r)') <= Cardinality(Counting(r)) + 1
        BY <2>0, <4>1, <4>5, CountingIs
      <4> QED BY <2>4, <3>1, <3>2, <4>6 DEF GuessUsed
    <3>3. CASE ~(r = s /\ Failing(s))
      <4>1. failures'[r] \in {<<>>, f}
        BY <2>4, <3>3, FailureEffect, SuccessEffect DEF Failing, Succeeding
      <4>2. Cardinality(Counting(r)') <= Cardinality(Counting(r))
        BY <1>0, <2>0, <4>1, CountingIs, CountsOfNone
      <4> QED BY <3>1, <4>2 DEF NoNewGuess
    <3> QED BY <3>2, <3>3
  <2> QED BY <1>5, <2>2, <2>3, <2>4, GuardedStepBy
<1> QED BY <1>2, <1>3, <1>4, <1>5, StepCases

-----------------------------------------------------------------------------
(* The theorems                                                            *)

LEMMA InitHolds == Init => DoorInv
<1> SUFFICES ASSUME Init PROVE DoorInv OBVIOUS
<1>1. TypeOK BY InitTyped
<1>2. GuardInv
  <2> SUFFICES ASSUME NEW s \in Source PROVE Justified(s) /\ GuessesLeft(s)
    BY DEF GuardInv
  <2>1. failures[s] = <<>> /\ wrong[s] = <<>> BY DEF Init
  <2>2. Justified(s) BY <2>1, MatchesNone, Zenon DEF Justified
  <2>3. Cardinality(Counting(s)) = 0 BY <2>1, CountingIs, CountsOfNone
  <2>4. Guessing(s) = {} BY DEF Init, Guessing, Idle
  <2>5. Cardinality(Guessing(s)) = 0 BY <2>4, FS_EmptySet
  <2>6. Threshold \in Nat \ {0} BY GuardAssumption
  <2>7. GuessesLeft(s) BY <2>3, <2>5, <2>6, GuessingFinite DEF GuessesLeft
  <2> QED BY <2>2, <2>7
<1>3. LogInv
  <2>1. log = Kept[appends] BY KeptDefined DEF Init
  <2>2. \A h \in Handler : req[h].pc = "idle" BY DEF Init, Idle
  <2>3. \A h \in Handler : logLock # h BY DoorAssumption DEF Init
  <2> QED BY <2>1, <2>2, <2>3 DEF LogInv
<1>4. SignInInv
  BY DEF Init, SignInInv, Issued, Exchanging, Idle, OneSessionPerSignIn
<1> QED BY <1>1, <1>2, <1>3, <1>4 DEF DoorInv

LEMMA NextHolds == DoorInv /\ [Next]_vars => DoorInv'
<1> SUFFICES ASSUME DoorInv, [Next]_vars PROVE DoorInv' OBVIOUS
<1>0. TypeOK /\ GuardInv /\ LogInv /\ SignInInv BY DEF DoorInv
<1>1. TypeOK' BY <1>0, StepTyped
<1>2. LogInv' BY <1>0, LogKept
<1>3. SignInInv' BY <1>0, SignInKept
<1>4. ASSUME NEW s \in Source PROVE Justified(s)' /\ GuessesLeft(s)'
  BY <1>0, <1>1, JustifiedKept, GuessesKept, GuessesAreKept
<1>5. GuardInv' BY <1>4 DEF GuardInv
<1> QED BY <1>1, <1>2, <1>3, <1>5 DEF DoorInv

\* The inductive invariant holds for any number of sources, threads and
\* requests, whatever the thresholds of the guard and the bound of the log.
THEOREM DoorHolds == Spec => []DoorInv
<1> QED BY InitHolds, NextHolds, PTL DEF Spec

\* The variables of the guard, of sign-in, of the log and of the threads keep
\* their types: the times that the guard remembers are of the clock.
THEOREM TypeCorrect == Spec => []TypeOK
<1>1. DoorInv => TypeOK BY DEF DoorInv
<1> QED BY <1>1, DoorHolds, PTL

LEMMA LockedOutJustified == DoorInv => RefusedForCause
<1> SUFFICES ASSUME DoorInv, NEW s \in Source, LockedOut(s)
             PROVE  Len(wrong[s]) >= Threshold
  BY DEF RefusedForCause
<1> DEFINE f == failures[s]
<1>0. /\ f \in Seq(Int) /\ wrong[s] \in Seq(Int) /\ now \in Int
      /\ InOrder(f, now) /\ Matches(f, wrong[s], now)
  BY GuardFacts DEF DoorInv, GuardInv, Justified
<1>1. /\ Window \in Nat /\ Threshold \in Nat \ {0} /\ now - Window \in Int
      /\ Len(f) \in Nat /\ Len(wrong[s]) \in Nat /\ \A i \in 1..Len(f) : f[i] \in Int
  BY <1>0, GuardAssumption
<1>2. PICK n \in 0..Len(f) :
         Old(f, now - Window, n) /\ Len(Pruned(f)) = Len(f) - n
  BY <1>0, <1>1, SinceProperties DEF Pruned
<1>3. Len(Pruned(f)) >= Threshold BY DEF LockedOut
<1>4. n < Len(f) /\ n + 1 \in 1..Len(f) BY <1>1, <1>2, <1>3
<1>5. f[n + 1] >= now - Window BY <1>2, <1>4 DEF Old
<1>6. Len(f) - (n + 1) < Len(wrong[s]) BY <1>0, <1>4, <1>5 DEF Matches
<1> HIDE DEF f
<1> QED BY <1>1, <1>2, <1>3, <1>6

\* A source that is locked out has failed as often as the threshold says, in
\* the present window and since its last success, although threads prune,
\* evict and record in any order between the guard's two questions.
THEOREM RefusedForCauseHolds == Spec => []RefusedForCause
<1> QED BY LockedOutJustified, DoorHolds, PTL

LEMMA GuessesWithin == DoorInv => GuessesBounded
<1> SUFFICES ASSUME DoorInv, NEW s \in Source
             PROVE  Cardinality(Counting(s)) < Threshold + Cardinality(Handler)
  BY DEF GuessesBounded
<1>1. Cardinality(Counting(s)) \in Nat BY CountingIs, CountsFinite, GuardFacts DEF DoorInv
<1>2. GuessesLeft(s) BY DEF DoorInv, GuardInv
<1> QED BY <1>1, <1>2, GuessingFinite, GuardAssumption DEF GuessesLeft

\* The guard is asked before a credential is compared and told afterwards;
\* the threads that pass it together gain one guess each and no more.
THEOREM GuessesBoundedHolds == Spec => []GuessesBounded
<1> QED BY GuessesWithin, DoorHolds, PTL

\* The access log holds what its appends, one after the other, leave of the
\* records, however the threads' reading and rewriting of the file interleave
\* and whichever of their writes fail.
THEOREM NoRecordLostHolds == Spec => []NoRecordLost
<1>1. DoorInv => NoRecordLost BY DEF DoorInv, LogInv, NoRecordLost
<1> QED BY <1>1, DoorHolds, PTL

\* No two sessions descend from one sign-in, although the state is used up
\* in one step and the session opened in another, after GitHub's answer.
THEOREM OneSessionHolds == Spec => []OneSessionPerSignIn
<1>1. DoorInv => OneSessionPerSignIn BY DEF DoorInv, SignInInv
<1> QED BY <1>1, DoorHolds, PTL
=============================================================================
