----------------------------- MODULE AuthGuard ------------------------------
(***************************************************************************)
(* The guard against repeated wrong tokens (authguard.py), one for each    *)
(* server.  It remembers when a source failed, in a table of bounded size  *)
(* from which the source that was entered first is evicted.  Each          *)
(* operation holds the guard's lock and is a part of one step.             *)
(***************************************************************************)
EXTENDS Integers, Sequences

CONSTANTS Source,      \* addresses that requests come from
          Threshold,   \* failures in a window that lock a source out
          Window, Lockout,
          MaxSources   \* sources remembered at a time

\* A threshold of zero would turn the guard off.
ASSUME GuardAssumption ==
    {Threshold, Window, Lockout, MaxSources} \subseteq Nat \ {0}

VARIABLES now,       \* the clock
          tracked,   \* sources in the table, the first entered first
          failures   \* when each source failed

Tracked == {tracked[i] : i \in 1..Len(tracked)}

\* The table without the source s, which is in it at most once.
Forget(tr, s) ==
    IF \E i \in 1..Len(tr) : tr[i] = s
    THEN LET at == CHOOSE i \in 1..Len(tr) : tr[i] = s
         IN  SubSeq(tr, 1, at - 1) \o SubSeq(tr, at + 1, Len(tr))
    ELSE tr

\* The times from the first one on that is not before the cutoff.
Since(times, cutoff) ==
    LET old(n) == \A i \in 1..n : times[i] < cutoff
        dropped == CHOOSE n \in 0..Len(times) :
                      old(n) /\ (n < Len(times) => times[n + 1] >= cutoff)
    IN  SubSeq(times, dropped + 1, Len(times))

\* Mutant of Pruned: failures never leave the window.
PrunedNever(times) == times

\* _prune
Pruned(times) == Since(times, now - Window)

\* Mutant of LockedOut: one failure too many is allowed.
LockedOutLate(s) ==
    LET times == Pruned(failures[s]) IN
        Len(times) > Threshold /\ now - times[Len(times)] < Lockout

\* is_locked_out: the failures that count have reached the threshold and the
\* newest is recent.
LockedOut(s) ==
    LET times == Pruned(failures[s]) IN
        Len(times) >= Threshold /\ now - times[Len(times)] < Lockout

\* What is_locked_out leaves in the table.
Consult(s) ==
    /\ failures' = [failures EXCEPT ![s] = Pruned(@)]
    /\ tracked' = IF Pruned(failures[s]) = <<>> THEN Forget(tracked, s) ELSE tracked

\* record_failure
RecordFailure(s) ==
    LET full == s \notin Tracked /\ Len(tracked) >= MaxSources
        kept == IF full THEN Tail(tracked) ELSE tracked
    IN  /\ tracked' = IF s \in Tracked THEN tracked ELSE Append(kept, s)
        /\ failures' =
              [r \in Source |->
                  IF r = s THEN Append(Pruned(failures[s]), now)
                  ELSE IF full /\ r = Head(tracked) THEN <<>> ELSE failures[r]]

\* record_success
RecordSuccess(s) ==
    /\ failures' = [failures EXCEPT ![s] = <<>>]
    /\ tracked' = Forget(tracked, s)
=============================================================================
