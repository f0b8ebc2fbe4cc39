------------------------------- MODULE SignIn -------------------------------
(***************************************************************************)
(* GitHub sign-in (oauth.py): single-use states of a login, and sessions   *)
(* that expire or are exchanged for a new one.  The lock is held for the   *)
(* table alone; the exchange with GitHub happens between two steps.        *)
(***************************************************************************)
EXTENDS Integers

CONSTANTS State,        \* nonces a login may be given
          Token,        \* session tokens that may be issued
          StateTtl, SessionTtl

ASSUME SignInAssumption == {StateTtl, SessionTtl} \subseteq Nat \ {0}

VARIABLES states,    \* nonce -> when it was issued
          sessions   \* token -> [expires, state]: the state it descends from

Issued == DOMAIN states
Sessions == DOMAIN sessions

Without(f, x) == [y \in DOMAIN f \ {x} |-> f[y]]
With(f, x, v) == [y \in DOMAIN f \union {x} |-> IF y = x THEN v ELSE f[y]]

\* login_url
IssueState(st, now) ==
    /\ states' = With([s \in {r \in Issued : now - states[r] <= StateTtl} |-> states[s]],
                      st, now)
    /\ UNCHANGED sessions

Redeemable(st, now) == st \in Issued /\ now - states[st] <= StateTtl

\* Mutant of Redeem: the state is looked up and stays.
RedeemKeeping(st) == UNCHANGED <<states, sessions>>

\* The first half of handle_callback: the state is used up, valid or not.
Redeem(st) == states' = Without(states, st) /\ UNCHANGED sessions

\* The second half: GitHub granted a session.
Open(k, st, since) ==
    /\ sessions' = With(sessions, k, [expires |-> since + SessionTtl, state |-> st])
    /\ UNCHANGED states

\* session_for: dropping an expired session on sight has no other effect.
Live(k, now) == k \in Sessions /\ sessions[k].expires > now

\* The second half of refresh: the token k becomes n.
Rotate(k, n, now, st) ==
    /\ sessions' = With(Without(sessions, k), n,
                        [expires |-> now + SessionTtl, state |-> st])
    /\ UNCHANGED states
=============================================================================
