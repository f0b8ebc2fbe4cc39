----------------------------- MODULE AgentCall ------------------------------
(***************************************************************************)
(* A call of an agent that must answer in JSON: BaseAgent.ask_json         *)
(* (agents/base.py) over an InstrumentedRunner (instrument.py) over the    *)
(* SDK (sdk.py).  A turn that times out, fails or cannot be parsed is      *)
(* tried again a fixed number of times; every turn is metered.  Callers    *)
(* may have their calls out at the same time.                              *)
(***************************************************************************)
EXTENDS Process

CONSTANTS Caller,
          JsonRetries   \* json_retries

ASSUME AgentCallAssumption == JsonRetries \in Nat

VARIABLE call   \* caller -> what has become of its call, and retries left

CallIdle == [st |-> "idle", left |-> 0]
CallState == [st : {"idle", "out", "good", "garbled", "broke"}, left : 0..JsonRetries]

Entered(c, s, n) == [call EXCEPT ![c] = [st |-> s, left |-> n]]

\* ask_json begins: the pre-flight check of the budget may refuse the turn.
Asked(C) ==
    [c \in Caller |-> IF c \notin C THEN call[c]
                      ELSE [st |-> IF Exhausted THEN "broke" ELSE "out",
                            left |-> JsonRetries]]

\* What the caller was given has been used.
Settled(c) == Entered(c, "idle", 0)

\* The turn ends and its cost is recorded; the record that crosses the
\* ceiling raises, whatever the answer is.
TurnBlows(c) ==
    \E k \in Cost :
        /\ call[c].st = "out" /\ Blows(k) /\ Charge(k)
        /\ call' = Entered(c, "broke", 0)

TurnAnswers(c) ==
    \E k \in Cost :
        /\ call[c].st = "out" /\ ~Blows(k) /\ Charge(k)
        /\ call' = Entered(c, "good", 0)

\* An SDK error, a timeout or text without a JSON object: another turn,
\* unless the retries or the budget have run out.
TurnUnusable(c) ==
    \E k \in Cost :
        /\ call[c].st = "out" /\ ~Blows(k) /\ Charge(k)
        /\ call' = IF call[c].left = 0 THEN Entered(c, "garbled", 0)
                   ELSE IF ExhaustedAfter(k) THEN Entered(c, "broke", 0)
                   ELSE Entered(c, "out", call[c].left - 1)

Turn == /\ exit = "running"
        /\ \E c \in Caller : TurnBlows(c) \/ TurnAnswers(c) \/ TurnUnusable(c)
        /\ UNCHANGED <<at, exit, chat>>
=============================================================================
