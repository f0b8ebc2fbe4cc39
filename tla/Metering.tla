------------------------------ MODULE Metering ------------------------------
(***************************************************************************)
(* The spending ceiling of a run: class Budget (budget.py) as every agent  *)
(* call uses it through InstrumentedRunner and InstrumentedSession         *)
(* (instrument.py).  A call is checked before it starts and recorded after *)
(* it ends; amounts are whole units of cost.                               *)
(***************************************************************************)
EXTENDS Integers

CONSTANTS Limit,    \* limit_usd
          Reserve,  \* the part of Limit held back while tasks run
          MaxCost   \* bound: the most that one call costs

ASSUME MeteringAssumption ==
    /\ Limit \in Nat \ {0}
    /\ Reserve \in 0..Limit
    /\ MaxCost \in Nat

VARIABLES spent,    \* meter.total_cost
          reserved  \* reserved_usd

Cost == 0..MaxCost

\* _effective_limit
Ceiling == Limit - reserved

\* check() raises: spending has reached the ceiling.
Exhausted == spent >= Ceiling

\* record() raises: this call pushed the spending over the ceiling.
Blows(c) == spent + c > Ceiling

\* record(): the cost is entered whether or not it raises.
Charge(c) == spent' = spent + c /\ UNCHANGED reserved

\* The check of the call that follows one of cost c, before any other ends.
ExhaustedAfter(c) == spent + c >= Ceiling
=============================================================================
