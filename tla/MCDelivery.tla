----------------------------- MODULE MCDelivery -----------------------------
(* Two tasks, side by side or one after the other. *)
EXTENDS Delivery, TLC

CONSTANTS t1, t2, s1

MCPlans == {(t1 :> {}) @@ (t2 :> {}), (t1 :> {}) @@ (t2 :> {t1})}
=============================================================================
