--------------------------- MODULE DeliveryLedger ---------------------------
(***************************************************************************)
(* What a delivery promises about finished work, whatever fails, retries,  *)
(* runs out of budget or crashes: banked work stays on the branch, and     *)
(* work becomes part of the feature only after a security review approved  *)
(* it.                                                                     *)
(***************************************************************************)
CONSTANT Work

VARIABLES banked,   \* work that is in a commit of the delivery branch
          vetted,   \* work that an approving security review has seen
          shipped   \* work that is in a feature commit

ledgerVars == <<banked, vetted, shipped>>

LedgerInit == banked = {} /\ vetted = {} /\ shipped = {}

\* Accepted work is committed.
Bank == /\ \E W \in SUBSET Work : banked' = banked \union W
        /\ UNCHANGED <<vetted, shipped>>

\* The security review approves what it was shown.
Vet == /\ \E W \in SUBSET Work : vetted' = vetted \union W
       /\ UNCHANGED <<banked, shipped>>

\* The feature commit.
Ship == /\ \E W \in SUBSET vetted : /\ banked' = banked \union W
                                    /\ shipped' = shipped \union W
        /\ UNCHANGED vetted

LedgerNext == Bank \/ Vet \/ Ship

LedgerSpec == LedgerInit /\ [][LedgerNext]_ledgerVars
=============================================================================
