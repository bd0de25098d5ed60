------------------------- MODULE MCAllowanceLedger -------------------------
(***************************************************************************)
(* Small instances of AllowanceLedger.  Model values that the ledger only  *)
(* compares for equality may be permuted.                                  *)
(***************************************************************************)
EXTENDS AllowanceLedger, TLC

LedgerSymmetry ==
    UNION { Permutations(S) : S \in {Address, Wallet, Approval, ReservationId, PaymentKey} }

=============================================================================
