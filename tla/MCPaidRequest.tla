--------------------------- MODULE MCPaidRequest ---------------------------
(***************************************************************************)
(* Small instances of PaidRequest.  The functions between its constants    *)
(* are built from CHOOSE-free pairs of model values.                       *)
(***************************************************************************)
EXTENDS PaidRequest, TLC

CONSTANTS x1, x2, q1, q2, q3, p1, p2, p3, k1, k2, t1, t2, a1

\* q1 and q3 reach one process, q2 another
MCRunsAt == [q \in Request |-> IF q = q2 THEN x2 ELSE x1]

\* p1 and p2 are two encodings of one transfer, with fingerprints of their own
MCKeyOf == [p \in Payload |-> IF p = p1 THEN k1 ELSE k2]
MCTransactionOf == [p \in Payload |-> IF p = p3 THEN t2 ELSE t1]

\* the guard was built over an active authorization for two payments
MCView ==
    [ address |-> a1, status |-> "active", spent |-> 0,
      max |-> MaxAtomic, perRequest |-> 1, expiresAt |-> MaxTime ]

=============================================================================
