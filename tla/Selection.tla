------------------------------ MODULE Selection ------------------------------
(***************************************************************************)
(* What a WHERE clause or a filter leaves of a sequence: its elements in   *)
(* a set, in order.  SelectSeq would do; this one is a recursive function  *)
(* of first-order arguments, so that what it returns can be proved.        *)
(***************************************************************************)
EXTENDS Naturals, Sequences

\* kept[n] is what is left of the first n elements
Selected(s, S) ==
    LET kept[n \in 0 .. Len(s)] ==
            IF n = 0 THEN <<>>
            ELSE IF s[n] \in S THEN Append(kept[n - 1], s[n]) ELSE kept[n - 1]
    IN  kept[Len(s)]

=============================================================================
