-------------------------------- MODULE Rows --------------------------------
(***************************************************************************)
(* What the models need of tables, which are sequences of rows, and of     *)
(* amounts.  (Written as recursive functions, of which RowsProofs proves   *)
(* what they compute.)                                                     *)
(***************************************************************************)
EXTENDS Integers, Sequences

\* rows.filter((row) => !S.has(row)): the rows that are not in S, in their order.
Without(rows, S) ==
    LET kept[i \in 0 .. Len(rows)] ==
            IF i = 0 THEN <<>>
            ELSE IF rows[i] \in S THEN kept[i - 1] ELSE Append(kept[i - 1], rows[i])
    IN  kept[Len(rows)]

\* amounts.reduce((sum, amount) => sum + amount, 0)
Sum(amounts) ==
    LET sum[i \in 0 .. Len(amounts)] == IF i = 0 THEN 0 ELSE sum[i - 1] + amounts[i]
    IN  sum[Len(amounts)]
=============================================================================
