--------------------------- MODULE MCLiveEvidence ---------------------------
EXTENDS LiveEvidence

(* A buy that pays its fee in the base asset and a sale that pays it in the *)
(* quote asset; together they lose one.                                     *)
MCFills ==
    {[buy |-> TRUE, qty |-> 2, quote |-> 2, baseFee |-> 1, quoteFee |-> 0],
     [buy |-> FALSE, qty |-> 1, quote |-> 2, baseFee |-> 0, quoteFee |-> 1]}

MCAmounts == {-1, 1}
=============================================================================
