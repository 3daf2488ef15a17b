------------------------------ MODULE PaperTape ------------------------------
(***************************************************************************)
(* What a tick paper ledger promises, whoever writes to its database and    *)
(* whatever fails: every trade is passed once and in order, a trade that is *)
(* passed leaves at most one fill, which stays, and no BUY is filled while  *)
(* BUYs are paused.  Only a resumption lifts a pause, and it fills nothing. *)
(***************************************************************************)
EXTENDS Integers

CONSTANT Trades

VARIABLES next, tape, paused

vars == <<next, tape, paused>>

Init ==
    /\ next = 1
    /\ tape = [t \in Trades |-> "none"]
    /\ paused = FALSE

Filled == {t \in Trades : tape'[t] # tape[t]}

Advance ==
    /\ next < next'
    /\ tape' \in [Trades -> {"none", "buy", "sell"}]
    /\ \A t \in Filled : tape[t] = "none" /\ next <= t /\ t < next'
    /\ paused => paused' /\ \A t \in Filled : tape'[t] = "sell"

Pause == paused' = TRUE /\ UNCHANGED <<next, tape>>

Resume == paused' = FALSE /\ UNCHANGED <<next, tape>>

Next == Advance \/ Pause \/ Resume

Spec == Init /\ [][Next]_vars
=============================================================================
