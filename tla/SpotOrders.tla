----------------------------- MODULE SpotOrders -----------------------------
(***************************************************************************)
(* What identifies a Spot order.  A strategy event (its signal key) becomes *)
(* at most one candidate plan; the execution fingerprint of the order is a  *)
(* digest of the plan AND of the risk day of the account evidence, so one   *)
(* plan previewed on two days has two fingerprints (and two client order    *)
(* ids).  The reference price and the SELL quantity enter the digest in the *)
(* same way as the day; the day stands for all three.                       *)
(***************************************************************************)
EXTENDS Naturals

CONSTANTS
    Signals,    \* the strategy events (strategy id and closed-bar time)
    NoSignal,   \* no event
    ActionOf,   \* what the strategy decides on each event
    MaxDay      \* the number of UTC risk days considered

ASSUME SignalsAssumption ==
    /\ NoSignal \notin Signals
    /\ ActionOf \in [Signals -> {"buy", "sell", "hold"}]

ASSUME DaysAssumption == MaxDay \in Nat \ {0}

Days == 1 .. MaxDay

(* intent_fingerprint: one identity per plan and risk day. *)
Fingerprints == Signals \X Days

SignalOf(fp) == fp[1]
DayOf(fp) == fp[2]
=============================================================================
