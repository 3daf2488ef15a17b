---------------------------- MODULE SpotExchange ----------------------------
(***************************************************************************)
(* The exchange as the executor meets it (external): a spot.newOrder call   *)
(* travels on the wire, may be lost, and if it arrives creates an order     *)
(* that is open for a while and then filled, or closed with or without some *)
(* fills (CANCELED, EXPIRED and REJECTED are one kind of end).              *)
(* `calls' counts the spot.newOrder calls made for each order.              *)
(***************************************************************************)
EXTENDS SpotOrders

VARIABLES wire, exchange, calls

exchangeVars == <<wire, exchange, calls>>

NoOrder == "none"
Traded == {"FILLED", "CANCELED_AFTER_FILLS"}
EndStates == Traded \cup {"CANCELED"}
OrderStates == {NoOrder, "NEW"} \cup EndStates

ExchangeTypeOK ==
    /\ wire \subseteq Fingerprints
    /\ exchange \in [Fingerprints -> OrderStates]
    /\ calls \in [Fingerprints -> Nat]

ExchangeInit ==
    /\ wire = {}
    /\ exchange = [fp \in Fingerprints |-> NoOrder]
    /\ calls = [fp \in Fingerprints |-> 0]

NewOrder(fp) ==
    /\ calls' = [calls EXCEPT ![fp] = @ + 1]
    /\ wire' = wire \cup {fp}
    /\ UNCHANGED exchange

Arrive(fp) ==
    /\ fp \in wire
    /\ wire' = wire \ {fp}
    /\ exchange[fp] = NoOrder
    /\ exchange' = [exchange EXCEPT ![fp] = "NEW"]
    /\ UNCHANGED calls

Lose(fp) ==
    /\ fp \in wire
    /\ wire' = wire \ {fp}
    /\ UNCHANGED <<exchange, calls>>

End(fp) ==
    /\ exchange[fp] = "NEW"
    /\ \E state \in EndStates : exchange' = [exchange EXCEPT ![fp] = state]
    /\ UNCHANGED <<wire, calls>>

ExchangeStep(fp) == Arrive(fp) \/ Lose(fp) \/ End(fp)

(* What an answer about the order may say: its state, or the earlier "NEW". *)
Reported(fp) == IF exchange[fp] = NoOrder THEN {} ELSE {exchange[fp], "NEW"}
=============================================================================
