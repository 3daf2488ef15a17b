--------------------------- MODULE AgenticWallet ---------------------------
(***************************************************************************)
(* The wallet behind the `baw' client (external), and what the engine's     *)
(* AgenticWalletCli reads from it.  The engine sends at most one swap per   *)
(* signal bar, so the bar names the order.  A swap travels, is dropped or   *)
(* is booked, and a booked order finishes or fails.                         *)
(***************************************************************************)
EXTENDS Naturals, Sequences, FiniteSets, Functions

CONSTANT MaxBar     \* bound on the signal bars

ASSUME MaxBarAssumption == MaxBar \in Nat \ {0}

Bars == 1 .. MaxBar
Sides == {"buy", "sell"}

VARIABLES
    swaps,          \* swaps[b]: the `market-order swap' commands run for bar b
    sideOf,         \* sideOf[b]: the side of that order
    walletOrders,   \* the state of the order at the wallet
    booked,         \* the orders in the order of their bookTime
    since           \* since[b]: how many were booked when b was submitted

walletVars == <<swaps, sideOf, walletOrders, booked, since>>

WalletTypeOK ==
    /\ swaps \in [Bars -> Nat]
    /\ sideOf \in [Bars -> Sides]
    /\ walletOrders \in
         [Bars -> {"none", "travelling", "dropped", "open", "finished", "failed"}]
    /\ booked \in Seq(Bars)
    /\ since \in [Bars -> Nat]

WalletInit ==
    /\ swaps = [b \in Bars |-> 0]
    /\ sideOf = [b \in Bars |-> "buy"]
    /\ walletOrders = [b \in Bars |-> "none"]
    /\ booked = <<>>
    /\ since = [b \in Bars |-> 0]

Finished(side) == {b \in Bars : walletOrders[b] = "finished" /\ sideOf[b] = side}

(* What the wallet holds: every BUY spends the same amount and every SELL   *)
(* sells what one BUY brought.                                              *)
Tokens == Cardinality(Finished("buy")) - Cardinality(Finished("sell"))

(* swap() notes the time, then runs the command. *)
SendSwap(b, side) ==
    /\ swaps' = [swaps EXCEPT ![b] = @ + 1]
    /\ sideOf' = [sideOf EXCEPT ![b] = side]
    /\ walletOrders' = [walletOrders EXCEPT ![b] = "travelling"]
    /\ since' = [since EXCEPT ![b] = Len(booked)]
    /\ UNCHANGED booked

Accepted(b) == walletOrders[b] \in {"open", "finished", "failed"}

(* The rows _find_order may return for b: the order of that id or, when the *)
(* wallet does not list it yet, any order with the same tokens and amount   *)
(* that was booked after b was submitted.                                   *)
FoundOrders(b) ==
    {b} \cup {o \in Range(SubSeq(booked, since[b] + 1, Len(booked))) :
                sideOf[o] = sideOf[b]}

Book(b) ==
    /\ walletOrders[b] = "travelling"
    /\ walletOrders' = [walletOrders EXCEPT ![b] = "open"]
    /\ booked' = Append(booked, b)
    /\ UNCHANGED <<swaps, sideOf, since>>

Drop(b) ==
    /\ walletOrders[b] = "travelling"
    /\ walletOrders' = [walletOrders EXCEPT ![b] = "dropped"]
    /\ UNCHANGED <<swaps, sideOf, booked, since>>

FinishOrder(b) ==
    /\ walletOrders[b] = "open"
    /\ sideOf[b] = "sell" => Tokens > 0
    /\ walletOrders' = [walletOrders EXCEPT ![b] = "finished"]
    /\ UNCHANGED <<swaps, sideOf, booked, since>>

FailOrder(b) ==
    /\ walletOrders[b] = "open"
    /\ walletOrders' = [walletOrders EXCEPT ![b] = "failed"]
    /\ UNCHANGED <<swaps, sideOf, booked, since>>

Wallet == \E b \in Bars : Book(b) \/ Drop(b) \/ FinishOrder(b) \/ FailOrder(b)
=============================================================================
