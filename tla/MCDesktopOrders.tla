-------------------------- MODULE MCDesktopOrders --------------------------
(* Two plans, both sides of a midnight, two windows; the windows and the    *)
(* plans are interchangeable.                                               *)
EXTENDS DesktopOrders, TLC

MCActionOf == [sig \in Signals |-> "buy"]

Interchangeable == Permutations(Windows) \cup Permutations(Signals)
=============================================================================
