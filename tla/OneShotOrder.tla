---------------------------- MODULE OneShotOrder ----------------------------
(***************************************************************************)
(* What order execution promises, whatever the files, processes and crashes *)
(* behind it: an order is reserved, then armed while no other order is in   *)
(* progress, and only while armed may it be sent, once.  From then on it is *)
(* only looked up, until it is closed, forever.                             *)
(***************************************************************************)
CONSTANT Orders

VARIABLES stage, sent

vars == <<stage, sent>>

Stages == {"idle", "reserved", "armed", "lookup", "closed"}

TypeOK == stage \in [Orders -> Stages] /\ sent \subseteq Orders

Init == stage = [o \in Orders |-> "idle"] /\ sent = {}

InProgress(o) == stage[o] \in {"armed", "lookup"}

Enter(o, s) == stage' = [stage EXCEPT ![o] = s] /\ UNCHANGED sent

Reserve(o) ==
    /\ stage[o] = "idle"
    /\ \A p \in Orders : ~InProgress(p)
    /\ Enter(o, "reserved")

Arm(o) ==
    /\ stage[o] = "reserved"
    /\ \A p \in Orders : ~InProgress(p)
    /\ Enter(o, "armed")

Send(o) ==
    /\ stage[o] = "armed"
    /\ o \notin sent
    /\ sent' = sent \cup {o}
    /\ UNCHANGED stage

LookUp(o) == stage[o] = "armed" /\ Enter(o, "lookup")

(* An order that was never sent cannot be closed by an answer about it. *)
Close(o) == InProgress(o) /\ o \in sent /\ Enter(o, "closed")

Next ==
    \E o \in Orders : Reserve(o) \/ Arm(o) \/ Send(o) \/ LookUp(o) \/ Close(o)

Spec == Init /\ [][Next]_vars
-----------------------------------------------------------------------------
(* What follows for whoever implements it: of all orders one at most is     *)
(* armed or looked up, and one that is closed was sent.                     *)
OneInProgress ==
    \A o, p \in Orders : InProgress(o) /\ InProgress(p) => o = p

ClosedWasSent == \A o \in Orders : stage[o] = "closed" => o \in sent
=============================================================================
