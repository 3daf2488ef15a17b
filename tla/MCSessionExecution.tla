------------------------- MODULE MCSessionExecution -------------------------
(* A BUY and a SELL event; a usable account, one in the entry cooldown, one *)
(* at a BUY limit, one that holds only dust, and one too old to use.        *)
EXTENDS SessionExecution

CONSTANTS b1, s1

MCActionOf == [x \in Signals |-> IF x = b1 THEN "buy" ELSE "sell"]

Account(blocks, risks, entryBlocks, position) ==
    [blocks |-> blocks, risks |-> risks, entryBlocks |-> entryBlocks,
     position |-> position]

MCSnapshots ==
    {Account({}, {}, {}, "lot"),
     Account({}, {}, {"entry_cooldown"}, "lot"),
     Account({}, {"cumulative_loss_limit"}, {}, "lot"),
     Account({}, {}, {}, "dust"),
     Account({"stale_account_snapshot"}, {}, {}, "none")}
=============================================================================
