------------------------- MODULE MCDirectExecution -------------------------
(* A BUY and a SELL event, two risk days, and the accounts that matter:     *)
(* usable, in the entry cooldown, at a BUY limit, and too old with only     *)
(* dust.                                                                    *)
EXTENDS DirectExecution

CONSTANTS b1, s1

MCActionOf == [x \in Signals |-> IF x = b1 THEN "buy" ELSE "sell"]

Account(blocks, risks, entryBlocks, position) ==
    [blocks |-> blocks, risks |-> risks, entryBlocks |-> entryBlocks,
     position |-> position]

MCSnapshots ==
    {Account({}, {}, {}, "lot"),
     Account({}, {}, {"entry_cooldown"}, "lot"),
     Account({}, {"cumulative_loss_limit"}, {}, "lot"),
     Account({"stale_account_snapshot"}, {}, {}, "dust")}
=============================================================================
