------------------------- MODULE MCCandidateSession -------------------------
(* One signal of each kind, and accounts that are usable, in the entry      *)
(* cooldown, at a limit, unusable, or hold only dust.                       *)
EXTENDS CandidateSession

CONSTANTS b1, s1, h1

MCActionOf == [x \in Signals |->
    CASE x = b1 -> "buy" [] x = s1 -> "sell" [] OTHER -> "hold"]

Account(blocks, risks, entryBlocks, position) ==
    [blocks |-> blocks, risks |-> risks, entryBlocks |-> entryBlocks,
     position |-> position]

MCSnapshots ==
    {Account({}, {}, {}, "lot"),
     Account({}, {}, {"entry_cooldown"}, "lot"),
     Account({}, {"cumulative_loss_limit"}, {}, "lot"),
     Account({}, {}, {}, "dust"),
     Account({"stale_account_snapshot"}, {}, {}, "none")}
=============================================================================
