-------------------------- MODULE AutomationPolicy --------------------------
(***************************************************************************)
(* The risk gate: from an account snapshot and a BUY latch to ALLOW/BLOCK.  *)
(* A snapshot is abstracted to the answers the gate derives from it:        *)
(*   blocks       what makes the evidence unusable for any order,           *)
(*   risks        the BUY limits that are reached,                          *)
(*   entryBlocks  what forbids this one BUY without pausing BUYs,           *)
(*   position     "none", "dust" (not tradable) or "lot".                   *)
(* The latch of the policy object (buy_pause_reason) holds the first reason *)
(* that paused BUYs, or NoPause.                                            *)
(***************************************************************************)
EXTENDS Naturals

CONSTANT Snapshots      \* the account states the host may report

VARIABLE latch          \* what the policy object in memory has latched

HealthBlocks == {"stale_account_snapshot", "account_not_reconciled",
                 "account_cannot_trade", "pending_order_exists",
                 "symbol_mismatch", "product_mismatch"}

RiskReasons == {"cumulative_loss_limit", "daily_entry_limit",
                "consecutive_loss_limit"}

EntryBlocks == {"insufficient_quote_balance", "position_cost_limit",
                "entry_cooldown"}

NoPause == "no_pause"
PauseReasons == RiskReasons \cup {NoPause}

ASSUME SnapshotsAssumption ==
    Snapshots \subseteq [blocks : SUBSET HealthBlocks,
                         risks : SUBSET RiskReasons,
                         entryBlocks : SUBSET EntryBlocks,
                         position : {"none", "dust", "lot"}]

Healthy(s) == s.blocks = {}

(* The reason that is latched is the first one in the order of the checks. *)
FirstRisk(risks) ==
    IF "cumulative_loss_limit" \in risks THEN "cumulative_loss_limit"
    ELSE IF "daily_entry_limit" \in risks THEN "daily_entry_limit"
    ELSE "consecutive_loss_limit"

(* A mutation: a reached limit is forgotten as soon as it is not reached. *)
ObserveForgetfully(pause, s) ==
    IF s.risks = {} THEN NoPause ELSE FirstRisk(s.risks)

(* _observe_buy_risk: a set latch stays; otherwise a reached limit sets it, *)
(* whether or not the evidence is usable.                                   *)
ObserveBuyRisk(pause, s) ==
    IF pause # NoPause \/ s.risks = {} THEN pause ELSE FirstRisk(s.risks)

ObserveRisk(s) == latch' = ObserveBuyRisk(latch, s)

(* evaluate: the latch never suppresses a SELL. *)
Allowed(pause, action, s) ==
    /\ Healthy(s)
    /\ \/ /\ action = "sell"
          /\ s.position # "none"
       \/ /\ action = "buy"
          /\ ObserveBuyRisk(pause, s) = NoPause
          /\ s.entryBlocks = {}

(* request_manual_resume clears the latch only for such a snapshot. *)
CanResume(s) == Healthy(s) /\ s.risks = {}
=============================================================================
