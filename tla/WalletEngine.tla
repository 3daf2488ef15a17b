---------------------------- MODULE WalletEngine ----------------------------
(***************************************************************************)
(* BStockEngine in live-confirmed mode under the command line's loop: an    *)
(* evaluation reconciles the pending order or turns a new bar into a plan,  *)
(* and a confirmed plan becomes one wallet swap.  `state' is EngineState in *)
(* memory and `stateFile' the file; every _save_state replaces the whole    *)
(* file or fails and leaves it, and the process may die between any two     *)
(* steps.  `at' is where the loop is:                                       *)
(*   "idle", "confirming" (the operator is asked for the plan's code),      *)
(*   "swapping" (the swap command runs), "polling" (its outcome is awaited).*)
(***************************************************************************)
EXTENDS AgenticWallet

VARIABLES
    state, stateFile,
    engineUp, at,
    plan,           \* {} or the bar of the plan in execute_confirmed
    now,            \* the latest closed bar
    learned         \* history: the orders whose id was ever saved

vars == <<walletVars, state, stateFile, engineUp, at, plan, now, learned>>

(* last_signal_bar, the position, pending_order_id ({} or one order),        *)
(* last_submitted_confirmation, and how often each fill was applied.        *)
EmptyState ==
    [bar |-> 0, holding |-> FALSE, pending |-> {}, used |-> 0,
     counted |-> [b \in Bars |-> 0]]

EngineStates ==
    [bar : 0 .. now, holding : BOOLEAN, pending : SUBSET Bars,
     used : 0 .. MaxBar, counted : [Bars -> Nat]]

TypeOK ==
    /\ WalletTypeOK
    /\ now \in Bars
    /\ {state, stateFile} \subseteq EngineStates
    /\ engineUp \in BOOLEAN
    /\ at \in {"idle", "confirming", "swapping", "polling"}
    /\ plan \subseteq Bars
    /\ learned \subseteq Bars

Init ==
    /\ WalletInit
    /\ state = EmptyState
    /\ stateFile = EmptyState
    /\ engineUp = TRUE
    /\ at = "idle"
    /\ plan = {}
    /\ now = 1
    /\ learned = {}

(* _save_state of the memory s, and its failure. *)
SaveState(s) ==
    /\ stateFile' = s
    /\ learned' = learned \cup s.pending

SaveStateFails == UNCHANGED <<stateFile, learned>>

Goto(place, bars) == at' = place /\ plan' = bars

Back == Goto("idle", {})

Ready == engineUp /\ at = "idle" /\ state.pending = {} /\ now > state.bar

SideOfPlan == IF state.holding THEN "sell" ELSE "buy"

WithBar == [state EXCEPT !.bar = now]

HoldBar ==
    /\ Ready
    /\ state' = WithBar
    /\ SaveState(WithBar) \/ SaveStateFails
    /\ UNCHANGED <<walletVars, engineUp, at, plan, now>>

(* A mutation: the plan is shown although the bar could not be saved. *)
PlanWithoutSaving ==
    /\ Ready
    /\ state' = WithBar
    /\ SaveState(WithBar) \/ SaveStateFails
    /\ Goto("confirming", {now})
    /\ UNCHANGED <<walletVars, engineUp, now>>

(* The quote is taken, the bar is saved, and only then the plan is shown. *)
PlanTrade ==
    /\ Ready
    /\ state' = WithBar
    /\ \/ SaveState(WithBar) /\ Goto("confirming", {now})
       \/ SaveStateFails /\ UNCHANGED <<at, plan>>
    /\ UNCHANGED <<walletVars, engineUp, now>>

(* Another phrase, an expired quote, a cost, eligibility, market or balance *)
(* check that fails.                                                        *)
Decline ==
    /\ at = "confirming"
    /\ Back
    /\ UNCHANGED <<walletVars, state, stateFile, engineUp, now, learned>>

ExecuteConfirmed(b) ==
    /\ at = "confirming" /\ b \in plan
    /\ state.pending = {}
    /\ state.used # b
    /\ SideOfPlan = "sell" => Tokens > 0
    /\ SendSwap(b, SideOfPlan)
    /\ Goto("swapping", {b})
    /\ UNCHANGED <<state, stateFile, engineUp, now, learned>>

(* The command failed, timed out or answered something else than JSON. *)
SwapUnanswered ==
    /\ at = "swapping"
    /\ Back
    /\ UNCHANGED <<walletVars, state, stateFile, engineUp, now, learned>>

WithPending(b) == [state EXCEPT !.pending = {b}, !.used = b]

(* The order id arrived: _record_pending saves it before anything is asked. *)
RecordPending(b) ==
    /\ at = "swapping" /\ b \in plan
    /\ Accepted(b)
    /\ state' = WithPending(b)
    /\ \/ SaveState(WithPending(b)) /\ Goto("polling", {b})
       \/ SaveStateFails /\ Back
    /\ UNCHANGED <<walletVars, engineUp, now>>

(* A mutation: the fill is saved and the pending order cleared by a save of *)
(* its own, which may not happen any more.                                  *)
FilledButPending(o) ==
    [state EXCEPT !.holding = sideOf[o] = "buy", !.counted[o] = @ + 1]

(* _apply_order_fill and _clear_pending: one state, saved once. *)
Filled(o) ==
    [state EXCEPT !.holding = sideOf[o] = "buy", !.counted[o] = @ + 1,
                  !.pending = {}]

Cleared == [state EXCEPT !.pending = {}]

(* A mutation: a FAILED order is booked like a FINISHED one. *)
OutcomeIgnoringFailure(o) == Filled(o)

(* The state after a terminal row o: a fill, or nothing when it FAILED. *)
Outcome(o) == IF walletOrders[o] = "finished" THEN Filled(o) ELSE Cleared

Terminal(o) == walletOrders[o] \in {"finished", "failed"}

(* The row that is found says how the order ended.  A FINISHED row without  *)
(* usable amounts raises and changes nothing, like PollTimeout.             *)
PollOutcome(b) ==
    /\ at = "polling" /\ b \in plan
    /\ \E o \in FoundOrders(b) :
         /\ Terminal(o)
         /\ state' = Outcome(o)
         /\ SaveState(Outcome(o)) \/ SaveStateFails
    /\ Back
    /\ UNCHANGED <<walletVars, engineUp, now>>

(* A mutation: an outcome that did not come in time is taken for a failure. *)
PollTimeoutClears ==
    /\ at = "polling"
    /\ Back
    /\ state' = Cleared
    /\ SaveState(Cleared)
    /\ UNCHANGED <<walletVars, engineUp, now>>

PollTimeout ==
    /\ at = "polling"
    /\ Back
    /\ UNCHANGED <<walletVars, state, stateFile, engineUp, now, learned>>

(* _reconcile_pending asks for the order by its id alone. *)
ReconcilePending(b) ==
    /\ engineUp /\ at = "idle" /\ b \in state.pending
    /\ Terminal(b)
    /\ state' = Outcome(b)
    /\ SaveState(Outcome(b)) \/ SaveStateFails
    /\ UNCHANGED <<walletVars, engineUp, at, plan, now>>

Die ==
    /\ engineUp
    /\ engineUp' = FALSE
    /\ state' = EmptyState
    /\ Back
    /\ UNCHANGED <<walletVars, stateFile, now, learned>>

Restart ==
    /\ ~engineUp
    /\ engineUp' = TRUE
    /\ state' = stateFile
    /\ UNCHANGED <<walletVars, stateFile, at, plan, now, learned>>

(* A bar closes. *)
NextBar ==
    /\ now < MaxBar
    /\ now' = now + 1
    /\ UNCHANGED <<walletVars, state, stateFile, engineUp, at, plan, learned>>

WalletStep ==
    /\ Wallet
    /\ UNCHANGED <<state, stateFile, engineUp, at, plan, now, learned>>

Next ==
    \/ HoldBar
    \/ PlanTrade
    \/ Decline
    \/ SwapUnanswered
    \/ PollTimeout
    \/ \E b \in Bars :
         \/ ExecuteConfirmed(b)
         \/ RecordPending(b)
         \/ PollOutcome(b)
         \/ ReconcilePending(b)
    \/ Die
    \/ Restart
    \/ NextBar
    \/ WalletStep

Spec == Init /\ [][Next]_vars

-----------------------------------------------------------------------------
(* The orders the wallet booked and whose id never reached the file. *)
Strays ==
    {b \in Bars : Accepted(b) /\ b \notin learned
                  /\ ~(at = "swapping" /\ b \in plan)}

(* A bar leads to at most one swap, whichever saves fail and whenever the   *)
(* process dies: the bar is durable before its plan can be confirmed        *)
(* (last_signal_bar, engine.py:270-271).                                    *)
OneSwapPerBar == \A b \in Bars : swaps[b] <= 1

(* No fill is applied twice to a saved position, nor one the wallet did not *)
(* finish: fill and cleared pending order are one save (engine.py:306-308). *)
FillCountedOnce ==
    \A b \in Bars : /\ stateFile.counted[b] <= 1
                    /\ stateFile.counted[b] = 1 => walletOrders[b] = "finished"

(* Once an order id was saved the order stays pending in the file until it  *)
(* failed or its fill was saved with it, unless an order whose id never     *)
(* arrived can be found in its place.                                       *)
SavedOrderIsAccounted ==
    Strays = {} =>
        \A b \in learned : \/ b \in stateFile.pending
                           \/ walletOrders[b] = "failed"
                           \/ stateFile.counted[b] = 1

(* When no swap runs and nothing is pending, the engine's position is what  *)
(* the wallet holds, unless an order's id never arrived (_apply_order_fill,  *)
(* and the side that evaluate_once plans by the position).                  *)
PositionIsBalance ==
    engineUp /\ at # "swapping" /\ state.pending = {} /\ Strays = {}
        => state.holding = (Tokens = 1)

(* The inductive invariant.  The bars of all swaps are in the file; a plan  *)
(* that awaits its code is of a saved bar without a swap.                   *)
BarsAreSaved ==
    /\ engineUp => stateFile.bar <= state.bar
    /\ \A b \in Bars : b > stateFile.bar => swaps[b] = 0
    /\ at = "confirming" => \A b \in plan : swaps[b] = 0 /\ b <= stateFile.bar

(* A loop that waits for something belongs to a living engine. *)
LoopIsAlive == at # "idle" => engineUp

(* An order that was not sent is unknown to the wallet. *)
SentOrNone == \A b \in Bars : swaps[b] = 0 => walletOrders[b] = "none"

(* What was counted is finished, in memory and in the file. *)
CountedIsFinished ==
    \A s \in {state, stateFile} : \A b \in Bars :
        /\ s.counted[b] <= 1
        /\ s.counted[b] = 1 => walletOrders[b] = "finished"

(* What may still be booked for an order has not been counted: the pending  *)
(* order of either copy, and every row that the running swap may find.      *)
AwaitedIsUncounted ==
    /\ \A s \in {state, stateFile} : \A b \in s.pending : s.counted[b] = 0
    /\ at \in {"swapping", "polling"} =>
         \A b \in plan : \A o \in FoundOrders(b) : state.counted[o] = 0

IInv ==
    /\ TypeOK
    /\ OneSwapPerBar
    /\ BarsAreSaved
    /\ LoopIsAlive
    /\ SentOrNone
    /\ CountedIsFinished
    /\ AwaitedIsUncounted
=============================================================================
