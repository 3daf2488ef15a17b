---------------------------- MODULE LiveEvidence ----------------------------
(***************************************************************************)
(* From the reads of the MCP host to a strategy decision: the verified      *)
(* receipt, the equity guard, the fill ledger, the strategy cycle and the   *)
(* risk command.  The host reads the balances and the trades of one account *)
(* in separate calls, in either order, while the account goes on changing.  *)
(* A receipt has the balances, the number of rows of the complete history,  *)
(* the bid and whether the account can trade and has no open order          *)
(* (`settled').  Its fields `rowsThen' and `flow' are history: the rows and *)
(* the transfers at the time the balances were read.                        *)
(* The desktop and the commands are processes of their own; each opens the  *)
(* files it needs, under their locks, for one step.                         *)
(***************************************************************************)
EXTENDS SpotAccount

CONSTANTS
    MaxTime, MaxRequests,   \* bounds on the time and on the host's requests
    CycleAge, RiskAge,      \* how old a receipt may be, in ticks
    Bids,
    Amounts                 \* what may be transferred at a time

ASSUME EvidenceAssumption ==
    /\ {MaxTime, MaxRequests, CycleAge, RiskAge} \subseteq Nat
    /\ Bids \subseteq Nat
    /\ Amounts \subseteq Int

VARIABLES
    now,
    requests,   \* the requests so far
    balances, trades,   \* what the host has read for its request
    snapshot,   \* the verified-snapshot file
    desk,       \* the receipt the desktop window holds
    guard,      \* the file of the equity guard
    first,      \* history: the receipt of the baseline
    ledger,     \* the rows in the file of the fill ledger
    cycle,      \* the strategy cycle that holds the session lock
    decision    \* what the last cycle gave to the session

hostVars == <<requests, balances, trades>>
guardVars == <<guard, first>>
cycleVars == <<cycle, decision>>
localVars == <<now, hostVars, snapshot, desk, guardVars, ledger, cycleVars>>
vars == <<accountVars, localVars>>

None == [at |-> -1]

BalanceReads ==
    [at : Nat, quote : Int, base : Int, settled : BOOLEAN,
     rowsThen : Prefixes, flow : Int]

TradeReads == [at : Nat, n : Prefixes, bid : Bids]

Receipts ==
    [at : Nat, quote : Int, base : Int, bid : Bids, settled : BOOLEAN,
     n : Prefixes, rowsThen : Prefixes, flow : Int]

NoGuard == [baseline |-> -1, last |-> None]
Guards == [baseline : Int, last : Receipts]

NoLedger == -1

Idle == [step |-> "idle", receipt |-> None]
Cycles == [step : {"market", "checked", "observed", "synced"}, receipt : Receipts]

Init ==
    /\ AccountInit
    /\ now = 0
    /\ requests = 0
    /\ balances = None
    /\ trades = None
    /\ snapshot = None
    /\ desk = None
    /\ guard = NoGuard
    /\ first = None
    /\ ledger = NoLedger
    /\ cycle = Idle
    /\ decision = None

TimePasses ==
    /\ now < MaxTime
    /\ now' = now + 1
    /\ UNCHANGED <<accountVars, hostVars, snapshot, desk, guardVars, ledger, cycleVars>>

Venue ==
    /\ \/ \E f \in Fills : Fill(f, now)
       \/ \E amount \in Amounts : Transfer(amount) \/ TransferBase(amount)
    /\ UNCHANGED localVars
-----------------------------------------------------------------------------
(* The host (external): for a request, the reads in either order.  A new    *)
(* request follows when a receipt was imported.                             *)
ReadBalances ==
    /\ balances = None
    /\ requests < MaxRequests
    /\ \E settled \in BOOLEAN :
         balances' = [at |-> now, quote |-> quote, base |-> base,
                      settled |-> settled, rowsThen |-> count, flow |-> flow]
    /\ UNCHANGED <<requests, trades>>

ReadTrades ==
    /\ trades = None
    /\ requests < MaxRequests
    /\ \E bid \in Bids : trades' = [at |-> now, n |-> count, bid |-> bid]
    /\ UNCHANGED <<requests, balances>>

HostReads ==
    /\ ReadBalances \/ ReadTrades
    /\ UNCHANGED <<accountVars, now, snapshot, desk, guardVars, ledger, cycleVars>>

(* The observation time the host states lies between its reads and now.     *)
Assembled(at) ==
    [at |-> at, quote |-> balances.quote, base |-> balances.base,
     bid |-> trades.bid, settled |-> balances.settled, n |-> trades.n,
     rowsThen |-> balances.rowsThen, flow |-> balances.flow]

NewRequest ==
    /\ requests < MaxRequests
    /\ requests' = requests + 1
    /\ balances' = None
    /\ trades' = None

(* verify_spot_host_receipt: within the request's lifetime, and the replay  *)
(* of the trades gives the base balance.                                    *)
Verified(at) ==
    /\ balances # None /\ trades # None
    /\ at \in balances.at .. now \cup trades.at .. now
    /\ book[trades.n].explained
    /\ balances.base = book[trades.n].quantity

(* The window imports: it keeps the receipt, or none after a failure.       *)
DesktopImports ==
    /\ \/ \E at \in 0 .. now :
            /\ Verified(at)
            /\ snapshot' = Assembled(at)
            /\ desk' = Assembled(at)
            /\ NewRequest
       \/ desk' = None /\ UNCHANGED snapshot /\ NewRequest
    /\ UNCHANGED <<accountVars, now, guardVars, ledger, cycleVars>>

(* import_and_cycle writes the receipt before its cycle takes the lock.     *)
HostCycleImports ==
    /\ \E at \in 0 .. now : Verified(at) /\ snapshot' = Assembled(at)
    /\ NewRequest
    /\ UNCHANGED <<accountVars, now, desk, guardVars, ledger, cycleVars>>
-----------------------------------------------------------------------------
Fresh(r, age) == r # None /\ now - r.at <= age

(* The equity guard.  A row it has seen is never missing or changed.        *)
Equity(r) == r.quote + r.base * r.bid

Initialized(r) == [baseline |-> Equity(r), last |-> r]

(* A mutation: a change of the quote balance is not looked into. *)
ExplainedBaseOnly(last, r) == r.base - last.base = held[r.n] - held[last.n]

(* No balance has changed but by the new rows. *)
Explained(last, r) ==
    /\ r.quote - last.quote = cash[r.n] - cash[last.n]
    /\ r.base - last.base = held[r.n] - held[last.n]

(* observe takes the receipt it took last again, or a later one. *)
Accepts(r) ==
    /\ guard # NoGuard
    /\ r # None
    /\ r.settled
    /\ guard.last.n <= r.n
    /\ \/ r = guard.last
       \/ r.at > guard.last.at /\ Explained(guard.last, r)

(* A mutation: the new balances are kept with the old rows. *)
ObserveKeepingRows(r) ==
    /\ Accepts(r)
    /\ guard' = [guard EXCEPT !.last = [r EXCEPT !.n = guard.last.n]]
    /\ UNCHANGED first

Observe(r) ==
    /\ Accepts(r)
    /\ guard' = [baseline |-> guard.baseline, last |-> r]
    /\ UNCHANGED first

(* The risk command; previewing changes nothing. *)
RiskInitialize ==
    /\ Fresh(snapshot, RiskAge)
    /\ snapshot.settled
    /\ guard = NoGuard
    /\ guard' = Initialized(snapshot)
    /\ first' = snapshot
    /\ UNCHANGED <<accountVars, now, hostVars, snapshot, desk, ledger, cycleVars>>

RiskCheck ==
    /\ Fresh(snapshot, RiskAge)
    /\ Observe(snapshot)
    /\ UNCHANGED <<accountVars, now, hostVars, snapshot, desk, ledger, cycleVars>>

(* Preparing a live order observes the window's receipt, whatever its age.  *)
DesktopPrepares ==
    /\ Observe(desk)
    /\ UNCHANGED <<accountVars, now, hostVars, snapshot, desk, ledger, cycleVars>>

(* A mutation: a shorter history replaces the one recorded. *)
SyncShorter(n) == book[n].explained /\ ledger' = n

(* SpotFillLedger.sync: every row recorded before is among the rows. *)
Sync(n) ==
    /\ ledger <= n
    /\ book[n].explained
    /\ ledger' = n

(* The terminal receipt of an order carries the whole history as the host   *)
(* read it for that receipt.                                                *)
ResultImported ==
    /\ \E n \in 1 .. count : Sync(n)
    /\ UNCHANGED <<accountVars, now, hostVars, snapshot, desk, guardVars, cycleVars>>
-----------------------------------------------------------------------------
(* The strategy cycle, under the session lock.                              *)
OthersOfCycle == UNCHANGED <<accountVars, now, hostVars, snapshot, desk>>

Goto(step) == cycle' = [step |-> step, receipt |-> cycle.receipt]

CycleBegins ==
    /\ cycle = Idle
    /\ Fresh(snapshot, CycleAge)
    /\ cycle' = [step |-> "market", receipt |-> snapshot]
    /\ OthersOfCycle
    /\ UNCHANGED <<guardVars, ledger, decision>>

(* After the market was read the file is loaded and compared again.         *)
CycleRechecks ==
    /\ cycle.step = "market"
    /\ Fresh(snapshot, CycleAge)
    /\ snapshot = cycle.receipt
    /\ Goto("checked")
    /\ OthersOfCycle
    /\ UNCHANGED <<guardVars, ledger, decision>>

CycleObserves ==
    /\ cycle.step = "checked"
    /\ Observe(cycle.receipt)
    /\ Goto("observed")
    /\ OthersOfCycle
    /\ UNCHANGED <<ledger, decision>>

CycleSyncs ==
    /\ cycle.step = "observed"
    /\ Sync(cycle.receipt.n)
    /\ Goto("synced")
    /\ OthersOfCycle
    /\ UNCHANGED <<guardVars, decision>>

(* The metrics are those of the cycle's own receipt. *)
Metrics(r) ==
    LET loss == guard.baseline - Equity(r)
        day  == Day(r.at)
    IN  [at |-> r.at, n |-> r.n, loss |-> IF loss > 0 THEN loss ELSE 0,
         entries |-> DailyEntries(r.n, day), streak |-> LossStreak(r.n),
         lastEntry |-> LastEntry(r.n)]

CycleDecides ==
    /\ cycle.step = "synced"
    /\ decision' = Metrics(cycle.receipt)
    /\ cycle' = Idle
    /\ OthersOfCycle
    /\ UNCHANGED <<guardVars, ledger>>

(* Anything refuses or fails, the market is closed, or the process dies.    *)
CycleEnds ==
    /\ cycle # Idle
    /\ cycle' = Idle
    /\ OthersOfCycle
    /\ UNCHANGED <<guardVars, ledger, decision>>

Next ==
    \/ TimePasses \/ Venue \/ HostReads
    \/ DesktopImports \/ HostCycleImports
    \/ RiskInitialize \/ RiskCheck \/ DesktopPrepares \/ ResultImported
    \/ CycleBegins \/ CycleRechecks \/ CycleObserves \/ CycleSyncs
    \/ CycleDecides \/ CycleEnds

Spec == Init /\ [][Next]_vars
-----------------------------------------------------------------------------
TypeOK ==
    /\ AccountTypeOK
    /\ now \in Nat
    /\ requests \in Nat
    /\ balances \in BalanceReads \cup {None}
    /\ trades \in TradeReads \cup {None}
    /\ {snapshot, desk, first} \subseteq Receipts \cup {None}
    /\ guard \in Guards \cup {NoGuard}
    /\ ledger \in {NoLedger} \cup Prefixes
    /\ cycle \in Cycles \cup {Idle}
    /\ decision # None => {decision.at, decision.n} \subseteq Nat

AccountAddsUp ==
    /\ quote = StartQuote + cash[count] + flow
    /\ base = held[count] + baseFlow

(* A receipt tells the balances of one instant and the rows of another,     *)
(* with the same base in both.                                              *)
Genuine(r) ==
    /\ r.at <= now
    /\ r.n <= count
    /\ r.rowsThen <= count
    /\ r.quote = StartQuote + cash[r.rowsThen] + r.flow
    /\ r.base = held[r.n]
    /\ book[r.n].explained

ReadsAreGenuine ==
    /\ balances # None =>
        /\ balances.at <= now
        /\ balances.rowsThen <= count
        /\ balances.quote = StartQuote + cash[balances.rowsThen] + balances.flow
    /\ trades # None => trades.at <= now /\ trades.n <= count

KnownReceipts == {snapshot, desk, first, guard.last, cycle.receipt} \ {None}

ReceiptsAreGenuine == \A r \in KnownReceipts : Genuine(r)

(* From its baseline on, the guard has followed the rows. *)
GuardFollowsRows ==
    /\ guard = NoGuard <=> first = None
    /\ guard # NoGuard =>
        /\ guard.baseline = Equity(first)
        /\ guard.last.quote - first.quote = cash[guard.last.n] - cash[first.n]
        /\ first.n <= guard.last.n

LedgerIsPrefix == ledger # NoLedger => ledger <= count /\ book[ledger].explained

(* What the cycle has saved stays. *)
CycleIsOnFile ==
    /\ cycle.step \in {"observed", "synced"} =>
        /\ guard # NoGuard
        /\ cycle.receipt.n <= guard.last.n
        /\ cycle.receipt.at <= guard.last.at
    /\ cycle.step = "synced" => cycle.receipt.n <= ledger

(* The replayed books of the fill ledger and the balance changes that the   *)
(* equity guard computes from the same rows agree: the quantity held, and   *)
(* the realized profit less the cost of what is held.                       *)
BooksAgreeWithCash ==
    \A n \in 0 .. count : book[n].explained =>
        /\ book[n].quantity = held[n]
        /\ book[n].realized - book[n].cost = cash[n]

(* What a decision was based on is on file, whoever else uses the files     *)
(* meanwhile: the ledger keeps its rows, and the guard has observed its     *)
(* receipt or a later one.                                                  *)
DecisionIsOnFile ==
    decision # None =>
        /\ decision.n <= ledger
        /\ guard # NoGuard
        /\ decision.n <= guard.last.n
        /\ decision.at <= guard.last.at

IInv ==
    /\ TypeOK
    /\ AccountAddsUp
    /\ ReadsAreGenuine
    /\ ReceiptsAreGenuine
    /\ GuardFollowsRows
    /\ LedgerIsPrefix
    /\ CycleIsOnFile
    /\ DecisionIsOnFile
    /\ BooksAgreeWithCash

(* The balances and the trades were read with no fill between them. *)
Whole(r) == r.rowsThen = r.n

(* No transfer hides or feigns a loss: as long as the baseline and the last *)
(* observation were read with no fill in between, the guard accepts an      *)
(* observation only if the transfers since the baseline cancel out.         *)
TransfersAreCaught ==
    guard # NoGuard /\ Whole(first) /\ Whole(guard.last) =>
        guard.last.flow = first.flow

(* What a host that reads without an interruption would bring next.         *)
NextReceipt(bid) ==
    [at |-> now + 1, quote |-> quote, base |-> base, bid |-> bid, settled |-> TRUE,
     n |-> count, rowsThen |-> count, flow |-> flow]

(* The files never lock the account out by themselves: whatever was         *)
(* observed, saved or interrupted, while there was no transfer since a      *)
(* baseline that was read in one piece, and the rows explain the base       *)
(* balance, the guard and the ledger accept the next receipt of the account *)
(* as it is.                                                                *)
NeverLockedOut ==
    guard # NoGuard /\ Whole(first) /\ flow = first.flow
    /\ book[count].explained /\ base = book[count].quantity =>
        /\ \A bid \in Bids : Accepts(NextReceipt(bid))
        /\ ledger <= count
=============================================================================
