---------------------------- MODULE SpotAccount ----------------------------
(***************************************************************************)
(* The Spot account of the venue (external) and what spot_accounting.py     *)
(* makes of its fills.  Fills are appended in the order of their time and   *)
(* id, so that a complete trade history is a prefix: its length n stands    *)
(* for the rows.  `cash', `held' and `book' hold, for every prefix, the sum *)
(* of the balance changes the guard computes and the replayed summary; a    *)
(* sum over the rows m+1..n is a difference of two of their values.         *)
(***************************************************************************)
EXTENDS Integers, FiniteSetsExt

CONSTANTS
    MaxFills,       \* bound on the fills
    StartQuote,
    Fills,          \* the fills the venue may report
    TicksPerDay,
    Flows           \* bound on the net transfers

ASSUME AccountAssumption ==
    /\ MaxFills \in Nat
    /\ StartQuote \in Nat
    /\ TicksPerDay \in Nat \ {0}
    /\ Flows \subseteq Int
    /\ Fills \subseteq [buy : BOOLEAN, qty : Nat \ {0}, quote : Nat \ {0},
                        baseFee : Nat, quoteFee : Nat]
    /\ \A f \in Fills :
        IF f.buy THEN f.baseFee < f.qty ELSE f.quoteFee <= f.quote

VARIABLES
    count, rows,    \* the fills so far: [fill, order, time]
    quote, base,    \* the balances, free and locked
    flow, baseFlow, \* what was transferred in, less what was transferred out
    cash, held, book

accountVars == <<count, rows, quote, base, flow, baseFlow, cash, held, book>>

Prefixes == 0 .. MaxFills

EmptyBook == [explained |-> TRUE, quantity |-> 0, cost |-> 0, realized |-> 0]

Books == [explained : BOOLEAN, quantity : Int, cost : Int, realized : Int]

AccountTypeOK ==
    /\ count \in Prefixes
    /\ DOMAIN rows = 1 .. MaxFills
    /\ {quote, base, flow, baseFlow} \subseteq Int
    /\ cash \in [Prefixes -> Int]
    /\ held \in [Prefixes -> Int]
    /\ book \in [Prefixes -> Books]

AccountInit ==
    /\ count = 0
    /\ rows = [i \in 1 .. MaxFills |-> 0]
    /\ quote = StartQuote
    /\ base = 0
    /\ flow = 0
    /\ baseFlow = 0
    /\ cash = [n \in Prefixes |-> 0]
    /\ held = [n \in Prefixes |-> 0]
    /\ book = [n \in Prefixes |-> EmptyBook]

(* What the venue books for a fill. *)
Credit(f) == (IF f.buy THEN - f.quote ELSE f.quote) - f.quoteFee
Receive(f) == (IF f.buy THEN f.qty ELSE - f.qty) - f.baseFee

(* How observe explains a change of the balances by a row. *)
CashDelta(f) ==
    IF f.buy THEN - (f.quote + f.quoteFee) ELSE f.quote - f.quoteFee

BaseDelta(f) ==
    IF f.buy THEN f.qty - f.baseFee ELSE - (f.qty + f.baseFee)

(* _replay_fills, one row: moving average cost; a sale of more than the     *)
(* rows account for makes every longer history unusable.                    *)
BookAfterBuy(b, f) ==
    [explained |-> b.explained, quantity |-> b.quantity + (f.qty - f.baseFee),
     cost |-> b.cost + f.quote + f.quoteFee, realized |-> b.realized]

BookAfterSale(b, f) ==
    LET disposed == f.qty + f.baseFee
        removed  == (b.cost * disposed) \div b.quantity
    IN  [explained |-> b.explained, quantity |-> b.quantity - disposed,
         cost |-> b.cost - removed,
         realized |-> b.realized + (f.quote - f.quoteFee) - removed]

(* A mutation: the cost of what was sold stays in the books. *)
BookAfterKeepingCost(b, f) ==
    CASE f.buy -> BookAfterBuy(b, f)
      [] ~f.buy /\ f.qty + f.baseFee > b.quantity -> [b EXCEPT !.explained = FALSE]
      [] OTHER -> [BookAfterSale(b, f) EXCEPT !.cost = b.cost]

BookAfter(b, f) ==
    CASE f.buy -> BookAfterBuy(b, f)
      [] ~f.buy /\ f.qty + f.baseFee > b.quantity -> [b EXCEPT !.explained = FALSE]
      [] OTHER -> BookAfterSale(b, f)

(* A fill of the order before it, when that has the same side, or of a new. *)
Orders(f) ==
    IF count = 0 THEN {1}
    ELSE {rows[count].order + 1}
         \cup {o \in {rows[count].order} : rows[count].fill.buy = f.buy}

Fill(f, time) ==
    /\ count < MaxFills
    /\ quote + Credit(f) >= 0
    /\ base + Receive(f) >= 0
    /\ count' = count + 1
    /\ \E o \in Orders(f) :
         rows' = [rows EXCEPT ![count + 1] = [fill |-> f, order |-> o, time |-> time]]
    /\ quote' = quote + Credit(f)
    /\ base' = base + Receive(f)
    /\ cash' = [cash EXCEPT ![count + 1] = cash[count] + CashDelta(f)]
    /\ held' = [held EXCEPT ![count + 1] = held[count] + BaseDelta(f)]
    /\ book' = [book EXCEPT ![count + 1] = BookAfter(book[count], f)]
    /\ UNCHANGED <<flow, baseFlow>>

Transfer(amount) ==
    /\ quote + amount >= 0
    /\ flow + amount \in Flows
    /\ quote' = quote + amount
    /\ flow' = flow + amount
    /\ UNCHANGED <<count, rows, base, baseFlow, cash, held, book>>

TransferBase(amount) ==
    /\ base + amount >= 0
    /\ baseFlow + amount \in Flows
    /\ base' = base + amount
    /\ baseFlow' = baseFlow + amount
    /\ UNCHANGED <<count, rows, quote, flow, cash, held, book>>
-----------------------------------------------------------------------------
(* fill_risk_stats over the first n rows.                                   *)
Buys(n) == {i \in 1 .. n : rows[i].fill.buy}
Sales(n) == (1 .. n) \ Buys(n)

Day(t) == t \div TicksPerDay

DailyEntries(n, day) ==
    Cardinality({rows[i].order : i \in {j \in Buys(n) : Day(rows[j].time) = day}})

LastEntry(n) == IF Buys(n) = {} THEN -1 ELSE rows[Max(Buys(n))].time

RowsOf(n, order) == {i \in Sales(n) : rows[i].order = order}

SalePnl(n, order) ==
    MapThenSumSet(LAMBDA i : book[i].realized - book[i - 1].realized,
                  RowsOf(n, order))

(* The sale orders that lost and were followed by no sale that did not. *)
LossStreak(n) ==
    LET orders == {rows[i].order : i \in Sales(n)}
    IN  Cardinality({o \in orders :
            \A p \in orders :
                Max(RowsOf(n, p)) >= Max(RowsOf(n, o)) => SalePnl(n, p) < 0})
=============================================================================
