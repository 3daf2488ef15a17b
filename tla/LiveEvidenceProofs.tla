------------------------- MODULE LiveEvidenceProofs -------------------------
(***************************************************************************)
(* That the equity guard and the fill ledger follow the account, for every  *)
(* number of fills and receipts and every course of time.  The account only *)
(* grows (HistoryGrows), so that what was true of a receipt stays true; the *)
(* work is in the steps that add a row or assemble, observe or sync a       *)
(* receipt.                                                                 *)
(***************************************************************************)
EXTENDS LiveEvidence, TLAPS

(* The books b agree with a quantity h and a cash balance c. *)
Agree(b, h, c) == b.explained => b.quantity = h /\ b.realized - b.cost = c

HistoryGrows ==
    /\ count' \in Prefixes
    /\ count <= count'
    /\ now' \in Nat
    /\ now <= now'
    /\ \A n \in 0 .. count :
        cash'[n] = cash[n] /\ held'[n] = held[n] /\ book'[n] = book[n]

LEMMA AmountsOfFills ==
    ASSUME NEW f \in Fills
    PROVE  /\ f.buy \in BOOLEAN
           /\ f.qty \in Nat \ {0} /\ f.quote \in Nat \ {0}
           /\ f.baseFee \in Nat /\ f.quoteFee \in Nat
           /\ Credit(f) \in Int /\ Receive(f) \in Int
           /\ CashDelta(f) = Credit(f) /\ BaseDelta(f) = Receive(f)
<1>1. f \in [buy : BOOLEAN, qty : Nat \ {0}, quote : Nat \ {0},
             baseFee : Nat, quoteFee : Nat]
  BY AccountAssumption
<1>2. /\ f.buy \in BOOLEAN
      /\ f.qty \in Nat \ {0} /\ f.quote \in Nat \ {0}
      /\ f.baseFee \in Nat /\ f.quoteFee \in Nat
  BY <1>1
<1>. QED  BY <1>2 DEF Credit, Receive, CashDelta, BaseDelta

(* A row keeps the replayed books in agreement with the balance changes.    *)
LEMMA BookStep ==
    ASSUME NEW f \in Fills, NEW b \in Books, NEW h \in Int, NEW c \in Int,
           Agree(b, h, c)
    PROVE  /\ BookAfter(b, f) \in Books
           /\ Agree(BookAfter(b, f), h + BaseDelta(f), c + CashDelta(f))
<1>. USE AmountsOfFills
<1>b. /\ b.explained \in BOOLEAN
      /\ b.quantity \in Int /\ b.cost \in Int /\ b.realized \in Int
      /\ b = [explained |-> b.explained, quantity |-> b.quantity,
              cost |-> b.cost, realized |-> b.realized]
  BY DEF Books
<1>1. CASE f.buy
  <2>1. BookAfter(b, f) = BookAfterBuy(b, f)
    BY <1>1 DEF BookAfter
  <2>2. BookAfterBuy(b, f) =
          [explained |-> b.explained, quantity |-> b.quantity + (f.qty - f.baseFee),
           cost |-> b.cost + f.quote + f.quoteFee, realized |-> b.realized]
    BY <1>b DEF BookAfterBuy
  <2>3. BookAfterBuy(b, f) \in Books
    BY <1>b, <2>2 DEF Books
  <2>. QED  BY <1>1, <1>b, <2>1, <2>2, <2>3 DEF Agree, BaseDelta, CashDelta
<1>2. CASE ~f.buy /\ f.qty + f.baseFee > b.quantity
  <2>1. BookAfter(b, f) = [b EXCEPT !.explained = FALSE]
    BY <1>2 DEF BookAfter
  <2>2. [b EXCEPT !.explained = FALSE] \in Books
    BY <1>b DEF Books
  <2>3. ~[b EXCEPT !.explained = FALSE].explained
    BY <1>b
  <2>. QED  BY <2>1, <2>2, <2>3 DEF Agree
<1>3. CASE ~f.buy /\ ~(f.qty + f.baseFee > b.quantity)
  <2>. DEFINE disposed == f.qty + f.baseFee
              product  == b.cost * disposed
              removed  == product \div b.quantity
  <2>1. disposed \in Int /\ product \in Int /\ b.quantity \in Nat \ {0}
    BY <1>b, <1>3
  <2>2. removed \in Int
    <3>. HIDE DEF product
    <3>. QED  BY <2>1
  <2>3. BookAfter(b, f) = BookAfterSale(b, f)
    BY <1>3 DEF BookAfter
  <2>4. BookAfterSale(b, f) =
          [explained |-> b.explained, quantity |-> b.quantity - disposed,
           cost |-> b.cost - removed,
           realized |-> b.realized + (f.quote - f.quoteFee) - removed]
    BY DEF BookAfterSale
  <2>. HIDE DEF removed
  <2>5. BookAfterSale(b, f) \in Books
    BY <1>b, <2>1, <2>2, <2>4 DEF Books
  <2>6. Agree(BookAfterSale(b, f), h + BaseDelta(f), c + CashDelta(f))
    BY <1>3, <1>b, <2>1, <2>2, <2>4 DEF Agree, BaseDelta, CashDelta
  <2>. QED  BY <2>3, <2>5, <2>6
<1>. QED  BY <1>1, <1>2, <1>3, <1>b

-----------------------------------------------------------------------------
LEMMA ConstantTypes ==
    /\ MaxFills \in Nat /\ StartQuote \in Nat /\ Flows \subseteq Int
    /\ MaxTime \in Nat /\ MaxRequests \in Nat /\ CycleAge \in Nat /\ RiskAge \in Nat
    /\ TicksPerDay \in Nat \ {0}
    /\ Bids \subseteq Nat
    /\ Amounts \subseteq Int
BY AccountAssumption, EvidenceAssumption

LEMMA FieldsOfReceipts ==
    ASSUME NEW r \in Receipts
    PROVE  /\ r # None
           /\ r.at \in Nat /\ r.quote \in Int /\ r.base \in Int /\ r.bid \in Bids
           /\ r.settled \in BOOLEAN
           /\ r.n \in Prefixes /\ r.rowsThen \in Prefixes /\ r.flow \in Int
BY DEF Receipts, None

(* What TypeOK says, without the records and functions it is made of.       *)
LEMMA StateFacts ==
    ASSUME TypeOK
    PROVE  /\ count \in Nat /\ count <= MaxFills /\ 0 .. count \subseteq Prefixes
           /\ now \in Nat
           /\ quote \in Int /\ base \in Int /\ flow \in Int /\ baseFlow \in Int
           /\ \A n \in Prefixes : cash[n] \in Int /\ held[n] \in Int /\ book[n] \in Books
           /\ \A n \in Prefixes : n \in Nat
           /\ ledger \in Int
           /\ \A r \in KnownReceipts : r \in Receipts
           /\ guard # NoGuard => guard \in Guards /\ guard.last \in KnownReceipts
           /\ cycle # Idle => cycle \in Cycles /\ cycle.receipt \in KnownReceipts
<1>1. count \in Nat /\ count <= MaxFills /\ 0 .. count \subseteq Prefixes
  BY ConstantTypes DEF TypeOK, AccountTypeOK, Prefixes
<1>2. /\ now \in Nat
      /\ quote \in Int /\ base \in Int /\ flow \in Int /\ baseFlow \in Int
      /\ \A n \in Prefixes : cash[n] \in Int /\ held[n] \in Int /\ book[n] \in Books
      /\ \A n \in Prefixes : n \in Nat
      /\ ledger \in Int
  BY ConstantTypes DEF TypeOK, AccountTypeOK, Prefixes, NoLedger
<1>3. guard # NoGuard => guard \in Guards /\ guard.last \in Receipts
  BY DEF TypeOK, Guards
<1>4. cycle # Idle => cycle \in Cycles /\ cycle.receipt \in Receipts
  BY DEF TypeOK, Cycles
<1>5. NoGuard.last = None /\ Idle.receipt = None
  BY DEF NoGuard, Idle
<1>6. {snapshot, desk, first} \subseteq Receipts \cup {None}
  BY DEF TypeOK
<1>7. \A r \in KnownReceipts : r \in Receipts
  BY <1>3, <1>4, <1>5, <1>6 DEF KnownReceipts
<1>8. /\ guard # NoGuard => guard.last \in KnownReceipts
      /\ cycle # Idle => cycle.receipt \in KnownReceipts
  BY <1>3, <1>4, FieldsOfReceipts DEF KnownReceipts
<1>. QED  BY <1>1, <1>2, <1>3, <1>4, <1>7, <1>8

(* The venue adds a row after those there were, or moves a balance.         *)
LEMMA VenueStep ==
    ASSUME TypeOK, AccountAddsUp, BooksAgreeWithCash, Venue
    PROVE  /\ AccountTypeOK' /\ HistoryGrows
           /\ AccountAddsUp' /\ BooksAgreeWithCash'
<1>. USE StateFacts, ConstantTypes
<1>l. now' = now
  BY DEF Venue, localVars
<1>1. ASSUME NEW f \in Fills, Fill(f, now)
      PROVE  AccountTypeOK' /\ HistoryGrows /\ AccountAddsUp' /\ BooksAgreeWithCash'
  <2>. DEFINE m == count + 1
  <2>1. count < MaxFills /\ count' = m /\ m \in Prefixes /\ m # 0 /\ m - 1 = count
    BY <1>1 DEF Fill, Prefixes
  <2>2. /\ cash' = [cash EXCEPT ![m] = cash[count] + CashDelta(f)]
        /\ held' = [held EXCEPT ![m] = held[count] + BaseDelta(f)]
        /\ book' = [book EXCEPT ![m] = BookAfter(book[count], f)]
        /\ quote' = quote + Credit(f) /\ base' = base + Receive(f)
        /\ flow' = flow /\ baseFlow' = baseFlow
    BY <1>1 DEF Fill
  <2>3. /\ cash \in [Prefixes -> Int] /\ held \in [Prefixes -> Int]
        /\ book \in [Prefixes -> Books]
    BY DEF TypeOK, AccountTypeOK
  <2>4. /\ Credit(f) \in Int /\ Receive(f) \in Int
        /\ CashDelta(f) = Credit(f) /\ BaseDelta(f) = Receive(f)
    BY AmountsOfFills
  <2>c. /\ count \in Prefixes /\ cash[count] \in Int /\ held[count] \in Int
        /\ book[count] \in Books
    BY DEF TypeOK, AccountTypeOK
  <2>5. Agree(book[count], held[count], cash[count])
    BY DEF BooksAgreeWithCash, Agree
  <2>6. /\ BookAfter(book[count], f) \in Books
        /\ Agree(BookAfter(book[count], f), held[count] + BaseDelta(f),
                 cash[count] + CashDelta(f))
    BY <2>c, <2>5, BookStep
  <2>7. DOMAIN rows' = 1 .. MaxFills
    <3>1. PICK o \in Orders(f) :
            rows' = [rows EXCEPT ![count + 1] = [fill |-> f, order |-> o, time |-> now]]
      BY <1>1 DEF Fill
    <3>. QED  BY <3>1 DEF TypeOK, AccountTypeOK
  <2>. HIDE DEF m
  <2>e. cash[count] + CashDelta(f) \in Int /\ held[count] + BaseDelta(f) \in Int
    BY <2>4, <2>c
  <2>8. /\ cash' \in [Prefixes -> Int] /\ held' \in [Prefixes -> Int]
        /\ book' \in [Prefixes -> Books]
    BY <2>2, <2>3, <2>e, <2>6, Zenon
  <2>d. /\ quote' \in Int /\ base' \in Int /\ flow' \in Int /\ baseFlow' \in Int
        /\ count' \in Prefixes
    BY <2>1, <2>2, <2>4
  <2>9. AccountTypeOK'
    BY <2>d, <2>7, <2>8, Z3 DEF AccountTypeOK
  <2>10. /\ cash'[m] = cash[count] + CashDelta(f)
         /\ held'[m] = held[count] + BaseDelta(f)
         /\ book'[m] = BookAfter(book[count], f)
    BY <2>1, <2>2, <2>3
  <2>11. \A n \in 0 .. count :
          cash'[n] = cash[n] /\ held'[n] = held[n] /\ book'[n] = book[n]
    <3>. TAKE n \in 0 .. count
    <3>1. n # m /\ n \in Prefixes
      BY <2>1
    <3>. QED  BY <3>1, <2>2, <2>3
  <2>12. HistoryGrows
    BY <1>l, <2>1, <2>11 DEF HistoryGrows
  <2>13. AccountAddsUp'
    BY <2>1, <2>2, <2>4, <2>c, <2>10 DEF AccountAddsUp
  <2>14. BooksAgreeWithCash'
    <3>1. SUFFICES ASSUME NEW n \in 0 .. count', book'[n].explained
                   PROVE  /\ book'[n].quantity = held'[n]
                          /\ book'[n].realized - book'[n].cost = cash'[n]
      BY DEF BooksAgreeWithCash
    <3>2. n = m \/ n \in 0 .. count
      BY <2>1
    <3>3. CASE n = m
      BY <2>6, <2>10, <3>1, <3>3 DEF Agree
    <3>4. CASE n \in 0 .. count
      BY <2>11, <3>1, <3>4 DEF BooksAgreeWithCash
    <3>. QED  BY <3>2, <3>3, <3>4
  <2>. QED  BY <2>9, <2>12, <2>13, <2>14
<1>2. ASSUME NEW amount \in Amounts, Transfer(amount) \/ TransferBase(amount)
      PROVE  AccountTypeOK' /\ HistoryGrows /\ AccountAddsUp' /\ BooksAgreeWithCash'
  <2>1. /\ UNCHANGED <<count, rows, cash, held, book>>
        /\ amount \in Int
        /\ \/ /\ quote' = quote + amount /\ flow' = flow + amount
              /\ UNCHANGED <<base, baseFlow>>
           \/ /\ base' = base + amount /\ baseFlow' = baseFlow + amount
              /\ UNCHANGED <<quote, flow>>
    BY <1>2 DEF Transfer, TransferBase
  <2>2. AccountTypeOK'
    BY <2>1 DEF TypeOK, AccountTypeOK
  <2>3. HistoryGrows
    BY <1>l, <2>1 DEF HistoryGrows, TypeOK, AccountTypeOK
  <2>c. count \in Prefixes /\ cash[count] \in Int /\ held[count] \in Int
    BY DEF TypeOK, AccountTypeOK
  <2>4. AccountAddsUp'
    BY <2>1, <2>c DEF AccountAddsUp
  <2>5. BooksAgreeWithCash'
    BY <2>1 DEF BooksAgreeWithCash
  <2>. QED  BY <2>2, <2>3, <2>4, <2>5
<1>. QED  BY <1>1, <1>2 DEF Venue

(* In every step the account keeps its history.                             *)
LEMMA AccountStep ==
    ASSUME TypeOK, AccountAddsUp, BooksAgreeWithCash, [Next]_vars
    PROVE  /\ AccountTypeOK' /\ HistoryGrows
           /\ AccountAddsUp' /\ BooksAgreeWithCash'
<1>. USE StateFacts
<1>1. ASSUME UNCHANGED accountVars, now' = now \/ now' = now + 1
      PROVE  /\ AccountTypeOK' /\ HistoryGrows
             /\ AccountAddsUp' /\ BooksAgreeWithCash'
  <2>1. UNCHANGED <<count, rows, quote, base, flow, baseFlow, cash, held, book>>
    BY <1>1 DEF accountVars
  <2>2. AccountTypeOK'
    BY <2>1 DEF TypeOK, AccountTypeOK
  <2>3. HistoryGrows
    BY <1>1, <2>1 DEF HistoryGrows, TypeOK, AccountTypeOK
  <2>4. AccountAddsUp' /\ BooksAgreeWithCash'
    BY <2>1 DEF AccountAddsUp, BooksAgreeWithCash
  <2>. QED  BY <2>2, <2>3, <2>4
<1>2. CASE Venue
  BY <1>2, VenueStep
<1>3. CASE TimePasses
  BY <1>1, <1>3 DEF TimePasses
<1>4. CASE ~Venue /\ ~TimePasses
  <2>1. UNCHANGED <<accountVars, now>>
    BY <1>4 DEF Next, vars, localVars, HostReads, DesktopImports, HostCycleImports,
       RiskInitialize, RiskCheck, DesktopPrepares, ResultImported, CycleBegins,
       CycleRechecks, CycleObserves, CycleSyncs, CycleDecides, CycleEnds, OthersOfCycle
  <2>. QED  BY <1>1, <2>1
<1>. QED  BY <1>2, <1>3, <1>4

(* What was true of a receipt stays true.                                   *)
LEMMA GenuineStays ==
    ASSUME TypeOK, HistoryGrows, NEW r \in Receipts, Genuine(r)
    PROVE  Genuine(r)'
<1>1. r.at \in Nat /\ r.n \in Prefixes /\ r.rowsThen \in Prefixes
  BY FieldsOfReceipts
<1>2. r.n \in 0 .. count /\ r.rowsThen \in 0 .. count
  BY <1>1, StateFacts, ConstantTypes DEF Genuine, Prefixes
<1>3. /\ cash'[r.rowsThen] = cash[r.rowsThen]
      /\ held'[r.n] = held[r.n] /\ book'[r.n] = book[r.n]
  BY <1>2 DEF HistoryGrows
<1>4. count \in Nat /\ now \in Nat /\ count' \in Nat /\ now' \in Nat
      /\ count <= count' /\ now <= now'
  BY StateFacts, ConstantTypes DEF HistoryGrows, Prefixes
<1>5. r.at <= now' /\ r.n <= count' /\ r.rowsThen <= count'
  BY <1>1, <1>2, <1>4 DEF Genuine
<1>. QED  BY <1>3, <1>5 DEF Genuine

LEMMA ReceiptsStay ==
    ASSUME TypeOK, HistoryGrows, ReceiptsAreGenuine,
           \A r \in KnownReceipts' : r \in KnownReceipts \/ Genuine(r)'
    PROVE  ReceiptsAreGenuine'
<1>1. \A r \in KnownReceipts : Genuine(r)'
  BY StateFacts, GenuineStays DEF ReceiptsAreGenuine
<1>. QED  BY <1>1 DEF ReceiptsAreGenuine

ReadOfBalances(b) ==
    /\ b.at <= now
    /\ b.rowsThen <= count
    /\ b.quote = StartQuote + cash[b.rowsThen] + b.flow

ReadOfTrades(b) == b.at <= now /\ b.n <= count

LEMMA ReadsStay ==
    ASSUME TypeOK, HistoryGrows, ReadsAreGenuine,
           \/ balances' \in {balances, None}
           \/ ReadOfBalances(balances)',
           \/ trades' \in {trades, None}
           \/ ReadOfTrades(trades)'
    PROVE  ReadsAreGenuine'
<1>0. count \in Nat /\ now \in Nat /\ count' \in Nat /\ now' \in Nat
      /\ count <= count' /\ now <= now'
  BY StateFacts, ConstantTypes DEF HistoryGrows, Prefixes
<1>1. ASSUME balances' = balances, balances # None
      PROVE  ReadOfBalances(balances)'
  <2>1. balances.at \in Nat /\ balances.rowsThen \in Nat
    BY <1>1, StateFacts DEF TypeOK, BalanceReads
  <2>2. balances.at <= now /\ balances.rowsThen <= count
        /\ balances.quote = StartQuote + cash[balances.rowsThen] + balances.flow
    BY <1>1 DEF ReadsAreGenuine
  <2>3. cash'[balances.rowsThen] = cash[balances.rowsThen]
    BY <2>1, <2>2, <1>0 DEF HistoryGrows
  <2>4. balances.at <= now' /\ balances.rowsThen <= count'
    BY <1>0, <2>1, <2>2
  <2>. QED  BY <1>1, <2>2, <2>3, <2>4 DEF ReadOfBalances
<1>2. ASSUME trades' = trades, trades # None
      PROVE  ReadOfTrades(trades)'
  <2>1. trades.at \in Nat /\ trades.n \in Nat
    BY <1>2, StateFacts DEF TypeOK, TradeReads
  <2>2. trades.at <= now /\ trades.n <= count
    BY <1>2 DEF ReadsAreGenuine
  <2>. QED  BY <1>0, <1>2, <2>1, <2>2 DEF ReadOfTrades
<1>3. balances' # None => ReadOfBalances(balances)'
  BY <1>1
<1>4. trades' # None => ReadOfTrades(trades)'
  BY <1>2
<1>. QED  BY <1>3, <1>4 DEF ReadsAreGenuine, ReadOfBalances, ReadOfTrades

LEMMA AssembledIsGenuine ==
    ASSUME TypeOK, ReadsAreGenuine, BooksAgreeWithCash, NEW at \in 0 .. now, Verified(at)
    PROVE  Assembled(at) \in Receipts /\ Genuine(Assembled(at))
<1>. USE StateFacts
<1>1. balances \in BalanceReads /\ trades \in TradeReads
  BY DEF Verified, TypeOK
<1>2. Assembled(at) \in Receipts
  BY <1>1 DEF Assembled, Receipts, BalanceReads, TradeReads
<1>3. /\ trades.n \in 0 .. count
      /\ balances.rowsThen <= count
      /\ balances.quote = StartQuote + cash[balances.rowsThen] + balances.flow
  BY <1>1 DEF Verified, ReadsAreGenuine, TradeReads, Prefixes
<1>4. balances.base = held[trades.n]
  BY <1>3 DEF Verified, BooksAgreeWithCash
<1>5. at <= now /\ book[trades.n].explained
  BY DEF Verified
<1>. QED  BY <1>2, <1>3, <1>4, <1>5 DEF Assembled, Genuine

(* The parts of the invariant about the files.                              *)
FilesInv == GuardFollowsRows /\ LedgerIsPrefix /\ CycleIsOnFile /\ DecisionIsOnFile

LEMMA GuardStays ==
    ASSUME TypeOK, ReceiptsAreGenuine, GuardFollowsRows, HistoryGrows, UNCHANGED guardVars
    PROVE  GuardFollowsRows'
<1>1. guard' = guard /\ first' = first
  BY DEF guardVars
<1>2. ASSUME guard # NoGuard
      PROVE  cash'[guard.last.n] = cash[guard.last.n] /\ cash'[first.n] = cash[first.n]
  <2>1. first \in KnownReceipts /\ guard.last \in KnownReceipts
    BY <1>2, StateFacts DEF KnownReceipts, GuardFollowsRows
  <2>2. /\ first \in Receipts /\ guard.last \in Receipts
        /\ Genuine(first) /\ Genuine(guard.last)
    BY <2>1, StateFacts DEF ReceiptsAreGenuine
  <2>3. first.n \in 0 .. count /\ guard.last.n \in 0 .. count
    BY <2>2, StateFacts, FieldsOfReceipts DEF Genuine
  <2>. QED  BY <2>3 DEF HistoryGrows
<1>. QED  BY <1>1, <1>2 DEF GuardFollowsRows

LEMMA LedgerStays ==
    ASSUME TypeOK, LedgerIsPrefix, HistoryGrows, ledger' = ledger
    PROVE  LedgerIsPrefix'
<1>1. count \in Nat /\ count' \in Nat /\ count <= count' /\ ledger \in Int
  BY StateFacts, ConstantTypes DEF HistoryGrows, Prefixes
<1>2. ASSUME ledger # NoLedger
      PROVE  ledger <= count' /\ book'[ledger].explained
  <2>1. ledger \in Nat /\ ledger <= count /\ book[ledger].explained
    BY <1>2, ConstantTypes DEF LedgerIsPrefix, TypeOK, Prefixes
  <2>2. book'[ledger] = book[ledger]
    BY <1>1, <2>1 DEF HistoryGrows
  <2>. QED  BY <1>1, <2>1, <2>2
<1>. QED  BY <1>2 DEF LedgerIsPrefix

LEMMA FilesStay ==
    ASSUME TypeOK, ReceiptsAreGenuine, FilesInv, HistoryGrows,
           UNCHANGED <<guardVars, ledger, cycleVars>>
    PROVE  FilesInv'
<1>1. UNCHANGED <<guard, first, ledger, cycle, decision>>
  BY DEF guardVars, cycleVars
<1>2. CycleIsOnFile' /\ DecisionIsOnFile'
  BY <1>1 DEF FilesInv, CycleIsOnFile, DecisionIsOnFile
<1>. QED  BY <1>2, GuardStays, LedgerStays DEF FilesInv, guardVars

(* An observation of a genuine receipt moves the guard on.                  *)
LEMMA ObserveStep ==
    ASSUME TypeOK, ReceiptsAreGenuine, GuardFollowsRows, UNCHANGED accountVars,
           NEW r, r \in KnownReceipts \cup {None}, Observe(r)
    PROVE  /\ r \in KnownReceipts
           /\ guard # NoGuard /\ guard' # NoGuard
           /\ guard' \in Guards /\ first' = first /\ guard'.last = r
           /\ guard.last.n <= r.n /\ guard.last.at <= r.at
           /\ GuardFollowsRows'
<1>1. /\ r \in KnownReceipts /\ r \in Receipts
      /\ guard # NoGuard /\ guard \in Guards /\ guard.last \in Receipts
      /\ guard' = [baseline |-> guard.baseline, last |-> r] /\ first' = first
  BY StateFacts DEF Observe, Accepts
<1>2. /\ guard'.baseline = guard.baseline /\ guard'.last = r
      /\ guard' \in Guards
  BY <1>1 DEF Guards
<1>3. guard' # NoGuard
  BY <1>1, <1>2, FieldsOfReceipts DEF NoGuard
<1>4. guard.last.n <= r.n /\ guard.last.at <= r.at
  BY <1>1, FieldsOfReceipts DEF Observe, Accepts
<1>5. first \in Receipts
  BY <1>1, StateFacts DEF KnownReceipts, GuardFollowsRows
<1>6. UNCHANGED cash
  BY DEF accountVars
<1>7. /\ r.n \in Prefixes /\ r.quote \in Int
      /\ guard.last.n \in Prefixes /\ guard.last.quote \in Int
      /\ first.n \in Prefixes /\ first.quote \in Int
  BY <1>1, <1>5, FieldsOfReceipts
<1>8. /\ cash[r.n] \in Int /\ cash[guard.last.n] \in Int /\ cash[first.n] \in Int
      /\ r.n \in Nat /\ guard.last.n \in Nat /\ first.n \in Nat
  BY <1>7, StateFacts
<1>9. /\ guard.last.quote - first.quote = cash[guard.last.n] - cash[first.n]
      /\ first.n <= guard.last.n
      /\ first # None
      /\ guard.baseline = Equity(first)
  BY <1>1 DEF GuardFollowsRows
<1>10. r = guard.last \/ r.quote - guard.last.quote = cash[r.n] - cash[guard.last.n]
  BY DEF Observe, Accepts, Explained
<1>11. r.quote - first.quote = cash[r.n] - cash[first.n]
  <2>1. CASE r = guard.last
    BY <1>9, <2>1
  <2>2. CASE r # guard.last
    BY <1>7, <1>8, <1>9, <1>10, <2>2
  <2>. QED  BY <2>1, <2>2
<1>12. first.n <= r.n
  BY <1>4, <1>8, <1>9
<1>13. GuardFollowsRows'
  BY <1>1, <1>2, <1>3, <1>6, <1>9, <1>11, <1>12 DEF GuardFollowsRows, Equity
<1>. QED  BY <1>1, <1>2, <1>3, <1>4, <1>13

LEMMA SyncStep ==
    ASSUME TypeOK, LedgerIsPrefix, UNCHANGED accountVars, NEW n \in 0 .. count, Sync(n)
    PROVE  ledger' = n /\ ledger <= n /\ ledger' \in Prefixes /\ LedgerIsPrefix'
<1>1. UNCHANGED <<count, book>>
  BY DEF accountVars
<1>. QED  BY <1>1, StateFacts, ConstantTypes DEF Sync, LedgerIsPrefix

-----------------------------------------------------------------------------
LEMMA InitHolds == Init => IInv
<1>. SUFFICES ASSUME Init PROVE IInv
  OBVIOUS
<1>. USE ConstantTypes
<1>1. AccountTypeOK
  BY DEF Init, AccountInit, AccountTypeOK, Prefixes, Books, EmptyBook
<1>2. TypeOK
  BY <1>1 DEF Init, TypeOK
<1>3. AccountAddsUp
  BY DEF Init, AccountInit, AccountAddsUp, Prefixes
<1>4. BooksAgreeWithCash
  BY DEF Init, AccountInit, BooksAgreeWithCash, Prefixes, EmptyBook
<1>5. KnownReceipts = {}
  BY DEF Init, KnownReceipts, NoGuard, Idle
<1>6. ReadsAreGenuine /\ ReceiptsAreGenuine
  BY <1>5 DEF Init, ReadsAreGenuine, ReceiptsAreGenuine
<1>7. GuardFollowsRows /\ LedgerIsPrefix /\ CycleIsOnFile /\ DecisionIsOnFile
  BY DEF Init, GuardFollowsRows, LedgerIsPrefix, CycleIsOnFile, DecisionIsOnFile, Idle
<1>. QED  BY <1>2, <1>3, <1>4, <1>6, <1>7 DEF IInv

(* What is left to prove of a step: the account's part is AccountStep's.    *)
LocalTypeOK ==
    /\ now \in Nat
    /\ requests \in Nat
    /\ balances \in BalanceReads \cup {None}
    /\ trades \in TradeReads \cup {None}
    /\ {snapshot, desk, first} \subseteq Receipts \cup {None}
    /\ guard \in Guards \cup {NoGuard}
    /\ ledger \in {NoLedger} \cup Prefixes
    /\ cycle \in Cycles \cup {Idle}
    /\ decision # None => {decision.at, decision.n} \subseteq Nat

LocalInv == LocalTypeOK /\ ReadsAreGenuine /\ ReceiptsAreGenuine /\ FilesInv

LEMMA StutterStep ==
    ASSUME TypeOK, ReadsAreGenuine, ReceiptsAreGenuine, FilesInv, HistoryGrows,
           UNCHANGED <<hostVars, snapshot, desk, guardVars, ledger, cycleVars>>
    PROVE  LocalInv'
<1>1. UNCHANGED <<requests, balances, trades, snapshot, desk, guard, first, ledger,
                  cycle, decision>>
  BY DEF hostVars, guardVars, cycleVars
<1>2. LocalTypeOK'
  BY <1>1 DEF TypeOK, LocalTypeOK, HistoryGrows
<1>3. ReadsAreGenuine'
  BY <1>1, ReadsStay
<1>4. ReceiptsAreGenuine'
  BY <1>1, ReceiptsStay DEF KnownReceipts
<1>5. FilesInv'
  BY FilesStay
<1>. QED  BY <1>2, <1>3, <1>4, <1>5 DEF LocalInv

LEMMA HostStep ==
    ASSUME IInv, HistoryGrows, HostReads
    PROVE  LocalInv'
<1>. USE StateFacts DEF IInv
<1>1. /\ UNCHANGED <<count, cash, now, requests, snapshot, desk, guard, first, ledger, cycle, decision>>
      /\ UNCHANGED <<guardVars, cycleVars>>
  BY DEF HostReads, ReadBalances, ReadTrades, accountVars, guardVars, cycleVars
<1>2. count \in Prefixes /\ now \in Nat
  BY DEF TypeOK, AccountTypeOK
<1>3. balances' = balances \/ (balances' \in BalanceReads /\ ReadOfBalances(balances)')
  <2>1. CASE ReadBalances
    <3>1. PICK settled \in BOOLEAN :
            balances' = [at |-> now, quote |-> quote, base |-> base,
                         settled |-> settled, rowsThen |-> count, flow |-> flow]
      BY <2>1 DEF ReadBalances
    <3>2. balances' \in BalanceReads
      BY <3>1, <1>2 DEF BalanceReads
    <3>3. ReadOfBalances(balances)'
      BY <3>1, <1>1, <1>2 DEF ReadOfBalances, AccountAddsUp
    <3>. QED  BY <3>2, <3>3
  <2>2. CASE ReadTrades
    BY <2>2 DEF ReadTrades
  <2>. QED  BY <2>1, <2>2 DEF HostReads
<1>4. trades' = trades \/ (trades' \in TradeReads /\ ReadOfTrades(trades)')
  <2>1. CASE ReadTrades
    <3>1. PICK bid \in Bids : trades' = [at |-> now, n |-> count, bid |-> bid]
      BY <2>1 DEF ReadTrades
    <3>. QED  BY <3>1, <1>1, <1>2 DEF TradeReads, ReadOfTrades
  <2>2. CASE ReadBalances
    BY <2>2 DEF ReadBalances
  <2>. QED  BY <2>1, <2>2 DEF HostReads
<1>5. LocalTypeOK'
  BY <1>1, <1>3, <1>4 DEF TypeOK, LocalTypeOK
<1>6. ReadsAreGenuine'
  BY <1>3, <1>4, ReadsStay
<1>7. ReceiptsAreGenuine'
  BY <1>1, ReceiptsStay DEF KnownReceipts
<1>8. FilesInv'
  BY <1>1, FilesStay DEF FilesInv
<1>. QED  BY <1>5, <1>6, <1>7, <1>8 DEF LocalInv

LEMMA ImportStep ==
    ASSUME IInv, HistoryGrows, DesktopImports \/ HostCycleImports
    PROVE  LocalInv'
<1>. USE StateFacts DEF IInv
<1>1. /\ UNCHANGED <<now, guard, first, ledger, cycle, decision>>
      /\ UNCHANGED <<guardVars, cycleVars>>
      /\ NewRequest
  BY DEF DesktopImports, HostCycleImports, accountVars, guardVars, cycleVars
<1>2. \/ snapshot' = snapshot /\ desk' = None
      \/ \E r \in Receipts : Genuine(r) /\ snapshot' = r /\ desk' \in {desk, r}
  <2>1. ASSUME NEW at \in 0 .. now, Verified(at)
        PROVE  \E r \in Receipts : Genuine(r) /\ Assembled(at) = r
    BY <2>1, AssembledIsGenuine
  <2>. QED  BY <2>1 DEF DesktopImports, HostCycleImports
<1>3. /\ {snapshot', desk'} \subseteq Receipts \cup {None}
      /\ \A r \in {snapshot', desk'} \ {None} : r \in KnownReceipts \/ Genuine(r)'
  <2>1. CASE snapshot' = snapshot /\ desk' = None
    BY <2>1 DEF TypeOK, KnownReceipts
  <2>2. ASSUME NEW r \in Receipts, Genuine(r), snapshot' = r, desk' \in {desk, r}
        PROVE  /\ {snapshot', desk'} \subseteq Receipts \cup {None}
               /\ \A s \in {snapshot', desk'} \ {None} : s \in KnownReceipts \/ Genuine(s)'
    <3>1. Genuine(r)'
      BY <2>2, GenuineStays
    <3>. QED  BY <2>2, <3>1 DEF TypeOK, KnownReceipts
  <2>. QED  BY <1>2, <2>1, <2>2
<1>4. requests' \in Nat /\ balances' = None /\ trades' = None
  BY <1>1 DEF NewRequest, TypeOK
<1>5. LocalTypeOK'
  BY <1>1, <1>3, <1>4 DEF TypeOK, LocalTypeOK
<1>6. ReadsAreGenuine'
  BY <1>4, ReadsStay
<1>7. ReceiptsAreGenuine'
  BY <1>1, <1>3, ReceiptsStay DEF KnownReceipts
<1>8. FilesInv'
  BY <1>1, FilesStay DEF FilesInv
<1>. QED  BY <1>5, <1>6, <1>7, <1>8 DEF LocalInv

LEMMA InitializeStep ==
    ASSUME IInv, HistoryGrows, RiskInitialize
    PROVE  LocalInv'
<1>. USE StateFacts DEF IInv
<1>1. /\ UNCHANGED <<cash, now, requests, balances, trades, snapshot, desk, ledger, cycle, decision>>
      /\ snapshot # None /\ guard = NoGuard
      /\ guard' = [baseline |-> Equity(snapshot), last |-> snapshot]
      /\ first' = snapshot
  BY DEF RiskInitialize, Initialized, Fresh, accountVars, hostVars, cycleVars
<1>2. snapshot \in KnownReceipts /\ snapshot \in Receipts
  BY <1>1 DEF KnownReceipts
<1>3. Equity(snapshot) \in Int
  <2>0. snapshot.quote \in Int /\ snapshot.base \in Int /\ snapshot.bid \in Bids
    BY <1>2, FieldsOfReceipts
  <2>b. Bids \subseteq Int
    BY ConstantTypes
  <2>1. snapshot.quote \in Int /\ snapshot.base \in Int /\ snapshot.bid \in Int
    BY <2>0, <2>b
  <2>2. \A q, b, p \in Int : q + b * p \in Int
    OBVIOUS
  <2>. QED  BY <2>1, <2>2 DEF Equity
<1>4. /\ guard' \in Guards /\ guard'.last = snapshot
      /\ guard'.baseline = Equity(snapshot)
  BY <1>1, <1>2, <1>3 DEF Guards
<1>5. guard' # NoGuard /\ first' # None
  BY <1>1, <1>2, <1>4, FieldsOfReceipts DEF NoGuard
<1>6. LocalTypeOK'
  BY <1>1, <1>2, <1>4 DEF TypeOK, LocalTypeOK
<1>7. ReadsAreGenuine'
  BY <1>1, ReadsStay
<1>8. ReceiptsAreGenuine'
  BY <1>1, <1>2, <1>4, ReceiptsStay DEF KnownReceipts
<1>9. GuardFollowsRows'
  <2>1. /\ snapshot.n \in Prefixes /\ snapshot.n \in Nat
        /\ snapshot.quote \in Int /\ cash[snapshot.n] \in Int
    BY <1>2, FieldsOfReceipts
  <2>. QED  BY <1>1, <1>4, <1>5, <2>1 DEF GuardFollowsRows, Equity
<1>10. LedgerIsPrefix'
  BY <1>1, LedgerStays
<1>11. CycleIsOnFile' /\ DecisionIsOnFile'
  <2>1. cycle.step \notin {"observed", "synced"} /\ decision = None
    BY <1>1 DEF CycleIsOnFile, DecisionIsOnFile
  <2>. QED  BY <1>1, <2>1 DEF CycleIsOnFile, DecisionIsOnFile
<1>. QED  BY <1>6, <1>7, <1>8, <1>9, <1>10, <1>11 DEF LocalInv, FilesInv

(* The observation of the risk command, of a prepared order, or of a cycle. *)
LEMMA ObservedStep ==
    ASSUME IInv, HistoryGrows, UNCHANGED accountVars,
           UNCHANGED <<now, hostVars, snapshot, desk, ledger, decision>>,
           NEW r \in KnownReceipts \cup {None}, Observe(r),
           \/ cycle' = cycle
           \/ r = cycle.receipt /\ cycle # Idle /\ cycle' = [step |-> "observed", receipt |-> r]
    PROVE  LocalInv'
<1>. USE StateFacts DEF IInv
<1>1. /\ r \in KnownReceipts /\ r \in Receipts
      /\ guard # NoGuard /\ guard' # NoGuard
      /\ guard' \in Guards /\ first' = first /\ guard'.last = r
      /\ guard.last.n <= r.n /\ guard.last.at <= r.at
      /\ GuardFollowsRows'
  BY ObserveStep
<1>2. UNCHANGED <<requests, balances, trades, snapshot, desk, now, ledger, decision>>
  BY DEF hostVars
<1>3. /\ cycle' \in Cycles \cup {Idle}
      /\ cycle' # cycle => cycle'.step = "observed" /\ cycle'.receipt = r
      /\ cycle'.receipt \in {cycle.receipt, r}
  BY <1>1 DEF Cycles, TypeOK
<1>4. LocalTypeOK'
  BY <1>1, <1>2, <1>3 DEF TypeOK, LocalTypeOK
<1>5. ReadsAreGenuine'
  BY <1>2, ReadsStay
<1>6. ReceiptsAreGenuine'
  BY <1>1, <1>2, <1>3, ReceiptsStay DEF KnownReceipts
<1>7. LedgerIsPrefix'
  BY <1>2, LedgerStays
<1>8. /\ guard.last \in Receipts
      /\ guard.last.n \in Nat /\ guard.last.at \in Nat /\ r.n \in Nat /\ r.at \in Nat
  BY <1>1, FieldsOfReceipts
<1>9. CycleIsOnFile'
  <2>1. CASE cycle' # cycle
    BY <1>1, <1>3, <1>8, <2>1 DEF CycleIsOnFile
  <2>2. CASE cycle' = cycle /\ cycle.step \in {"observed", "synced"}
    <3>1. cycle # Idle
      BY <2>2 DEF Idle
    <3>2. cycle.receipt.n \in Nat /\ cycle.receipt.at \in Nat
      BY <3>1, FieldsOfReceipts
    <3>3. /\ cycle.receipt.n <= guard.last.n /\ cycle.receipt.at <= guard.last.at
          /\ cycle.step = "synced" => cycle.receipt.n <= ledger
      BY <2>2 DEF CycleIsOnFile
    <3>. QED  BY <1>1, <1>2, <1>8, <2>2, <3>2, <3>3 DEF CycleIsOnFile
  <2>3. CASE cycle' = cycle /\ cycle.step \notin {"observed", "synced"}
    BY <2>3 DEF CycleIsOnFile
  <2>. QED  BY <2>1, <2>2, <2>3
<1>10. DecisionIsOnFile'
  <2>. SUFFICES ASSUME decision # None PROVE DecisionIsOnFile'
    BY <1>2 DEF DecisionIsOnFile
  <2>1. decision.n \in Nat /\ decision.at \in Nat
    BY DEF TypeOK
  <2>2. decision.n <= ledger /\ decision.n <= guard.last.n /\ decision.at <= guard.last.at
    BY DEF DecisionIsOnFile
  <2>. QED  BY <1>1, <1>2, <1>8, <2>1, <2>2 DEF DecisionIsOnFile
<1>. QED  BY <1>1, <1>4, <1>5, <1>6, <1>7, <1>9, <1>10 DEF LocalInv, FilesInv

(* The sync of a result or of a cycle.                                      *)
LEMMA SyncedStep ==
    ASSUME IInv, HistoryGrows, UNCHANGED accountVars,
           UNCHANGED <<now, hostVars, snapshot, desk, guardVars, decision>>,
           NEW n \in 0 .. count, Sync(n),
           \/ cycle' = cycle
           \/ /\ n = cycle.receipt.n /\ cycle.step = "observed"
              /\ cycle' = [step |-> "synced", receipt |-> cycle.receipt]
    PROVE  LocalInv'
<1>. USE StateFacts DEF IInv
<1>1. ledger' = n /\ ledger <= n /\ ledger' \in Prefixes /\ LedgerIsPrefix'
  BY SyncStep
<1>2. /\ UNCHANGED <<requests, balances, trades, snapshot, desk, now, guard, first, decision>>
      /\ UNCHANGED guardVars
  BY DEF hostVars, guardVars
<1>3. /\ cycle' \in Cycles \cup {Idle}
      /\ cycle'.receipt = cycle.receipt
      /\ cycle' # cycle => cycle'.step = "synced"
  BY DEF Cycles, TypeOK, Idle
<1>4. LocalTypeOK'
  BY <1>1, <1>2, <1>3 DEF TypeOK, LocalTypeOK
<1>5. ReadsAreGenuine'
  BY <1>2, ReadsStay
<1>6. ReceiptsAreGenuine'
  BY <1>2, <1>3, ReceiptsStay DEF KnownReceipts
<1>7. GuardFollowsRows'
  BY <1>2, GuardStays
<1>8. ASSUME NEW m \in Nat, m <= ledger
      PROVE  m <= ledger'
  BY <1>1, <1>8
<1>9. CycleIsOnFile'
  <2>1. CASE cycle' # cycle
    BY <1>1, <1>2, <1>3, <2>1 DEF CycleIsOnFile
  <2>2. CASE cycle' = cycle /\ cycle.step = "synced"
    <3>1. cycle # Idle
      BY <2>2 DEF Idle
    <3>2. cycle.receipt.n \in Nat
      BY <3>1, FieldsOfReceipts
    <3>. QED  BY <1>2, <1>8, <2>2, <3>2 DEF CycleIsOnFile
  <2>3. CASE cycle' = cycle /\ cycle.step # "synced"
    BY <1>2, <2>3 DEF CycleIsOnFile
  <2>. QED  BY <2>1, <2>2, <2>3
<1>10. DecisionIsOnFile'
  <2>1. decision # None => decision.n \in Nat
    BY DEF TypeOK
  <2>. QED  BY <1>2, <1>8, <2>1 DEF DecisionIsOnFile
<1>. QED  BY <1>1, <1>4, <1>5, <1>6, <1>7, <1>9, <1>10 DEF LocalInv, FilesInv

(* The steps of a cycle that touch no file.                                 *)
LEMMA CycleStep ==
    ASSUME IInv, HistoryGrows,
           CycleBegins \/ CycleRechecks \/ CycleDecides \/ CycleEnds
    PROVE  LocalInv'
<1>. USE StateFacts DEF IInv
<1>1. /\ UNCHANGED <<requests, balances, trades, snapshot, desk, now, guard, first, ledger>>
      /\ UNCHANGED guardVars
  BY DEF CycleBegins, CycleRechecks, CycleDecides, CycleEnds, OthersOfCycle,
     hostVars, guardVars
<1>2. /\ cycle' \in Cycles \cup {Idle}
      /\ cycle'.receipt \in {snapshot, cycle.receipt, None}
      /\ cycle'.step \notin {"observed", "synced"}
  <2>1. CASE CycleBegins
    BY <2>1 DEF CycleBegins, Fresh, TypeOK, Cycles
  <2>2. CASE CycleRechecks
    BY <2>2 DEF CycleRechecks, Goto, Idle, TypeOK, Cycles
  <2>3. CASE CycleDecides \/ CycleEnds
    BY <2>3 DEF CycleDecides, CycleEnds, Idle
  <2>. QED  BY <2>1, <2>2, <2>3
<1>3. /\ decision' # None => {decision'.at, decision'.n} \subseteq Nat
      /\ DecisionIsOnFile'
  <2>1. CASE decision' = decision
    BY <1>1, <2>1 DEF TypeOK, DecisionIsOnFile
  <2>2. CASE CycleDecides
    <3>1. cycle.step = "synced" /\ cycle # Idle
      BY <2>2 DEF CycleDecides, Idle
    <3>2. decision'.at = cycle.receipt.at /\ decision'.n = cycle.receipt.n
      BY <2>2 DEF CycleDecides, Metrics
    <3>3. cycle.receipt.at \in Nat /\ cycle.receipt.n \in Nat
      BY <3>1, FieldsOfReceipts
    <3>. QED  BY <1>1, <3>1, <3>2, <3>3 DEF CycleIsOnFile, DecisionIsOnFile
  <2>. QED  BY <2>1, <2>2 DEF CycleBegins, CycleRechecks, CycleEnds
<1>4. LocalTypeOK'
  BY <1>1, <1>2, <1>3 DEF TypeOK, LocalTypeOK
<1>5. ReadsAreGenuine'
  BY <1>1, ReadsStay
<1>6. ReceiptsAreGenuine'
  BY <1>1, <1>2, ReceiptsStay DEF KnownReceipts
<1>7. GuardFollowsRows' /\ LedgerIsPrefix'
  BY <1>1, GuardStays, LedgerStays
<1>8. CycleIsOnFile'
  BY <1>2 DEF CycleIsOnFile
<1>. QED  BY <1>3, <1>4, <1>5, <1>6, <1>7, <1>8 DEF LocalInv, FilesInv

LEMMA InductiveStep == IInv /\ [Next]_vars => IInv'
<1>. SUFFICES ASSUME IInv, [Next]_vars PROVE IInv'
  OBVIOUS
<1>1. AccountTypeOK' /\ HistoryGrows /\ AccountAddsUp' /\ BooksAgreeWithCash'
  BY AccountStep DEF IInv
<1>2. LocalInv'
  <2>1. CASE TimePasses \/ Venue \/ UNCHANGED vars
    <3>1. UNCHANGED <<hostVars, snapshot, desk, guardVars, ledger, cycleVars>>
      BY <2>1 DEF TimePasses, Venue, vars, localVars
    <3>. QED  BY <1>1, <3>1, StutterStep DEF IInv, FilesInv
  <2>2. CASE HostReads
    BY <1>1, <2>2, HostStep
  <2>3. CASE DesktopImports \/ HostCycleImports
    BY <1>1, <2>3, ImportStep
  <2>4. CASE RiskInitialize
    BY <1>1, <2>4, InitializeStep
  <2>5. CASE RiskCheck \/ DesktopPrepares
    <3>1. /\ UNCHANGED <<now, hostVars, snapshot, desk, ledger, decision, cycle>>
          /\ UNCHANGED accountVars
      BY <2>5 DEF RiskCheck, DesktopPrepares, cycleVars
    <3>2. PICK r : r \in KnownReceipts \cup {None} /\ Observe(r)
      BY <2>5 DEF RiskCheck, DesktopPrepares, KnownReceipts
    <3>. QED  BY <1>1, <3>1, <3>2, ObservedStep
  <2>6. CASE CycleObserves
    <3>1. /\ UNCHANGED <<now, hostVars, snapshot, desk, ledger, decision>>
          /\ UNCHANGED accountVars
          /\ cycle # Idle
          /\ cycle' = [step |-> "observed", receipt |-> cycle.receipt]
      BY <2>6 DEF CycleObserves, OthersOfCycle, Goto, Idle
    <3>2. PICK r : r = cycle.receipt
      OBVIOUS
    <3>3. r \in KnownReceipts \cup {None} /\ Observe(r)
      BY <2>6, <3>2 DEF CycleObserves, KnownReceipts
    <3>. QED  BY <1>1, <3>1, <3>2, <3>3, ObservedStep
  <2>7. CASE ResultImported
    <3>1. /\ UNCHANGED <<now, hostVars, snapshot, desk, guardVars, decision, cycle>>
          /\ UNCHANGED accountVars
      BY <2>7 DEF ResultImported, cycleVars
    <3>2. PICK n \in 1 .. count : Sync(n)
      BY <2>7 DEF ResultImported
    <3>3. n \in 0 .. count
      BY <3>2, StateFacts DEF IInv
    <3>. QED  BY <1>1, <3>1, <3>2, <3>3, SyncedStep
  <2>8. CASE CycleSyncs
    <3>1. /\ UNCHANGED <<now, hostVars, snapshot, desk, guardVars, decision>>
          /\ UNCHANGED accountVars
          /\ cycle.step = "observed"
          /\ cycle' = [step |-> "synced", receipt |-> cycle.receipt]
      BY <2>8 DEF CycleSyncs, OthersOfCycle, Goto
    <3>2. PICK n : n = cycle.receipt.n
      OBVIOUS
    <3>3. n \in 0 .. count
      <4>1. cycle # Idle
        BY <3>1 DEF Idle
      <4>2. cycle.receipt \in Receipts /\ Genuine(cycle.receipt)
        BY <4>1, StateFacts DEF IInv, ReceiptsAreGenuine
      <4>. QED  BY <3>2, <4>2, StateFacts, FieldsOfReceipts DEF IInv, Genuine
    <3>. QED  BY <1>1, <2>8, <3>1, <3>2, <3>3, SyncedStep DEF CycleSyncs
  <2>9. CASE CycleBegins \/ CycleRechecks \/ CycleDecides \/ CycleEnds
    BY <1>1, <2>9, CycleStep
  <2>. QED  BY <2>1, <2>2, <2>3, <2>4, <2>5, <2>6, <2>7, <2>8, <2>9 DEF Next
<1>3. TypeOK'
  BY <1>1, <1>2 DEF LocalInv, LocalTypeOK, TypeOK
<1>. QED  BY <1>1, <1>2, <1>3 DEF LocalInv, FilesInv, IInv

(* The account and the books add up, every receipt in use is genuine, and   *)
(* the files follow the account.                                            *)
THEOREM EvidenceInductiveInvariant == Spec => []IInv
<1>. QED  BY InitHolds, InductiveStep, PTL DEF Spec

(* What a decision was based on is on file, in the ledger and in the guard  *)
(* (mcp_cycle.py: observe and sync come before the decision).               *)
THEOREM DecisionsAreOnFile == Spec => []DecisionIsOnFile
<1>1. IInv => DecisionIsOnFile
  BY DEF IInv
<1>. QED  BY <1>1, EvidenceInductiveInvariant, PTL

(* What is known of the baseline and of the last observation.               *)
LEMMA GuardFacts ==
    ASSUME IInv, guard # NoGuard
    PROVE  /\ first \in Receipts /\ guard.last \in Receipts
           /\ Genuine(first) /\ Genuine(guard.last)
           /\ cash[first.n] \in Int /\ cash[guard.last.n] \in Int
           /\ held[guard.last.n] \in Int
           /\ guard.last.quote - first.quote = cash[guard.last.n] - cash[first.n]
<1>. USE StateFacts DEF IInv
<1>1. first # None
  BY DEF GuardFollowsRows
<1>2. first \in KnownReceipts /\ guard.last \in KnownReceipts
  BY <1>1 DEF KnownReceipts
<1>3. first \in Receipts /\ guard.last \in Receipts
  BY <1>2
<1>4. Genuine(first) /\ Genuine(guard.last)
  BY <1>2 DEF ReceiptsAreGenuine
<1>5. first.n \in Prefixes /\ guard.last.n \in Prefixes
  BY <1>3, FieldsOfReceipts
<1>. QED  BY <1>3, <1>4, <1>5 DEF GuardFollowsRows

(* A transfer never passes for a profit or a loss in the equity guard: with *)
(* reads in one piece, every accepted observation has the baseline's net    *)
(* transfers (mcp_equity_guard.py observe, the balance deltas).             *)
THEOREM GuardCatchesTransfers == Spec => []TransfersAreCaught
<1>1. IInv => TransfersAreCaught
  <2>. SUFFICES ASSUME IInv, guard # NoGuard, Whole(first), Whole(guard.last)
                PROVE  guard.last.flow = first.flow
    BY DEF TransfersAreCaught
  <2>1. /\ first.flow \in Int /\ guard.last.flow \in Int
        /\ first.quote \in Int /\ guard.last.quote \in Int
    BY GuardFacts, FieldsOfReceipts
  <2>2. /\ first.quote = StartQuote + cash[first.n] + first.flow
        /\ guard.last.quote = StartQuote + cash[guard.last.n] + guard.last.flow
    BY GuardFacts DEF Genuine, Whole
  <2>. QED  BY <2>1, <2>2, GuardFacts, ConstantTypes
<1>. QED  BY <1>1, EvidenceInductiveInvariant, PTL

(* Without a transfer the guard and the ledger always accept the account's  *)
(* next receipt, whatever was interrupted between their files.              *)
THEOREM FilesNeverLockOut == Spec => []NeverLockedOut
<1>1. ASSUME IInv PROVE ledger <= count
  <2>1. count \in Nat /\ ledger \in Int
    BY <1>1, StateFacts DEF IInv
  <2>. QED  BY <1>1, <2>1 DEF IInv, LedgerIsPrefix, NoLedger
<1>2. ASSUME IInv, guard # NoGuard, Whole(first), flow = first.flow,
             book[count].explained, base = book[count].quantity,
             NEW bid \in Bids
      PROVE  Accepts(NextReceipt(bid))
  <2>. USE <1>2
  <2>. DEFINE r == NextReceipt(bid)
  <2>1. /\ count \in Nat /\ now \in Nat /\ quote \in Int /\ flow \in Int
        /\ count \in 0 .. count /\ count \in Prefixes
        /\ cash[count] \in Int /\ held[count] \in Int
    BY StateFacts DEF IInv
  <2>2. /\ r.at = now + 1 /\ r.n = count /\ r.settled /\ r.quote = quote /\ r.base = base
    BY DEF NextReceipt
  <2>3. r # None
    BY <2>1, <2>2 DEF None
  <2>4. /\ guard.last.at \in Nat /\ guard.last.n \in Nat /\ guard.last.quote \in Int
        /\ first.quote \in Int /\ first.flow \in Int
    BY GuardFacts, FieldsOfReceipts, StateFacts DEF IInv
  <2>5. guard.last.at <= now /\ guard.last.n <= count
        /\ guard.last.base = held[guard.last.n]
    BY GuardFacts DEF Genuine
  <2>6. base = held[count]
    BY <2>1 DEF IInv, BooksAgreeWithCash
  <2>7. /\ first.quote = StartQuote + cash[first.n] + flow
        /\ quote = StartQuote + cash[count] + flow
    BY GuardFacts DEF Genuine, Whole, IInv, AccountAddsUp
  <2>. HIDE DEF r
  <2>8. r.quote - guard.last.quote = cash[r.n] - cash[guard.last.n]
    BY <2>1, <2>2, <2>4, <2>7, GuardFacts, ConstantTypes
  <2>9. r.base - guard.last.base = held[r.n] - held[guard.last.n]
    BY <2>2, <2>5, <2>6
  <2>10. guard.last.n <= r.n /\ r.at > guard.last.at
    BY <2>1, <2>2, <2>4, <2>5
  <2>11. Accepts(r)
    BY <2>2, <2>3, <2>8, <2>9, <2>10 DEF Accepts, Explained
  <2>. QED  BY <2>11 DEF r
<1>3. IInv => NeverLockedOut
  BY <1>1, <1>2 DEF NeverLockedOut
<1>. QED  BY <1>3, EvidenceInductiveInvariant, PTL
=============================================================================
