--------------------------- MODULE TickDeskProofs ---------------------------
(***************************************************************************)
(* Theorems of TickDesk, for any market, limits, queue and pages: what the  *)
(* ledger and the fills satisfy whoever writes and whatever fails.  The     *)
(* liveness properties stay with the model checker.                         *)
(***************************************************************************)
EXTENDS TickDesk, FiniteSetTheorems, TLAPS

(* What every ledger satisfies that is committed or kept in the memory. *)
Sound(s) ==
    /\ s \in Ledgers
    /\ s.breach \/ s.entries >= MaxEntries \/ s.losses >= MaxLosses => s.paused
    /\ s.holding => s.losses < MaxLosses
    /\ s.recovery => s.paused
    /\ s.holding => s.next > 1

Done(f) == {t \in Trades : f[t] # "none"}
Before(f, t) == {u \in Done(f) : u < t}
LastOf(S) == CHOOSE t \in S : \A u \in S : u <= t

(* BooksAgree, of any ledger and fills. *)
Books(s, f) ==
    /\ \A t \in Done(f) : t < s.next
    /\ \A t \in Done(f) :
         (f[t] = "sell") = (Before(f, t) # {} /\ f[LastOf(Before(f, t))] = "buy")
    /\ s.holding = (Done(f) # {} /\ f[LastOf(Done(f))] = "buy")

(* A session that is not behind the database holds its ledger. *)
MemoryIsLedger ==
    /\ stale \in BOOLEAN
    /\ stale => session # {}
    /\ session # {} => \E s \in Ledgers : session = {s}
    /\ ~stale /\ session # {} => session = {db}

(* The worker has a session where it uses one, and a runner that waits.     *)
(* After the disposal nothing is evaluated, and a session that was closed   *)
(* stays closed.                                                            *)
WorkerHasSession ==
    /\ work \in {"idle", "commands", "opening", "pausing", "status", "pages",
                 "latching", "resuming"}
    /\ work \notin {"idle", "commands", "opening"} => session # {}
    /\ work # "idle" => flight = "running"
    /\ disposal = "done" => session = {}
    /\ disposal \in {"done", "failed"} => flight # "running"
    /\ desk = "off" => disposal = "none"

(* A resumption that waits is the last thing that was asked for. *)
ResumeIsLast == resumeFlag => lastRun = "resume"

(* A data error at a cursor is behind a ledger, or marked; or marked and    *)
(* noted.                                                                   *)
MarkedIn(s, at) == at < s.next \/ (s.recovery /\ at = s.next)

NotedIn(s, at, from) ==
    \/ at < s.next
    \/ s.recovery /\ at = s.next /\ from = IF at > 1 THEN at ELSE 0

(* A data error that was saved is passed, or marked and, while there is a   *)
(* session, noted with its cursor, unless accept_page alone saved it.       *)
GapIsNoted ==
    /\ gapAt \in Nat /\ repairFrom \in Nat /\ unnoted \in BOOLEAN
    /\ MarkedIn(db, gapAt)
    /\ session # {} /\ unnoted = FALSE => NotedIn(db, gapAt, repairFrom)

LedgerInv ==
    /\ fills \in [Trades -> {"none", "buy", "sell"}]
    /\ Sound(db)
    /\ Books(db, fills)
    /\ MemoryIsLedger
    /\ GapIsNoted

DeskInv == LedgerInv /\ WorkerHasSession /\ ResumeIsLast

(* A step of the abstract tape, or none. *)
Taped == Tape!Next \/ UNCHANGED Tape!vars

(* What a step does not do to the recovery mark, the pause and the tape. *)
Latched ==
    /\ db.recovery /\ ~db'.recovery => db'.next > gapAt \/ unnoted
    /\ db.paused /\ ~db'.paused => lastRun = "resume"
    /\ Taped

-----------------------------------------------------------------------------
(* Natural numbers and finite pages. *)

LEMMA LeastNumber ==
    ASSUME NEW T, T \subseteq Nat, T # {}
    PROVE  \E x \in T : \A y \in T : x <= y
<1> DEFINE R == {ss \in Nat \X Nat : ss[1] < ss[2]}
<1>1. IsWellFoundedOn(R, Nat)
  BY NatLessThanWellFounded DEF OpToRel
<1>2. \A x, y \in Nat : <<y, x>> \in R <=> y < x
  OBVIOUS
<1> HIDE DEF R
<1>3. PICK x \in T : \A y \in T : <<y, x>> \notin R
  BY <1>1, WFMin
<1>4. \A y \in T : ~(y < x) /\ x \in Nat /\ y \in Nat
  BY <1>2, <1>3
<1> QED
  BY <1>4

LEMMA TradesAreNumbers ==
    /\ MaxTrade \in Nat \ {0} /\ MaxEntries \in Nat \ {0} /\ MaxLosses \in Nat \ {0}
    /\ \A t \in Trades : t \in Nat /\ t >= 1 /\ t <= MaxTrade
BY SessionAssumption DEF Trades

(* The last of some trades. *)
LEMMA LastExists ==
    ASSUME NEW S, S \subseteq Trades, S # {}
    PROVE  LastOf(S) \in S /\ \A u \in S : u <= LastOf(S)
<1> DEFINE U == {m \in Nat : \A x \in S : x <= m}
<1>1. MaxTrade \in U
  BY TradesAreNumbers
<1>2. PICK m \in U : \A y \in U : m <= y
  <2>1. U \subseteq Nat /\ U # {}
    BY <1>1
  <2> HIDE DEF U
  <2> QED
    BY <2>1, LeastNumber
<1>3. m \in S
  <2>1. SUFFICES ASSUME m \notin S PROVE FALSE
    OBVIOUS
  <2>2. \A x \in S : x \in Nat /\ x >= 1 /\ x <= m /\ x # m
    BY <2>1, TradesAreNumbers
  <2>3. m \in Nat /\ m >= 1
    BY <2>2
  <2>4. m - 1 \in U
    BY <2>2, <2>3
  <2> QED
    BY <1>2, <2>3, <2>4
<1>4. \E t \in S : \A u \in S : u <= t
  BY <1>3
<1> QED
  BY <1>4 DEF LastOf

LEMMA LastIs ==
    ASSUME NEW S, S \subseteq Trades, NEW t \in S, \A u \in S : u <= t
    PROVE  LastOf(S) = t
<1>1. LastOf(S) \in S /\ t <= LastOf(S)
  BY LastExists
<1>2. LastOf(S) <= t /\ t \in Nat /\ LastOf(S) \in Nat
  BY <1>1, TradesAreNumbers
<1> QED
  BY <1>1, <1>2

LEMMA AgreeIsBooks == BooksAgree <=> Books(db, fills)
BY DEF BooksAgree, Books, Done, Before, LastOf

(* The books of a ledger whose cursor moved. *)
LEMMA BooksMoved ==
    ASSUME NEW s, NEW q, NEW f, Books(s, f), s.next \in Nat, q.next \in Nat,
           s.next <= q.next, q.holding = s.holding
    PROVE  Books(q, f)
<1>1. \A t \in Done(f) : t \in Nat /\ t < s.next
  BY TradesAreNumbers DEF Books, Done
<1> QED
  BY <1>1 DEF Books

(* The books with a fill at the cursor, on the side the position calls for. *)
LEMMA BooksFilled ==
    ASSUME NEW s, NEW q, NEW f, NEW g, NEW t \in Trades, NEW side \in {"buy", "sell"},
           Books(s, f), s.next = t, q.next = t + 1,
           f \in [Trades -> {"none", "buy", "sell"}],
           s.holding \in BOOLEAN, q.holding \in BOOLEAN,
           g = [f EXCEPT ![t] = side],
           side = "sell" <=> s.holding, q.holding <=> side = "buy"
    PROVE  Books(q, g)
<1>1. /\ t \notin Done(f) /\ t \in Nat
      /\ \A u \in Done(f) : u \in Nat /\ u < t
  BY TradesAreNumbers DEF Books, Done
<1>2. Done(g) = Done(f) \cup {t}
  BY DEF Done
<1>3. Before(g, t) = Done(f)
  <2>1. ~(t < t)
    BY <1>1
  <2>2. \A x : x \in Before(g, t) <=> x \in Done(f) \cup {t} /\ x < t
    BY <1>2 DEF Before
  <2> QED
    BY <1>1, <2>1, <2>2
<1>4. ASSUME NEW u \in Done(f) PROVE Before(g, u) = Before(f, u)
  <2>1. ~(t < u)
    BY <1>1
  <2>2. \A x : x \in Before(g, u) <=> x \in Done(f) \cup {t} /\ x < u
    BY <1>2 DEF Before
  <2>3. \A x : x \in Before(f, u) <=> x \in Done(f) /\ x < u
    BY DEF Before
  <2> QED
    BY <2>1, <2>2, <2>3
<1>5. \A u \in Done(f) : g[u] = f[u]
  BY <1>1 DEF Done
<1>6. ASSUME NEW u \in Done(f), Before(f, u) # {}
      PROVE  g[LastOf(Before(f, u))] = f[LastOf(Before(f, u))]
  <2>1. LastOf(Before(f, u)) \in Done(f)
    <3>1. Before(f, u) \subseteq Done(f) /\ Before(f, u) \subseteq Trades
      BY DEF Before, Done
    <3> QED
      BY <1>6, <3>1, LastExists
  <2> QED
    BY <1>5, <2>1
<1>7. LastOf(Done(g)) = t /\ g[t] = side
  <2>1. \A u \in Done(g) : u <= t
    BY <1>1, <1>2
  <2>2. Done(g) \subseteq Trades /\ t \in Done(g)
    BY <1>2 DEF Done
  <2> QED
    BY <2>1, <2>2, LastIs
<1>8. ASSUME Done(f) # {} PROVE g[LastOf(Done(f))] = f[LastOf(Done(f))]
  <2>1. LastOf(Done(f)) \in Done(f)
    BY <1>8, LastExists DEF Done
  <2> QED
    BY <1>5, <2>1
<1>9. \A u \in Done(g) : u < q.next
  BY <1>1, <1>2
<1>10. ASSUME NEW u \in Done(f)
       PROVE  (g[u] = "sell") = (Before(g, u) # {} /\ g[LastOf(Before(g, u))] = "buy")
  <2>1. (f[u] = "sell") = (Before(f, u) # {} /\ f[LastOf(Before(f, u))] = "buy")
    BY DEF Books
  <2>2. Before(g, u) = Before(f, u) /\ g[u] = f[u]
    BY <1>4, <1>5
  <2>3. Before(f, u) # {} => g[LastOf(Before(f, u))] = f[LastOf(Before(f, u))]
    BY <1>6
  <2>4. (Before(f, u) # {} /\ f[LastOf(Before(f, u))] = "buy")
          <=> (Before(g, u) # {} /\ g[LastOf(Before(g, u))] = "buy")
    BY <2>2, <2>3
  <2> QED
    BY <2>1, <2>2, <2>4
<1>11. (g[t] = "sell") = (Before(g, t) # {} /\ g[LastOf(Before(g, t))] = "buy")
  <2>1. s.holding <=> (Done(f) # {} /\ f[LastOf(Done(f))] = "buy")
    BY DEF Books
  <2>2. s.holding <=> (Done(f) # {} /\ g[LastOf(Done(f))] = "buy")
    BY <1>8, <2>1
  <2>3. g[t] = "sell" <=> s.holding
    BY <1>7
  <2> QED
    BY <1>3, <2>2, <2>3
<1>12. q.holding = (Done(g) # {} /\ g[LastOf(Done(g))] = "buy")
  <2>1. q.holding <=> (Done(g) # {} /\ g[LastOf(Done(g))] = "buy")
    BY <1>2, <1>7
  <2> QED
    BY <2>1
<1>13. \A u \in Done(g) :
         (g[u] = "sell") = (Before(g, u) # {} /\ g[LastOf(Before(g, u))] = "buy")
  BY <1>2, <1>10, <1>11
<1> QED
  BY <1>9, <1>12, <1>13 DEF Books
-----------------------------------------------------------------------------
(* What a trade and a page make of a ledger. *)

(* A ledger that the risk check makes sound. *)
Checkable(s) ==
    /\ s \in Ledgers
    /\ s.holding => s.losses < MaxLosses
    /\ s.recovery => s.paused
    /\ s.holding => s.next > 1

LEMMA LedgerFields ==
    ASSUME NEW s \in Ledgers
    PROVE  /\ s.next \in Nat /\ s.next >= 1 /\ s.next <= MaxTrade + 1
           /\ s.recovery \in BOOLEAN /\ s.holding \in BOOLEAN /\ s.paused \in BOOLEAN
           /\ s.entries \in Nat /\ s.entries <= MaxEntries
           /\ s.losses \in Nat /\ s.losses <= MaxLosses
           /\ s.valued \in 0 .. MaxTrade /\ s.breach \in BOOLEAN
BY TradesAreNumbers DEF Ledgers

LEMMA CheckedIsSound ==
    ASSUME NEW s, Checkable(s), NEW t \in Trades, NEW b \in BOOLEAN,
           NEW c, c = RiskChecked(s, t, b)
    PROVE  /\ Sound(c) /\ Checkable(c)
           /\ c.next = s.next /\ c.recovery = s.recovery /\ c.holding = s.holding
           /\ c.losses = s.losses /\ c.breach = b
           /\ s.paused => c.paused
<1>1. s \in Ledgers
  BY DEF Checkable
<1> DEFINE newDay == s.valued = 0 \/ DayOf[s.valued] # DayOf[t]
           entries == IF newDay THEN 0 ELSE s.entries
           paused == s.paused \/ b \/ entries >= MaxEntries \/ s.losses >= MaxLosses
<1>2. c = [s EXCEPT !.entries = entries, !.valued = t, !.breach = b, !.paused = paused]
  BY <1>1 DEF RiskChecked, Ledgers
<1>3. entries \in 0 .. MaxEntries /\ t \in 0 .. MaxTrade /\ paused \in BOOLEAN
  BY <1>1, TradesAreNumbers, LedgerFields DEF Ledgers
<1> HIDE DEF entries
<1>4. s.paused => paused
  OBVIOUS
<1>5. b \/ entries >= MaxEntries \/ s.losses >= MaxLosses => paused
  OBVIOUS
<1> HIDE DEF paused
<1>6. c \in Ledgers
  BY <1>1, <1>2, <1>3 DEF Ledgers
<1>7. /\ c.next = s.next /\ c.recovery = s.recovery /\ c.holding = s.holding
      /\ c.losses = s.losses /\ c.breach = b /\ c.entries = entries /\ c.paused = paused
  BY <1>1, <1>2 DEF Ledgers
<1> QED
  BY <1>4, <1>5, <1>6, <1>7 DEF Checkable, Sound

LEMMA SoldIsCheckable ==
    ASSUME NEW c, Checkable(c), c.holding, NEW lost \in BOOLEAN, NEW q, q = Sold(c, lost)
    PROVE  /\ Checkable(q) /\ ~q.holding /\ q.next = c.next
           /\ q.recovery = c.recovery /\ q.paused = c.paused
<1>1. c \in Ledgers /\ c.losses < MaxLosses
  BY DEF Checkable
<1> DEFINE losses == IF lost THEN c.losses + 1 ELSE 0
<1>2. losses \in 0 .. MaxLosses
  BY <1>1, LedgerFields, TradesAreNumbers
<1>3. q = [c EXCEPT !.holding = FALSE, !.losses = losses]
  BY <1>1 DEF Sold, Ledgers
<1> HIDE DEF losses
<1>4. q \in Ledgers
  BY <1>1, <1>2, <1>3 DEF Ledgers
<1>5. ~q.holding /\ q.next = c.next /\ q.recovery = c.recovery /\ q.paused = c.paused
  BY <1>1, <1>3 DEF Ledgers
<1> QED
  BY <1>4, <1>5 DEF Checkable

LEMMA BoughtIsCheckable ==
    ASSUME NEW c, Sound(c), ~c.holding, ~c.paused, c.next > 1, NEW q, q = Bought(c)
    PROVE  /\ Checkable(q) /\ q.holding /\ q.next = c.next
           /\ q.recovery = c.recovery /\ q.paused = c.paused
<1>1. c \in Ledgers /\ c.entries < MaxEntries /\ c.losses < MaxLosses
  BY LedgerFields, TradesAreNumbers DEF Sound
<1> DEFINE entries == c.entries + 1
<1>2. entries \in 0 .. MaxEntries
  BY <1>1, LedgerFields, TradesAreNumbers
<1>3. q = [c EXCEPT !.holding = TRUE, !.entries = entries]
  BY <1>1 DEF Bought, Ledgers
<1> HIDE DEF entries
<1>4. q \in Ledgers
  BY <1>1, <1>2, <1>3 DEF Ledgers
<1>5. /\ q.holding /\ q.next = c.next /\ q.recovery = c.recovery /\ q.paused = c.paused
      /\ q.losses = c.losses
  BY <1>1, <1>3 DEF Ledgers
<1> QED
  BY <1>1, <1>4, <1>5 DEF Checkable, Sound

(* What may follow the risk check of a trade. *)
Sale(c, t, lost, b) == [ledger |-> RiskChecked(Sold(c, lost), t, b), side |-> "sell"]
Purchase(c, t, b) == [ledger |-> RiskChecked(Bought(c), t, b), side |-> "buy"]

LEMMA FilledCases ==
    ASSUME NEW c, c.holding \in BOOLEAN, c.breach \in BOOLEAN, NEW t,
           NEW f \in Filled(c, t)
    PROVE  \/ \E lost \in BOOLEAN, b \in BOOLEAN : c.holding /\ f = Sale(c, t, lost, b)
           \/ \E b \in BOOLEAN : ~c.holding /\ ~c.paused /\ f = Purchase(c, t, b)
<1> DEFINE mayLose == IF c.holding THEN BOOLEAN ELSE {}
           mayBreach == IF c.holding \/ c.paused \/ c.recovery THEN {} ELSE {c.breach, TRUE}
           breaches == {c.breach, TRUE}
<1>1. Filled(c, t) = {Sale(c, t, lost, b) : lost \in mayLose, b \in breaches}
                       \cup {Purchase(c, t, b) : b \in mayBreach}
  BY DEF Filled, Sale, Purchase
<1>2. /\ \A lost \in mayLose : c.holding /\ lost \in BOOLEAN
      /\ \A b \in mayBreach : ~c.holding /\ ~c.paused /\ b \in BOOLEAN
      /\ \A b \in breaches : b \in BOOLEAN
  OBVIOUS
<1> HIDE DEF mayLose, mayBreach, breaches
<1>3. \/ \E lost \in mayLose, b \in breaches : f = Sale(c, t, lost, b)
      \/ \E b \in mayBreach : f = Purchase(c, t, b)
  BY <1>1
<1> QED
  BY <1>2, <1>3

LEMMA FilledIsSound ==
    ASSUME NEW c, Sound(c), c.next > 1, NEW t \in Trades, NEW f \in Filled(c, t)
    PROVE  /\ Sound(f.ledger) /\ f.ledger.next = c.next
           /\ f.ledger.recovery = c.recovery /\ (c.paused => f.ledger.paused)
           /\ f.side \in {"buy", "sell"}
           /\ f.side = "sell" <=> c.holding
           /\ f.side = "buy" => ~c.paused
           /\ f.ledger.holding <=> f.side = "buy"
<1>1. /\ Checkable(c) /\ c.holding \in BOOLEAN /\ c.breach \in BOOLEAN
      /\ c.paused \in BOOLEAN
  BY LedgerFields DEF Sound, Checkable
<1>2. \/ \E lost \in BOOLEAN, b \in BOOLEAN : c.holding /\ f = Sale(c, t, lost, b)
      \/ \E b \in BOOLEAN : ~c.holding /\ ~c.paused /\ f = Purchase(c, t, b)
  BY <1>1, FilledCases
<1>3. ASSUME NEW lost \in BOOLEAN, NEW b \in BOOLEAN, c.holding,
             f = Sale(c, t, lost, b)
      PROVE  /\ Sound(f.ledger) /\ f.ledger.next = c.next
             /\ f.ledger.recovery = c.recovery /\ (c.paused => f.ledger.paused)
             /\ f.side = "sell" /\ ~f.ledger.holding
  <2> DEFINE q == Sold(c, lost)
             r == RiskChecked(q, t, b)
  <2>1. /\ Checkable(q) /\ ~q.holding /\ q.next = c.next
        /\ q.recovery = c.recovery /\ q.paused = c.paused
    BY <1>1, <1>3, SoldIsCheckable
  <2>2. f.ledger = r /\ f.side = "sell"
    BY <1>3 DEF Sale
  <2> HIDE DEF q
  <2>3. /\ Sound(r) /\ r.next = q.next /\ r.recovery = q.recovery
        /\ r.holding = q.holding /\ (q.paused => r.paused)
    BY <2>1, CheckedIsSound
  <2> HIDE DEF r
  <2> QED
    BY <2>1, <2>2, <2>3
<1>4. ASSUME NEW b \in BOOLEAN, ~c.holding, ~c.paused,
             f = Purchase(c, t, b)
      PROVE  /\ Sound(f.ledger) /\ f.ledger.next = c.next
             /\ f.ledger.recovery = c.recovery
             /\ f.side = "buy" /\ f.ledger.holding
  <2> DEFINE q == Bought(c)
             r == RiskChecked(q, t, b)
  <2>1. /\ Checkable(q) /\ q.holding /\ q.next = c.next
        /\ q.recovery = c.recovery
    BY <1>1, <1>4, BoughtIsCheckable
  <2>2. f.ledger = r /\ f.side = "buy"
    BY <1>4 DEF Purchase
  <2> HIDE DEF q
  <2>3. /\ Sound(r) /\ r.next = q.next /\ r.recovery = q.recovery
        /\ r.holding = q.holding
    BY <2>1, CheckedIsSound
  <2> HIDE DEF r
  <2> QED
    BY <2>1, <2>2, <2>3
<1> QED
  BY <1>1, <1>2, <1>3, <1>4

(* What the next trade makes of a result. *)
Moved(s) == [s EXCEPT !.next = @ + 1]
Checks(s, t) == {RiskChecked(s, t, b) : b \in BOOLEAN}
Result(s, new) == [ledger |-> s, new |-> new]
FillOf(f, t, new) == [ledger |-> f.ledger, new |-> [new EXCEPT ![t] = f.side]]

LEMMA ObservedCases ==
    ASSUME NEW r, r.ledger \in Ledgers, NEW fresh, NEW q \in Observed(r, fresh)
    PROVE  LET t == r.ledger.next
               s == Moved(r.ledger)
           IN \/ q = Result(s, r.new)
              \/ \E b \in BOOLEAN : q = Result(RiskChecked(s, t, b), r.new)
              \/ \E b \in BOOLEAN : \E f \in Filled(RiskChecked(s, t, b), t) :
                   q = FillOf(f, t, r.new)
<1> DEFINE t == r.ledger.next
           s == Moved(r.ledger)
           filled == UNION {Filled(c, t) : c \in Checks(s, t)}
<1>1. s = [r.ledger EXCEPT !.next = t + 1]
  BY DEF Moved, Ledgers
<1>2. Observed(r, fresh) =
        IF t < fresh
          THEN {Result(s, r.new)}
          ELSE {Result(c, r.new) : c \in Checks(s, t)}
               \cup {FillOf(f, t, r.new) : f \in filled}
  BY <1>1 DEF Observed, Result, FillOf, Checks
<1>3. \A c : c \in Checks(s, t) <=> \E b \in BOOLEAN : c = RiskChecked(s, t, b)
  BY DEF Checks
<1>4. \A f : f \in filled <=> \E c \in Checks(s, t) : f \in Filled(c, t)
  OBVIOUS
<1> HIDE DEF t, s, filled
<1>5. \/ q = Result(s, r.new)
      \/ \E c \in Checks(s, t) : q = Result(c, r.new)
      \/ \E f \in filled : q = FillOf(f, t, r.new)
  BY <1>2
<1>6. \/ q = Result(s, r.new)
      \/ \E b \in BOOLEAN : q = Result(RiskChecked(s, t, b), r.new)
      \/ \E b \in BOOLEAN : \E f \in Filled(RiskChecked(s, t, b), t) :
           q = FillOf(f, t, r.new)
  BY <1>3, <1>4, <1>5
<1> QED
  BY <1>6 DEF t, s

LEMMA MovedIsSound ==
    ASSUME NEW s, Sound(s), s.next <= MaxTrade, NEW m, m = Moved(s)
    PROVE  /\ Sound(m) /\ Checkable(m)
           /\ m.next = s.next + 1 /\ m.recovery = s.recovery
           /\ m.holding = s.holding /\ m.paused = s.paused
<1> DEFINE n == s.next + 1
<1>1. s \in Ledgers
  BY DEF Sound
<1>2. n \in 1 .. MaxTrade + 1
  BY <1>1, LedgerFields, TradesAreNumbers
<1>3. m = [s EXCEPT !.next = n]
  BY <1>1 DEF Moved, Ledgers
<1>4. n > 1
  BY <1>1, LedgerFields
<1> HIDE DEF n
<1>5. m \in Ledgers
  BY <1>1, <1>2, <1>3 DEF Ledgers
<1>6. /\ m.next = n /\ m.recovery = s.recovery
      /\ m.holding = s.holding /\ m.paused = s.paused /\ m.losses = s.losses
      /\ m.entries = s.entries /\ m.breach = s.breach
  BY <1>1, <1>3 DEF Ledgers
<1> QED
  BY <1>4, <1>5, <1>6 DEF Sound, Checkable, n

LEMMA ObservedStep ==
    ASSUME NEW r, Sound(r.ledger), r.ledger.next > 1, r.ledger.next <= MaxTrade,
           NEW fresh, NEW q \in Observed(r, fresh)
    PROVE  /\ Sound(q.ledger) /\ q.ledger.next = r.ledger.next + 1
           /\ q.ledger.recovery = r.ledger.recovery
           /\ r.ledger.paused => q.ledger.paused
           /\ \/ q.new = r.new /\ q.ledger.holding = r.ledger.holding
              \/ \E side \in {"buy", "sell"} :
                   /\ q.new = [r.new EXCEPT ![r.ledger.next] = side]
                   /\ side = "sell" <=> r.ledger.holding
                   /\ side = "buy" => ~r.ledger.paused
                   /\ q.ledger.holding <=> side = "buy"
<1> DEFINE t == r.ledger.next
           s == Moved(r.ledger)
<1>1. r.ledger \in Ledgers /\ t \in Trades
  <2>1. r.ledger \in Ledgers
    BY DEF Sound
  <2> QED
    BY <2>1, LedgerFields, TradesAreNumbers DEF Trades
<1>2. /\ Sound(s) /\ Checkable(s) /\ s.next = t + 1 /\ s.recovery = r.ledger.recovery
      /\ s.holding = r.ledger.holding /\ s.paused = r.ledger.paused
  BY MovedIsSound
<1>3. \/ q = Result(s, r.new)
      \/ \E b \in BOOLEAN : q = Result(RiskChecked(s, t, b), r.new)
      \/ \E b \in BOOLEAN : \E f \in Filled(RiskChecked(s, t, b), t) :
           q = FillOf(f, t, r.new)
  BY <1>1, ObservedCases
<1>4. t + 1 > 1
  BY <1>1, TradesAreNumbers
<1> HIDE DEF s
<1>5. CASE q = Result(s, r.new)
  BY <1>2, <1>5 DEF Result
<1>6. ASSUME NEW b \in BOOLEAN, NEW c, c = RiskChecked(s, t, b)
      PROVE  /\ Sound(c) /\ c.next = t + 1 /\ c.recovery = r.ledger.recovery
             /\ c.holding = r.ledger.holding /\ (r.ledger.paused => c.paused)
  BY <1>1, <1>2, <1>6, CheckedIsSound
<1>7. ASSUME NEW b \in BOOLEAN, q = Result(RiskChecked(s, t, b), r.new)
      PROVE  /\ Sound(q.ledger) /\ q.ledger.next = t + 1
             /\ q.ledger.recovery = r.ledger.recovery
             /\ r.ledger.paused => q.ledger.paused
             /\ q.new = r.new /\ q.ledger.holding = r.ledger.holding
  BY <1>6, <1>7 DEF Result
<1>8. ASSUME NEW b \in BOOLEAN, NEW f \in Filled(RiskChecked(s, t, b), t),
             q = FillOf(f, t, r.new)
      PROVE  /\ Sound(q.ledger) /\ q.ledger.next = t + 1
             /\ q.ledger.recovery = r.ledger.recovery
             /\ r.ledger.paused => q.ledger.paused
             /\ f.side \in {"buy", "sell"}
             /\ q.new = [r.new EXCEPT ![t] = f.side]
             /\ f.side = "sell" <=> r.ledger.holding
             /\ f.side = "buy" => ~r.ledger.paused
             /\ q.ledger.holding <=> f.side = "buy"
  <2> DEFINE c == RiskChecked(s, t, b)
  <2>1. /\ Sound(c) /\ c.next = t + 1 /\ c.recovery = r.ledger.recovery
        /\ c.holding = r.ledger.holding /\ (r.ledger.paused => c.paused)
    BY <1>6
  <2>2. f \in Filled(c, t)
    BY <1>8
  <2>3. q.ledger = f.ledger /\ q.new = [r.new EXCEPT ![t] = f.side]
    BY <1>8 DEF FillOf
  <2> HIDE DEF c
  <2>4. /\ Sound(f.ledger) /\ f.ledger.next = c.next
        /\ f.ledger.recovery = c.recovery /\ (c.paused => f.ledger.paused)
        /\ f.side \in {"buy", "sell"}
        /\ f.side = "sell" <=> c.holding
        /\ f.side = "buy" => ~c.paused
        /\ f.ledger.holding <=> f.side = "buy"
    BY <1>1, <1>4, <2>1, <2>2, FilledIsSound
  <2> QED
    BY <2>1, <2>3, <2>4
<1> QED
  BY <1>3, <1>5, <1>7, <1>8

-----------------------------------------------------------------------------
(* A page.  The results of its trades are a function of their number, and a *)
(* fact about all of them is proved of the least number that misses it.     *)

Steps(pages, s, n, fresh) ==
    /\ pages[0] = {Result(s, NoFills)}
    /\ \A k \in 1 .. n : pages[k] = UNION {Observed(r, fresh) : r \in pages[k - 1]}

LEMMA PageIsSteps ==
    ASSUME NEW s, NEW n \in Nat, NEW fresh
    PROVE  \E pages : Steps(pages, s, n, fresh) /\ Accepted(s, n, fresh) = pages[n]
<1> DEFINE base == {Result(s, NoFills)}
           Step(X) == UNION {Observed(r, fresh) : r \in X}
           Is(f, m) == f = [k \in 0 .. m |-> IF k = 0 THEN base ELSE Step(f[k - 1])]
           Bad == {m \in Nat : \A f : ~Is(f, m)}
<1>1. Accepted(s, n, fresh) = (CHOOSE f : Is(f, n))[n]
  BY DEF Accepted, Result
<1> HIDE DEF Step, base
<1>2. Bad = {}
  <2>1. SUFFICES ASSUME Bad # {} PROVE FALSE
    OBVIOUS
  <2>2. Bad \subseteq Nat
    OBVIOUS
  <2>3. PICK m \in Bad : \A y \in Bad : m <= y
    <3> HIDE DEF Bad
    <3> QED
      BY <2>1, <2>2, LeastNumber
  <2>4. m # 0
    <3>1. Is([k \in 0 .. 0 |-> base], 0)
      OBVIOUS
    <3> QED
      BY <3>1
  <2>5. m \in Nat /\ m - 1 \in Nat /\ ~(m <= m - 1)
    <3>1. m \in Nat
      BY <2>2, <2>3
    <3> QED
      BY <2>4, <3>1
  <2>6. m - 1 \notin Bad
    <3> HIDE DEF Bad
    <3> QED
      BY <2>3, <2>5
  <2>7. PICK g : Is(g, m - 1)
    <3> HIDE DEF Is
    <3> QED
      BY <2>5, <2>6
  <2> DEFINE h == [k \in 0 .. m |-> IF k = m THEN Step(g[m - 1]) ELSE g[k]]
  <2>8. ASSUME NEW k \in 0 .. m
        PROVE  h[k] = IF k = 0 THEN base ELSE Step(h[k - 1])
    <3>1. k = m \/ k \in 0 .. m - 1
      BY <2>5
    <3>2. CASE k = m
      BY <2>4, <2>5, <3>2
    <3>3. CASE k \in 0 .. m - 1
      <4>1. h[k] = g[k] /\ (k # 0 => h[k - 1] = g[k - 1])
        BY <2>5, <3>3
      <4>2. g[k] = IF k = 0 THEN base ELSE Step(g[k - 1])
        BY <2>7, <3>3
      <4> QED
        BY <4>1, <4>2
    <3> QED
      BY <3>1, <3>2, <3>3
  <2>9. h = [k \in 0 .. m |-> h[k]]
    OBVIOUS
  <2> HIDE DEF h
  <2>10. Is(h, m)
    BY <2>8, <2>9
  <2>11. m \in Bad
    BY <2>3
  <2> HIDE DEF Is
  <2> QED
    BY <2>10, <2>11
<1>3. Is(CHOOSE f : Is(f, n), n)
  <2> HIDE DEF Is
  <2> QED
    BY <1>2
<1>4. PICK pages : Is(pages, n) /\ Accepted(s, n, fresh) = pages[n]
  <2> HIDE DEF Is
  <2> QED
    BY <1>1, <1>3
<1>5. pages[0] = base /\ \A k \in 1 .. n : pages[k] = Step(pages[k - 1])
  BY <1>4
<1> QED
  BY <1>4, <1>5 DEF Steps, Step, base

(* What k trades may make of a ledger and the fills. *)
Follows(r, s, f, k) ==
    /\ Sound(r.ledger)
    /\ r.ledger.next = s.next + k
    /\ r.ledger.recovery = s.recovery
    /\ s.paused => r.ledger.paused
    /\ Books(r.ledger, Inserted(r.new, f))
    /\ r.new \in [Trades -> {"none", "buy", "sell"}]
    /\ \A t \in Trades : r.new[t] # "none" => s.next <= t /\ t < s.next + k
    /\ \A t \in Trades : r.new[t] = "buy" => ~s.paused

LEMMA NoFillsAdded ==
    ASSUME NEW f \in [Trades -> {"none", "buy", "sell"}]
    PROVE  Inserted(NoFills, f) = f
BY DEF NoFills, Inserted

LEMMA FillAdded ==
    ASSUME NEW new \in [Trades -> {"none", "buy", "sell"}], NEW f, NEW t \in Trades,
           NEW side \in {"buy", "sell"}, NEW q, q = [new EXCEPT ![t] = side]
    PROVE  Inserted(q, f) = [Inserted(new, f) EXCEPT ![t] = side]
BY DEF Inserted

LEMMA InsertedType ==
    ASSUME NEW new \in [Trades -> {"none", "buy", "sell"}],
           NEW f \in [Trades -> {"none", "buy", "sell"}]
    PROVE  Inserted(new, f) \in [Trades -> {"none", "buy", "sell"}]
BY DEF Inserted

LEMMA ObservedFollows ==
    ASSUME NEW s, s.next \in Nat, s.next > 1,
           NEW f \in [Trades -> {"none", "buy", "sell"}], NEW k \in Nat, s.next + k <= MaxTrade,
           s.recovery \in BOOLEAN, s.paused \in BOOLEAN,
           NEW r, Follows(r, s, f, k), NEW fresh, NEW q \in Observed(r, fresh)
    PROVE  Follows(q, s, f, k + 1)
<1> DEFINE t == r.ledger.next
<1>1. /\ Sound(r.ledger) /\ t = s.next + k /\ t > 1 /\ t <= MaxTrade
      /\ r.ledger \in Ledgers /\ t \in Trades
  BY TradesAreNumbers DEF Follows, Sound, Trades
<1>2. /\ Sound(q.ledger) /\ q.ledger.next = t + 1
      /\ q.ledger.recovery = r.ledger.recovery
      /\ r.ledger.paused => q.ledger.paused
      /\ \/ q.new = r.new /\ q.ledger.holding = r.ledger.holding
         \/ \E side \in {"buy", "sell"} :
              /\ q.new = [r.new EXCEPT ![t] = side]
              /\ side = "sell" <=> r.ledger.holding
              /\ side = "buy" => ~r.ledger.paused
              /\ q.ledger.holding <=> side = "buy"
  BY <1>1, ObservedStep
<1>3. /\ r.ledger.holding \in BOOLEAN /\ q.ledger.holding \in BOOLEAN
      /\ t \in Nat
  BY <1>1, <1>2, LedgerFields DEF Sound
<1>4. CASE q.new = r.new /\ q.ledger.holding = r.ledger.holding
  <2>1. Books(q.ledger, Inserted(q.new, f))
    BY <1>1, <1>2, <1>3, <1>4, BooksMoved DEF Follows
  <2>2. \A u \in Trades : q.new[u] # "none" => s.next <= u /\ u < s.next + (k + 1)
    BY <1>4, TradesAreNumbers DEF Follows, Trades
  <2> QED
    BY <1>1, <1>2, <1>3, <1>4, <2>1, <2>2 DEF Follows
<1>5. ASSUME NEW side \in {"buy", "sell"}, q.new = [r.new EXCEPT ![t] = side],
             side = "sell" <=> r.ledger.holding, q.ledger.holding <=> side = "buy",
             side = "buy" => ~r.ledger.paused
      PROVE  Follows(q, s, f, k + 1)
  <2> DEFINE g == Inserted(r.new, f)
             h == Inserted(q.new, f)
  <2>1. h = [g EXCEPT ![t] = side] /\ g \in [Trades -> {"none", "buy", "sell"}]
    <3>1. r.new \in [Trades -> {"none", "buy", "sell"}] /\ t \in Trades
      BY <1>1 DEF Follows
    <3> HIDE DEF t
    <3> QED
      BY <1>5, <3>1, FillAdded, InsertedType
  <2>2. Books(q.ledger, h)
    <3>1. Books(r.ledger, g)
      BY DEF Follows
    <3> HIDE DEF g, h
    <3> QED
      BY <1>1, <1>2, <1>3, <1>5, <2>1, <3>1, BooksFilled
  <2>3. /\ q.new \in [Trades -> {"none", "buy", "sell"}]
        /\ \A u \in Trades \ {t} : q.new[u] = r.new[u]
        /\ q.new[t] = side
    BY <1>1, <1>5 DEF Follows
  <2>4. ASSUME NEW u \in Trades, q.new[u] # "none"
        PROVE  s.next <= u /\ u < s.next + (k + 1)
    <3>1. CASE u = t
      BY <1>1, <3>1
    <3>2. CASE u # t
      <4>1. s.next <= u /\ u < s.next + k /\ u \in Nat
        BY <2>3, <2>4, <3>2, TradesAreNumbers DEF Follows, Trades
      <4> QED
        BY <4>1
    <3> QED
      BY <3>1, <3>2
  <2>5. ASSUME NEW u \in Trades, q.new[u] = "buy" PROVE ~s.paused
    BY <1>5, <2>3, <2>5 DEF Follows
  <2> QED
    BY <1>1, <1>2, <1>3, <2>2, <2>3, <2>4, <2>5 DEF Follows
<1> QED
  BY <1>2, <1>4, <1>5

LEMMA AcceptedFollows ==
    ASSUME NEW s, Sound(s), s.next > 1, NEW f \in [Trades -> {"none", "buy", "sell"}],
           Books(s, f), NEW n \in Nat, s.next + n <= MaxTrade + 1, NEW fresh,
           NEW r \in Accepted(s, n, fresh)
    PROVE  Follows(r, s, f, n)
<1>1. PICK pages : Steps(pages, s, n, fresh) /\ Accepted(s, n, fresh) = pages[n]
  BY PageIsSteps
<1> DEFINE Bad == {k \in 0 .. n : \E q \in pages[k] : ~Follows(q, s, f, k)}
<1>2. s \in Ledgers /\ s.next \in Nat /\ s.recovery \in BOOLEAN /\ s.paused \in BOOLEAN
  BY LedgerFields DEF Sound
<1>3. Bad = {}
  <2>1. SUFFICES ASSUME Bad # {} PROVE FALSE
    OBVIOUS
  <2>2. Bad \subseteq Nat
    OBVIOUS
  <2>3. PICK k \in Bad : \A y \in Bad : k <= y
    <3> HIDE DEF Bad
    <3> QED
      BY <2>1, <2>2, LeastNumber
  <2>4. k # 0
    <3>1. /\ NoFills \in [Trades -> {"none", "buy", "sell"}]
          /\ \A t \in Trades : NoFills[t] = "none"
      BY DEF NoFills
    <3>2. Follows(Result(s, NoFills), s, f, 0)
      BY <1>2, <3>1, NoFillsAdded DEF Follows, Result
    <3> QED
      BY <1>1, <2>3, <3>2 DEF Steps
  <2>5. /\ k \in 1 .. n /\ k - 1 \in Nat /\ k - 1 \in 0 .. n /\ ~(k <= k - 1)
        /\ k - 1 + 1 = k /\ s.next + (k - 1) <= MaxTrade
    BY <1>2, <2>3, <2>4, TradesAreNumbers
  <2>6. \A x \in pages[k - 1] : Follows(x, s, f, k - 1)
    <3>1. k - 1 \notin Bad
      <4> HIDE DEF Bad
      <4> QED
        BY <2>3, <2>5
    <3> QED
      BY <2>5, <3>1
  <2>7. PICK q \in pages[k] : ~Follows(q, s, f, k)
    BY <2>3
  <2>8. PICK x \in pages[k - 1] : q \in Observed(x, fresh)
    BY <1>1, <2>5, <2>7 DEF Steps
  <2>9. Follows(q, s, f, k - 1 + 1)
    BY <1>2, <2>5, <2>6, <2>8, ObservedFollows
  <2> QED
    BY <2>5, <2>7, <2>9
<1> QED
  BY <1>1, <1>3
-----------------------------------------------------------------------------
(* What the transactions leave. *)

LEMMA MemoryIsDb ==
    ASSUME LedgerInv, session # {}, ~stale
    PROVE  Memory = db
<1>1. session = {db}
  BY DEF LedgerInv, MemoryIsLedger
<1> QED
  BY <1>1 DEF Memory

(* The steps of the tape. *)
LEMMA TapeStays ==
    ASSUME UNCHANGED <<db, fills>>
    PROVE  Taped
BY DEF Taped, Tape!vars

LEMMA TapeMarks ==
    ASSUME UNCHANGED fills, db'.next = db.next, db'.paused \in BOOLEAN
    PROVE  Taped
BY DEF Taped, Tape!Next, Tape!Pause, Tape!Resume

LEMMA TapeMoves ==
    ASSUME UNCHANGED fills, db.next < db'.next, db.paused => db'.paused,
           fills \in [Trades -> {"none", "buy", "sell"}]
    PROVE  Taped
<1>1. Tape!Filled = {}
  BY DEF Tape!Filled
<1> QED
  BY <1>1 DEF Taped, Tape!Next, Tape!Advance

LEMMA TapeAdvances ==
    ASSUME Books(db, fills), fills \in [Trades -> {"none", "buy", "sell"}],
           db.next \in Nat, NEW n \in Nat, n > 0, NEW r, Follows(r, db, fills, n),
           db' = r.ledger, fills' = Inserted(r.new, fills)
    PROVE  Taped
<1>1. /\ db'.next = db.next + n /\ db.next < db'.next
      /\ db.paused => db'.paused
      /\ fills' \in [Trades -> {"none", "buy", "sell"}]
  BY InsertedType DEF Follows
<1>2. ASSUME NEW t \in Tape!Filled
      PROVE  /\ fills[t] = "none" /\ db.next <= t /\ t < db'.next
             /\ db.paused => fills'[t] = "sell"
  <2>1. t \in Trades /\ t \in Nat /\ fills'[t] # fills[t]
    BY TradesAreNumbers DEF Tape!Filled, Trades
  <2>2. /\ r.new \in [Trades -> {"none", "buy", "sell"}]
        /\ r.new[t] # "none" /\ fills'[t] = r.new[t]
    BY <2>1 DEF Inserted, Follows
  <2>3. db.next <= t /\ t < db'.next
    BY <1>1, <2>1, <2>2 DEF Follows
  <2>4. fills[t] = "none"
    BY <2>1, <2>3 DEF Books, Done
  <2>5. db.paused => fills'[t] = "sell"
    BY <2>1, <2>2 DEF Follows
  <2> QED
    BY <2>3, <2>4, <2>5
<1> QED
  BY <1>1, <1>2 DEF Taped, Tape!Next, Tape!Advance

LEMMA Untouched ==
    ASSUME LedgerInv, UNCHANGED <<db, fills, session, stale, gapAt, unnoted, repairFrom>>
    PROVE  LedgerInv' /\ Latched
BY TapeStays DEF LedgerInv, MemoryIsLedger, GapIsNoted, Latched

LEMMA CommitKeeps ==
    ASSUME LedgerInv, NEW s, NEW new, Commit(s, new), Sound(s),
           Books(s, Inserted(new, fills)), new \in [Trades -> {"none", "buy", "sell"}],
           gapAt' \in Nat, repairFrom' \in Nat, unnoted' \in BOOLEAN,
           MarkedIn(s, gapAt'), unnoted' = FALSE => NotedIn(s, gapAt', repairFrom')
    PROVE  LedgerInv'
<1>1. /\ db' = s /\ fills' = Inserted(new, fills) /\ session' = {s}
      /\ stale' = stale /\ ~stale
  BY DEF Commit
<1>2. Sound(db') /\ Books(db', fills')
  BY <1>1
<1>3. fills' \in [Trades -> {"none", "buy", "sell"}]
  BY <1>1, InsertedType DEF LedgerInv
<1>4. s \in Ledgers /\ stale \in BOOLEAN
  BY DEF Sound, LedgerInv, MemoryIsLedger
<1>5. MemoryIsLedger'
  BY <1>1, <1>4 DEF MemoryIsLedger
<1>6. GapIsNoted'
  BY <1>1 DEF GapIsNoted, MarkedIn, NotedIn
<1> QED
  BY <1>2, <1>3, <1>5, <1>6 DEF LedgerInv

(* A pause and a data error. *)
LEMMA MarkedIsSound ==
    ASSUME NEW s, Sound(s), NEW q \in {Paused(s), WithDataError(s)}
    PROVE  /\ Sound(q) /\ q.next = s.next /\ q.holding = s.holding /\ q.paused
           /\ s.recovery => q.recovery
           /\ q = WithDataError(s) => q.recovery
<1>1. s \in Ledgers
  BY DEF Sound
<1>2. q \in Ledgers
  BY <1>1 DEF Ledgers, Paused, WithDataError
<1>3. /\ q.next = s.next /\ q.holding = s.holding /\ q.paused /\ q.losses = s.losses
      /\ s.recovery => q.recovery
      /\ q = WithDataError(s) => q.recovery
  BY <1>1 DEF Ledgers, Paused, WithDataError
<1> QED
  BY <1>2, <1>3 DEF Sound

LEMMA MarkKeeps ==
    ASSUME LedgerInv, session # {},
           NEW s \in {Paused(Memory), WithDataError(Memory)}, Commit(s, NoFills),
           \/ UNCHANGED <<gapAt, unnoted, repairFrom>>
           \/ s = WithDataError(Memory) /\ Noted(Memory.next)
           \/ /\ s = WithDataError(Memory) /\ gapAt' = Memory.next
              /\ unnoted' = TRUE /\ UNCHANGED repairFrom
    PROVE  LedgerInv' /\ Latched
<1>1. Memory = db /\ db' = s
  BY MemoryIsDb DEF Commit
<1>2. /\ Sound(s) /\ s.next = db.next /\ s.holding = db.holding /\ s.paused
      /\ db.recovery => s.recovery
      /\ s = WithDataError(db) => s.recovery
  BY <1>1, MarkedIsSound DEF LedgerInv
<1>3. db.next \in Nat
  BY LedgerFields DEF LedgerInv, Sound
<1>4. NoFills \in [Trades -> {"none", "buy", "sell"}] /\ Inserted(NoFills, fills) = fills
  BY NoFillsAdded DEF NoFills, LedgerInv
<1>5. Books(s, Inserted(NoFills, fills))
  BY <1>2, <1>3, <1>4, BooksMoved DEF LedgerInv
<1>6. /\ gapAt' \in Nat /\ repairFrom' \in Nat /\ unnoted' \in BOOLEAN
      /\ MarkedIn(s, gapAt')
      /\ unnoted' = FALSE => NotedIn(s, gapAt', repairFrom')
  <2>1. CASE UNCHANGED <<gapAt, unnoted, repairFrom>>
    BY <1>2, <2>1 DEF LedgerInv, GapIsNoted, MarkedIn, NotedIn
  <2>2. CASE s = WithDataError(Memory) /\ Noted(Memory.next)
    BY <1>1, <1>2, <1>3, <2>2 DEF MarkedIn, NotedIn, Noted
  <2>3. CASE /\ s = WithDataError(Memory) /\ gapAt' = Memory.next
             /\ unnoted' = TRUE /\ UNCHANGED repairFrom
    BY <1>1, <1>2, <1>3, <2>3 DEF LedgerInv, GapIsNoted, MarkedIn
  <2> QED
    BY <2>1, <2>2, <2>3
<1>7. LedgerInv'
  BY <1>2, <1>4, <1>5, <1>6, CommitKeeps
<1>8. Taped
  <2>1. fills' = fills
    BY <1>4 DEF Commit
  <2> QED
    BY <1>1, <1>2, <2>1, LedgerFields, TapeMarks DEF Sound
<1> QED
  BY <1>1, <1>2, <1>7, <1>8 DEF Latched

(* The first page of an empty stream. *)
LEMMA ColdKeeps ==
    ASSUME LedgerInv, session # {}, Memory.next = 1, NEW last \in Trades,
           Commit([Memory EXCEPT !.next = last + 1], NoFills),
           UNCHANGED <<gapAt, unnoted, repairFrom>>
    PROVE  LedgerInv' /\ Latched
<1> DEFINE n == last + 1
           s == [db EXCEPT !.next = n]
<1>1. Memory = db /\ db' = s /\ Commit(s, NoFills)
  BY MemoryIsDb DEF Commit
<1>2. db \in Ledgers /\ Sound(db)
  BY DEF LedgerInv, Sound
<1>3. n \in 1 .. MaxTrade + 1 /\ n > 1 /\ n \in Nat /\ db.next = 1
  BY <1>1, TradesAreNumbers
<1> HIDE DEF n
<1>4. s \in Ledgers
  BY <1>2, <1>3 DEF Ledgers
<1>5. /\ s.next = n /\ s.recovery = db.recovery /\ s.holding = db.holding
      /\ s.paused = db.paused /\ s.losses = db.losses /\ s.entries = db.entries
      /\ s.breach = db.breach
  BY <1>2 DEF Ledgers
<1> HIDE DEF s
<1>6. Sound(s)
  BY <1>2, <1>3, <1>4, <1>5 DEF Sound
<1>7. NoFills \in [Trades -> {"none", "buy", "sell"}] /\ Inserted(NoFills, fills) = fills
  BY NoFillsAdded DEF NoFills, LedgerInv
<1>8. Books(s, Inserted(NoFills, fills))
  BY <1>3, <1>5, <1>7, BooksMoved DEF LedgerInv
<1>9. /\ gapAt' \in Nat /\ repairFrom' \in Nat /\ unnoted' \in BOOLEAN
      /\ MarkedIn(s, gapAt')
      /\ unnoted' = FALSE => NotedIn(s, gapAt', repairFrom')
  BY <1>3, <1>5 DEF LedgerInv, GapIsNoted, MarkedIn, NotedIn
<1>10. LedgerInv'
  BY <1>1, <1>6, <1>7, <1>8, <1>9, CommitKeeps
<1>11. Taped
  <2>1. fills' = fills
    BY <1>1, <1>7 DEF Commit
  <2> QED
    BY <1>1, <1>3, <1>5, <2>1, TapeMoves DEF LedgerInv
<1> QED
  BY <1>1, <1>5, <1>10, <1>11 DEF Latched

(* A page from the cursor on. *)
LEMMA PageKeeps ==
    ASSUME LedgerInv, session # {}, Memory.next > 1, NEW n \in Nat, n > 0,
           Memory.next + n <= MaxTrade + 1, NEW fresh,
           NEW r \in Accepted(Memory, n, fresh), Commit(r.ledger, r.new),
           UNCHANGED <<gapAt, unnoted, repairFrom>>
    PROVE  LedgerInv' /\ Latched
<1>1. Memory = db /\ db' = r.ledger
  BY MemoryIsDb DEF Commit
<1>2. Follows(r, db, fills, n)
  BY <1>1, AcceptedFollows DEF LedgerInv
<1>3. db.next \in Nat /\ r.ledger.next = db.next + n
  BY <1>2, LedgerFields DEF LedgerInv, Sound, Follows
<1>4. /\ gapAt' \in Nat /\ repairFrom' \in Nat /\ unnoted' \in BOOLEAN
      /\ MarkedIn(r.ledger, gapAt')
      /\ unnoted' = FALSE => NotedIn(r.ledger, gapAt', repairFrom')
  BY <1>3 DEF LedgerInv, GapIsNoted, MarkedIn, NotedIn
<1>5. LedgerInv'
  BY <1>2, <1>4, CommitKeeps DEF Follows
<1>6. Taped
  BY <1>1, <1>2, <1>3, TapeAdvances DEF LedgerInv, Commit
<1> QED
  BY <1>1, <1>2, <1>5, <1>6 DEF Latched, Follows

LEMMA ResumedIsSound ==
    ASSUME NEW s, Sound(s), s.next > 1, NEW q \in Resumed(s)
    PROVE  Sound(q) /\ q.next = s.next /\ q.holding = s.holding
<1> DEFINE latest == s.next - 1
           losing == IF s.valued = latest THEN {s.breach} ELSE BOOLEAN
<1>1. s \in Ledgers /\ s.breach \in BOOLEAN /\ s.next \in Nat /\ latest \in Trades
  <2>1. s \in Ledgers
    BY DEF Sound
  <2>2. s.breach \in BOOLEAN /\ s.next \in Nat /\ s.next <= MaxTrade + 1
    BY <2>1, LedgerFields
  <2> QED
    BY <2>1, <2>2, TradesAreNumbers DEF Trades
<1>2. PICK b \in losing :
        LET c == RiskChecked(s, latest, b)
        IN /\ ~c.breach /\ c.entries < MaxEntries
           /\ q = [c EXCEPT !.paused = FALSE, !.losses = 0, !.recovery = FALSE]
  BY DEF Resumed
<1>3. b \in BOOLEAN
  BY <1>1
<1> DEFINE c == RiskChecked(s, latest, b)
<1>4. /\ ~c.breach /\ c.entries < MaxEntries
      /\ q = [c EXCEPT !.paused = FALSE, !.losses = 0, !.recovery = FALSE]
  BY <1>2
<1>5. Checkable(s)
  BY DEF Sound, Checkable
<1> HIDE DEF c
<1>6. Sound(c) /\ c.next = s.next /\ c.holding = s.holding
  BY <1>1, <1>3, <1>5, CheckedIsSound DEF c
<1>7. c \in Ledgers
  BY <1>6 DEF Sound
<1>8. q \in Ledgers
  <2>1. 0 \in 0 .. MaxLosses
    BY TradesAreNumbers
  <2> QED
    BY <1>4, <1>7, <2>1 DEF Ledgers
<1>9. /\ q.next = c.next /\ q.holding = c.holding /\ q.losses = 0
      /\ q.entries = c.entries /\ q.breach = c.breach /\ q.recovery = FALSE
  BY <1>4, <1>7 DEF Ledgers
<1>10. ~(q.entries >= MaxEntries) /\ ~(q.losses >= MaxLosses) /\ q.losses < MaxLosses
  BY <1>4, <1>7, <1>9, LedgerFields, TradesAreNumbers
<1> QED
  BY <1>4, <1>6, <1>8, <1>9, <1>10 DEF Sound

LEMMA ResumeKeeps ==
    ASSUME LedgerInv, session # {}, Memory.next > 1, Repaired, lastRun = "resume",
           NEW s \in Resumed(Memory), Commit(s, NoFills), gapAt' = 0, unnoted' = FALSE,
           UNCHANGED repairFrom
    PROVE  LedgerInv' /\ Latched
<1>1. Memory = db /\ db' = s
  BY MemoryIsDb DEF Commit
<1>2. Sound(s) /\ s.next = db.next /\ s.holding = db.holding
  BY <1>1, ResumedIsSound DEF LedgerInv
<1>3. db.next \in Nat
  BY LedgerFields DEF LedgerInv, Sound
<1>4. gapAt < db.next \/ unnoted
  <2>1. CASE unnoted = FALSE
    BY <1>1, <1>3, <2>1 DEF Repaired, LedgerInv, GapIsNoted, NotedIn
  <2>2. CASE unnoted = TRUE
    BY <2>2
  <2> QED
    BY <2>1, <2>2 DEF LedgerInv, GapIsNoted
<1>5. NoFills \in [Trades -> {"none", "buy", "sell"}] /\ Inserted(NoFills, fills) = fills
  BY NoFillsAdded DEF NoFills, LedgerInv
<1>6. Books(s, Inserted(NoFills, fills))
  BY <1>2, <1>3, <1>5, BooksMoved DEF LedgerInv
<1>7. /\ gapAt' \in Nat /\ repairFrom' \in Nat /\ unnoted' \in BOOLEAN
      /\ MarkedIn(s, gapAt')
      /\ unnoted' = FALSE => NotedIn(s, gapAt', repairFrom')
  <2>1. s.next > 1 /\ s.next \in Nat
    BY <1>1, <1>2, <1>3
  <2>2. unnoted' \in BOOLEAN
    OBVIOUS
  <2>3. gapAt' \in Nat /\ repairFrom' \in Nat /\ gapAt' < s.next
    BY <2>1 DEF LedgerInv, GapIsNoted
  <2> QED
    BY <2>2, <2>3 DEF MarkedIn, NotedIn
<1>8. LedgerInv'
  BY <1>2, <1>5, <1>6, <1>7, CommitKeeps
<1>9. gapAt \in Nat
  BY DEF LedgerInv, GapIsNoted
<1>10. Taped
  <2>1. fills' = fills
    BY <1>5 DEF Commit
  <2> QED
    BY <1>1, <1>2, <2>1, LedgerFields, TapeMarks DEF Sound
<1> QED
  BY <1>1, <1>2, <1>3, <1>4, <1>8, <1>9, <1>10 DEF Latched
-----------------------------------------------------------------------------
(* The steps. *)

LEMMA OtherKeeps ==
    ASSUME LedgerInv, OtherWriter, UNCHANGED <<gapAt, unnoted, repairFrom>>
    PROVE  LedgerInv' /\ Latched
<1>1. /\ Sound(db) /\ db.next \in Nat /\ db \in Ledgers
      /\ fills \in [Trades -> {"none", "buy", "sell"}] /\ Books(db, fills)
      /\ gapAt \in Nat
  BY LedgerFields DEF LedgerInv, Sound, GapIsNoted
<1>2. CASE db' = Paused(db) /\ UNCHANGED fills
  <2>1. /\ Sound(db') /\ db'.next = db.next /\ db'.holding = db.holding
        /\ db'.paused /\ (db.recovery => db'.recovery)
    BY <1>1, <1>2, MarkedIsSound
  <2>2. Books(db', fills)
    BY <1>1, <2>1, BooksMoved
  <2>3. Taped
    BY <1>2, <2>1, LedgerFields, TapeMarks DEF Sound
  <2> QED
    BY <1>1, <1>2, <2>1, <2>2, <2>3
    DEF LedgerInv, OtherWriter, SessionOpen, MemoryIsLedger, GapIsNoted, MarkedIn, NotedIn,
        Latched
<1>3. CASE /\ db.next \in 2 .. MaxTrade
           /\ \E r \in Accepted(db, 1, db.next) :
                db' = r.ledger /\ fills' = Inserted(r.new, fills)
  <2>1. PICK r \in Accepted(db, 1, db.next) :
          db' = r.ledger /\ fills' = Inserted(r.new, fills)
    BY <1>3
  <2>2. db.next > 1 /\ db.next + 1 <= MaxTrade + 1
    BY <1>3, TradesAreNumbers
  <2>3. Follows(r, db, fills, 1)
    BY <1>1, <2>2, AcceptedFollows
  <2>4. /\ Sound(db') /\ Books(db', fills') /\ db'.next = db.next + 1
        /\ db'.recovery = db.recovery /\ (db.paused => db'.paused)
        /\ fills' \in [Trades -> {"none", "buy", "sell"}]
    BY <1>1, <2>1, <2>3, InsertedType DEF Follows
  <2>5. MemoryIsLedger'
    BY DEF LedgerInv, OtherWriter, SessionOpen, MemoryIsLedger
  <2>6. /\ gapAt' < db'.next /\ gapAt' \in Nat /\ repairFrom' \in Nat
        /\ unnoted' \in BOOLEAN
    BY <1>1, <2>4 DEF LedgerInv, GapIsNoted, MarkedIn
  <2>7. GapIsNoted'
    BY <2>6 DEF GapIsNoted, MarkedIn, NotedIn
  <2>8. Taped
    BY <1>1, <2>1, <2>3, TapeAdvances
  <2> QED
    BY <2>4, <2>5, <2>7, <2>8 DEF LedgerInv, Latched
<1> QED
  BY <1>2, <1>3 DEF OtherWriter

LEMMA OpenKeeps ==
    ASSUME LedgerInv, OpenSession, IF db.recovery THEN Noted(db.next) ELSE NotNoted
    PROVE  LedgerInv' /\ Latched
<1>1. /\ db' = db /\ fills' = fills /\ session' = {db} /\ stale' = FALSE
      /\ db \in Ledgers /\ db.next \in Nat
  BY LedgerFields DEF LedgerInv, OpenSession, Sound
<1>2. MemoryIsLedger'
  BY <1>1 DEF MemoryIsLedger
<1>3. GapIsNoted'
  <2>1. unnoted' \in BOOLEAN
    BY DEF LedgerInv, GapIsNoted, Noted, NotNoted, GapStays
  <2>2. CASE db.recovery
    <3>1. repairFrom' = (IF db.next > 1 THEN db.next ELSE 0) /\ gapAt' = db.next
      BY <2>2 DEF Noted
    <3> QED
      BY <1>1, <2>1, <2>2, <3>1 DEF GapIsNoted, MarkedIn, NotedIn
  <2>3. CASE ~db.recovery
    <3>1. repairFrom' = repairFrom /\ gapAt' = gapAt
      BY <2>3 DEF NotNoted, GapStays
    <3> QED
      BY <1>1, <2>1, <2>3, <3>1 DEF LedgerInv, GapIsNoted, MarkedIn, NotedIn
  <2> QED
    BY <2>2, <2>3
<1> QED
  BY <1>1, <1>2, <1>3, TapeStays DEF LedgerInv, Latched

LEMMA DropKeeps ==
    ASSUME LedgerInv, DropSession, gapAt' = gapAt, unnoted' \in BOOLEAN, repairFrom' \in Nat
    PROVE  LedgerInv' /\ Latched
<1>1. db' = db /\ fills' = fills /\ session' = {} /\ stale' = FALSE
  BY DEF DropSession
<1>2. MemoryIsLedger' /\ GapIsNoted'
  BY <1>1 DEF LedgerInv, MemoryIsLedger, GapIsNoted, MarkedIn
<1> QED
  BY <1>1, <1>2, TapeStays DEF LedgerInv, Latched

(* Where the worker is between two of its steps. *)
Runs ==
    /\ flight = "running" /\ disposal \notin {"done", "failed"}
    /\ desk = "off" => disposal = "none"

LEMMA WorkerRuns ==
    ASSUME DeskInv, NEW place, Evaluating(place)
    PROVE  Runs /\ LedgerInv /\ (place \notin {"idle", "commands", "opening"} => session # {})
BY DEF DeskInv, WorkerHasSession, Evaluating, Runs

LEMMA GoesOn ==
    ASSUME Runs, NEW place, Goto(place), UNCHANGED <<disposal, desk>>,
           place \in {"commands", "opening", "pausing", "status", "pages", "latching",
                      "resuming"},
           place \notin {"commands", "opening"} => session' # {}
    PROVE  WorkerHasSession'
BY DEF Runs, Goto, WorkerHasSession

LEMMA Ends ==
    ASSUME Runs, NEW outcome, End(outcome), UNCHANGED <<disposal, desk>>
    PROVE  WorkerHasSession'
BY DEF Runs, End, WorkerHasSession

LEMMA StepsOfTheWorker ==
    ASSUME DeskInv, Worker
    PROVE  DeskInv' /\ Latched
<1> USE DEF Worker
<1>1. ASSUME CommandPause PROVE DeskInv' /\ Latched
  <2>1. Runs /\ LedgerInv
    BY <1>1, WorkerRuns DEF CommandPause
  <2>2. CASE session # {} /\ Commit(Paused(Memory), NoFills) /\ Goto("commands")
    BY <1>1, <2>1, <2>2, MarkKeeps, GoesOn
    DEF CommandPause, DeskInv, ResumeIsLast, GapStays
  <2>3. CASE CommitFails /\ Fail
    BY <1>1, <2>1, <2>3, Untouched, Ends
    DEF CommandPause, DeskInv, ResumeIsLast, CommitFails, sessionVars, Fail, GapStays
  <2>4. CASE UNCHANGED sessionVars /\ Goto("commands")
    BY <1>1, <2>1, <2>4, Untouched, GoesOn
    DEF CommandPause, DeskInv, ResumeIsLast, sessionVars, GapStays
  <2> QED
    BY <1>1, <2>2, <2>3, <2>4 DEF CommandPause, SessionOpen
<1>2. ASSUME CommandResume PROVE DeskInv' /\ Latched
  <2>1. Runs /\ LedgerInv
    BY <1>2, WorkerRuns DEF CommandResume
  <2> QED
    BY <1>2, <2>1, Untouched, GoesOn
    DEF CommandResume, DeskInv, ResumeIsLast, sessionVars, GapStays
<1>3. ASSUME CommandsDone PROVE DeskInv' /\ Latched
  <2>1. Runs /\ LedgerInv
    BY <1>3, WorkerRuns DEF CommandsDone
  <2>2. LedgerInv' /\ Latched /\ ResumeIsLast'
    BY <1>3, <2>1, Untouched DEF CommandsDone, DeskInv, ResumeIsLast, sessionVars, Quiet
  <2>3. WorkerHasSession'
    BY <1>3, <2>1, GoesOn DEF CommandsDone, Quiet, SessionOpen, sessionVars
  <2> QED
    BY <2>2, <2>3 DEF DeskInv
<1>4. ASSUME Open PROVE DeskInv' /\ Latched
  <2>1. Runs /\ LedgerInv
    BY <1>4, WorkerRuns DEF Open
  <2>2. ResumeIsLast'
    BY <1>4 DEF Open, Quiet, DeskInv, ResumeIsLast
  <2>3. CASE /\ OpenSession
             /\ IF db.recovery THEN Noted(db.next) ELSE NotNoted
             /\ Goto("pausing")
    <3>1. session' # {}
      BY <2>3 DEF OpenSession
    <3> QED
      BY <1>4, <2>1, <2>2, <2>3, <3>1, OpenKeeps, GoesOn DEF Open, Quiet, DeskInv
  <2>4. CASE UNCHANGED sessionVars /\ NotNoted /\ Fail
    BY <1>4, <2>1, <2>2, <2>4, Untouched, Ends
    DEF Open, Quiet, DeskInv, sessionVars, Fail, NotNoted, GapStays
  <2> QED
    BY <1>4, <2>3, <2>4 DEF Open
<1>5. ASSUME PauseReopened PROVE DeskInv' /\ Latched
  <2>1. Runs /\ LedgerInv /\ session # {}
    BY <1>5, WorkerRuns DEF PauseReopened
  <2>2. ResumeIsLast' /\ UNCHANGED <<disposal, desk, gapAt, unnoted, repairFrom>>
    BY <1>5 DEF PauseReopened, DeskInv, ResumeIsLast, Quiet
  <2>3. CASE Commit(Paused(Memory), NoFills) /\ Goto("status")
    <3>1. session' # {}
      BY <2>3 DEF Commit
    <3> QED
      BY <2>1, <2>2, <2>3, <3>1, MarkKeeps, GoesOn DEF DeskInv
  <2>4. CASE CommitFails /\ Fail
    BY <2>1, <2>2, <2>4, Untouched, Ends DEF DeskInv, CommitFails, sessionVars, Fail
  <2>5. CASE UNCHANGED sessionVars /\ Goto("status")
    BY <2>1, <2>2, <2>5, Untouched, GoesOn DEF DeskInv, sessionVars
  <2> QED
    BY <1>5, <2>3, <2>4, <2>5 DEF PauseReopened
<1>6. ASSUME MarketOpen PROVE DeskInv' /\ Latched
  <2>1. Runs /\ LedgerInv /\ session # {}
    BY <1>6, WorkerRuns DEF MarketOpen
  <2> QED
    BY <1>6, <2>1, Untouched, GoesOn
    DEF MarketOpen, DeskInv, ResumeIsLast, sessionVars, Quiet
<1>7. ASSUME MarketClosed PROVE DeskInv' /\ Latched
  <2>1. Runs /\ LedgerInv /\ session # {}
    BY <1>7, WorkerRuns DEF MarketClosed
  <2>2. ResumeIsLast' /\ UNCHANGED <<disposal, desk>>
    BY <1>7 DEF MarketClosed, DeskInv, ResumeIsLast, Quiet
  <2>3. CASE Commit(WithDataError(Memory), NoFills) /\ Noted(Memory.next) /\ End("done")
    BY <2>1, <2>2, <2>3, MarkKeeps, Ends DEF DeskInv
  <2>4. CASE CommitFails /\ Fail /\ NotNoted
    BY <2>1, <2>2, <2>4, Untouched, Ends
    DEF DeskInv, CommitFails, sessionVars, Fail, NotNoted, GapStays
  <2> QED
    BY <1>7, <2>3, <2>4 DEF MarketClosed
<1>8. ASSUME DataInvalid PROVE DeskInv' /\ Latched
  <2>1. Runs /\ LedgerInv /\ session # {}
    BY <1>8, WorkerRuns DEF DataInvalid
  <2> QED
    BY <1>8, <2>1, Untouched, GoesOn
    DEF DataInvalid, DeskInv, ResumeIsLast, sessionVars, Quiet
<1>9. ASSUME PageRejected PROVE DeskInv' /\ Latched
  <2>1. Runs /\ LedgerInv /\ session # {}
    BY <1>9, WorkerRuns DEF PageRejected
  <2>2. ResumeIsLast' /\ UNCHANGED <<disposal, desk, repairFrom>>
    BY <1>9 DEF PageRejected, DeskInv, ResumeIsLast, Quiet
  <2>3. CASE /\ Commit(WithDataError(Memory), NoFills)
             /\ gapAt' = Memory.next /\ unnoted' = TRUE /\ Goto("latching")
    <3>1. session' # {}
      BY <2>3 DEF Commit
    <3> QED
      BY <2>1, <2>2, <2>3, <3>1, MarkKeeps, GoesOn DEF DeskInv
  <2>4. CASE CommitFails /\ Fail /\ GapStays
    BY <2>1, <2>2, <2>4, Untouched, Ends
    DEF DeskInv, CommitFails, sessionVars, Fail, GapStays
  <2> QED
    BY <1>9, <2>3, <2>4 DEF PageRejected
<1>10. ASSUME LatchDataError PROVE DeskInv' /\ Latched
  <2>1. Runs /\ LedgerInv /\ session # {}
    BY <1>10, WorkerRuns DEF LatchDataError
  <2>2. ResumeIsLast' /\ UNCHANGED <<disposal, desk>> /\ WorkerHasSession'
    BY <1>10, <2>1, Ends DEF LatchDataError, ResumeIsLast, Quiet, Fail
  <2>3. CASE Commit(WithDataError(Memory), NoFills) /\ Noted(Memory.next)
    BY <2>1, <2>2, <2>3, MarkKeeps DEF DeskInv
  <2>4. CASE CommitFails /\ NotNoted
    BY <2>1, <2>2, <2>4, Untouched DEF DeskInv, CommitFails, sessionVars, NotNoted, GapStays
  <2> QED
    BY <1>10, <2>3, <2>4 DEF LatchDataError
<1>11. ASSUME ConnectionBroken PROVE DeskInv' /\ Latched
  <2>1. Runs /\ LedgerInv
    BY <1>11, WorkerRuns DEF ConnectionBroken
  <2> QED
    BY <1>11, <2>1, Untouched, Ends
    DEF ConnectionBroken, DeskInv, ResumeIsLast, sessionVars, Quiet, Fail
<1>12. ASSUME ColdPage PROVE DeskInv' /\ Latched
  <2>1. Runs /\ LedgerInv /\ session # {}
    BY <1>12, WorkerRuns DEF ColdPage
  <2>2. /\ ResumeIsLast' /\ UNCHANGED <<disposal, desk, gapAt, unnoted, repairFrom>>
        /\ Memory.next = 1 /\ Goto("resuming")
    BY <1>12 DEF ColdPage, DeskInv, ResumeIsLast, Quiet
  <2>3. CASE UNCHANGED sessionVars
    BY <2>1, <2>2, <2>3, Untouched, GoesOn DEF DeskInv, sessionVars
  <2>4. ASSUME NEW last \in Trades, Commit([Memory EXCEPT !.next = last + 1], NoFills)
        PROVE  DeskInv' /\ Latched
    <3>1. session' # {}
      BY <2>4 DEF Commit
    <3>2. LedgerInv' /\ Latched
      BY <2>1, <2>2, <2>4, ColdKeeps
    <3> QED
      BY <2>1, <2>2, <3>1, <3>2, GoesOn DEF DeskInv
  <2> QED
    BY <1>12, <2>3, <2>4 DEF ColdPage
<1>13. ASSUME NextPage PROVE DeskInv' /\ Latched
  <2>1. Runs /\ LedgerInv /\ session # {} /\ Memory.next > 1
    BY <1>13, WorkerRuns DEF NextPage
  <2>2. /\ ResumeIsLast' /\ UNCHANGED <<disposal, desk, gapAt, unnoted, repairFrom, flight>>
        /\ work' \in {"pages", "resuming"}
    BY <1>13 DEF NextPage, DeskInv, ResumeIsLast, Quiet
  <2>3. PICK n \in 0 .. Min({PageLimit, (MaxTrade + 1) - Memory.next}) :
          \/ UNCHANGED sessionVars
          \/ n # 0 /\ \E fresh : \E r \in Accepted(Memory, n, fresh) : Commit(r.ledger, r.new)
    BY <1>13 DEF NextPage
  <2>4. LedgerInv' /\ Latched /\ session' # {}
    <3>1. CASE UNCHANGED sessionVars
      BY <2>1, <2>2, <3>1, Untouched DEF sessionVars
    <3>2. ASSUME NEW fresh, NEW r \in Accepted(Memory, n, fresh), n # 0,
                 Commit(r.ledger, r.new)
          PROVE  LedgerInv' /\ Latched /\ session' # {}
      <4>1. ~stale /\ session' # {}
        BY <3>2 DEF Commit
      <4>2. Memory.next \in Nat /\ Memory.next <= MaxTrade + 1
        BY <2>1, <4>1, MemoryIsDb, LedgerFields DEF LedgerInv, Sound
      <4>3. n \in Nat /\ n > 0 /\ Memory.next + n <= MaxTrade + 1
        <5> DEFINE S == {PageLimit, (MaxTrade + 1) - Memory.next}
        <5>1. PageLimit \in Nat /\ (MaxTrade + 1) - Memory.next \in Nat
          BY <4>2, TradesAreNumbers, MonitorAssumption
        <5>2. \E x \in S : \A y \in S : x <= y
          BY <5>1
        <5>3. Min(S) \in Nat /\ Min(S) <= (MaxTrade + 1) - Memory.next
          <6>1. Min(S) = CHOOSE x \in S : \A y \in S : x <= y
            BY DEF Min
          <6>2. Min(S) \in S /\ \A y \in S : Min(S) <= y
            BY <5>2, <6>1
          <6> QED
            BY <5>1, <6>2
        <5> QED
          BY <3>2, <4>2, <5>3, TradesAreNumbers
      <4> QED
        BY <2>1, <2>2, <3>2, <4>1, <4>3, PageKeeps
    <3> QED
      BY <2>3, <3>1, <3>2
  <2>5. WorkerHasSession'
    BY <2>1, <2>2, <2>4 DEF WorkerHasSession, Runs
  <2> QED
    BY <2>2, <2>4, <2>5 DEF DeskInv
<1>14. ASSUME PageUnsaved PROVE DeskInv' /\ Latched
  <2>1. Runs /\ LedgerInv
    BY <1>14, WorkerRuns DEF PageUnsaved
  <2> QED
    BY <1>14, <2>1, Untouched, Ends
    DEF PageUnsaved, DeskInv, ResumeIsLast, sessionVars, Quiet, Fail, CommitFails
<1>15. ASSUME NotResumed PROVE DeskInv' /\ Latched
  <2>1. Runs /\ LedgerInv
    BY <1>15, WorkerRuns DEF NotResumed
  <2> QED
    BY <1>15, <2>1, Untouched, Ends
    DEF NotResumed, DeskInv, ResumeIsLast, sessionVars, Quiet
<1>16. ASSUME Resume PROVE DeskInv' /\ Latched
  <2>1. Runs /\ LedgerInv /\ session # {} /\ Memory.next > 1 /\ Repaired
    BY <1>16, WorkerRuns DEF Resume
  <2>2. /\ ResumeIsLast' /\ UNCHANGED <<disposal, desk, repairFrom>>
        /\ lastRun = "resume"
    BY <1>16 DEF Resume, DeskInv, ResumeIsLast, Quiet
  <2>3. ASSUME NEW s \in Resumed(Memory), Commit(s, NoFills), gapAt' = 0,
               unnoted' = FALSE, End("done")
        PROVE  DeskInv' /\ Latched
    BY <2>1, <2>2, <2>3, ResumeKeeps, Ends DEF DeskInv
  <2>4. CASE CommitFails /\ Fail /\ GapStays
    BY <2>1, <2>2, <2>4, Untouched, Ends
    DEF DeskInv, CommitFails, sessionVars, Fail, GapStays
  <2> QED
    BY <1>16, <2>3, <2>4 DEF Resume
<1> QED
  BY <1>1, <1>2, <1>3, <1>4, <1>5, <1>6, <1>7, <1>8, <1>9, <1>10, <1>11, <1>12, <1>13,
     <1>14, <1>15, <1>16 DEF Evaluate

LEMMA StepsOfTheWindow ==
    ASSUME DeskInv,
           \/ Start \/ Poll \/ Stop \/ Collect \/ Dispose \/ FinishStop \/ CleanupFailed
           \/ Die
           \/ \E action \in Commands : PaperCommand(action)
    PROVE  DeskInv' /\ Latched
<1> USE DEF DeskInv
<1>1. ASSUME UNCHANGED <<sessionVars, history, repairFrom, resumeFlag>>,
             WorkerHasSession'
      PROVE  DeskInv' /\ Latched
  BY <1>1, Untouched DEF sessionVars, history, ResumeIsLast
<1>2. ASSUME Start PROVE DeskInv' /\ Latched
  <2>1. WorkerHasSession'
    BY <1>2 DEF Start, WorkerHasSession
  <2> QED
    BY <1>1, <1>2, <2>1 DEF Start, history
<1>3. ASSUME Poll PROVE DeskInv' /\ Latched
  <2>1. WorkerHasSession'
    BY <1>3 DEF Poll, Submit, Submitting, RunnerOpen, WorkerHasSession
  <2> QED
    BY <1>1, <1>3, <2>1 DEF Poll, history
<1>4. ASSUME Stop PROVE DeskInv' /\ Latched
  <2>1. WorkerHasSession'
    BY <1>4 DEF Stop, CloseRunner, RunnerOpen, WorkerHasSession, monitorVars, sessionVars
  <2> QED
    BY <1>1, <1>4, <2>1 DEF Stop, history, monitorVars
<1>5. ASSUME Collect PROVE DeskInv' /\ Latched
  <2>1. WorkerHasSession'
    BY <1>5 DEF Collect, Take, Landed, CloseRunner, RunnerOpen, WorkerHasSession,
                monitorVars, sessionVars
  <2> QED
    BY <1>1, <1>5, <2>1 DEF Collect, history, monitorVars
<1>6. ASSUME Dispose PROVE DeskInv' /\ Latched
  <2>1. UNCHANGED <<history, repairFrom, resumeFlag, work, flight, desk>>
    BY <1>6 DEF Dispose, monitorVars
  <2>2. WorkerHasSession'
    BY <1>6, <2>1 DEF Dispose, DropSession, sessionVars, WorkerHasSession
  <2>3. CASE DropSession
    <3>1. repairFrom' \in Nat /\ unnoted' \in BOOLEAN /\ gapAt' = gapAt
      BY <2>1 DEF LedgerInv, GapIsNoted, history
    <3>2. LedgerInv' /\ Latched
      BY <2>3, <3>1, DropKeeps
    <3> QED
      BY <2>1, <2>2, <3>2 DEF ResumeIsLast, history
  <2>4. CASE UNCHANGED sessionVars
    BY <1>1, <2>1, <2>2, <2>4
  <2> QED
    BY <1>6, <2>3, <2>4 DEF Dispose
<1>7. ASSUME FinishStop PROVE DeskInv' /\ Latched
  <2>1. DropSession /\ gapAt' = gapAt /\ unnoted' \in BOOLEAN /\ repairFrom' \in Nat
    BY <1>7 DEF FinishStop, MonitorReset, sessionVars, DropSession, WorkerHasSession,
                LedgerInv, MemoryIsLedger
  <2>2. LedgerInv' /\ Latched
    BY <2>1, DropKeeps
  <2>3. WorkerHasSession' /\ ResumeIsLast'
    BY <1>7 DEF FinishStop, MonitorReset, WorkerHasSession, ResumeIsLast
  <2> QED
    BY <2>2, <2>3
<1>8. ASSUME Die PROVE DeskInv' /\ Latched
  <2>1. DropSession /\ gapAt' = gapAt /\ unnoted' \in BOOLEAN /\ repairFrom' \in Nat
    BY <1>8 DEF Die, MonitorReset
  <2>2. LedgerInv' /\ Latched
    BY <2>1, DropKeeps
  <2>3. WorkerHasSession' /\ ResumeIsLast'
    BY <1>8 DEF Die, MonitorReset, WorkerHasSession, ResumeIsLast
  <2> QED
    BY <2>2, <2>3
<1>9. ASSUME NEW action, PaperCommand(action) PROVE DeskInv' /\ Latched
  <2>1. WorkerHasSession'
    BY <1>9 DEF PaperCommand, Enqueue, Submit, Submitting, RunnerOpen, WorkerHasSession,
                sessionVars
  <2> QED
    BY <1>1, <1>9, <2>1 DEF PaperCommand, history
<1>10. ASSUME CleanupFailed PROVE DeskInv' /\ Latched
  <2>1. WorkerHasSession'
    BY <1>10 DEF CleanupFailed, WorkerHasSession, sessionVars, runnerVars, monitorVars
  <2> QED
    BY <1>1, <1>10, <2>1 DEF CleanupFailed, monitorVars
<1> QED
  BY <1>2, <1>3, <1>4, <1>5, <1>6, <1>7, <1>8, <1>9, <1>10

LEMMA StartsRight == Init => DeskInv
<1> SUFFICES ASSUME Init PROVE DeskInv
  OBVIOUS
<1> USE DEF Init, SessionInit, RunnerInit, MonitorInit
<1>1. EmptyLedger \in Ledgers
  BY TradesAreNumbers DEF EmptyLedger, Ledgers
<1>2. Sound(db)
  BY <1>1, TradesAreNumbers DEF Sound, EmptyLedger
<1>3. Books(db, fills)
  <2>1. Done(fills) = {}
    BY DEF Done
  <2>2. db.holding = FALSE
    BY DEF EmptyLedger
  <2> QED
    BY <2>1, <2>2 DEF Books
<1>4. MemoryIsLedger /\ WorkerHasSession /\ ResumeIsLast
  BY DEF MemoryIsLedger, WorkerHasSession, ResumeIsLast
<1>5. GapIsNoted
  <2>1. unnoted \in BOOLEAN
    OBVIOUS
  <2>2. db.next = 1
    BY DEF EmptyLedger
  <2> QED
    BY <2>1, <2>2 DEF GapIsNoted, MarkedIn
<1> QED
  BY <1>2, <1>3, <1>4, <1>5 DEF DeskInv, LedgerInv

LEMMA StepsRight == DeskInv /\ [Next]_vars => DeskInv' /\ Latched
<1> SUFFICES ASSUME DeskInv, [Next]_vars PROVE DeskInv' /\ Latched
  OBVIOUS
<1>1. CASE UNCHANGED vars
  BY <1>1, Untouched
  DEF vars, sessionVars, runnerVars, monitorVars, history, DeskInv, WorkerHasSession,
      ResumeIsLast
<1>2. CASE Worker
  BY <1>2, StepsOfTheWorker
<1>3. CASE Other
  BY <1>3, OtherKeeps
  DEF Other, runnerVars, monitorVars, history, DeskInv, WorkerHasSession, ResumeIsLast,
      OtherWriter
<1> QED
  BY <1>1, <1>2, <1>3, StepsOfTheWindow DEF Next
-----------------------------------------------------------------------------
(* The invariant behind the theorems below, of every behaviour of the desk. *)
THEOREM DeskStays == Spec => []DeskInv
BY StartsRight, StepsRight, PTL DEF Spec

(* The rest of the type invariant. *)
Shape ==
    /\ commands \in Seq(Commands) /\ Len(commands) <= QueueSize
    /\ flight \in {"none", "running", "done", "failed"}
    /\ disposal \in {"none", "queued", "done", "failed"}
    /\ page \in 0 .. PagesPerCycle
    /\ caughtUp \in BOOLEAN /\ resumeFlag \in BOOLEAN /\ pauseFlag \in BOOLEAN
    /\ repairFrom \in 0 .. MaxTrade + 1
    /\ lastRun \in {"none", "resume"}
    /\ gapAt \in 0 .. MaxTrade + 1
    /\ desk \in {"off", "on", "stopping", "failed"}

LEMMA ShapeOfCommands ==
    ASSUME Shape, \/ \E action \in Commands : Enqueue(action)
                  \/ \E action \in Commands : TakeCommand(action)
                  \/ commands' = <<>>
                  \/ UNCHANGED commands
    PROVE  commands' \in Seq(Commands) /\ Len(commands') <= QueueSize
<1>1. CASE \E action \in Commands : Enqueue(action)
  BY <1>1, QueueSizeAssumption DEF Shape, Enqueue
<1>2. CASE \E action \in Commands : TakeCommand(action)
  BY <1>2, QueueSizeAssumption DEF Shape, TakeCommand
<1>3. CASE commands' = <<>>
  BY <1>3, QueueSizeAssumption
<1>4. CASE UNCHANGED commands
  BY <1>4 DEF Shape
<1> QED
  BY <1>1, <1>2, <1>3, <1>4

LEMMA ShapeOfNotes ==
    ASSUME Shape, DeskInv, NEW at, Noted(at), at = db.next
    PROVE  repairFrom' \in 0 .. MaxTrade + 1 /\ gapAt' \in 0 .. MaxTrade + 1
<1>1. at \in Nat /\ at <= MaxTrade + 1
  BY LedgerFields DEF DeskInv, LedgerInv, Sound
<1> QED
  BY <1>1, TradesAreNumbers DEF Noted

LEMMA ShapeOfWorker ==
    ASSUME DeskInv, Shape, Worker
    PROVE  Shape'
<1>1. commands' \in Seq(Commands) /\ Len(commands') <= QueueSize
  BY ShapeOfCommands
  DEF Worker, Evaluate, Commands, CommandPause, CommandResume, CommandsDone, Open,
      PauseReopened, MarketOpen, MarketClosed, DataInvalid, PageRejected, LatchDataError,
      ConnectionBroken, ColdPage, NextPage, PageUnsaved, NotResumed, Resume, Quiet
<1>2. repairFrom' \in 0 .. MaxTrade + 1 /\ gapAt' \in 0 .. MaxTrade + 1
  <2>1. CASE UNCHANGED <<repairFrom, gapAt>>
    BY <2>1 DEF Shape
  <2>2. CASE Open
    BY <2>1, <2>2, ShapeOfNotes DEF Open, NotNoted, GapStays
  <2>3. ASSUME Commit(WithDataError(Memory), NoFills), Noted(Memory.next),
               Evaluating("status") \/ Evaluating("latching")
        PROVE  repairFrom' \in 0 .. MaxTrade + 1 /\ gapAt' \in 0 .. MaxTrade + 1
    BY <2>3, WorkerRuns, MemoryIsDb, ShapeOfNotes DEF Commit
  <2>4. CASE MarketClosed
    BY <2>1, <2>3, <2>4 DEF MarketClosed, NotNoted, GapStays
  <2>5. CASE LatchDataError
    BY <2>1, <2>3, <2>5 DEF LatchDataError, NotNoted, GapStays
  <2>6. CASE PageRejected
    <3>1. ASSUME Commit(WithDataError(Memory), NoFills)
          PROVE  Memory.next \in 0 .. MaxTrade + 1
      <4>1. Memory = db
        BY <2>6, <3>1, WorkerRuns, MemoryIsDb DEF PageRejected, Commit
      <4>2. db.next \in Nat /\ db.next <= MaxTrade + 1
        BY LedgerFields DEF DeskInv, LedgerInv, Sound
      <4> QED
        BY <4>1, <4>2, TradesAreNumbers
    <3> QED
      BY <2>6, <3>1 DEF PageRejected, GapStays, Shape
  <2>7. CASE Resume
    <3>1. 0 \in 0 .. MaxTrade + 1
      BY TradesAreNumbers
    <3> QED
      BY <2>7, <3>1 DEF Resume, GapStays, Shape
  <2> QED
    BY <2>1, <2>2, <2>4, <2>5, <2>6, <2>7
    DEF Worker, Evaluate, CommandPause, CommandResume, CommandsDone, PauseReopened,
        MarketOpen, DataInvalid, ConnectionBroken, ColdPage, NextPage, PageUnsaved,
        NotResumed, GapStays
<1>3. /\ flight' \in {"none", "running", "done", "failed"} /\ desk' = desk
      /\ disposal' = disposal /\ page' \in 0 .. PagesPerCycle
      /\ caughtUp' \in BOOLEAN
  <2>1. 0 \in 0 .. PagesPerCycle /\ PagesPerCycle \in Nat
    BY MonitorAssumption
  <2>2. ASSUME NEW place, Goto(place)
        PROVE  /\ flight' \in {"none", "running", "done", "failed"}
               /\ page' \in 0 .. PagesPerCycle /\ caughtUp' \in BOOLEAN
    BY <2>2 DEF Goto, Shape
  <2>3. ASSUME NEW outcome \in {"done", "failed"}, End(outcome)
        PROVE  /\ flight' \in {"none", "running", "done", "failed"}
               /\ page' \in 0 .. PagesPerCycle /\ caughtUp' \in BOOLEAN
    BY <2>1, <2>3 DEF End
  <2>4. CASE NextPage
    <3>1. page + 1 < PagesPerCycle => page + 1 \in 0 .. PagesPerCycle
      BY <2>1 DEF Shape
    <3>2. (page' = page + 1 /\ page + 1 < PagesPerCycle) \/ page' = 0
      BY <2>4 DEF NextPage
    <3>3. flight' = flight /\ caughtUp' \in BOOLEAN
      BY <2>4 DEF NextPage
    <3> QED
      BY <2>1, <2>4, <3>1, <3>2, <3>3 DEF Shape, NextPage, Quiet, Worker
  <2> QED
    BY <2>2, <2>3, <2>4
    DEF Worker, Evaluate, CommandPause, CommandResume, CommandsDone, Open,
        PauseReopened, MarketOpen, MarketClosed, DataInvalid, PageRejected, LatchDataError,
        ConnectionBroken, ColdPage, PageUnsaved, NotResumed, Resume, Quiet, Fail
<1>4. /\ resumeFlag' \in BOOLEAN /\ pauseFlag' \in BOOLEAN
      /\ lastRun' \in {"none", "resume"}
  BY DEF Shape, Commands, Worker, Evaluate, CommandPause, CommandResume, CommandsDone, Open,
         PauseReopened, MarketOpen, MarketClosed, DataInvalid, PageRejected, LatchDataError,
         ConnectionBroken, ColdPage, NextPage, PageUnsaved, NotResumed, Resume, Quiet
<1> QED
  BY <1>1, <1>2, <1>3, <1>4 DEF Shape

LEMMA ShapeOfWindow ==
    ASSUME Shape,
           \/ Start \/ Poll \/ Stop \/ Collect \/ Dispose \/ FinishStop \/ CleanupFailed
           \/ Die
           \/ \E action \in Commands : PaperCommand(action)
           \/ Other
    PROVE  Shape'
<1>1. commands' \in Seq(Commands) /\ Len(commands') <= QueueSize
  BY ShapeOfCommands
  DEF Start, Poll, Stop, Collect, Dispose, FinishStop, CleanupFailed, Die, PaperCommand,
      Other, runnerVars
<1>2. ASSUME MonitorReset
      PROVE  /\ page' \in 0 .. PagesPerCycle /\ repairFrom' \in 0 .. MaxTrade + 1
             /\ caughtUp' = FALSE /\ resumeFlag' = FALSE /\ pauseFlag' = FALSE
             /\ lastRun' = "none" /\ gapAt' = gapAt
  <2>1. 0 \in 0 .. PagesPerCycle /\ 0 \in 0 .. MaxTrade + 1
    BY MonitorAssumption, TradesAreNumbers
  <2> QED
    BY <1>2, <2>1 DEF MonitorReset
<1>3. CASE FinishStop \/ Die
  BY <1>1, <1>2, <1>3 DEF FinishStop, Die, Shape
<1>4. CASE Start \/ Poll \/ Stop \/ Collect \/ Dispose \/ CleanupFailed \/ Other
           \/ \E action \in Commands : PaperCommand(action)
  BY <1>1, <1>4 DEF Start, Poll, Stop, Collect, Dispose, CleanupFailed, PaperCommand, Other,
                    Submit, Take, CloseRunner, runnerVars, monitorVars, history, Shape
<1> QED
  BY <1>3, <1>4

(* The variables of the desk, the runner, the monitor and the session have  *)
(* the values that the code gives them; the memory holds one ledger.        *)
THEOREM DeskTypeCorrect == Spec => []TypeOK
<1>1. Init => Shape
  <2> SUFFICES ASSUME Init PROVE Shape
    OBVIOUS
  <2>1. 0 \in 0 .. PagesPerCycle /\ 0 \in 0 .. MaxTrade + 1 /\ QueueSize \in Nat
    BY MonitorAssumption, TradesAreNumbers, QueueSizeAssumption
  <2>2. commands \in Seq(Commands) /\ Len(commands) <= QueueSize
    BY <2>1 DEF Init, RunnerInit
  <2> QED
    BY <2>1, <2>2 DEF Init, RunnerInit, MonitorInit, Shape
<1>2. DeskInv /\ Shape /\ [Next]_vars => Shape'
  <2> SUFFICES ASSUME DeskInv, Shape, [Next]_vars PROVE Shape'
    OBVIOUS
  <2>1. CASE UNCHANGED vars
    BY <2>1 DEF vars, runnerVars, monitorVars, history, Shape
  <2> QED
    BY <2>1, ShapeOfWorker, ShapeOfWindow DEF Next
<1>3. DeskInv /\ Shape => TypeOK
  <2> SUFFICES ASSUME DeskInv, Shape PROVE TypeOK
    OBVIOUS
  <2>1. session \subseteq Ledgers /\ Cardinality(session) <= 1
    <3>1. CASE session = {}
      BY <3>1, FS_EmptySet
    <3>2. ASSUME NEW s \in Ledgers, session = {s}
          PROVE  session \subseteq Ledgers /\ Cardinality(session) <= 1
      BY <3>2, FS_Singleton
    <3> QED
      BY <3>1, <3>2 DEF DeskInv, LedgerInv, MemoryIsLedger
  <2>2. SessionTypeOK
    BY <2>1 DEF DeskInv, LedgerInv, MemoryIsLedger, Sound, SessionTypeOK
  <2> QED
    BY <2>2 DEF DeskInv, LedgerInv, GapIsNoted, WorkerHasSession, Shape, TypeOK,
                RunnerTypeOK, MonitorTypeOK
<1> QED
  BY <1>1, <1>2, <1>3, DeskStays, PTL DEF Spec

(* Paper session, median_paper.py: whoever writes to the database, whatever *)
(* fails and whenever the process dies, the fills alternate from a BUY on,  *)
(* agree with the position, and are before the cursor of the checkpoint.    *)
THEOREM LedgerAndFillsAgree == Spec => []BooksAgree
<1>1. DeskInv => BooksAgree
  BY AgreeIsBooks DEF DeskInv, LedgerInv
<1> QED
  BY <1>1, DeskStays, PTL

(* _risk_check, median_paper.py: no committed ledger that reached its daily *)
(* loss, its entries of the day or its loss streak may buy.                 *)
THEOREM NoBuyAtALimit == Spec => []LimitLatches
<1>1. DeskInv => LimitLatches
  BY DEF DeskInv, LedgerInv, Sound, LimitLatches
<1> QED
  BY <1>1, DeskStays, PTL

(* The checks of TickPaperSession, median_paper.py: each ledger that   *)
(* was committed passes them, so that the database opens again.             *)
THEOREM DatabaseOpensAgain == Spec => []LedgerReopens
<1>1. DeskInv => LedgerReopens
  BY DEF DeskInv, LedgerInv, Sound, LedgerReopens
<1> QED
  BY <1>1, DeskStays, PTL

(* The resumption after a data error, median_monitor.py: the recovery mark  *)
(* goes only after a trade was accepted beyond the cursor of the last error *)
(* that was saved, but where accept_page alone saved it and the handler's   *)
(* own save failed, whose cursor the monitor has not noted.                 *)
THEOREM NoGapIsForgotten == Spec => GapNeedsRepair
<1>1. Latched => (db.recovery /\ ~db'.recovery => db'.next > gapAt \/ unnoted)
  BY DEF Latched
<1>2. [](DeskInv) /\ [][Next]_vars => GapNeedsRepair
  BY <1>1, StepsRight, PTL DEF GapNeedsRepair
<1> QED
  BY <1>2, DeskStays, PTL DEF Spec

(* The operator's commands, median_monitor.py: BUYs are resumed only when a *)
(* resumption is the last command that was carried out.                     *)
THEOREM PauseIsLastWord == Spec => PauseCancelsResume
<1>1. Latched => (db.paused /\ ~db'.paused => lastRun = "resume")
  BY DEF Latched
<1>2. [](DeskInv) /\ [][Next]_vars => PauseCancelsResume
  BY <1>1, StepsRight, PTL DEF PauseCancelsResume
<1> QED
  BY <1>2, DeskStays, PTL DEF Spec

(* The transactions of median_paper.py and their revision: the database is  *)
(* one tape of fills, only added to by pages that start where it ends, and  *)
(* without a BUY while BUYs are paused, whoever writes.                     *)
THEOREM DatabaseIsOneTape == Spec => IsOneTape
<1>1. Init => Tape!Init
  BY DEF Init, SessionInit, EmptyLedger, Tape!Init
<1>2. Latched => [Tape!Next]_(Tape!vars)
  BY DEF Latched, Taped
<1>3. [](DeskInv) /\ Init /\ [][Next]_vars => IsOneTape
  BY <1>1, <1>2, StepsRight, PTL DEF IsOneTape, Tape!Spec
<1> QED
  BY <1>3, DeskStays, PTL DEF Spec
=============================================================================
