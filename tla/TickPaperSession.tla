-------------------------- MODULE TickPaperSession --------------------------
(***************************************************************************)
(* The transactional paper ledger of the tick strategies.  One SQLite       *)
(* transaction replaces the ledger and the stream checkpoint and inserts    *)
(* the fills; the memory of a session follows only a successful commit.     *)
(* Trades are numbered; prices are abstracted to what they decide: whether  *)
(* the daily loss limit is reached, whether the strategy signals and        *)
(* whether a sale loses.  The revision number is compared for equality      *)
(* only, so that `stale' stands for a session that is behind the database.  *)
(***************************************************************************)
EXTENDS Naturals, FiniteSets

CONSTANTS
    MaxTrade,       \* bound on the trades of the market
    DayOf,          \* the UTC day of a trade, not decreasing
    MaxEntries,     \* paper_max_daily_entries
    MaxLosses       \* paper_max_loss_streak

Trades == 1 .. MaxTrade

ASSUME SessionAssumption ==
    /\ {MaxTrade, MaxEntries, MaxLosses} \subseteq Nat \ {0}
    /\ DayOf \in [Trades -> Nat]
    /\ \A t, u \in Trades : t <= u => DayOf[t] <= DayOf[u]

VARIABLES db, fills, session, stale

sessionVars == <<db, fills, session, stale>>

(* next: the cursor, 1 for an empty stream.  valued: the trade of the last  *)
(* risk check.  breach: the daily loss limit was reached then.              *)
Ledgers ==
    [next : 1 .. MaxTrade + 1, recovery : BOOLEAN, holding : BOOLEAN,
     paused : BOOLEAN, entries : 0 .. MaxEntries, losses : 0 .. MaxLosses,
     valued : 0 .. MaxTrade, breach : BOOLEAN]

EmptyLedger ==
    [next |-> 1, recovery |-> FALSE, holding |-> FALSE, paused |-> FALSE,
     entries |-> 0, losses |-> 0, valued |-> 0, breach |-> FALSE]

SessionTypeOK ==
    /\ db \in Ledgers
    /\ fills \in [Trades -> {"none", "buy", "sell"}]
    /\ session \subseteq Ledgers /\ Cardinality(session) <= 1
    /\ stale \in BOOLEAN

SessionInit ==
    /\ db = EmptyLedger
    /\ fills = [t \in Trades |-> "none"]
    /\ session = {}
    /\ stale = FALSE

SessionOpen == session # {}
Memory == CHOOSE s \in session : TRUE
NoFills == [t \in Trades |-> "none"]

OpenSession == session' = {db} /\ stale' = FALSE /\ UNCHANGED <<db, fills>>

DropSession == session' = {} /\ stale' = FALSE /\ UNCHANGED <<db, fills>>

(* The fills f with the new ones; the trade of a fill is a key. *)
Inserted(new, f) ==
    [t \in Trades |-> IF new[t] = "none" THEN f[t] ELSE new[t]]
KeysAreNew(new) == \A t \in Trades : new[t] = "none" \/ fills[t] = "none"

(* A mutation: the transaction does not look at the revision. *)
CommitUnchecked(s, new) ==
    /\ KeysAreNew(new)
    /\ db' = s
    /\ fills' = Inserted(new, fills)
    /\ session' = {s}
    /\ UNCHANGED stale

(* _write_transaction, then the memory. *)
Commit(s, new) ==
    /\ ~stale
    /\ KeysAreNew(new)
    /\ db' = s
    /\ fills' = Inserted(new, fills)
    /\ session' = {s}
    /\ UNCHANGED stale

(* The database is locked or full, or another writer was there. *)
CommitFails == UNCHANGED sessionVars

Paused(s) == [s EXCEPT !.paused = TRUE]

WithDataError(s) == [s EXCEPT !.paused = TRUE, !.recovery = TRUE]

(* _risk_check at trade t, where b says that the loss limit is reached. *)
RiskChecked(s, t, b) ==
    LET newDay == s.valued = 0 \/ DayOf[s.valued] # DayOf[t]
        entries == IF newDay THEN 0 ELSE s.entries
    IN [s EXCEPT !.entries = entries, !.valued = t, !.breach = b,
                 !.paused = @ \/ b \/ entries >= MaxEntries
                              \/ s.losses >= MaxLosses]

(* A mutation: the quantity is not reset by a sale. *)
SoldKeepsPosition(s, lost) == [s EXCEPT !.losses = IF lost THEN @ + 1 ELSE 0]

Sold(s, lost) ==
    [s EXCEPT !.holding = FALSE, !.losses = IF lost THEN @ + 1 ELSE 0]

Bought(s) == [s EXCEPT !.holding = TRUE, !.entries = @ + 1]

(* A mutation: no second risk check after a fill. *)
FilledUnchecked(c, t) ==
    {[ledger |-> Sold(c, lost), side |-> "sell"] :
       lost \in IF c.holding THEN BOOLEAN ELSE {}}
    \cup {[ledger |-> Bought(c), side |-> "buy"] :
            n \in IF c.holding \/ c.paused \/ c.recovery THEN {} ELSE {0}}

(* A mutation: an entry is not kept back by a pause. *)
FilledPaused(c, t) ==
    {[ledger |-> RiskChecked(Sold(c, lost), t, b), side |-> "sell"] :
       lost \in IF c.holding THEN BOOLEAN ELSE {}, b \in {c.breach, TRUE}}
    \cup {[ledger |-> RiskChecked(Bought(c), t, b), side |-> "buy"] :
            b \in IF c.holding \/ c.entries = MaxEntries THEN {} ELSE {c.breach, TRUE}}

(* What may follow the risk check of a fresh trade: a sale (by the strategy *)
(* or a stop), or an entry when flat, not paused and not in recovery; then  *)
(* the risk check again, where the fee only adds to the loss.               *)
Filled(c, t) ==
    {[ledger |-> RiskChecked(Sold(c, lost), t, b), side |-> "sell"] :
       lost \in IF c.holding THEN BOOLEAN ELSE {},
       b \in {c.breach, TRUE}}
    \cup {[ledger |-> RiskChecked(Bought(c), t, b), side |-> "buy"] :
            b \in IF c.holding \/ c.paused \/ c.recovery
                    THEN {} ELSE {c.breach, TRUE}}

(* What the next trade makes of a ledger and the fills before it.  One that *)
(* is not fresh only moves the cursor.                                      *)
Observed(r, fresh) ==
    LET t == r.ledger.next
        moved == [r.ledger EXCEPT !.next = t + 1]
        checked == {RiskChecked(moved, t, b) : b \in BOOLEAN}
        filled == UNION {Filled(c, t) : c \in checked}
    IN IF t < fresh
         THEN {[ledger |-> moved, new |-> r.new]}
         ELSE {[ledger |-> c, new |-> r.new] : c \in checked}
              \cup {[ledger |-> f.ledger, new |-> [r.new EXCEPT ![t] = f.side]] :
                      f \in filled}

(* What a page of n trades, of which those from `fresh' on are fresh, may   *)
(* make of a ledger.                                                        *)
Accepted(s, n, fresh) ==
    LET page[k \in 0 .. n] ==
          IF k = 0
            THEN {[ledger |-> s, new |-> NoFills]}
            ELSE UNION {Observed(r, fresh) : r \in page[k - 1]}
    IN page[n]

(* A mutation: a resumption leaves the recovery mark. *)
ResumedInRecovery(s) ==
    {[RiskChecked(s, s.next - 1, s.breach) EXCEPT !.paused = FALSE, !.losses = 0]}

(* resume_buys with the latest trade of the stream: the ledgers after a     *)
(* resumption; none when a limit is still reached.  The same trade has the  *)
(* same price.                                                              *)
Resumed(s) ==
    LET latest == s.next - 1
        losing == IF s.valued = latest THEN {s.breach} ELSE BOOLEAN
        checked == {RiskChecked(s, latest, b) : b \in losing}
    IN {[c EXCEPT !.paused = FALSE, !.losses = 0, !.recovery = FALSE] :
          c \in {d \in checked : ~d.breach /\ d.entries < MaxEntries}}

(* Another process with a session of its own pauses or accepts a trade. *)
OtherWriter ==
    /\ \/ db' = Paused(db) /\ UNCHANGED fills
       \/ /\ db.next \in 2 .. MaxTrade
          /\ \E r \in Accepted(db, 1, db.next) :
               db' = r.ledger /\ fills' = Inserted(r.new, fills)
    /\ stale' = SessionOpen
    /\ UNCHANGED session
=============================================================================
