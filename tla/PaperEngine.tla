----------------------------- MODULE PaperEngine -----------------------------
(***************************************************************************)
(* BStockEngine in paper mode: commands and evaluations of the candle       *)
(* strategy by the worker of the desktop.  `state' is EngineState in memory *)
(* and `file' the state file; a _save_state replaces the file or fails and  *)
(* leaves it, and the process may die between two steps.  An evaluation is   *)
(* valued (_paper_risk), decided, filled and valued again, and each of the   *)
(* three saves may fail.  The wall clock may jump either way between two     *)
(* evaluations, so every reading is of any bar.                             *)
(***************************************************************************)
EXTENDS Integers

CONSTANTS
    MaxBar,         \* bound on the bars; a bar is a minute
    BarsPerDay,     \* the minutes of a UTC day
    Prices,
    StartCash, OrderSize, FeeDivisor,
    Scale,          \* the smallest quantity is one unit per Scale
    LossLimit, MaxEntries, MaxStreak, Cooldown

ASSUME PaperAssumption ==
    /\ {MaxBar, BarsPerDay, StartCash, OrderSize, Scale, LossLimit, MaxEntries,
        MaxStreak} \subseteq Nat \ {0}
    /\ Cooldown \in Nat
    /\ FeeDivisor \in Nat \ {0, 1}
    /\ Prices \subseteq 1 .. Scale

Bars == 1 .. MaxBar

Day(b) == 1 + b \div BarsPerDay

Days == 1 .. 1 + MaxBar

Pauses == {"MANUAL", "DAILY_LOSS", "CLOCK_REWIND", "DAILY_ENTRY_LIMIT",
           "CONSECUTIVE_LOSSES"}

NoReading == [bar |-> 0, price |-> 0]

VARIABLES
    state, file,
    resumeAsked,    \* _resume_requested
    at,             \* where the worker is
    reading,        \* the snapshot of the evaluation
    engineUp,
    fills,          \* history: the fills of a bar that were saved
    bought          \* history: the buys of a day that were saved

vars == <<state, file, resumeAsked, at, reading, engineUp, fills, bought>>

(* EngineState.  The entry price is positive exactly while a position is    *)
(* held; cost 0 is an absent entry cost, day 0, lastEntry 0 and bar 0 are   *)
(* an absent date; equity -1 stands for None.                               *)
EmptyState ==
    [cash |-> StartCash, qty |-> 0, cost |-> 0, realized |-> 0,
     day |-> 0, baseline |-> -1, equity |-> -1, entries |-> 0, streak |-> 0,
     pause |-> "", lastEntry |-> 0, bar |-> 0]

EngineStates ==
    [cash : Nat, qty : Nat, cost : Nat, realized : Int,
     day : 0 .. 1 + MaxBar, baseline : {-1} \cup Nat, equity : {-1} \cup Nat,
     entries : Nat, streak : Nat, pause : {""} \cup Pauses,
     lastEntry : 0 .. MaxBar, bar : 0 .. MaxBar]

TypeOK ==
    /\ {state, file} \subseteq EngineStates
    /\ resumeAsked \in BOOLEAN
    /\ at \in {"idle", "valued", "filled"}
    /\ reading \in [bar : Bars, price : Prices] \cup {NoReading}
    /\ engineUp \in BOOLEAN
    /\ fills \in [Bars -> Nat]
    /\ bought \in [Days -> Nat]

Init ==
    /\ state = EmptyState
    /\ file = EmptyState
    /\ resumeAsked = FALSE
    /\ at = "idle"
    /\ reading = NoReading
    /\ engineUp = TRUE
    /\ fills = [b \in Bars |-> 0]
    /\ bought = [d \in Days |-> 0]

-----------------------------------------------------------------------------
Fee(amount) == amount \div FeeDivisor

Worth(qty, price) == (qty * price) \div Scale

Equity(s, price) == s.cash + Worth(s.qty, price)

Lower(a, b) == IF a < b THEN a ELSE b

(* What a BUY spends, never more than the cash; the position cap is no less *)
(* than the order size in every accepted configuration.                     *)
Spend(s) == Lower(OrderSize, s.cash)

Latch(s, cause) == [s EXCEPT !.pause = IF @ = "" THEN cause ELSE @]

(* A new UTC day: the last equity that was valued is its baseline. *)
Opened(s, day, equity) ==
    IF s.day = day
    THEN s
    ELSE [s EXCEPT !.day = day, !.entries = 0,
                   !.baseline = IF s.equity = -1 THEN equity ELSE s.equity]

(* The three limits, of which the first that is reached latches the pause. *)
Limited(s, equity) ==
    IF s.baseline - equity >= LossLimit
    THEN Latch(s, "DAILY_LOSS")
    ELSE IF s.entries >= MaxEntries
    THEN Latch(s, "DAILY_ENTRY_LIMIT")
    ELSE IF s.streak >= MaxStreak
    THEN Latch(s, "CONSECUTIVE_LOSSES")
    ELSE s

MayResume(s, equity) ==
    s.baseline - equity < LossLimit /\ s.entries < MaxEntries

(* A mutation: a resume is granted before the limits are looked at. *)
ResumedBlindly(s, equity) ==
    IF resumeAsked THEN [s EXCEPT !.pause = "", !.streak = 0] ELSE s

(* A resume clears the pause and the streak when the day still allows it. *)
Resumed(s, equity) ==
    IF resumeAsked /\ MayResume(s, equity)
    THEN [s EXCEPT !.pause = "", !.streak = 0]
    ELSE s

(* A mutation: a date that is not the saved one opens a new day. *)
RewoundNever(s, day) == FALSE

Rewound(s, day) == day < s.day

(* A mutation: the baseline follows every valuation. *)
RiskMovingBaseline(s, r) ==
    LET day    == Day(r.bar)
        equity == Equity(s, r.price)
    IN IF Rewound(s, day)
       THEN Latch(s, "CLOCK_REWIND")
       ELSE [Resumed(Limited(Opened(s, day, equity), equity), equity)
               EXCEPT !.equity = equity, !.baseline = equity]

(* _paper_risk of the memory s at the reading r. *)
Risk(s, r) ==
    LET day    == Day(r.bar)
        equity == Equity(s, r.price)
    IN IF Rewound(s, day)
       THEN Latch(s, "CLOCK_REWIND")
       ELSE [Resumed(Limited(Opened(s, day, equity), equity), equity)
               EXCEPT !.equity = equity]

(* A request is used up by a valuation, granted or not, but not by a rewind. *)
AskedAfter(r) == resumeAsked /\ Rewound(state, Day(r.bar))

(* A mutation: the cost of the sold position stays on the books. *)
SoldKeepingCost(s, r) ==
    LET gross  == Worth(s.qty, r.price)
        profit == gross - Fee(gross) - s.cost
    IN [s EXCEPT !.cash = @ + gross - Fee(gross), !.realized = @ + profit,
                 !.streak = IF profit < 0 THEN @ + 1 ELSE 0,
                 !.qty = 0, !.bar = r.bar]

(* A mutation: the bar of a sale is left to a later save. *)
SoldWithoutBar(s, r) ==
    LET gross  == Worth(s.qty, r.price)
        profit == gross - Fee(gross) - s.cost
    IN [s EXCEPT !.cash = @ + gross - Fee(gross), !.realized = @ + profit,
                 !.streak = IF profit < 0 THEN @ + 1 ELSE 0,
                 !.qty = 0, !.cost = 0]

(* A SELL closes the whole position. *)
Sold(s, r) ==
    LET gross  == Worth(s.qty, r.price)
        profit == gross - Fee(gross) - s.cost
    IN [s EXCEPT !.cash = @ + gross - Fee(gross), !.realized = @ + profit,
                 !.streak = IF profit < 0 THEN @ + 1 ELSE 0,
                 !.qty = 0, !.cost = 0, !.bar = r.bar]

Bought(s, r) ==
    [s EXCEPT !.cash = @ - Spend(s), !.cost = Spend(s),
              !.qty = ((Spend(s) - Fee(Spend(s))) * Scale) \div r.price,
              !.entries = @ + 1, !.lastEntry = r.bar, !.bar = r.bar]

-----------------------------------------------------------------------------
SaveState(s) == file' = s

SaveStateFails == file' = file

Back == at' = "idle" /\ reading' = NoReading

Idle == engineUp /\ at = "idle"

(* paper_control("pause"): the memory is paused even if the save fails. *)
PauseBuys ==
    /\ Idle
    /\ resumeAsked' = FALSE
    /\ state' = Latch(state, "MANUAL")
    /\ SaveState(state') \/ SaveStateFails
    /\ UNCHANGED <<at, reading, engineUp, fills, bought>>

(* paper_control("resume"): nothing but a request. *)
AskResume ==
    /\ Idle
    /\ resumeAsked' = TRUE
    /\ UNCHANGED <<state, file, at, reading, engineUp, fills, bought>>

(* A fresh reading is valued and saved before anything is decided.  Without *)
(* a tradable market or fresh candles an evaluation changes nothing.        *)
Value(b, p) ==
    LET r == [bar |-> b, price |-> p]
    IN /\ Idle
       /\ state' = Risk(state, r)
       /\ resumeAsked' = AskedAfter(r)
       /\ \/ SaveState(state') /\ at' = "valued" /\ reading' = r
          \/ SaveStateFails /\ UNCHANGED <<at, reading>>
       /\ UNCHANGED <<engineUp, fills, bought>>

Seen == reading.bar <= state.bar

Skip ==
    /\ at = "valued" /\ Seen
    /\ Back
    /\ UNCHANGED <<state, file, resumeAsked, engineUp, fills, bought>>

(* The strategy holds, or its BUY is stopped by a pause or the cooldown. *)
Hold ==
    /\ at = "valued" /\ ~Seen
    /\ state' = [state EXCEPT !.bar = reading.bar]
    /\ SaveState(state') \/ SaveStateFails
    /\ Back
    /\ UNCHANGED <<resumeAsked, engineUp, fills, bought>>

CoolingDown ==
    state.lastEntry # 0 /\ reading.bar - state.lastEntry < Cooldown

(* A mutation: a pause is looked at when it is shown, not when it is bought. *)
MayBuyPaused ==
    /\ at = "valued" /\ ~Seen
    /\ state.qty = 0 /\ ~CoolingDown
    /\ Spend(state) > 0

MayBuy ==
    /\ at = "valued" /\ ~Seen
    /\ state.qty = 0 /\ state.pause = "" /\ ~CoolingDown
    /\ Spend(state) > 0

(* A fill without cash raises before anything is changed. *)
NoCash ==
    /\ at = "valued" /\ ~Seen
    /\ state.qty = 0 /\ state.pause = "" /\ ~CoolingDown
    /\ Spend(state) = 0
    /\ Back
    /\ UNCHANGED <<state, file, resumeAsked, engineUp, fills, bought>>

(* A mutation: the memory keeps a fill that could not be saved. *)
FillWithoutRollback(t) ==
    \/ /\ state' = t
       /\ SaveState(t)
       /\ at' = "filled"
       /\ fills' = [fills EXCEPT ![reading.bar] = @ + 1]
       /\ UNCHANGED reading
    \/ /\ state' = t
       /\ SaveStateFails
       /\ Back
       /\ UNCHANGED fills

(* The fill and its bar are saved together, or both are rolled back. *)
Fill(t) ==
    \/ /\ state' = t
       /\ SaveState(t)
       /\ at' = "filled"
       /\ fills' = [fills EXCEPT ![reading.bar] = @ + 1]
       /\ UNCHANGED reading
    \/ /\ SaveStateFails
       /\ Back
       /\ UNCHANGED <<state, fills>>

PaperBuy ==
    /\ MayBuy
    /\ Fill(Bought(state, reading))
    /\ bought' = IF file' = file
                 THEN bought
                 ELSE [bought EXCEPT ![Day(reading.bar)] = @ + 1]
    /\ UNCHANGED <<resumeAsked, engineUp>>

PaperSell ==
    /\ at = "valued" /\ ~Seen
    /\ state.qty > 0
    /\ Fill(Sold(state, reading))
    /\ UNCHANGED <<resumeAsked, engineUp, bought>>

(* The second valuation, at the price of the fill. *)
Revalue ==
    /\ at = "filled"
    /\ state' = Risk(state, reading)
    /\ resumeAsked' = AskedAfter(reading)
    /\ SaveState(state') \/ SaveStateFails
    /\ Back
    /\ UNCHANGED <<engineUp, fills, bought>>

(* _load_state refuses every other file. *)
Loads(s) ==
    /\ s.cash >= 0 /\ s.qty >= 0
    /\ s.day = 0 <=> s.baseline = -1
    /\ s.equity = -1 \/ s.equity >= 0
    /\ s.cost # 0 => s.cost > 0 /\ s.qty > 0

Die ==
    /\ engineUp
    /\ engineUp' = FALSE
    /\ state' = EmptyState
    /\ resumeAsked' = FALSE
    /\ Back
    /\ UNCHANGED <<file, fills, bought>>

Restart ==
    /\ ~engineUp
    /\ Loads(file)
    /\ engineUp' = TRUE
    /\ state' = file
    /\ UNCHANGED <<file, resumeAsked, at, reading, fills, bought>>

Next ==
    \/ PauseBuys
    \/ AskResume
    \/ \E b \in Bars, p \in Prices : Value(b, p)
    \/ Skip
    \/ Hold
    \/ NoCash
    \/ PaperBuy
    \/ PaperSell
    \/ Revalue
    \/ Die
    \/ Restart

Spec == Init /\ [][Next]_vars

-----------------------------------------------------------------------------
(* Every saved file is one that the next start accepts (engine.py:453-517). *)
FileAlwaysLoads == Loads(file)

(* A bar is filled at most once, whichever saves fail, whenever the process *)
(* dies and however the clock jumps (engine.py:258-267).                    *)
OneFillPerBar == \A b \in Bars : fills[b] <= 1

(* A day has at most its entries, also over restarts and when the clock is  *)
(* set back to an earlier day (engine.py:181-197).                          *)
EntriesOfADay == \A d \in Days : bought[d] <= MaxEntries

(* A BUY is filled only when the saved state was not paused, and the losses *)
(* since the saved baseline and the saved streak were below their limits.   *)
BuysWithinLimits ==
    [][bought' # bought =>
         /\ file.pause = ""
         /\ file.baseline - Equity(file, reading.price) < LossLimit
         /\ file.streak < MaxStreak]_vars

(* The baseline of a day is set once: no restart, failed save, fill or      *)
(* clock set back moves it while the day lasts (engine.py:187-190).         *)
BaselineOfADay ==
    [][\/ file'.day > file.day
       \/ file'.day = file.day /\ file'.baseline = file.baseline]_vars

-----------------------------------------------------------------------------
(* The inductive invariant.  Both copies balance, and hold a position with  *)
(* its cost or neither.                                                     *)
Balanced(s) ==
    /\ s.cash + s.cost = StartCash + s.realized
    /\ s.qty > 0 <=> s.cost > 0
    /\ s.day = 0 <=> s.baseline = -1

(* The memory of a running engine holds the portfolio of the file (the      *)
(* rollback of engine.py:374-380) and is ahead of it in days and bars only. *)
MemoryAhead ==
    engineUp =>
      /\ <<state.cash, state.qty, state.cost, state.realized>>
           = <<file.cash, file.qty, file.cost, file.realized>>
      /\ file.bar <= state.bar
      /\ \/ file.day < state.day
         \/ /\ file.day = state.day
            /\ file.entries = state.entries
            /\ file.baseline = state.baseline

(* What is decided was saved, and an unpaused state is within its limits. *)
ValuedIsSaved ==
    at = "valued" =>
      /\ state = file
      /\ state.pause = "" =>
           /\ Day(reading.bar) = state.day
           /\ state.entries < MaxEntries
           /\ state.baseline - Equity(state, reading.price) < LossLimit
           /\ state.streak < MaxStreak

EvaluationIsAlive ==
    at # "idle" => engineUp /\ reading # NoReading

(* The file counts the fills of its bar and day, and none are later. *)
FilledBefore ==
    \A b \in Bars : fills[b] <= 1 /\ (b > file.bar => fills[b] = 0)

BoughtBefore ==
    \A d \in Days : /\ bought[d] <= MaxEntries
                    /\ d = file.day => bought[d] <= file.entries
                    /\ d > file.day => bought[d] = 0

IInv ==
    /\ TypeOK
    /\ Balanced(state) /\ Balanced(file)
    /\ MemoryAhead
    /\ ValuedIsSaved
    /\ EvaluationIsAlive
    /\ FilledBefore
    /\ BoughtBefore
=============================================================================
