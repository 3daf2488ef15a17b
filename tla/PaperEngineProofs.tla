-------------------------- MODULE PaperEngineProofs --------------------------
(***************************************************************************)
(* Theorems of PaperEngine, for any prices, limits, days and bars.          *)
(***************************************************************************)
EXTENDS PaperEngine, TLAPS

Readings == [bar : Bars, price : Prices]

LEMMA ConstantTypes ==
    /\ StartCash \in Nat /\ LossLimit \in Nat /\ MaxEntries \in Nat
    /\ MaxStreak \in Nat /\ 0 < MaxStreak /\ 0 < LossLimit /\ 0 < MaxEntries
    /\ MaxBar \in Nat
<1>1. /\ StartCash \in Nat \ {0} /\ LossLimit \in Nat \ {0}
      /\ MaxEntries \in Nat \ {0} /\ MaxStreak \in Nat \ {0}
      /\ MaxBar \in Nat \ {0}
  BY PaperAssumption
<1> QED
  BY <1>1

(* A bar belongs to a day. *)
LEMMA DayType == ASSUME NEW b \in Bars PROVE Day(b) \in Days
<1>1. b \in Nat /\ b <= MaxBar /\ MaxBar \in Nat /\ BarsPerDay \in Nat \ {0}
  BY PaperAssumption DEF Bars
<1> DEFINE q == b \div BarsPerDay
<1>2. q \in Nat /\ BarsPerDay * q <= b
  BY <1>1
<1>3. q <= BarsPerDay * q
  <2> HIDE DEF q
  <2> QED
    BY <1>1, <1>2
<1> HIDE DEF q
<1>4. 1 + q \in 1 .. 1 + MaxBar
  BY <1>1, <1>2, <1>3
<1> QED
  BY <1>4 DEF Day, Days, q

(* A position is worth a natural number. *)
LEMMA WorthType ==
    ASSUME NEW qty \in Nat, NEW p \in Prices
    PROVE  Worth(qty, p) \in Nat
<1>1. p \in Nat /\ Scale \in Nat \ {0}
  BY PaperAssumption
<1>2. qty * p \in Nat
  BY <1>1
<1> QED
  BY <1>1, <1>2 DEF Worth

LEMMA FeeType ==
    ASSUME NEW amount \in Nat
    PROVE  /\ Fee(amount) \in Nat
           /\ Fee(amount) <= amount
           /\ amount > 0 => Fee(amount) < amount
<1>1. FeeDivisor \in Nat /\ FeeDivisor >= 2
  BY PaperAssumption
<1> DEFINE q == amount \div FeeDivisor
<1>2. q \in Nat /\ FeeDivisor * q <= amount
  BY <1>1
<1> HIDE DEF q
<1>3. 2 * q <= FeeDivisor * q
  BY <1>1, <1>2
<1> QED
  BY <1>1, <1>2, <1>3 DEF Fee, q

(* A positive amount buys a positive quantity. *)
LEMMA QuantityPositive ==
    ASSUME NEW net \in Nat \ {0}, NEW p \in Prices
    PROVE  (net * Scale) \div p \in Nat \ {0}
<1>1. p \in Nat \ {0} /\ Scale \in Nat \ {0} /\ p <= Scale
  BY PaperAssumption
<1> DEFINE a == net * Scale
           q == a \div p
<1>2. a \in Nat /\ a >= Scale
  BY <1>1
<1> HIDE DEF a
<1>3. q \in Nat /\ a < p * q + p
  BY <1>1, <1>2
<1> HIDE DEF q
<1>4. q # 0
  BY <1>1, <1>2, <1>3
<1> QED
  BY <1>3, <1>4 DEF q, a

-----------------------------------------------------------------------------
(* What a valuation never touches. *)
Kept(s, t) ==
    /\ t.cash = s.cash /\ t.qty = s.qty /\ t.cost = s.cost
    /\ t.realized = s.realized /\ t.bar = s.bar /\ t.lastEntry = s.lastEntry

LEMMA LatchFields ==
    ASSUME NEW s \in EngineStates, NEW cause \in Pauses
    PROVE  /\ Latch(s, cause) \in EngineStates
           /\ Kept(s, Latch(s, cause))
           /\ Latch(s, cause).pause # ""
           /\ Latch(s, cause).day = s.day
           /\ Latch(s, cause).baseline = s.baseline
           /\ Latch(s, cause).entries = s.entries
           /\ Latch(s, cause).streak = s.streak
<1>1. (IF s.pause = "" THEN cause ELSE s.pause) \in {""} \cup Pauses
  BY DEF EngineStates
<1>2. Latch(s, cause) = [s EXCEPT !.pause = IF s.pause = "" THEN cause ELSE s.pause]
  BY DEF Latch
<1>3. "" \notin Pauses
  BY DEF Pauses
<1> QED
  BY <1>1, <1>2, <1>3 DEF EngineStates, Kept

LEMMA OpenedFields ==
    ASSUME NEW s \in EngineStates, NEW day \in Days, NEW equity \in Nat,
           day >= s.day
    PROVE  LET t == Opened(s, day, equity)
           IN /\ t \in EngineStates
              /\ Kept(s, t)
              /\ t.day = day
              /\ day # s.day => t.baseline \in Nat
              /\ day = s.day => t = s
<1>1. CASE s.day = day
  BY <1>1 DEF Opened, Kept
<1>2. CASE s.day # day
  <2> DEFINE base == IF s.equity = -1 THEN equity ELSE s.equity
             s1 == [s EXCEPT !.day = day]
             s2 == [s1 EXCEPT !.entries = 0]
             s3 == [s2 EXCEPT !.baseline = base]
  <2>1. day \in 0 .. 1 + MaxBar
    BY PaperAssumption DEF Days
  <2>2. base \in Nat
    BY DEF EngineStates
  <2>3. Opened(s, day, equity) = s3
    BY <1>2 DEF Opened
  <2> HIDE DEF base
  <2>4. s1 \in EngineStates /\ Kept(s, s1) /\ s1.day = day
    BY <2>1 DEF EngineStates, Kept
  <2> HIDE DEF s1
  <2>5. s2 \in EngineStates /\ Kept(s, s2) /\ s2.day = day
    BY <2>4 DEF EngineStates, Kept
  <2> HIDE DEF s2
  <2>6. s3 \in EngineStates /\ Kept(s, s3) /\ s3.day = day /\ s3.baseline = base
    BY <2>2, <2>5 DEF EngineStates, Kept
  <2> QED
    BY <1>2, <2>2, <2>3, <2>6
<1> QED
  BY <1>1, <1>2

(* What the limits and a resume leave alone. *)
SameDay(s, t) ==
    /\ Kept(s, t)
    /\ t.day = s.day /\ t.baseline = s.baseline /\ t.entries = s.entries

WithinLimits(s, equity) ==
    /\ s.baseline - equity < LossLimit
    /\ s.entries < MaxEntries
    /\ s.streak < MaxStreak

LEMMA LimitedFields ==
    ASSUME NEW s \in EngineStates, NEW equity \in Nat
    PROVE  LET t == Limited(s, equity)
           IN /\ t \in EngineStates
              /\ SameDay(s, t)
              /\ t.streak = s.streak
              /\ t.pause = "" => WithinLimits(t, equity)
<1>1. {"DAILY_LOSS", "DAILY_ENTRY_LIMIT", "CONSECUTIVE_LOSSES"} \subseteq Pauses
  BY DEF Pauses
<1>2. /\ s.baseline \in Int /\ s.entries \in Nat /\ s.streak \in Nat
      /\ LossLimit \in Nat /\ MaxEntries \in Nat /\ MaxStreak \in Nat
  <2>1. s.baseline \in {-1} \cup Nat /\ s.entries \in Nat /\ s.streak \in Nat
    BY DEF EngineStates
  <2> QED
    BY <2>1, PaperAssumption
<1>3. ASSUME NEW cause \in Pauses, Limited(s, equity) = Latch(s, cause)
      PROVE  /\ Limited(s, equity) \in EngineStates
             /\ SameDay(s, Limited(s, equity))
             /\ Limited(s, equity).streak = s.streak
             /\ Limited(s, equity).pause # ""
  <2>1. /\ Latch(s, cause) \in EngineStates /\ SameDay(s, Latch(s, cause))
        /\ Latch(s, cause).streak = s.streak /\ Latch(s, cause).pause # ""
    BY LatchFields DEF SameDay
  <2> QED
    BY <1>3, <2>1
<1>4. CASE WithinLimits(s, equity)
  <2>1. Limited(s, equity) = s
    BY <1>2, <1>4 DEF Limited, WithinLimits
  <2> QED
    BY <1>4, <2>1 DEF SameDay, Kept
<1>5. CASE ~WithinLimits(s, equity)
  <2>1. \E cause \in Pauses : Limited(s, equity) = Latch(s, cause)
    BY <1>1, <1>2, <1>5 DEF Limited, WithinLimits
  <2> QED
    BY <1>3, <2>1
<1> QED
  BY <1>4, <1>5

LEMMA ResumedFields ==
    ASSUME NEW s \in EngineStates, NEW equity \in Nat,
           s.pause = "" => WithinLimits(s, equity)
    PROVE  LET t == Resumed(s, equity)
           IN /\ t \in EngineStates
              /\ SameDay(s, t)
              /\ t.pause = "" => WithinLimits(t, equity)
<1>1. CASE resumeAsked /\ MayResume(s, equity)
  <2> DEFINE s1 == [s EXCEPT !.pause = ""]
             s2 == [s1 EXCEPT !.streak = 0]
  <2>1. Resumed(s, equity) = s2
    BY <1>1 DEF Resumed
  <2>2. s1 \in EngineStates /\ SameDay(s, s1)
    BY DEF EngineStates, SameDay, Kept
  <2> HIDE DEF s1
  <2>3. s2 \in EngineStates /\ SameDay(s, s2) /\ s2.streak = 0
    BY <2>2 DEF EngineStates, SameDay, Kept
  <2> HIDE DEF s2
  <2>4. s2.baseline = s.baseline /\ s2.entries = s.entries /\ s2.streak = 0
    BY <2>3 DEF SameDay
  <2>5. WithinLimits(s2, equity)
    BY <1>1, <2>4, ConstantTypes DEF MayResume, WithinLimits
  <2> QED
    BY <2>1, <2>3, <2>5
<1>2. CASE ~(resumeAsked /\ MayResume(s, equity))
  BY <1>2 DEF Resumed, SameDay, Kept
<1> QED
  BY <1>1, <1>2

(* A valuation keeps the portfolio, moves the day forward only, opens the   *)
(* baseline with the day, and leaves no unpaused state beyond its limits.   *)
LEMMA RiskFields ==
    ASSUME NEW s \in EngineStates, NEW r \in Readings
    PROVE  LET t == Risk(s, r)
           IN /\ t \in EngineStates
              /\ Kept(s, t)
              /\ \/ SameDay(s, t)
                 \/ t.day > s.day /\ t.baseline \in Nat
              /\ t.pause = "" => /\ t.day = Day(r.bar)
                                 /\ WithinLimits(t, Equity(t, r.price))
<1> DEFINE day == Day(r.bar)
           equity == Equity(s, r.price)
           opened == Opened(s, day, equity)
           limited == Limited(opened, equity)
           resumed == Resumed(limited, equity)
<1>1. r.bar \in Bars /\ r.price \in Prices
  BY DEF Readings
<1>2. day \in Days /\ day \in Nat /\ s.day \in Nat
  <2>1. day \in Days
    BY <1>1, DayType
  <2>2. s.day \in 0 .. 1 + MaxBar /\ MaxBar \in Nat
    BY PaperAssumption DEF EngineStates
  <2> HIDE DEF day
  <2> QED
    BY <2>1, <2>2 DEF Days
<1>3. equity \in Nat
  <2>1. s.cash \in Nat /\ s.qty \in Nat
    BY DEF EngineStates
  <2>2. Worth(s.qty, r.price) \in Nat
    BY <1>1, <2>1, WorthType
  <2> QED
    BY <2>1, <2>2 DEF Equity
<1>4. CASE Rewound(s, day)
  <2> DEFINE t == Latch(s, "CLOCK_REWIND")
  <2>1. Risk(s, r) = t
    BY <1>4 DEF Risk
  <2>2. "CLOCK_REWIND" \in Pauses
    BY DEF Pauses
  <2>3. t \in EngineStates /\ SameDay(s, t) /\ Kept(s, t) /\ t.pause # ""
    BY <2>2, LatchFields DEF SameDay
  <2> HIDE DEF t
  <2> QED
    BY <2>1, <2>3
<1>5. CASE ~Rewound(s, day)
  <2> DEFINE t == [resumed EXCEPT !.equity = equity]
  <2>1. Risk(s, r) = t
    BY <1>5 DEF Risk
  <2>2. day >= s.day
    BY <1>2, <1>5 DEF Rewound
  <2> HIDE DEF day, equity
  <2>3. /\ opened \in EngineStates /\ Kept(s, opened) /\ opened.day = day
        /\ day # s.day => opened.baseline \in Nat
        /\ day = s.day => opened = s
    BY <1>2, <1>3, <2>2, OpenedFields
  <2> HIDE DEF opened
  <2>4. /\ limited \in EngineStates /\ SameDay(opened, limited)
        /\ limited.pause = "" => WithinLimits(limited, equity)
    BY <1>3, <2>3, LimitedFields
  <2> HIDE DEF limited
  <2>5. /\ resumed \in EngineStates /\ SameDay(limited, resumed)
        /\ resumed.pause = "" => WithinLimits(resumed, equity)
    BY <1>3, <2>4, ResumedFields
  <2> HIDE DEF resumed
  <2>6. /\ t \in EngineStates /\ SameDay(resumed, t)
        /\ t.streak = resumed.streak /\ t.pause = resumed.pause
    BY <1>3, <2>5 DEF EngineStates, SameDay, Kept
  <2> HIDE DEF t
  <2>7. SameDay(opened, t)
    BY <2>4, <2>5, <2>6 DEF SameDay, Kept
  <2>8. Kept(s, t) /\ t.day = day
    BY <2>3, <2>7 DEF SameDay, Kept
  <2>9. SameDay(s, t) \/ (t.day > s.day /\ t.baseline \in Nat)
    BY <1>2, <2>2, <2>3, <2>7, <2>8 DEF SameDay
  <2>10. Equity(t, r.price) = equity
    BY <2>8 DEF Kept, Equity, equity
  <2>11. ASSUME t.pause = "" PROVE WithinLimits(t, equity)
    BY <2>5, <2>6, <2>11 DEF WithinLimits, SameDay
  <2> QED
    BY <2>1, <2>6, <2>8, <2>9, <2>10, <2>11 DEF day
<1> QED
  BY <1>4, <1>5
-----------------------------------------------------------------------------
(* A fill keeps the types, the balance and the day. *)
LEMMA SoldFields ==
    ASSUME NEW s \in EngineStates, NEW r \in Readings, Balanced(s)
    PROVE  LET t == Sold(s, r)
           IN /\ t \in EngineStates
              /\ Balanced(t)
              /\ t.bar = r.bar /\ t.day = s.day
              /\ t.baseline = s.baseline /\ t.entries = s.entries
<1> DEFINE gross  == Worth(s.qty, r.price)
           fee    == Fee(gross)
           profit == gross - fee - s.cost
           streak == IF profit < 0 THEN s.streak + 1 ELSE 0
           s1 == [s EXCEPT !.cash = s.cash + gross - fee]
           s2 == [s1 EXCEPT !.realized = s.realized + profit]
           s3 == [s2 EXCEPT !.streak = streak]
           s4 == [s3 EXCEPT !.qty = 0]
           s5 == [s4 EXCEPT !.cost = 0]
           s6 == [s5 EXCEPT !.bar = r.bar]
<1>1. /\ s.cash \in Nat /\ s.qty \in Nat /\ s.cost \in Nat /\ s.realized \in Int
      /\ s.streak \in Nat
  BY DEF EngineStates
<1>2. r.price \in Prices /\ r.bar \in 0 .. MaxBar
  BY PaperAssumption DEF Readings, Bars
<1>3. gross \in Nat /\ fee \in Nat /\ fee <= gross
  BY <1>1, <1>2, WorthType, FeeType
<1>4. Sold(s, r) = s6
  BY DEF Sold
<1> HIDE DEF gross, fee
<1>5. s.cash + gross - fee \in Nat /\ profit \in Int /\ streak \in Nat
  BY <1>1, <1>3
<1>6. s.cash + gross - fee = StartCash + (s.realized + profit)
  BY <1>1, <1>3, ConstantTypes DEF Balanced
<1>10. s.realized + profit \in Int
  BY <1>1, <1>5
<1> HIDE DEF profit, streak
<1>7. s6 \in EngineStates
  <2>1. s1 \in EngineStates
    BY <1>5 DEF EngineStates
  <2> HIDE DEF s1
  <2>2. s2 \in EngineStates
    BY <1>10, <2>1 DEF EngineStates
  <2> HIDE DEF s2
  <2>3. s3 \in EngineStates
    BY <1>5, <2>2 DEF EngineStates
  <2> HIDE DEF s3
  <2>4. s4 \in EngineStates
    BY <2>3 DEF EngineStates
  <2> HIDE DEF s4
  <2>5. s5 \in EngineStates
    BY <2>4 DEF EngineStates
  <2> HIDE DEF s5
  <2> QED
    BY <1>2, <2>5 DEF EngineStates
<1>8. /\ s6.cash = s.cash + gross - fee /\ s6.realized = s.realized + profit
      /\ s6.qty = 0 /\ s6.cost = 0 /\ s6.bar = r.bar /\ s6.day = s.day
      /\ s6.baseline = s.baseline /\ s6.entries = s.entries
  BY DEF EngineStates
<1> HIDE DEF s6
<1>9. Balanced(s6)
  BY <1>5, <1>6, <1>8 DEF Balanced
<1> QED
  BY <1>4, <1>7, <1>8, <1>9

LEMMA BoughtFields ==
    ASSUME NEW s \in EngineStates, NEW r \in Readings, Balanced(s),
           s.qty = 0, Spend(s) > 0
    PROVE  LET t == Bought(s, r)
           IN /\ t \in EngineStates
              /\ Balanced(t)
              /\ t.bar = r.bar /\ t.day = s.day
              /\ t.baseline = s.baseline /\ t.entries = s.entries + 1
<1> DEFINE spend == Spend(s)
           qty == ((spend - Fee(spend)) * Scale) \div r.price
           s1 == [s EXCEPT !.cash = s.cash - spend]
           s2 == [s1 EXCEPT !.cost = spend]
           s3 == [s2 EXCEPT !.qty = qty]
           s4 == [s3 EXCEPT !.entries = s.entries + 1]
           s5 == [s4 EXCEPT !.lastEntry = r.bar]
           s6 == [s5 EXCEPT !.bar = r.bar]
<1>1. /\ s.cash \in Nat /\ s.cost \in Nat /\ s.realized \in Int
      /\ s.entries \in Nat
  BY DEF EngineStates
<1>2. r.price \in Prices /\ r.bar \in 0 .. MaxBar
  BY PaperAssumption DEF Readings, Bars
<1>3. spend \in Nat \ {0} /\ spend <= s.cash
  <2>1. OrderSize \in Nat
    BY PaperAssumption
  <2> QED
    BY <1>1, <2>1 DEF Spend, Lower
<1>4. qty \in Nat \ {0}
  <2> HIDE DEF spend
  <2> DEFINE net == spend - Fee(spend)
  <2>1. net \in Nat \ {0}
    BY <1>3, FeeType
  <2> HIDE DEF net
  <2>2. (net * Scale) \div r.price \in Nat \ {0}
    BY <1>2, <2>1, QuantityPositive
  <2> QED
    BY <2>2 DEF net
<1>5. Bought(s, r) = s6
  BY DEF Bought
<1> HIDE DEF spend, qty
<1>10. s.cash - spend \in Nat /\ s.entries + 1 \in Nat
  BY <1>1, <1>3
<1>6. s6 \in EngineStates
  <2>1. s1 \in EngineStates
    BY <1>10 DEF EngineStates
  <2> HIDE DEF s1
  <2>2. s2 \in EngineStates
    BY <1>3, <2>1 DEF EngineStates
  <2> HIDE DEF s2
  <2>3. s3 \in EngineStates
    BY <1>4, <2>2 DEF EngineStates
  <2> HIDE DEF s3
  <2>4. s4 \in EngineStates
    BY <1>10, <2>3 DEF EngineStates
  <2> HIDE DEF s4
  <2>5. s5 \in EngineStates
    BY <1>2, <2>4 DEF EngineStates
  <2> HIDE DEF s5
  <2> QED
    BY <1>2, <2>5 DEF EngineStates
<1>7. /\ s6.cash = s.cash - spend /\ s6.realized = s.realized
      /\ s6.qty = qty /\ s6.cost = spend /\ s6.bar = r.bar /\ s6.day = s.day
      /\ s6.baseline = s.baseline /\ s6.entries = s.entries + 1
  BY DEF EngineStates
<1> HIDE DEF s6
<1>8. s.cost = 0
  BY <1>1 DEF Balanced
<1>9. Balanced(s6)
  <2>1. s.cash - spend + spend = StartCash + s.realized
    BY <1>1, <1>3, <1>8, ConstantTypes DEF Balanced
  <2>2. qty > 0 /\ spend > 0
    BY <1>3, <1>4
  <2> QED
    BY <1>7, <2>1, <2>2 DEF Balanced
<1> QED
  BY <1>5, <1>6, <1>7, <1>9
-----------------------------------------------------------------------------
LEMMA StateFacts ==
    ASSUME NEW s \in EngineStates
    PROVE  /\ s.bar \in Nat /\ s.day \in Nat /\ s.entries \in Nat
           /\ s.baseline \in Int
<1>1. /\ s.bar \in 0 .. MaxBar /\ s.day \in 0 .. 1 + MaxBar
      /\ s.entries \in Nat /\ s.baseline \in {-1} \cup Nat
  BY DEF EngineStates
<1>2. MaxBar \in Nat
  BY ConstantTypes
<1> QED
  BY <1>1, <1>2

LEMMA EmptyIsTyped == EmptyState \in EngineStates /\ Balanced(EmptyState)
<1>1. 0 \in 0 .. MaxBar /\ 0 \in 0 .. 1 + MaxBar
  BY ConstantTypes
<1>2. EmptyState \in EngineStates
  BY <1>1, ConstantTypes DEF EmptyState, EngineStates
<1>3. Balanced(EmptyState)
  BY ConstantTypes DEF EmptyState, Balanced
<1> QED
  BY <1>2, <1>3

LEMMA InitIInv == Init => IInv
<1> SUFFICES ASSUME Init PROVE IInv
  OBVIOUS
<1>1. TypeOK /\ Balanced(state) /\ Balanced(file)
  <2>1. DOMAIN fills = Bars /\ fills \in [Bars -> Nat] /\ bought \in [Days -> Nat]
    BY DEF Init
  <2> QED
    BY <2>1, EmptyIsTyped DEF Init, TypeOK
<1>2. MemoryAhead
  <2>1. state = file /\ file.bar \in Nat
    BY EmptyIsTyped, StateFacts DEF Init
  <2> QED
    BY <2>1 DEF MemoryAhead
<1>3. ValuedIsSaved /\ EvaluationIsAlive
  BY DEF Init, ValuedIsSaved, EvaluationIsAlive
<1>4. FilledBefore /\ BoughtBefore
  <2>1. \A b \in Bars : fills[b] = 0
    BY DEF Init
  <2>2. \A d \in Days : bought[d] = 0
    BY DEF Init
  <2>3. file.entries \in Nat
    BY EmptyIsTyped, StateFacts DEF Init
  <2> QED
    BY <2>1, <2>2, <2>3, ConstantTypes DEF FilledBefore, BoughtBefore
<1> QED
  BY <1>1, <1>2, <1>3, <1>4 DEF IInv

(* What a step does to the memory and the file when nothing is filled: the  *)
(* portfolio stays, days and bars move forward, a new day has a baseline.   *)
Moves(s, t) ==
    /\ t \in EngineStates
    /\ t.cash = s.cash /\ t.qty = s.qty /\ t.cost = s.cost
    /\ t.realized = s.realized
    /\ t.bar >= s.bar
    /\ \/ t.day = s.day /\ t.baseline = s.baseline /\ t.entries = s.entries
       \/ t.day > s.day /\ t.baseline \in Nat

LEMMA MovesBalanced ==
    ASSUME NEW s \in EngineStates, NEW t, Moves(s, t), Balanced(s)
    PROVE  Balanced(t)
<1>1. s.day \in Nat
  BY StateFacts
<1> QED
  BY <1>1 DEF Moves, Balanced

(* Such a step keeps the parts of the invariant that speak of both copies   *)
(* and of the history.                                                      *)
LEMMA QuietStep ==
    ASSUME IInv, engineUp, engineUp', UNCHANGED <<fills, bought>>,
           Moves(state, state'), file' \in {file, state'},
           resumeAsked' \in BOOLEAN
    PROVE  /\ {state', file'} \subseteq EngineStates
           /\ Balanced(state)' /\ Balanced(file)'
           /\ MemoryAhead' /\ FilledBefore' /\ BoughtBefore'
<1> USE DEF IInv
<1>1. /\ state \in EngineStates /\ file \in EngineStates
      /\ state' \in EngineStates /\ file' \in EngineStates
  BY DEF TypeOK, Moves
<1>2. Balanced(state)' /\ Balanced(file)'
  <2>1. Balanced(state')
    BY <1>1, MovesBalanced
  <2> QED
    BY <2>1 DEF Balanced
<1>3. /\ state.bar \in Nat /\ file.bar \in Nat /\ state'.bar \in Nat
      /\ state.day \in Nat /\ file.day \in Nat /\ state'.day \in Nat
      /\ file.entries \in Nat
  BY <1>1, StateFacts
<1>4. MemoryAhead'
  BY <1>3 DEF MemoryAhead, Moves
<1>5. /\ file'.bar >= file.bar
      /\ \/ file'.day = file.day /\ file'.entries = file.entries
         \/ file'.day > file.day
  BY <1>3 DEF MemoryAhead, Moves
<1>6. file'.bar \in Nat /\ file'.day \in Nat /\ \A d \in Days : d \in Nat
  BY <1>1, StateFacts DEF Days
<1>7. ASSUME NEW b \in Bars PROVE fills'[b] <= 1 /\ (b > file'.bar => fills'[b] = 0)
  BY <1>3, <1>5, <1>6 DEF FilledBefore, Bars
<1>8. ASSUME NEW d \in Days
      PROVE  /\ bought'[d] <= MaxEntries
             /\ d = file'.day => bought'[d] <= file'.entries
             /\ d > file'.day => bought'[d] = 0
  <2>1. /\ bought'[d] <= MaxEntries
        /\ d > file'.day => bought'[d] = 0
    BY <1>3, <1>5, <1>6 DEF BoughtBefore
  <2>2. ASSUME d = file'.day PROVE bought'[d] <= file'.entries
    <3>1. CASE file'.day = file.day /\ file'.entries = file.entries
      BY <2>2, <3>1 DEF BoughtBefore
    <3>2. CASE file'.day > file.day
      <4>1. bought'[d] = 0
        BY <1>3, <1>6, <2>2, <3>2 DEF BoughtBefore
      <4>2. file'.entries \in Nat
        BY <1>1 DEF EngineStates
      <4> QED
        BY <4>1, <4>2
    <3> QED
      BY <1>5, <3>1, <3>2
  <2> QED
    BY <2>1, <2>2
<1>9. FilledBefore' /\ BoughtBefore'
  BY <1>7, <1>8 DEF FilledBefore, BoughtBefore
<1> QED
  BY <1>1, <1>2, <1>4, <1>9

(* Valuations, pauses and noted bars are such steps. *)
LEMMA RiskMoves ==
    ASSUME NEW s \in EngineStates, NEW r \in Readings
    PROVE  Moves(s, Risk(s, r))
<1>1. s.bar \in Nat
  BY StateFacts
<1>2. LET t == Risk(s, r)
      IN /\ t \in EngineStates
         /\ Kept(s, t)
         /\ SameDay(s, t) \/ (t.day > s.day /\ t.baseline \in Nat)
  BY RiskFields
<1> QED
  BY <1>1, <1>2 DEF Moves, Kept, SameDay

LEMMA PauseMoves ==
    ASSUME NEW s \in EngineStates
    PROVE  Moves(s, Latch(s, "MANUAL"))
<1> DEFINE t == Latch(s, "MANUAL")
<1>1. "MANUAL" \in Pauses /\ s.bar \in Nat
  BY StateFacts DEF Pauses
<1>2. /\ t \in EngineStates /\ Kept(s, t) /\ t.day = s.day
      /\ t.baseline = s.baseline /\ t.entries = s.entries
  BY <1>1, LatchFields
<1> HIDE DEF t
<1>3. Moves(s, t)
  BY <1>1, <1>2 DEF Moves, Kept
<1> QED
  BY <1>3 DEF t

LEMMA BarMoves ==
    ASSUME NEW s \in EngineStates, NEW b \in Bars, b > s.bar
    PROVE  Moves(s, [s EXCEPT !.bar = b])
<1> DEFINE t == [s EXCEPT !.bar = b]
<1>1. b \in 0 .. MaxBar /\ b \in Nat /\ s.bar \in Nat
  BY StateFacts DEF Bars
<1>2. /\ t \in EngineStates /\ t.bar = b
      /\ t.cash = s.cash /\ t.qty = s.qty /\ t.cost = s.cost
      /\ t.realized = s.realized /\ t.day = s.day
      /\ t.baseline = s.baseline /\ t.entries = s.entries
  BY <1>1 DEF EngineStates
<1> HIDE DEF t
<1>3. Moves(s, t)
  BY <1>1, <1>2 DEF Moves
<1> QED
  BY <1>3 DEF t

LEMMA StayMoves == ASSUME NEW s \in EngineStates PROVE Moves(s, s)
<1>1. s.bar \in Nat
  BY StateFacts
<1> QED
  BY <1>1 DEF Moves

(* A reading that is no reading is none. *)
LEMMA AliveReading ==
    ASSUME IInv, at # "idle"
    PROVE  engineUp /\ reading \in Readings /\ reading.bar \in Bars
BY DEF IInv, EvaluationIsAlive, TypeOK, Readings

(* The parts that speak of the worker, when it is idle or as it was. *)
LEMMA RestingWorker ==
    ASSUME IInv, UNCHANGED <<engineUp, fills, bought>>,
           \/ Back
           \/ UNCHANGED <<at, reading>> /\ at = "idle"
           \/ UNCHANGED <<at, reading, state, file>>,
           {state', file'} \subseteq EngineStates, resumeAsked' \in BOOLEAN
    PROVE  TypeOK' /\ ValuedIsSaved' /\ EvaluationIsAlive'
<1> USE DEF IInv
<1>1. TypeOK'
  BY DEF TypeOK, Back, EngineStates
<1>2. ValuedIsSaved' /\ EvaluationIsAlive'
  <2>1. CASE Back
    BY <2>1 DEF Back, ValuedIsSaved, EvaluationIsAlive
  <2>2. CASE UNCHANGED <<at, reading>> /\ at = "idle"
    BY <2>2 DEF ValuedIsSaved, EvaluationIsAlive
  <2>3. CASE UNCHANGED <<at, reading, state, file>>
    BY <2>3 DEF ValuedIsSaved, EvaluationIsAlive, WithinLimits, Equity
  <2> QED
    BY <2>1, <2>2, <2>3
<1> QED
  BY <1>1, <1>2

(* Steps that leave both copies alone. *)
LEMMA NothingSaved ==
    ASSUME IInv, UNCHANGED <<state, file, engineUp, fills, bought>>,
           Back \/ UNCHANGED <<at, reading>>, resumeAsked' \in BOOLEAN
    PROVE  IInv'
<1>1. TypeOK' /\ ValuedIsSaved' /\ EvaluationIsAlive'
  BY RestingWorker DEF IInv, TypeOK
<1>2. /\ Balanced(state)' /\ Balanced(file)' /\ MemoryAhead' /\ FilledBefore'
      /\ BoughtBefore'
  BY DEF IInv, Balanced, MemoryAhead, FilledBefore, BoughtBefore
<1> QED
  BY <1>1, <1>2 DEF IInv

(* A fill is saved with its bar, which no fill had, and a buy is counted by *)
(* the state whose limits allowed it.                                       *)
FillCounted ==
    /\ fills' = [fills EXCEPT ![reading.bar] = @ + 1]
    /\ UNCHANGED <<reading, resumeAsked, engineUp>>
    /\ at' = "filled"

BuyCounted(t) ==
    \/ bought' = bought /\ t.entries = state.entries
    \/ /\ bought' = [bought EXCEPT ![Day(reading.bar)] = @ + 1]
       /\ t.entries = state.entries + 1
       /\ state.pause = ""

LEMMA SavedFill ==
    ASSUME IInv, at = "valued", ~Seen, NEW t \in EngineStates, Balanced(t),
           state' = t, file' = t, FillCounted, BuyCounted(t),
           t.bar = reading.bar, t.day = state.day, t.baseline = state.baseline
    PROVE  IInv'
<1>1. /\ engineUp /\ reading \in Readings /\ reading.bar \in Bars
      /\ Day(reading.bar) \in Days
  BY AliveReading, DayType
<1>2. /\ state = file /\ state \in EngineStates
      /\ fills \in [Bars -> Nat] /\ bought \in [Days -> Nat]
  BY DEF IInv, ValuedIsSaved, TypeOK
<1>3. /\ state.bar \in Nat /\ state.day \in Nat /\ state.entries \in Nat
      /\ reading.bar \in Nat
  BY <1>1, <1>2, StateFacts DEF Bars
<1>4. state.bar < reading.bar
  BY <1>3 DEF Seen
<1> DEFINE today == state.day
<1>5. \/ bought' = bought /\ t.entries = state.entries
      \/ /\ bought' = [bought EXCEPT ![today] = @ + 1]
         /\ today \in Days
         /\ state.entries < MaxEntries /\ t.entries = state.entries + 1
  BY <1>1 DEF IInv, ValuedIsSaved, BuyCounted
<1> HIDE DEF today
<1>6. TypeOK'
  <2>1. fills' \in [Bars -> Nat]
    BY <1>1, <1>2 DEF FillCounted
  <2>2. bought' \in [Days -> Nat]
    BY <1>2, <1>5
  <2> QED
    BY <2>1, <2>2 DEF IInv, TypeOK, EngineStates, FillCounted
<1>7. Balanced(state)' /\ Balanced(file)'
  BY DEF Balanced
<1>8. MemoryAhead'
  BY <1>3 DEF MemoryAhead
<1>9. ValuedIsSaved' /\ EvaluationIsAlive'
  BY <1>1 DEF IInv, ValuedIsSaved, EvaluationIsAlive, FillCounted
<1>10. FilledBefore'
  <2> DEFINE bar == reading.bar
  <2>1. bar \in Bars /\ bar \in Nat /\ state.bar < bar /\ t.bar = bar
    BY <1>1, <1>3, <1>4
  <2>2. fills' = [fills EXCEPT ![bar] = @ + 1]
    BY DEF FillCounted
  <2> HIDE DEF bar
  <2>3. fills[bar] = 0
    BY <1>2, <2>1 DEF IInv, FilledBefore
  <2>4. fills'[bar] = 1 /\ \A b \in Bars \ {bar} : fills'[b] = fills[b]
    BY <1>2, <2>1, <2>2, <2>3
  <2>5. \A b \in Bars : b \in Nat
    BY DEF Bars
  <2>6. ASSUME NEW b \in Bars, b # bar
        PROVE  fills[b] <= 1 /\ (b > bar => fills[b] = 0)
    <3>1. fills[b] <= 1 /\ (b > state.bar => fills[b] = 0)
      BY <1>2 DEF IInv, FilledBefore
    <3> QED
      BY <1>3, <2>1, <2>5, <3>1
  <2>7. ASSUME NEW b \in Bars
        PROVE  fills'[b] <= 1 /\ (b > bar => fills'[b] = 0)
    BY <2>1, <2>4, <2>6
  <2> QED
    BY <2>1, <2>7 DEF FilledBefore
<1>11. BoughtBefore'
  <2>1. CASE bought' = bought /\ t.entries = state.entries
    BY <1>2, <2>1 DEF IInv, BoughtBefore
  <2>2. CASE /\ bought' = [bought EXCEPT ![today] = @ + 1]
             /\ today \in Days
             /\ state.entries < MaxEntries /\ t.entries = state.entries + 1
    <3>1. bought[today] <= state.entries /\ bought[today] \in Nat
      BY <1>2, <2>2 DEF IInv, BoughtBefore, today
    <3>2. /\ bought'[today] = bought[today] + 1
          /\ \A d \in Days \ {today} : bought'[d] = bought[d]
      BY <1>2, <2>2
    <3>3. today \in Nat /\ t.day = today /\ state.day = today
      BY <1>3 DEF today
    <3>4. ASSUME NEW d \in Days, d # today
          PROVE  bought[d] <= MaxEntries /\ (d > today => bought[d] = 0)
      BY <1>2, <3>3, <3>4 DEF IInv, BoughtBefore
    <3>5. bought'[today] <= t.entries /\ bought'[today] <= MaxEntries
      BY <1>3, <2>2, <3>1, <3>2, ConstantTypes
    <3>6. ASSUME NEW d \in Days
          PROVE  /\ bought'[d] <= MaxEntries
                 /\ d = today => bought'[d] <= t.entries
                 /\ d > today => bought'[d] = 0
      BY <3>2, <3>3, <3>4, <3>5
    <3> QED
      BY <3>3, <3>6 DEF BoughtBefore
  <2> QED
    BY <1>5, <2>1, <2>2
<1> QED
  BY <1>6, <1>7, <1>8, <1>9, <1>10, <1>11 DEF IInv

LEMMA NextIInv == IInv /\ [Next]_vars => IInv'
<1> SUFFICES ASSUME IInv, [Next]_vars PROVE IInv'
  OBVIOUS
<1>1. /\ state \in EngineStates /\ file \in EngineStates
      /\ resumeAsked \in BOOLEAN /\ Balanced(state) /\ Balanced(file)
  BY DEF IInv, TypeOK
<1>2. ASSUME engineUp, engineUp', UNCHANGED <<engineUp, fills, bought>>,
             Moves(state, state'), file' \in {file, state'},
             Back \/ (UNCHANGED <<at, reading>> /\ at = "idle"),
             resumeAsked' \in BOOLEAN
      PROVE  IInv'
  <2>1. /\ {state', file'} \subseteq EngineStates
        /\ Balanced(state)' /\ Balanced(file)'
        /\ MemoryAhead' /\ FilledBefore' /\ BoughtBefore'
    BY <1>2, QuietStep
  <2>2. TypeOK' /\ ValuedIsSaved' /\ EvaluationIsAlive'
    BY <1>2, <2>1, RestingWorker
  <2> QED
    BY <2>1, <2>2 DEF IInv
<1>3. CASE UNCHANGED vars \/ AskResume \/ Skip \/ NoCash
  <2>1. /\ UNCHANGED <<state, file, engineUp, fills, bought>>
        /\ Back \/ UNCHANGED <<at, reading>>
        /\ resumeAsked' \in BOOLEAN
    BY <1>1, <1>3 DEF vars, AskResume, Skip, NoCash
  <2> QED
    BY <2>1, NothingSaved
<1>4. CASE PauseBuys
  <2>1. Moves(state, state')
    BY <1>1, <1>4, PauseMoves DEF PauseBuys
  <2> QED
    BY <1>2, <1>4, <2>1 DEF PauseBuys, Idle, SaveState, SaveStateFails
<1>5. ASSUME NEW b \in Bars, NEW p \in Prices, Value(b, p) PROVE IInv'
  <2> DEFINE r == [bar |-> b, price |-> p]
  <2>1. r \in Readings /\ r.bar = b /\ r.price = p
    BY DEF Readings
  <2>2. /\ Idle /\ state' = Risk(state, r)
        /\ resumeAsked' = AskedAfter(r)
        /\ \/ SaveState(state') /\ at' = "valued" /\ reading' = r
           \/ SaveStateFails /\ UNCHANGED <<at, reading>>
        /\ UNCHANGED <<engineUp, fills, bought>>
    BY <1>5 DEF Value
  <2> HIDE DEF r
  <2>3. Moves(state, state')
    BY <1>1, <2>1, <2>2, RiskMoves
  <2>4. resumeAsked' \in BOOLEAN
    BY <1>1, <2>2 DEF AskedAfter, Rewound
  <2>5. CASE SaveStateFails /\ UNCHANGED <<at, reading>>
    BY <1>2, <2>2, <2>3, <2>4, <2>5 DEF Idle, SaveStateFails
  <2>6. CASE SaveState(state') /\ at' = "valued" /\ reading' = r
    <3>1. /\ {state', file'} \subseteq EngineStates
          /\ Balanced(state)' /\ Balanced(file)'
          /\ MemoryAhead' /\ FilledBefore' /\ BoughtBefore'
      BY <2>2, <2>3, <2>4, <2>6, QuietStep DEF SaveState, Idle
    <3>2. TypeOK'
      BY <2>1, <2>2, <2>4, <2>6, <3>1 DEF IInv, TypeOK, Readings
    <3>3. EvaluationIsAlive'
      <4>1. r # NoReading
        <5>1. r.bar # 0 /\ NoReading.bar = 0
          BY <2>1 DEF Bars, NoReading
        <5> QED
          BY <5>1
      <4> QED
        BY <2>2, <2>6, <4>1 DEF EvaluationIsAlive, Idle
    <3>4. ValuedIsSaved'
      <4>1. state' = file'
        BY <2>6 DEF SaveState
      <4>2. ASSUME state'.pause = ""
            PROVE  /\ state'.day = Day(r.bar)
                   /\ WithinLimits(state', Equity(state', r.price))
        BY <1>1, <2>1, <2>2, <4>2, RiskFields
      <4> QED
        BY <2>6, <4>1, <4>2 DEF ValuedIsSaved, WithinLimits, Equity
    <3> QED
      BY <3>1, <3>2, <3>3, <3>4 DEF IInv
  <2> QED
    BY <2>2, <2>5, <2>6
<1>6. CASE Hold
  <2>1. engineUp /\ reading.bar \in Bars /\ reading.bar > state.bar
    <3>1. state.bar \in Nat
      BY <1>1, StateFacts
    <3>2. engineUp /\ reading.bar \in Bars
      BY <1>6, AliveReading DEF Hold
    <3>3. reading.bar \in Nat /\ ~(reading.bar <= state.bar)
      BY <1>6, <3>2 DEF Hold, Seen, Bars
    <3> QED
      BY <3>1, <3>2, <3>3
  <2>2. Moves(state, state')
    BY <1>1, <1>6, <2>1, BarMoves DEF Hold
  <2> QED
    BY <1>1, <1>2, <1>6, <2>1, <2>2 DEF Hold, SaveState, SaveStateFails
<1>7. CASE PaperBuy
  <2> DEFINE t == Bought(state, reading)
  <2>1. reading \in Readings /\ Day(reading.bar) \in Days
    BY <1>7, AliveReading, DayType DEF PaperBuy, MayBuy
  <2>2. /\ t \in EngineStates /\ Balanced(t) /\ t.bar = reading.bar
        /\ t.day = state.day /\ t.baseline = state.baseline
        /\ t.entries = state.entries + 1
    BY <1>1, <1>7, <2>1, BoughtFields DEF PaperBuy, MayBuy
  <2>3. t # file
    <3>1. state = file /\ state.entries \in Nat
      BY <1>1, <1>7, StateFacts DEF PaperBuy, MayBuy, IInv, ValuedIsSaved
    <3>2. t.entries # file.entries
      BY <2>2, <3>1
    <3> QED
      BY <3>2
  <2> HIDE DEF t
  <2>4. CASE SaveStateFails /\ Back /\ UNCHANGED <<state, fills>>
    <3>1. file' = file /\ bought' = bought
      BY <1>7, <2>4 DEF SaveStateFails, PaperBuy
    <3> QED
      BY <1>1, <1>7, <2>4, <3>1, NothingSaved DEF PaperBuy
  <2>5. CASE /\ state' = t /\ SaveState(t) /\ at' = "filled"
             /\ fills' = [fills EXCEPT ![reading.bar] = @ + 1]
             /\ UNCHANGED reading
    <3>1. bought' = [bought EXCEPT ![Day(reading.bar)] = @ + 1]
      BY <1>7, <2>3, <2>5 DEF PaperBuy, SaveState
    <3> QED
      BY <1>7, <2>2, <2>5, <3>1, SavedFill
         DEF PaperBuy, MayBuy, SaveState, FillCounted, BuyCounted
  <2> QED
    BY <1>7, <2>4, <2>5 DEF PaperBuy, Fill, t
<1>8. CASE PaperSell
  <2> DEFINE t == Sold(state, reading)
  <2>1. reading \in Readings
    BY <1>8, AliveReading DEF PaperSell
  <2>2. /\ t \in EngineStates /\ Balanced(t) /\ t.bar = reading.bar
        /\ t.day = state.day /\ t.baseline = state.baseline
        /\ t.entries = state.entries
    BY <1>1, <2>1, SoldFields
  <2> HIDE DEF t
  <2>3. CASE SaveStateFails /\ Back /\ UNCHANGED <<state, fills>>
    BY <1>1, <1>8, <2>3, NothingSaved DEF PaperSell, SaveStateFails
  <2>4. CASE /\ state' = t /\ SaveState(t) /\ at' = "filled"
             /\ fills' = [fills EXCEPT ![reading.bar] = @ + 1]
             /\ UNCHANGED reading
    BY <1>8, <2>2, <2>4, SavedFill
       DEF PaperSell, SaveState, FillCounted, BuyCounted
  <2> QED
    BY <1>8, <2>3, <2>4 DEF PaperSell, Fill, t
<1>9. CASE Revalue
  <2>1. engineUp /\ reading \in Readings
    BY <1>9, AliveReading DEF Revalue
  <2>2. Moves(state, state')
    BY <1>1, <1>9, <2>1, RiskMoves DEF Revalue
  <2>3. resumeAsked' \in BOOLEAN
    BY <1>1, <1>9 DEF Revalue, AskedAfter, Rewound
  <2> QED
    BY <1>2, <1>9, <2>1, <2>2, <2>3 DEF Revalue, SaveState, SaveStateFails
<1>10. CASE Die
  <2>1. /\ engineUp' = FALSE /\ state' = EmptyState /\ resumeAsked' = FALSE
        /\ Back /\ UNCHANGED <<file, fills, bought>>
    BY <1>10 DEF Die
  <2>2. TypeOK'
    BY <1>1, <2>1, EmptyIsTyped DEF IInv, TypeOK, Back
  <2>3. Balanced(state)' /\ Balanced(file)'
    BY <1>1, <2>1, EmptyIsTyped DEF Balanced
  <2>4. MemoryAhead' /\ ValuedIsSaved' /\ EvaluationIsAlive'
    BY <2>1 DEF MemoryAhead, ValuedIsSaved, EvaluationIsAlive, Back
  <2>5. FilledBefore' /\ BoughtBefore'
    BY <2>1 DEF IInv, FilledBefore, BoughtBefore
  <2> QED
    BY <2>2, <2>3, <2>4, <2>5 DEF IInv
<1>11. CASE Restart
  <2>1. /\ state' = file /\ engineUp' = TRUE /\ ~engineUp
        /\ UNCHANGED <<file, resumeAsked, at, reading, fills, bought>>
    BY <1>11 DEF Restart
  <2>2. at = "idle" /\ file.bar \in Nat
    BY <1>1, <2>1, StateFacts DEF IInv, EvaluationIsAlive, TypeOK
  <2>3. TypeOK'
    BY <1>1, <2>1 DEF IInv, TypeOK
  <2>4. Balanced(state)' /\ Balanced(file)'
    BY <1>1, <2>1 DEF Balanced
  <2>5. MemoryAhead' /\ ValuedIsSaved' /\ EvaluationIsAlive'
    BY <2>1, <2>2 DEF MemoryAhead, ValuedIsSaved, EvaluationIsAlive
  <2>6. FilledBefore' /\ BoughtBefore'
    BY <2>1 DEF IInv, FilledBefore, BoughtBefore
  <2> QED
    BY <2>3, <2>4, <2>5, <2>6 DEF IInv
<1> QED
  BY <1>3, <1>4, <1>5, <1>6, <1>7, <1>8, <1>9, <1>10, <1>11 DEF Next

(* While the engine runs, days only pass and keep their baseline. *)
LEMMA DayMoves ==
    ASSUME IInv, [Next]_vars, engineUp
    PROVE  \/ ~engineUp'
           \/ state'.day > state.day
           \/ state'.day = state.day /\ state'.baseline = state.baseline
<1>1. state \in EngineStates /\ Balanced(state)
  BY DEF IInv, TypeOK
<1>2. CASE \E t : Moves(state, t) /\ state' = t
  BY <1>2 DEF Moves
<1>3. CASE UNCHANGED state
  BY <1>3
<1>4. CASE PauseBuys
  BY <1>1, <1>2, <1>4, PauseMoves DEF PauseBuys
<1>5. ASSUME NEW b \in Bars, NEW p \in Prices, Value(b, p)
      PROVE  \E t : Moves(state, t) /\ state' = t
  <2> DEFINE r == [bar |-> b, price |-> p]
  <2>1. r \in Readings
    BY DEF Readings
  <2>2. state' = Risk(state, r)
    BY <1>5 DEF Value
  <2> HIDE DEF r
  <2> QED
    BY <1>1, <2>1, <2>2, RiskMoves
<1>6. CASE Revalue
  <2>1. reading \in Readings /\ state' = Risk(state, reading)
    BY <1>6, AliveReading DEF Revalue
  <2> QED
    BY <1>1, <1>2, <2>1, RiskMoves
<1>7. CASE Hold
  BY <1>1, <1>7 DEF Hold, EngineStates
<1>8. CASE PaperBuy
  <2>1. reading \in Readings
    BY <1>8, AliveReading DEF PaperBuy, MayBuy
  <2>2. LET t == Bought(state, reading)
        IN t.day = state.day /\ t.baseline = state.baseline
    BY <1>1, <1>8, <2>1, BoughtFields DEF PaperBuy, MayBuy
  <2> QED
    BY <1>8, <2>2 DEF PaperBuy, Fill
<1>9. CASE PaperSell
  <2>1. reading \in Readings
    BY <1>9, AliveReading DEF PaperSell
  <2>2. LET t == Sold(state, reading)
        IN t.day = state.day /\ t.baseline = state.baseline
    BY <1>1, <2>1, SoldFields
  <2> QED
    BY <1>9, <2>2 DEF PaperSell, Fill
<1> QED
  BY <1>2, <1>3, <1>4, <1>5, <1>6, <1>7, <1>8, <1>9
     DEF Next, vars, AskResume, Skip, NoCash, Die, Restart

(* The invariant holds in every reachable state: the two copies balance and *)
(* agree about the portfolio, whichever saves fail (engine.py:374-380).     *)
THEOREM PaperInductiveInvariant == Spec => []IInv
BY InitIInv, NextIInv, PTL DEF Spec

(* Every file that is ever saved is accepted by the next start.             *)
THEOREM PaperFileLoads == Spec => []FileAlwaysLoads
<1>1. IInv => FileAlwaysLoads
  <2> SUFFICES ASSUME IInv PROVE FileAlwaysLoads
    OBVIOUS
  <2>1. /\ file.cash \in Nat /\ file.qty \in Nat /\ file.cost \in Nat
        /\ file.equity \in {-1} \cup Nat /\ Balanced(file)
    BY DEF IInv, TypeOK, EngineStates
  <2> QED
    BY <2>1 DEF FileAlwaysLoads, Loads, Balanced
<1> QED
  BY <1>1, PaperInductiveInvariant, PTL

(* A bar is filled at most once over failed saves, restarts and clock jumps *)
(* (engine.py:258-267).                                                     *)
THEOREM BarIsFilledOnce == Spec => []OneFillPerBar
<1>1. IInv => OneFillPerBar
  BY DEF IInv, FilledBefore, OneFillPerBar
<1> QED
  BY <1>1, PaperInductiveInvariant, PTL

(* No day has more than its entries (engine.py:181-197).                    *)
THEOREM DayHasItsEntries == Spec => []EntriesOfADay
<1>1. IInv => EntriesOfADay
  BY DEF IInv, BoughtBefore, EntriesOfADay
<1> QED
  BY <1>1, PaperInductiveInvariant, PTL

(* No BUY is filled on a paused state or beyond a limit of the saved file   *)
(* (engine.py:245-251).                                                     *)
THEOREM BuysStayWithinLimits == Spec => BuysWithinLimits
<1>1. ASSUME IInv, [Next]_vars, bought' # bought
      PROVE  /\ file.pause = ""
             /\ file.baseline - Equity(file, reading.price) < LossLimit
             /\ file.streak < MaxStreak
  <2>1. PaperBuy
    BY <1>1 DEF Next, vars, PauseBuys, AskResume, Value, Skip, Hold, NoCash,
                PaperSell, Revalue, Die, Restart
  <2> QED
    BY <1>1, <2>1 DEF PaperBuy, MayBuy, IInv, ValuedIsSaved
<1> QED
  BY <1>1, PaperInductiveInvariant, PTL DEF Spec, BuysWithinLimits

(* The saved baseline of a day never moves while the day lasts              *)
(* (engine.py:187-190).                                                     *)
THEOREM BaselineStays == Spec => BaselineOfADay
<1>1. ASSUME IInv, [Next]_vars
      PROVE  \/ file'.day > file.day
             \/ file'.day = file.day /\ file'.baseline = file.baseline
  <2>1. file' \in {file, state'}
    BY <1>1 DEF Next, vars, PauseBuys, AskResume, Value, Skip, Hold, NoCash,
                PaperBuy, PaperSell, Fill, Revalue, Die, Restart, SaveState,
                SaveStateFails
  <2>2. CASE file' = file
    BY <2>2
  <2>3. CASE file' = state' /\ file' # file
    <3>1. engineUp /\ engineUp'
      <4>1. engineUp' = engineUp
        BY <1>1, <2>3 DEF Next, vars, PauseBuys, AskResume, Value, Skip, Hold,
                          NoCash, PaperBuy, PaperSell, Revalue, Die, Restart
      <4>2. Idle \/ at # "idle"
        BY <1>1, <2>3 DEF Next, vars, PauseBuys, AskResume, Value, Skip, Hold,
                          NoCash, PaperBuy, MayBuy, PaperSell, Revalue, Die,
                          Restart
      <4> QED
        BY <1>1, <4>1, <4>2, AliveReading DEF Idle
    <3>2. /\ state \in EngineStates /\ state' \in EngineStates
          /\ file \in EngineStates
      BY <1>1, NextIInv DEF IInv, TypeOK
    <3>3. state'.day \in Nat /\ state.day \in Nat /\ file.day \in Nat
      BY <3>2, StateFacts
    <3>4. \/ state'.day > state.day
          \/ state'.day = state.day /\ state'.baseline = state.baseline
      BY <1>1, <3>1, <3>2, <3>3, DayMoves
    <3> QED
      BY <1>1, <2>3, <3>1, <3>3, <3>4 DEF IInv, MemoryAhead
  <2> QED
    BY <2>1, <2>2, <2>3
<1> QED
  BY <1>1, PaperInductiveInvariant, PTL DEF Spec, BaselineOfADay
=============================================================================
