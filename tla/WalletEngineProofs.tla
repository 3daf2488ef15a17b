------------------------- MODULE WalletEngineProofs -------------------------
(***************************************************************************)
(* Theorems of WalletEngine, for any number of bars.                        *)
(***************************************************************************)
EXTENDS WalletEngine, SequenceTheorems, FiniteSetTheorems, TLAPS

(* The elements of the end of a sequence. *)
LEMMA TailRange ==
    ASSUME NEW S, NEW s \in Seq(S), NEW m \in Nat, NEW x
    PROVE  x \in Range(SubSeq(s, m + 1, Len(s)))
             <=> \E i \in m + 1 .. Len(s) : s[i] = x
<1> DEFINE t == SubSeq(s, m + 1, Len(s))
<1>1. /\ t \in Seq(S)
      /\ Len(t) = IF m + 1 <= Len(s) THEN Len(s) - m ELSE 0
      /\ \A i \in 1 .. Len(s) - m : t[i] = s[m + i]
  <2>1. \A i \in m + 1 .. Len(s) : s[i] \in S
    OBVIOUS
  <2>2. Len(s) \in Nat /\ m + 1 \in Int
    OBVIOUS
  <2> QED
    BY <2>1, <2>2, SubSeqProperties
<1>2. DOMAIN t = 1 .. Len(t)
  BY <1>1
<1> HIDE DEF t
<1>3. ASSUME x \in Range(t) PROVE \E i \in m + 1 .. Len(s) : s[i] = x
  <2>1. PICK k \in 1 .. Len(t) : t[k] = x
    BY <1>2, <1>3 DEF Range
  <2>2. Len(t) = Len(s) - m /\ k \in 1 .. Len(s) - m
    BY <1>1, <2>1
  <2>3. m + k \in m + 1 .. Len(s) /\ s[m + k] = x
    BY <1>1, <2>1, <2>2
  <2> QED
    BY <2>3
<1>4. ASSUME NEW i \in m + 1 .. Len(s), s[i] = x PROVE x \in Range(t)
  <2>1. i - m \in 1 .. Len(t) /\ t[i - m] = x
    <3>1. i - m \in 1 .. Len(s) - m /\ m + (i - m) = i
      OBVIOUS
    <3> QED
      BY <1>1, <1>4, <3>1
  <2> QED
    BY <1>2, <2>1 DEF Range
<1> QED
  BY <1>3, <1>4 DEF t

(* The rows found for an order are orders. *)
LEMMA FoundAreBars ==
    ASSUME WalletTypeOK, NEW b \in Bars
    PROVE  FoundOrders(b) \subseteq Bars
<1> SUFFICES ASSUME NEW x \in Range(SubSeq(booked, since[b] + 1, Len(booked)))
             PROVE  x \in Bars
  BY DEF FoundOrders
<1>1. booked \in Seq(Bars) /\ since[b] \in Nat
  BY DEF WalletTypeOK
<1>2. PICK i \in since[b] + 1 .. Len(booked) : booked[i] = x
  BY <1>1, TailRange
<1> QED
  BY <1>1, <1>2

(* Nothing was booked after an order that is only being sent. *)
LEMMA FoundWhenSent ==
    ASSUME WalletTypeOK, NEW b \in Bars, NEW side, SendSwap(b, side)
    PROVE  FoundOrders(b)' = {b}
<1>1. booked' = booked /\ since'[b] = Len(booked) /\ Len(booked) \in Nat
  BY DEF SendSwap, WalletTypeOK
<1>2. SubSeq(booked, since'[b] + 1, Len(booked)) = <<>>
  BY <1>1 DEF WalletTypeOK
<1> QED
  BY <1>1, <1>2 DEF FoundOrders, Range

(* A booked order is the only one that can newly be found. *)
LEMMA FoundWhenBooked ==
    ASSUME WalletTypeOK, NEW b \in Bars, NEW o \in Bars, Book(o),
           NEW x \in FoundOrders(b)'
    PROVE  x \in FoundOrders(b) \/ x = o
<1>1. /\ booked \in Seq(Bars) /\ booked' = Append(booked, o)
      /\ booked' \in Seq(Bars) /\ Len(booked') = Len(booked) + 1
      /\ since[b] \in Nat /\ since' = since /\ sideOf' = sideOf
  BY DEF Book, WalletTypeOK
<1> SUFFICES ASSUME x \in Range(SubSeq(booked', since[b] + 1, Len(booked'))),
                    sideOf[x] = sideOf[b], x # o
             PROVE  x \in Range(SubSeq(booked, since[b] + 1, Len(booked)))
  BY <1>1 DEF FoundOrders
<1>2. PICK i \in since[b] + 1 .. Len(booked') : booked'[i] = x
  BY <1>1, TailRange
<1>3. i \in since[b] + 1 .. Len(booked) /\ booked[i] = x
  BY <1>1, <1>2
<1> QED
  BY <1>1, <1>3, TailRange
-----------------------------------------------------------------------------
(* A new engine with a new wallet satisfies every part of the invariant. *)
LEMMA InitIInv == Init => IInv
<1> SUFFICES ASSUME Init PROVE IInv
  OBVIOUS
<1>1. MaxBar \in Nat \ {0} /\ 1 \in Bars
  BY MaxBarAssumption DEF Bars
<1>2. TypeOK
  BY <1>1 DEF Init, WalletInit, TypeOK, WalletTypeOK, EmptyState, EngineStates, Sides
<1>3. OneSwapPerBar /\ BarsAreSaved /\ LoopIsAlive /\ SentOrNone
  BY DEF Init, WalletInit, OneSwapPerBar, BarsAreSaved, LoopIsAlive, SentOrNone,
         EmptyState, Bars
<1>4. CountedIsFinished /\ AwaitedIsUncounted
  BY DEF Init, CountedIsFinished, AwaitedIsUncounted, EmptyState
<1> QED
  BY <1>2, <1>3, <1>4 DEF IInv

(* The states the engine makes of a state. *)
LEMMA NewStates ==
    ASSUME TypeOK
    PROVE  /\ WithBar \in EngineStates
           /\ Cleared \in EngineStates
           /\ \A b \in Bars : WithPending(b) \in EngineStates
           /\ \A b \in Bars : Filled(b) \in EngineStates
           /\ \A b \in Bars : Outcome(b) \in EngineStates
           /\ EmptyState \in EngineStates
<1>1. state \in EngineStates /\ now \in Nat /\ MaxBar \in Nat
  BY MaxBarAssumption DEF TypeOK, Bars
<1>2. ASSUME NEW b \in Bars PROVE Filled(b) \in EngineStates
  <2> DEFINE h == sideOf[b] = "buy"
             s1 == [state EXCEPT !.holding = h]
             s2 == [s1 EXCEPT !.counted[b] = @ + 1]
  <2>1. h \in BOOLEAN
    OBVIOUS
  <2>2. Filled(b) = [s2 EXCEPT !.pending = {}]
    BY DEF Filled
  <2> HIDE DEF h
  <2>3. s1 \in EngineStates
    BY <1>1, <2>1 DEF EngineStates
  <2> HIDE DEF s1
  <2>4. s2 \in EngineStates
    BY <2>3 DEF EngineStates
  <2> HIDE DEF s2
  <2> QED
    BY <2>2, <2>4 DEF EngineStates
<1>3. WithBar \in EngineStates /\ Cleared \in EngineStates
  BY <1>1 DEF EngineStates, WithBar, Cleared
<1>4. ASSUME NEW b \in Bars PROVE WithPending(b) \in EngineStates
  <2> DEFINE s1 == [state EXCEPT !.pending = {b}]
  <2>1. WithPending(b) = [s1 EXCEPT !.used = b]
    BY DEF WithPending
  <2>2. s1 \in EngineStates
    BY <1>1 DEF EngineStates
  <2>3. b \in 0 .. MaxBar
    BY <1>1 DEF Bars
  <2> HIDE DEF s1
  <2> QED
    BY <2>1, <2>2, <2>3 DEF EngineStates
<1>5. EmptyState \in EngineStates
  BY <1>1 DEF EngineStates, EmptyState
<1> QED
  BY <1>2, <1>3, <1>4, <1>5 DEF Outcome

(* What they leave alone and what they change. *)
LEMMA NewFields ==
    ASSUME TypeOK
    PROVE  /\ WithBar.bar = now /\ WithBar.pending = state.pending
           /\ WithBar.counted = state.counted
           /\ Cleared.bar = state.bar /\ Cleared.pending = {}
           /\ Cleared.counted = state.counted
           /\ \A b \in Bars :
                /\ WithPending(b).bar = state.bar /\ WithPending(b).pending = {b}
                /\ WithPending(b).counted = state.counted
           /\ \A b \in Bars :
                /\ Filled(b).bar = state.bar /\ Filled(b).pending = {}
                /\ Filled(b).counted = [state.counted EXCEPT ![b] = @ + 1]
<1>1. state \in EngineStates
  BY DEF TypeOK
<1>2. ASSUME NEW b \in Bars
      PROVE  /\ Filled(b).bar = state.bar /\ Filled(b).pending = {}
             /\ Filled(b).counted = [state.counted EXCEPT ![b] = @ + 1]
  BY <1>1 DEF EngineStates, Filled
<1> QED
  BY <1>1, <1>2 DEF EngineStates, WithBar, Cleared, WithPending

(* The external wallet keeps its types. *)
LEMMA WalletType ==
    ASSUME WalletTypeOK, Wallet
    PROVE  WalletTypeOK'
<1> PICK b \in Bars : Book(b) \/ Drop(b) \/ FinishOrder(b) \/ FailOrder(b)
  BY DEF Wallet
<1>1. CASE Book(b)
  BY <1>1 DEF WalletTypeOK, Book
<1>2. CASE Drop(b)
  BY <1>2 DEF WalletTypeOK, Drop
<1>3. CASE FinishOrder(b)
  BY <1>3 DEF WalletTypeOK, FinishOrder
<1>4. CASE FailOrder(b)
  BY <1>4 DEF WalletTypeOK, FailOrder
<1> QED
  BY <1>1, <1>2, <1>3, <1>4

(* A save writes the memory, or leaves the file. *)
LEMMA SaveType ==
    ASSUME TypeOK, NEW s \in EngineStates, SaveState(s) \/ SaveStateFails
    PROVE  stateFile' \in EngineStates /\ learned' \subseteq Bars
BY DEF TypeOK, SaveState, SaveStateFails, EngineStates

(* No step of the loop, the wallet or the operating system breaks a type. *)
LEMMA NextType == TypeOK /\ [Next]_vars => TypeOK'
<1> SUFFICES ASSUME TypeOK, [Next]_vars
             PROVE  TypeOK'
  OBVIOUS
<1>1. CASE UNCHANGED vars
  BY <1>1 DEF vars, walletVars, TypeOK, WalletTypeOK, EngineStates
<1>2. CASE HoldBar \/ PlanTrade
  <2>1. state' = WithBar /\ (SaveState(WithBar) \/ SaveStateFails)
        /\ UNCHANGED <<walletVars, engineUp, now>>
    BY <1>2 DEF HoldBar, PlanTrade
  <2>2. at' \in {"idle", "confirming"} /\ plan' \subseteq Bars
    BY <1>2 DEF HoldBar, PlanTrade, Ready, Goto, TypeOK
  <2> QED
    BY <2>1, <2>2, NewStates, SaveType
       DEF TypeOK, WalletTypeOK, walletVars, EngineStates
<1>3. CASE Decline \/ SwapUnanswered \/ PollTimeout
  BY <1>3 DEF Decline, SwapUnanswered, PollTimeout, Back, Goto, TypeOK,
              WalletTypeOK, walletVars, EngineStates
<1>4. ASSUME NEW b \in Bars, ExecuteConfirmed(b) PROVE TypeOK'
  <2>1. WalletTypeOK'
    BY <1>4 DEF ExecuteConfirmed, SendSwap, SideOfPlan, Sides, TypeOK, WalletTypeOK
  <2> QED
    BY <1>4, <2>1 DEF ExecuteConfirmed, Goto, TypeOK, EngineStates
<1>5. ASSUME NEW b \in Bars, RecordPending(b) PROVE TypeOK'
  <2>1. state' = WithPending(b) /\ (SaveState(WithPending(b)) \/ SaveStateFails)
        /\ UNCHANGED <<walletVars, engineUp, now>>
    BY <1>5 DEF RecordPending
  <2>2. at' \in {"idle", "polling"} /\ plan' \subseteq Bars
    BY <1>5 DEF RecordPending, Back, Goto
  <2> QED
    BY <2>1, <2>2, NewStates, SaveType
       DEF TypeOK, WalletTypeOK, walletVars, EngineStates
<1>6. ASSUME NEW b \in Bars, PollOutcome(b) \/ ReconcilePending(b) PROVE TypeOK'
  <2>1. PICK o \in Bars : /\ state' = Outcome(o)
                          /\ SaveState(Outcome(o)) \/ SaveStateFails
    BY <1>6, FoundAreBars DEF PollOutcome, ReconcilePending, TypeOK
  <2>2. /\ UNCHANGED <<walletVars, engineUp, now>>
        /\ at' \in {"idle", at} /\ plan' \in {{}, plan}
    BY <1>6 DEF PollOutcome, ReconcilePending, Back, Goto
  <2> QED
    BY <2>1, <2>2, NewStates, SaveType
       DEF TypeOK, WalletTypeOK, walletVars, EngineStates
<1>7. CASE Die \/ Restart
  <2>1. state' \in EngineStates
    BY <1>7, NewStates DEF Die, Restart, TypeOK
  <2> QED
    BY <1>7, <2>1 DEF Die, Restart, Back, Goto, TypeOK, WalletTypeOK, walletVars,
                      EngineStates
<1>8. CASE NextBar
  <2>1. now' \in Bars /\ 0 .. now \subseteq 0 .. now'
    BY <1>8, MaxBarAssumption DEF NextBar, TypeOK, Bars
  <2>2. EngineStates \subseteq EngineStates'
    BY <1>8, <2>1 DEF NextBar, EngineStates
  <2> QED
    BY <1>8, <2>1, <2>2 DEF NextBar, TypeOK, WalletTypeOK, walletVars
<1>9. CASE WalletStep
  BY <1>9, WalletType DEF WalletStep, TypeOK, EngineStates
<1> QED
  BY <1>1, <1>2, <1>3, <1>4, <1>5, <1>6, <1>7, <1>8, <1>9 DEF Next

(* Every variable of the wallet engine keeps its type (EngineState and the  *)
(* orders of the wallet).                                                   *)
THEOREM TypeCorrect == Spec => []TypeOK
<1>1. Init => TypeOK
  BY InitIInv DEF IInv
<1> QED
  BY <1>1, NextType, PTL DEF Spec
-----------------------------------------------------------------------------
(* The steps that leave the bar, the swaps and the wallet's orders alone. *)
LEMMA QuietForBars ==
    ASSUME IInv, TypeOK', UNCHANGED <<swaps, walletOrders>>,
           stateFile'.bar \in {stateFile.bar, state'.bar},
           engineUp' => stateFile'.bar <= state'.bar,
           stateFile.bar <= stateFile'.bar,
           at' = "confirming" => at = "confirming" /\ plan' = plan
    PROVE  OneSwapPerBar' /\ BarsAreSaved' /\ SentOrNone'
<1>1. /\ stateFile.bar \in Nat /\ stateFile'.bar \in Nat
      /\ plan \subseteq Bars
  BY DEF IInv, TypeOK, EngineStates, Bars
<1>2. \A b \in Bars : b \in Nat
  BY DEF Bars
<1>3. OneSwapPerBar' /\ SentOrNone'
  BY DEF IInv, OneSwapPerBar, SentOrNone
<1>4. ASSUME NEW b \in Bars, b > stateFile'.bar PROVE swaps'[b] = 0
  BY <1>1, <1>2, <1>4 DEF IInv, BarsAreSaved
<1>5. ASSUME at' = "confirming", NEW b \in plan'
      PROVE  swaps'[b] = 0 /\ b <= stateFile'.bar
  BY <1>1, <1>2, <1>5 DEF IInv, BarsAreSaved
<1> QED
  BY <1>3, <1>4, <1>5 DEF BarsAreSaved

(* A bar is in the file before its plan is shown, and before its swap. *)
LEMMA NextBars ==
    ASSUME IInv, TypeOK', [Next]_vars
    PROVE  OneSwapPerBar' /\ BarsAreSaved' /\ SentOrNone' /\ LoopIsAlive'
<1> USE DEF IInv
<1>1. /\ state.bar \in Nat /\ stateFile.bar \in Nat /\ now \in Nat
      /\ stateFile'.bar \in Nat /\ state'.bar \in Nat
      /\ MaxBar \in Nat /\ plan \subseteq Bars
      /\ \A b \in Bars : b \in Nat /\ swaps[b] \in Nat
  <2>1. state.bar \in Nat /\ stateFile.bar \in Nat
    BY DEF TypeOK, EngineStates
  <2>2. state'.bar \in Nat /\ stateFile'.bar \in Nat
    BY DEF TypeOK, EngineStates
  <2>3. now \in Nat /\ plan \subseteq Bars /\ \A b \in Bars : b \in Nat
    BY DEF TypeOK, Bars
  <2>4. \A b \in Bars : swaps[b] \in Nat
    BY DEF TypeOK, WalletTypeOK
  <2> QED
    BY <2>1, <2>2, <2>3, <2>4, MaxBarAssumption
<1>2. LoopIsAlive'
  BY DEF LoopIsAlive, Next, vars, HoldBar, PlanTrade, Ready, Decline, SwapUnanswered,
         PollTimeout, ExecuteConfirmed, RecordPending, PollOutcome,
         ReconcilePending, Die, Restart, NextBar, WalletStep, Goto, Back
<1>3. ASSUME UNCHANGED vars \/ HoldBar \/ Decline \/ SwapUnanswered
               \/ PollTimeout \/ Die \/ Restart \/ NextBar
      PROVE  OneSwapPerBar' /\ BarsAreSaved' /\ SentOrNone'
  <2>1. CASE UNCHANGED vars \/ Decline \/ SwapUnanswered \/ PollTimeout \/ NextBar
    <3>1. /\ UNCHANGED <<state, stateFile, engineUp, swaps, walletOrders>>
          /\ at' = "confirming" => at = "confirming" /\ plan' = plan
      BY <2>1 DEF vars, walletVars, Decline, SwapUnanswered, PollTimeout,
                  NextBar, Back, Goto
    <3>2. engineUp' => stateFile'.bar <= state'.bar
      BY <3>1 DEF BarsAreSaved
    <3> QED
      BY <1>1, <3>1, <3>2, QuietForBars
  <2>2. CASE HoldBar
    <3>1. /\ state'.bar = now /\ now > state.bar /\ stateFile.bar <= state.bar
          /\ stateFile' \in {stateFile, state'}
          /\ UNCHANGED <<swaps, walletOrders, at, plan>>
      BY <2>2, NewFields DEF HoldBar, Ready, BarsAreSaved, SaveState,
                             SaveStateFails, walletVars
    <3> QED
      BY <1>1, <3>1, QuietForBars
  <2>3. CASE Die \/ Restart
    <3>1. /\ stateFile' = stateFile
          /\ UNCHANGED <<swaps, walletOrders>>
          /\ at' = "confirming" => at = "confirming" /\ plan' = plan
          /\ engineUp' => state' = stateFile
      BY <2>3 DEF Die, Restart, walletVars, Back, Goto
    <3> QED
      BY <1>1, <3>1, QuietForBars
  <2> QED
    BY <1>3, <2>1, <2>2, <2>3
<1>4. ASSUME PlanTrade
      PROVE  OneSwapPerBar' /\ BarsAreSaved' /\ SentOrNone'
  <2>1. /\ state'.bar = now /\ now > state.bar /\ stateFile.bar <= state.bar
        /\ UNCHANGED <<swaps, walletOrders>>
    BY <1>4, NewFields DEF PlanTrade, Ready, BarsAreSaved, walletVars
  <2>2. CASE SaveStateFails
    <3>1. stateFile' = stateFile
      BY <2>2 DEF SaveStateFails
    <3>2. CASE UNCHANGED <<at, plan>>
      BY <1>1, <2>1, <3>1, <3>2, QuietForBars
    <3>3. CASE SaveState(WithBar) /\ Goto("confirming", {now})
      <4>1. now = stateFile.bar
        BY <3>1, <3>3, NewFields DEF SaveState
      <4> QED
        BY <1>1, <2>1, <4>1
    <3> QED
      BY <1>4, <3>2, <3>3 DEF PlanTrade
  <2>3. CASE SaveState(WithBar) /\ Goto("confirming", {now})
    <3>1. stateFile'.bar = now /\ at' = "confirming" /\ plan' = {now}
      BY <2>3, NewFields DEF SaveState, Goto
    <3>2. OneSwapPerBar' /\ SentOrNone'
      BY <2>1 DEF OneSwapPerBar, SentOrNone
    <3>3. now \in Bars /\ swaps[now] = 0
      BY <1>1, <2>1 DEF TypeOK, BarsAreSaved
    <3>4. ASSUME NEW b \in Bars, b > stateFile'.bar PROVE swaps'[b] = 0
      <4>1. b > stateFile.bar
        BY <1>1, <2>1, <3>1, <3>4
      <4> QED
        BY <2>1, <4>1 DEF BarsAreSaved
    <3> QED
      BY <1>1, <2>1, <3>1, <3>2, <3>3, <3>4 DEF BarsAreSaved
  <2> QED
    BY <1>4, <2>2, <2>3 DEF PlanTrade
<1>5. ASSUME NEW b \in Bars, ExecuteConfirmed(b)
      PROVE  OneSwapPerBar' /\ BarsAreSaved' /\ SentOrNone'
  <2>1. /\ swaps' = [swaps EXCEPT ![b] = @ + 1]
        /\ walletOrders' = [walletOrders EXCEPT ![b] = "travelling"]
        /\ UNCHANGED <<state, stateFile, engineUp>>
        /\ at' = "swapping"
        /\ swaps[b] = 0 /\ b <= stateFile.bar
    BY <1>5 DEF ExecuteConfirmed, SendSwap, Goto, BarsAreSaved
  <2>2. swaps \in [Bars -> Nat] /\ DOMAIN walletOrders = Bars
    BY DEF TypeOK, WalletTypeOK
  <2>3. /\ swaps'[b] = 1
        /\ \A c \in Bars \ {b} : /\ swaps'[c] = swaps[c]
                                 /\ walletOrders'[c] = walletOrders[c]
    BY <2>1, <2>2
  <2>4. OneSwapPerBar' /\ SentOrNone'
    BY <2>3 DEF OneSwapPerBar, SentOrNone
  <2>5. ASSUME NEW c \in Bars, c > stateFile'.bar PROVE swaps'[c] = 0
    <3>1. c # b
      BY <1>1, <2>1, <2>5
    <3> QED
      BY <2>1, <2>3, <2>5, <3>1 DEF BarsAreSaved
  <2> QED
    BY <2>1, <2>4, <2>5 DEF BarsAreSaved
<1>6. ASSUME NEW b \in Bars,
             RecordPending(b) \/ PollOutcome(b) \/ ReconcilePending(b)
      PROVE  OneSwapPerBar' /\ BarsAreSaved' /\ SentOrNone'
  <2>1. state'.bar = state.bar
    <3>1. CASE RecordPending(b)
      BY <3>1, NewFields DEF RecordPending
    <3>2. CASE PollOutcome(b) \/ ReconcilePending(b)
      <4>1. PICK o \in Bars : state' = Outcome(o)
        BY <3>2, FoundAreBars DEF PollOutcome, ReconcilePending, TypeOK
      <4> QED
        BY <4>1, NewFields DEF Outcome
    <3> QED
      BY <1>6, <3>1, <3>2
  <2>2. /\ stateFile' \in {stateFile, state'}
        /\ UNCHANGED <<swaps, walletOrders, engineUp>>
        /\ at' # "confirming"
    BY <1>6 DEF RecordPending, PollOutcome, ReconcilePending, SaveState,
                SaveStateFails, walletVars, Back, Goto
  <2>3. engineUp /\ stateFile.bar <= state.bar
    BY <1>6 DEF RecordPending, PollOutcome, ReconcilePending, LoopIsAlive,
                BarsAreSaved
  <2> QED
    BY <1>1, <2>1, <2>2, <2>3, QuietForBars
<1>7. ASSUME WalletStep
      PROVE  OneSwapPerBar' /\ BarsAreSaved' /\ SentOrNone'
  <2>1. UNCHANGED <<swaps, state, stateFile, engineUp, at, plan>>
    BY <1>7 DEF WalletStep, Wallet, Book, Drop, FinishOrder, FailOrder
  <2>2. ASSUME NEW b \in Bars, swaps[b] = 0 PROVE walletOrders'[b] = "none"
    <3>1. walletOrders[b] = "none" /\ DOMAIN walletOrders = Bars
      BY <2>2 DEF SentOrNone, TypeOK, WalletTypeOK
    <3> QED
      BY <1>7, <3>1 DEF WalletStep, Wallet, Book, Drop, FinishOrder, FailOrder
  <2> QED
    BY <2>1, <2>2 DEF OneSwapPerBar, BarsAreSaved, SentOrNone
<1> QED
  BY <1>2, <1>3, <1>4, <1>5, <1>6, <1>7 DEF Next
-----------------------------------------------------------------------------
(* What finished at the wallet stays finished. *)
LEMMA FinishedStays ==
    ASSUME IInv, [Next]_vars, NEW b \in Bars, walletOrders[b] = "finished"
    PROVE  walletOrders'[b] = "finished"
<1> USE DEF IInv
<1>1. DOMAIN walletOrders = Bars
  BY DEF TypeOK, WalletTypeOK
<1>2. ASSUME NEW c \in Bars, ExecuteConfirmed(c)
      PROVE  walletOrders'[b] = "finished"
  <2>1. swaps[c] = 0
    BY <1>2 DEF ExecuteConfirmed, BarsAreSaved
  <2>2. b # c
    BY <2>1 DEF SentOrNone
  <2> QED
    BY <1>1, <1>2, <2>2 DEF ExecuteConfirmed, SendSwap
<1>3. CASE WalletStep
  BY <1>1, <1>3 DEF WalletStep, Wallet, Book, Drop, FinishOrder, FailOrder
<1>4. CASE UNCHANGED walletVars
  BY <1>4 DEF walletVars
<1> QED
  BY <1>2, <1>3, <1>4 DEF Next, vars, HoldBar, PlanTrade, Decline, SwapUnanswered,
     PollTimeout, RecordPending, PollOutcome, ReconcilePending, Die, Restart,
     NextBar

(* A state whose pending order is not counted, and whose counted orders     *)
(* finished once.                                                           *)
Sound(s) ==
    \A b \in Bars : /\ s.counted[b] <= 1
                    /\ s.counted[b] = 1 => walletOrders[b] = "finished"
                    /\ b \in s.pending => s.counted[b] = 0

(* The two copies of the state are what the invariant says of counted and   *)
(* pending orders.                                                          *)
LEMMA SoundCopies ==
    ASSUME TypeOK
    PROVE  (CountedIsFinished
              /\ \A s \in {state, stateFile} : \A b \in s.pending : s.counted[b] = 0)
             <=> Sound(state) /\ Sound(stateFile)
<1>1. state.pending \subseteq Bars /\ stateFile.pending \subseteq Bars
  BY DEF TypeOK, EngineStates
<1> QED
  BY <1>1 DEF CountedIsFinished, Sound

(* A booked outcome of an order that may still be booked is sound. *)
LEMMA OutcomeIsSound ==
    ASSUME TypeOK, Sound(state), NEW o \in Bars, state.counted[o] = 0
    PROVE  Sound(Outcome(o))
<1>1. state.counted \in [Bars -> Nat]
  BY DEF TypeOK, EngineStates
<1>2. CASE walletOrders[o] = "finished"
  <2>1. /\ Outcome(o).pending = {}
        /\ Outcome(o).counted = [state.counted EXCEPT ![o] = @ + 1]
    BY <1>2, NewFields DEF Outcome
  <2>2. /\ Outcome(o).counted[o] = 1
        /\ \A b \in Bars \ {o} : Outcome(o).counted[b] = state.counted[b]
    BY <1>1, <2>1
  <2>3. ASSUME NEW b \in Bars
        PROVE  /\ Outcome(o).counted[b] <= 1
               /\ Outcome(o).counted[b] = 1 => walletOrders[b] = "finished"
    BY <1>2, <2>2 DEF Sound
  <2> QED
    BY <2>1, <2>3 DEF Sound
<1>3. CASE walletOrders[o] # "finished"
  BY <1>3, NewFields DEF Outcome, Sound
<1> QED
  BY <1>2, <1>3

(* Both copies stay sound. *)
LEMMA NextSound ==
    ASSUME IInv, [Next]_vars
    PROVE  Sound(state)' /\ Sound(stateFile)'
<1> USE DEF IInv
<1>1. Sound(state) /\ Sound(stateFile)
  BY SoundCopies DEF AwaitedIsUncounted
<1>2. \A b \in Bars : walletOrders[b] = "finished" => walletOrders'[b] = "finished"
  BY FinishedStays
<1>3. ASSUME NEW s, Sound(s), s = state' PROVE Sound(state)'
  BY <1>2, <1>3 DEF Sound
<1>4. ASSUME NEW s, Sound(s), s = stateFile' PROVE Sound(stateFile)'
  BY <1>2, <1>4 DEF Sound
<1>5. Sound(WithBar)
  BY <1>1, NewFields DEF Sound
<1>6. Sound(EmptyState)
  BY DEF Sound, EmptyState
<1>7. ASSUME NEW b \in Bars, RecordPending(b) PROVE Sound(WithPending(b))
  <2>1. state.counted[b] = 0
    BY <1>7 DEF RecordPending, AwaitedIsUncounted, FoundOrders
  <2> QED
    BY <1>1, <2>1, NewFields DEF Sound
<1>8. ASSUME NEW b \in Bars, PollOutcome(b) \/ ReconcilePending(b)
      PROVE  \E o \in Bars : /\ Sound(Outcome(o)) /\ state' = Outcome(o)
                             /\ SaveState(Outcome(o)) \/ SaveStateFails
  <2>1. PICK o \in Bars : /\ state.counted[o] = 0 /\ state' = Outcome(o)
                          /\ SaveState(Outcome(o)) \/ SaveStateFails
    BY <1>8, FoundAreBars DEF PollOutcome, ReconcilePending, AwaitedIsUncounted,
                              TypeOK
  <2> QED
    BY <1>1, <2>1, OutcomeIsSound
<1>9. \E s : /\ Sound(s) /\ state' = s
             /\ stateFile' \in {s, stateFile}
  <2>1. CASE HoldBar \/ PlanTrade
    BY <1>5, <2>1 DEF HoldBar, PlanTrade, SaveState, SaveStateFails
  <2>2. CASE \E b \in Bars : RecordPending(b)
    BY <1>7, <2>2 DEF RecordPending, SaveState, SaveStateFails
  <2>3. CASE \E b \in Bars : PollOutcome(b) \/ ReconcilePending(b)
    BY <1>8, <2>3 DEF SaveState, SaveStateFails
  <2>4. CASE Die
    BY <1>6, <2>4 DEF Die
  <2>5. CASE Restart
    BY <1>1, <2>5 DEF Restart
  <2>6. CASE UNCHANGED <<state, stateFile>>
    BY <1>1, <2>6
  <2> QED
    BY <2>1, <2>2, <2>3, <2>4, <2>5, <2>6 DEF Next, vars, Decline, SwapUnanswered,
       PollTimeout, ExecuteConfirmed, NextBar, WalletStep
<1> QED
  BY <1>1, <1>3, <1>4, <1>9
(* Every row that the running swap may find is uncounted: its own, because  *)
(* it was not sent before, and a newly booked one, because it travelled.    *)
LEMMA NextFound ==
    ASSUME IInv, [Next]_vars, at' \in {"swapping", "polling"},
           NEW b \in plan', NEW o \in FoundOrders(b)'
    PROVE  state'.counted[o] = 0
<1> USE DEF IInv
<1>1. Sound(state) /\ state.counted \in [Bars -> Nat] /\ plan \subseteq Bars
  BY SoundCopies DEF AwaitedIsUncounted, TypeOK, EngineStates
<1>2. CASE UNCHANGED vars
  BY <1>2 DEF vars, walletVars, AwaitedIsUncounted, FoundOrders
<1>3. CASE \E c \in Bars : ExecuteConfirmed(c)
  <2>1. PICK c \in Bars : ExecuteConfirmed(c)
    BY <1>3
  <2>2. /\ b = c /\ SendSwap(c, SideOfPlan) /\ state' = state
        /\ swaps[c] = 0
    BY <2>1 DEF ExecuteConfirmed, Goto, BarsAreSaved
  <2>3. o = c
    BY <2>2, FoundWhenSent DEF TypeOK
  <2>4. state.counted[c] # 1 /\ state.counted[c] <= 1 /\ state.counted[c] \in Nat
    BY <1>1, <2>2 DEF Sound, SentOrNone
  <2> QED
    BY <2>2, <2>3, <2>4
<1>4. CASE \E c \in Bars : RecordPending(c)
  <2>1. PICK c \in Bars : RecordPending(c)
    BY <1>4
  <2>2. /\ b = c /\ b \in plan /\ at = "swapping" /\ state' = WithPending(c)
        /\ UNCHANGED walletVars
    BY <2>1 DEF RecordPending, Goto, Back
  <2>3. o \in FoundOrders(b)
    BY <2>2 DEF FoundOrders, walletVars
  <2> QED
    BY <2>2, <2>3, NewFields DEF AwaitedIsUncounted
<1>5. CASE NextBar
  <2>1. /\ o \in FoundOrders(b) /\ b \in plan /\ at \in {"swapping", "polling"}
        /\ state' = state
    BY <1>5 DEF NextBar, FoundOrders, walletVars
  <2> QED
    BY <2>1 DEF AwaitedIsUncounted
<1>6. CASE WalletStep
  <2>1. /\ Wallet /\ state' = state /\ b \in plan /\ b \in Bars
        /\ at \in {"swapping", "polling"}
    BY <1>1, <1>6 DEF WalletStep
  <2>2. PICK c \in Bars : Book(c) \/ Drop(c) \/ FinishOrder(c) \/ FailOrder(c)
    BY <2>1 DEF Wallet
  <2>3. CASE Book(c)
    <3>1. o \in FoundOrders(b) \/ o = c
      BY <2>1, <2>3, FoundWhenBooked DEF TypeOK
    <3>2. state.counted[c] = 0
      BY <1>1, <2>3 DEF Book, Sound
    <3> QED
      BY <2>1, <3>1, <3>2 DEF AwaitedIsUncounted
  <2>4. CASE Drop(c) \/ FinishOrder(c) \/ FailOrder(c)
    <3>1. o \in FoundOrders(b)
      BY <2>4 DEF Drop, FinishOrder, FailOrder, FoundOrders
    <3> QED
      BY <2>1, <3>1 DEF AwaitedIsUncounted
  <2> QED
    BY <2>2, <2>3, <2>4
<1>7. CASE HoldBar
  <2>1. at \in {"idle"} /\ at' = at
    BY <1>7 DEF HoldBar, Ready
  <2> QED
    BY <2>1
<1>8. CASE PlanTrade
  <2>1. at = "idle" /\ at' \in {"confirming", at}
    BY <1>8 DEF PlanTrade, Ready, Goto
  <2> QED
    BY <2>1
<1>9. CASE Decline \/ SwapUnanswered \/ PollTimeout \/ Die
             \/ \E c \in Bars : PollOutcome(c) \/ ReconcilePending(c)
  <2>1. at' = "idle"
    BY <1>9 DEF Decline, SwapUnanswered, PollTimeout, Die, PollOutcome,
                ReconcilePending, Back, Goto
  <2> QED
    BY <2>1
<1>10. CASE Restart
  BY <1>10 DEF Restart, LoopIsAlive
<1> QED
  BY <1>2, <1>3, <1>4, <1>5, <1>6, <1>7, <1>8, <1>9, <1>10 DEF Next

(* The invariant is inductive. *)
LEMMA NextIInv == IInv /\ [Next]_vars => IInv'
<1> SUFFICES ASSUME IInv, [Next]_vars
             PROVE  IInv'
  OBVIOUS
<1>1. TypeOK'
  BY NextType DEF IInv
<1>2. OneSwapPerBar' /\ BarsAreSaved' /\ SentOrNone' /\ LoopIsAlive'
  BY <1>1, NextBars
<1>3. /\ state'.pending \subseteq Bars /\ stateFile'.pending \subseteq Bars
  BY <1>1 DEF TypeOK, EngineStates
<1>4. CountedIsFinished' /\ AwaitedIsUncounted'
  BY <1>3, NextSound, NextFound DEF Sound, CountedIsFinished, AwaitedIsUncounted
<1> QED
  BY <1>1, <1>2, <1>4 DEF IInv

(* The invariant holds in every reachable state, for any number of bars.    *)
THEOREM WalletInductiveInvariant == Spec => []IInv
BY InitIInv, NextIInv, PTL DEF Spec

(* A bar leads to at most one swap, whichever saves fail and whenever the   *)
(* process dies (the order of engine.py:266-272).                           *)
THEOREM OneSwapForEachBar == Spec => []OneSwapPerBar
<1>1. IInv => OneSwapPerBar
  BY DEF IInv
<1> QED
  BY <1>1, WalletInductiveInvariant, PTL

(* No saved position contains a fill twice, nor one the wallet did not      *)
(* finish (engine.py:306-308).                                              *)
THEOREM FillIsCountedOnce == Spec => []FillCountedOnce
<1>1. IInv => FillCountedOnce
  BY DEF IInv, CountedIsFinished, FillCountedOnce
<1> QED
  BY <1>1, WalletInductiveInvariant, PTL
-----------------------------------------------------------------------------
(* What becomes of an order whose id was saved, in one copy of the state. *)
Accounts(s) ==
    \A b \in learned : b \in s.pending \/ walletOrders[b] = "failed" \/ s.counted[b] = 1

(* An id that was saved is of an order the wallet took; so is every row.  A  *)
(* search for another order does not find it, because it was booked before.  *)
LearnedIsOld ==
    /\ \A b \in learned : Accepted(b)
    /\ \A i \in 1 .. Len(booked) : Accepted(booked[i])
    /\ at \in {"swapping", "polling"} =>
         \A b \in plan : \A o \in FoundOrders(b) : o \in learned => o = b

(* One order is pending, and none while another is sent. *)
OnePending ==
    /\ \A b, c \in state.pending : b = c
    /\ at = "swapping" => state.pending = {}
    /\ at = "polling" => state.pending = plan

AInv ==
    /\ LearnedIsOld
    /\ OnePending
    /\ \A b, c \in stateFile.pending : b = c
    /\ Strays = {} => Accounts(stateFile) /\ (engineUp => Accounts(state))

LEMMA InitAInv == Init => AInv
<1> SUFFICES ASSUME Init PROVE AInv
  OBVIOUS
<1>1. LearnedIsOld /\ OnePending
  BY DEF Init, WalletInit, LearnedIsOld, OnePending, EmptyState
<1>2. \A b, c \in stateFile.pending : b = c
  BY DEF Init, EmptyState
<1>3. Accounts(stateFile) /\ Accounts(state)
  BY DEF Init, Accounts
<1> QED
  BY <1>1, <1>2, <1>3 DEF AInv

(* An order the wallet took, and one that failed, remain so. *)
LEMMA AcceptedStays ==
    ASSUME IInv, [Next]_vars, NEW b \in Bars
    PROVE  /\ Accepted(b) => Accepted(b)'
           /\ walletOrders[b] = "failed" => walletOrders'[b] = "failed"
<1> USE DEF IInv
<1>1. DOMAIN walletOrders = Bars
  BY DEF TypeOK, WalletTypeOK
<1>2. ASSUME NEW c \in Bars, ExecuteConfirmed(c), Accepted(b)
      PROVE  walletOrders'[b] = walletOrders[b]
  <2>1. swaps[c] = 0
    BY <1>2 DEF ExecuteConfirmed, BarsAreSaved
  <2>2. b # c
    BY <1>2, <2>1 DEF SentOrNone, Accepted
  <2> QED
    BY <1>1, <1>2, <2>2 DEF ExecuteConfirmed, SendSwap
<1>3. CASE WalletStep
  BY <1>1, <1>3 DEF WalletStep, Wallet, Book, Drop, FinishOrder, FailOrder, Accepted
<1>4. CASE UNCHANGED walletVars
  BY <1>4 DEF walletVars, Accepted
<1>5. CASE \E c \in Bars : ExecuteConfirmed(c)
  BY <1>2, <1>5 DEF Accepted
<1> QED
  BY <1>3, <1>4, <1>5 DEF Next, vars, HoldBar, PlanTrade, Decline, SwapUnanswered,
     PollTimeout, RecordPending, PollOutcome, ReconcilePending, Die, Restart,
     NextBar

(* An id is learned when it arrives and at no other time. *)
LEMMA LearnedWhenRecorded ==
    ASSUME IInv, [Next]_vars, learned' # learned
    PROVE  \E b \in Bars : /\ RecordPending(b) /\ learned' = learned \cup {b}
                           /\ stateFile' = state' /\ at' = "polling" /\ plan' = {b}
<1> USE DEF IInv
<1>1. ASSUME HoldBar \/ PlanTrade PROVE FALSE
  <2>1. state.pending = {}
    BY <1>1 DEF HoldBar, PlanTrade, Ready
  <2>2. WithBar.pending = {}
    BY <2>1, NewFields
  <2> QED
    BY <1>1, <2>2 DEF HoldBar, PlanTrade, SaveState, SaveStateFails
<1>2. ASSUME NEW b \in Bars, PollOutcome(b) \/ ReconcilePending(b) PROVE FALSE
  <2>1. PICK o \in Bars : SaveState(Outcome(o)) \/ SaveStateFails
    BY <1>2, FoundAreBars DEF PollOutcome, ReconcilePending, TypeOK
  <2>2. Outcome(o).pending = {}
    BY NewFields DEF Outcome
  <2> QED
    BY <2>1, <2>2 DEF SaveState, SaveStateFails
<1>3. PICK b \in Bars : RecordPending(b)
  BY <1>1, <1>2 DEF Next, vars, Decline, SwapUnanswered, PollTimeout,
     ExecuteConfirmed, Die, Restart, NextBar, WalletStep
<1>4. SaveState(WithPending(b)) /\ Goto("polling", {b}) /\ state' = WithPending(b)
  BY <1>3 DEF RecordPending, SaveStateFails
<1>5. WithPending(b).pending = {b}
  BY NewFields
<1> QED
  BY <1>3, <1>4, <1>5 DEF SaveState, Goto

(* An order whose id never arrived stays a stray. *)
LEMMA StraysStay ==
    ASSUME IInv, [Next]_vars
    PROVE  Strays \subseteq Strays'
<1> SUFFICES ASSUME NEW b \in Strays PROVE b \in Strays'
  OBVIOUS
<1>1. /\ b \in Bars /\ Accepted(b) /\ b \notin learned
      /\ ~(at = "swapping" /\ b \in plan)
  BY DEF Strays
<1>2. Accepted(b)'
  BY <1>1, AcceptedStays
<1>3. b \notin learned'
  <2>1. ASSUME b \in learned' PROVE FALSE
    <3>1. PICK c \in Bars : RecordPending(c) /\ learned' = learned \cup {c}
      BY <1>1, <2>1, LearnedWhenRecorded
    <3> QED
      BY <1>1, <2>1, <3>1 DEF RecordPending
  <2> QED
    BY <2>1
<1>4. ~(at' = "swapping" /\ b \in plan')
  <2>1. ASSUME at' = "swapping", b \in plan' PROVE FALSE
    <3>1. CASE at' = at /\ plan' = plan
      BY <1>1, <2>1, <3>1
    <3>2. ASSUME NEW c \in Bars, ExecuteConfirmed(c) PROVE FALSE
      <4>1. b = c /\ swaps[c] = 0
        BY <2>1, <3>2 DEF ExecuteConfirmed, Goto, IInv, BarsAreSaved
      <4> QED
        BY <1>1, <4>1 DEF IInv, SentOrNone, Accepted
    <3>3. (at' = at /\ plan' = plan) \/ \E c \in Bars : ExecuteConfirmed(c)
      BY <2>1 DEF Next, vars, HoldBar, PlanTrade, Decline, SwapUnanswered,
         PollTimeout, RecordPending, PollOutcome, ReconcilePending, Die, Restart,
         NextBar, WalletStep, Goto, Back
    <3> QED
      BY <3>1, <3>2, <3>3
  <2> QED
    BY <2>1
<1> QED
  BY <1>1, <1>2, <1>3, <1>4 DEF Strays

(* One order is pending at a time. *)
LEMMA NextOnePending ==
    ASSUME IInv, AInv, [Next]_vars
    PROVE  OnePending' /\ \A b, c \in stateFile'.pending : b = c
<1> USE DEF IInv
<1>1. OnePending /\ \A b, c \in stateFile.pending : b = c
  BY DEF AInv
<1>2. ASSUME state'.pending = {}, at' # "polling", stateFile' \in {stateFile, state'}
      PROVE  OnePending' /\ \A b, c \in stateFile'.pending : b = c
  BY <1>1, <1>2 DEF OnePending
<1>3. CASE HoldBar \/ PlanTrade
  <2>1. state.pending = {} /\ state' = WithBar /\ at' # "polling"
        /\ stateFile' \in {stateFile, state'}
    BY <1>3 DEF HoldBar, PlanTrade, Ready, Goto, SaveState, SaveStateFails
  <2> QED
    BY <1>2, <2>1, NewFields
<1>4. ASSUME NEW b \in Bars, RecordPending(b)
      PROVE  OnePending' /\ \A x, c \in stateFile'.pending : x = c
  <2>1. /\ state' = WithPending(b) /\ stateFile' \in {stateFile, state'}
        /\ at' = "idle" \/ (at' = "polling" /\ plan' = {b})
    BY <1>4 DEF RecordPending, Goto, Back, SaveState, SaveStateFails
  <2>2. state'.pending = {b}
    BY <2>1, NewFields
  <2> QED
    BY <1>1, <2>1, <2>2 DEF OnePending
<1>5. ASSUME NEW b \in Bars, PollOutcome(b) \/ ReconcilePending(b)
      PROVE  OnePending' /\ \A x, c \in stateFile'.pending : x = c
  <2>1. PICK o \in Bars : /\ state' = Outcome(o)
                          /\ SaveState(Outcome(o)) \/ SaveStateFails
    BY <1>5, FoundAreBars DEF PollOutcome, ReconcilePending, TypeOK
  <2>2. state'.pending = {} /\ stateFile' \in {stateFile, state'}
    BY <2>1, NewFields DEF Outcome, SaveState, SaveStateFails
  <2>3. at' # "polling"
    BY <1>5 DEF PollOutcome, ReconcilePending, Back, Goto
  <2> QED
    BY <1>2, <2>2, <2>3
<1>6. CASE Die
  <2>1. state'.pending = {} /\ at' = "idle" /\ stateFile' = stateFile
    BY <1>6 DEF Die, Back, Goto, EmptyState
  <2> QED
    BY <1>2, <2>1
<1>7. CASE Restart
  <2>1. at' = "idle" /\ state' = stateFile /\ stateFile' = stateFile
    BY <1>7 DEF Restart, LoopIsAlive
  <2> QED
    BY <1>1, <2>1 DEF OnePending
<1>8. ASSUME NEW b \in Bars, ExecuteConfirmed(b)
      PROVE  OnePending' /\ \A x, c \in stateFile'.pending : x = c
  <2>1. /\ state'.pending = {} /\ at' = "swapping" /\ stateFile' = stateFile
    BY <1>8 DEF ExecuteConfirmed, Goto
  <2> QED
    BY <1>2, <2>1
<1>9. ASSUME UNCHANGED <<state, stateFile>>, at' = "idle" \/ UNCHANGED <<at, plan>>
      PROVE  OnePending' /\ \A b, c \in stateFile'.pending : b = c
  BY <1>1, <1>9 DEF OnePending
<1> QED
  BY <1>3, <1>4, <1>5, <1>6, <1>7, <1>8, <1>9 DEF Next, vars, Decline,
     SwapUnanswered, PollTimeout, NextBar, WalletStep, Goto, Back

(* A search keeps missing the orders whose id was saved before. *)
LEMMA NextLearnedIsOld ==
    ASSUME IInv, AInv, [Next]_vars
    PROVE  LearnedIsOld'
<1> USE DEF IInv
<1>1. LearnedIsOld /\ learned \subseteq Bars /\ plan \subseteq Bars
      /\ booked \in Seq(Bars)
  BY DEF AInv, TypeOK, WalletTypeOK
<1>2. \A b \in learned' : Accepted(b)'
  <2>1. \A b \in learned : Accepted(b)'
    BY <1>1, AcceptedStays DEF LearnedIsOld
  <2>2. ASSUME NEW b \in Bars, RecordPending(b) PROVE Accepted(b)'
    BY <2>2, AcceptedStays DEF RecordPending
  <2> QED
    BY <2>1, <2>2, LearnedWhenRecorded
<1>3. \A i \in 1 .. Len(booked)' : Accepted(booked[i])'
  <2>1. CASE booked' = booked
    <3>1. \A i \in 1 .. Len(booked) : booked[i] \in Bars /\ Accepted(booked[i])
      BY <1>1 DEF LearnedIsOld
    <3>2. \A b \in Bars : Accepted(b) => walletOrders'[b] \in {"open", "finished", "failed"}
      BY AcceptedStays DEF Accepted
    <3> QED
      BY <2>1, <3>1, <3>2 DEF Accepted
  <2>2. ASSUME NEW c \in Bars, Book(c) PROVE \A i \in 1 .. Len(booked)' : Accepted(booked[i])'
    <3>1. /\ booked' = Append(booked, c) /\ Len(booked') = Len(booked) + 1
          /\ walletOrders'[c] = "open"
      BY <1>1, <2>2 DEF Book, TypeOK, WalletTypeOK
    <3>2. ASSUME NEW i \in 1 .. Len(booked')
          PROVE  walletOrders'[booked'[i]] \in {"open", "finished", "failed"}
      <4>1. CASE i = Len(booked) + 1
        BY <1>1, <3>1, <4>1
      <4>2. CASE i \in 1 .. Len(booked)
        <5>1. booked'[i] = booked[i] /\ booked[i] \in Bars /\ Accepted(booked[i])
          BY <1>1, <3>1, <4>2 DEF LearnedIsOld
        <5> QED
          BY <5>1, AcceptedStays DEF Accepted
      <4> QED
        BY <1>1, <3>1, <4>1, <4>2
    <3> QED
      BY <3>2 DEF Accepted
  <2>3. booked' = booked \/ \E c \in Bars : Book(c)
    BY DEF Next, vars, walletVars, HoldBar, PlanTrade, Decline, SwapUnanswered,
       PollTimeout, ExecuteConfirmed, SendSwap, RecordPending, PollOutcome,
       ReconcilePending, Die, Restart, NextBar, WalletStep, Wallet, Drop,
       FinishOrder, FailOrder
  <2> QED
    BY <2>1, <2>2, <2>3
<1>4. ASSUME at' \in {"swapping", "polling"}, NEW b \in plan', NEW o \in FoundOrders(b)',
             o \in learned'
      PROVE  o = b
  <2>1. ASSUME NEW c \in Bars, ExecuteConfirmed(c) PROVE o = b
    <3>1. b = c /\ SendSwap(c, SideOfPlan)
      BY <2>1 DEF ExecuteConfirmed, Goto
    <3>2. FoundOrders(c)' = {c}
      BY <3>1, FoundWhenSent DEF TypeOK
    <3> QED
      BY <3>1, <3>2
  <2>2. ASSUME NEW c \in Bars, RecordPending(c) PROVE o = b
    <3>1. plan' = {c} /\ at = "swapping" /\ c \in plan /\ UNCHANGED walletVars
      BY <1>4, <2>2 DEF RecordPending, Goto, Back
    <3>2. FoundOrders(c)' = FoundOrders(c) /\ b = c
      BY <3>1 DEF FoundOrders, walletVars
    <3>3. learned' \subseteq learned \cup {c}
      BY <2>2, NewFields DEF RecordPending, SaveState, SaveStateFails
    <3> QED
      BY <1>1, <1>4, <3>1, <3>2, <3>3 DEF LearnedIsOld
  <2>3. ASSUME UNCHANGED <<at, plan, learned>>, FoundOrders(b)' = FoundOrders(b) PROVE o = b
    BY <1>1, <1>4, <2>3 DEF LearnedIsOld
  <2>4. CASE WalletStep
    <3>1. UNCHANGED <<at, plan, learned>> /\ b \in Bars
      BY <1>1, <2>4 DEF WalletStep
    <3>2. ASSUME NEW c \in Bars, Book(c) PROVE o = b
      <4>1. o \in FoundOrders(b) \/ o = c
        BY <1>4, <3>1, <3>2, FoundWhenBooked DEF TypeOK
      <4>2. c \notin learned
        BY <1>1, <3>2 DEF Book, LearnedIsOld, Accepted
      <4> QED
        BY <1>1, <1>4, <3>1, <4>1, <4>2 DEF LearnedIsOld
    <3>3. ASSUME NEW c \in Bars, Drop(c) \/ FinishOrder(c) \/ FailOrder(c) PROVE o = b
      <4>1. FoundOrders(b)' = FoundOrders(b)
        BY <3>3 DEF Drop, FinishOrder, FailOrder, FoundOrders
      <4> QED
        BY <2>3, <3>1, <4>1
    <3> QED
      BY <2>4, <3>2, <3>3 DEF WalletStep, Wallet
  <2>5. ASSUME UNCHANGED <<at, plan, learned, walletVars>> PROVE o = b
    <3>1. FoundOrders(b)' = FoundOrders(b)
      BY <2>5 DEF FoundOrders, walletVars
    <3> QED
      BY <2>3, <2>5, <3>1
  <2>6. \/ UNCHANGED <<at, plan, learned, walletVars>>
        \/ WalletStep
        \/ \E c \in Bars : ExecuteConfirmed(c) \/ RecordPending(c)
    <3>1. CASE HoldBar \/ PlanTrade
      BY <1>4, <3>1 DEF HoldBar, PlanTrade, Ready, Goto
    <3>2. CASE Decline \/ SwapUnanswered \/ PollTimeout \/ Die
      BY <1>4, <3>2 DEF Decline, SwapUnanswered, PollTimeout, Die, Back, Goto
    <3>3. CASE \E c \in Bars : PollOutcome(c) \/ ReconcilePending(c)
      BY <1>4, <3>3 DEF PollOutcome, ReconcilePending, Back, Goto
    <3>4. CASE Restart \/ NextBar \/ UNCHANGED vars
      BY <3>4 DEF Restart, NextBar, vars
    <3> QED
      BY <3>1, <3>2, <3>3, <3>4 DEF Next
  <2> QED
    BY <2>1, <2>2, <2>4, <2>5, <2>6
<1> QED
  BY <1>2, <1>3, <1>4 DEF LearnedIsOld

(* The outcome of the pending order accounts for it and for all others. *)
LEMMA OutcomeAccounts ==
    ASSUME TypeOK, Accounts(state), NEW b \in Bars, b \in state.pending,
           \A x, y \in state.pending : x = y, state.counted[b] = 0, Terminal(b)
    PROVE  Accounts(Outcome(b))
<1>1. state.counted \in [Bars -> Nat] /\ learned \subseteq Bars
  BY DEF TypeOK, EngineStates
<1> SUFFICES ASSUME NEW c \in learned
             PROVE  walletOrders[c] = "failed" \/ Outcome(b).counted[c] = 1
  BY DEF Accounts
<1>2. CASE walletOrders[b] = "finished"
  <2>1. Outcome(b).counted = [state.counted EXCEPT ![b] = @ + 1]
    BY <1>2, NewFields DEF Outcome
  <2>2. CASE c = b
    BY <1>1, <2>1, <2>2
  <2>3. CASE c # b
    BY <1>1, <2>1, <2>3 DEF Accounts
  <2> QED
    BY <2>2, <2>3
<1>3. CASE walletOrders[b] = "failed"
  <2>1. Outcome(b).counted = state.counted
    BY <1>3, NewFields DEF Outcome
  <2> QED
    BY <1>3, <2>1 DEF Accounts
<1> QED
  BY <1>2, <1>3 DEF Terminal

(* While no order is stray, both copies account for what was saved. *)
LEMMA NextAccounts ==
    ASSUME IInv, AInv, [Next]_vars, Strays' = {}
    PROVE  Accounts(stateFile)' /\ (engineUp' => Accounts(state)')
<1> USE DEF IInv
<1>1. /\ Strays = {} /\ OnePending /\ LearnedIsOld
      /\ Accounts(stateFile) /\ (engineUp => Accounts(state))
  BY StraysStay DEF AInv
<1>2. learned \subseteq Bars
  BY DEF TypeOK
<1>3. ASSUME NEW s, Accounts(s), learned' = learned
      PROVE  /\ s = state' => Accounts(state)'
             /\ s = stateFile' => Accounts(stateFile)'
  BY <1>2, <1>3, AcceptedStays DEF Accounts
<1>4. CASE HoldBar \/ PlanTrade
  <2>1. learned' = learned
    BY <1>4, LearnedWhenRecorded DEF HoldBar, PlanTrade, RecordPending, Ready
  <2>2. Accounts(WithBar) /\ engineUp
    BY <1>1, <1>4, NewFields DEF Accounts, HoldBar, PlanTrade, Ready
  <2>3. state' = WithBar /\ stateFile' \in {stateFile, WithBar}
    BY <1>4 DEF HoldBar, PlanTrade, SaveState, SaveStateFails
  <2> QED
    BY <1>1, <1>3, <2>1, <2>2, <2>3
<1>5. ASSUME NEW b \in Bars, RecordPending(b)
      PROVE  Accounts(stateFile)' /\ Accounts(state)'
  <2>1. /\ state.pending = {} /\ Accounts(state) /\ state' = WithPending(b)
        /\ WithPending(b).pending = {b}
        /\ WithPending(b).counted = state.counted
        /\ UNCHANGED walletOrders
    BY <1>1, <1>5, NewFields DEF RecordPending, OnePending, LoopIsAlive, walletVars
  <2>2. \/ learned' = learned /\ stateFile' = stateFile
        \/ learned' = learned \cup {b} /\ stateFile' = state'
    BY <1>5, <2>1 DEF RecordPending, SaveState, SaveStateFails
  <2>3. Accounts(state)'
    BY <2>1, <2>2 DEF Accounts
  <2> QED
    BY <1>1, <2>1, <2>2, <2>3 DEF Accounts
<1>6. ASSUME NEW b \in Bars, b \in state.pending, engineUp, state.counted[b] = 0,
             Terminal(b), state' = Outcome(b),
             SaveState(Outcome(b)) \/ SaveStateFails, learned' = learned
      PROVE  Accounts(stateFile)' /\ Accounts(state)'
  <2>1. Accounts(Outcome(b))
    BY <1>1, <1>6, OutcomeAccounts DEF OnePending
  <2>2. stateFile' \in {stateFile, Outcome(b)}
    BY <1>6 DEF SaveState, SaveStateFails
  <2> QED
    BY <1>1, <1>3, <1>6, <2>1, <2>2
<1>7. ASSUME NEW b \in Bars, PollOutcome(b)
      PROVE  Accounts(stateFile)' /\ Accounts(state)'
  <2>1. /\ at = "polling" /\ b \in plan /\ engineUp /\ b \in state.pending
    BY <1>1, <1>7 DEF PollOutcome, OnePending, LoopIsAlive
  <2>2. PICK o \in FoundOrders(b) : /\ Terminal(o) /\ state' = Outcome(o)
                                    /\ SaveState(Outcome(o)) \/ SaveStateFails
    BY <1>7 DEF PollOutcome
  <2>3. o \in Bars /\ Accepted(o)
    BY <2>2, FoundAreBars DEF TypeOK, Terminal, Accepted
  <2>4. o \in learned
    BY <1>1, <2>1, <2>3 DEF Strays
  <2>5. o = b
    BY <1>1, <2>1, <2>2, <2>4 DEF LearnedIsOld
  <2>6. state.counted[b] = 0
    BY <2>1, <2>2, <2>5 DEF AwaitedIsUncounted
  <2>7. learned' = learned
    BY <2>1, LearnedWhenRecorded DEF RecordPending
  <2> QED
    BY <1>6, <2>1, <2>2, <2>5, <2>6, <2>7
<1>8. ASSUME NEW b \in Bars, ReconcilePending(b)
      PROVE  Accounts(stateFile)' /\ Accounts(state)'
  <2>1. state.counted[b] = 0
    BY <1>8 DEF ReconcilePending, AwaitedIsUncounted
  <2>2. learned' = learned
    BY <1>8, LearnedWhenRecorded DEF RecordPending, ReconcilePending
  <2> QED
    BY <1>6, <1>8, <2>1, <2>2 DEF ReconcilePending
<1>9. CASE Die \/ Restart
  BY <1>1, <1>3, <1>9 DEF Die, Restart
<1>10. ASSUME UNCHANGED <<state, stateFile, engineUp, learned>>
       PROVE  Accounts(stateFile)' /\ (engineUp' => Accounts(state)')
  BY <1>1, <1>3, <1>10
<1> QED
  BY <1>4, <1>5, <1>7, <1>8, <1>9, <1>10 DEF Next, vars, Decline, SwapUnanswered,
     PollTimeout, ExecuteConfirmed, NextBar, WalletStep

(* The part of the invariant that accounts for orders is inductive. *)
LEMMA AccountingInvariant == Spec => [](IInv /\ AInv)
<1>1. Init => IInv /\ AInv
  BY InitIInv, InitAInv
<1>2. IInv /\ AInv /\ [Next]_vars => AInv'
  <2> SUFFICES ASSUME IInv, AInv, [Next]_vars PROVE AInv'
    OBVIOUS
  <2>1. (\A b, c \in stateFile.pending : b = c)' /\ OnePending'
    BY NextOnePending
  <2> QED
    BY <2>1, NextLearnedIsOld, NextAccounts DEF AInv
<1> QED
  BY <1>1, <1>2, WalletInductiveInvariant, PTL DEF Spec

(* An order whose id was saved stays pending in the file until it failed or  *)
(* its fill was saved with it (_record_pending, _reconcile_pending,          *)
(* _clear_pending), whichever saves fail and whenever the process dies,      *)
(* unless an order whose id never arrived can be found in its place          *)
(* (_find_order's fallback).                                                 *)
THEOREM SavedOrdersAreAccounted == Spec => []SavedOrderIsAccounted
<1>1. AInv => SavedOrderIsAccounted
  BY DEF AInv, Accounts, SavedOrderIsAccounted
<1> QED
  BY <1>1, AccountingInvariant, PTL
-----------------------------------------------------------------------------
(* The fills of one side that a copy of the state has applied. *)
Applied(s, side) == {b \in Bars : s.counted[b] = 1 /\ sideOf[b] = side}

(* The position of a copy is the net of the fills applied to it. *)
PositionIsNet(s) ==
    Cardinality(Applied(s, "buy")) - Cardinality(Applied(s, "sell"))
        = IF s.holding THEN 1 ELSE 0

(* The order buys what the copy does not hold, or sells what it holds. *)
Turns(b, s) == sideOf[b] = "sell" <=> s.holding

Balanced(s) ==
    /\ PositionIsNet(s)
    /\ \A b \in s.pending : Accepted(b) /\ Turns(b, s)

PInv ==
    /\ Balanced(state)
    /\ Balanced(stateFile)
    /\ at \in {"swapping", "polling"} => \A b \in plan : Turns(b, state)

(* Sets of bars can be counted. *)
LEMMA BarsAreCounted ==
    ASSUME NEW S \in SUBSET Bars
    PROVE  IsFiniteSet(S) /\ Cardinality(S) \in Nat
<1>1. IsFiniteSet(Bars)
  <2>1. 1 \in Int /\ MaxBar \in Int
    BY MaxBarAssumption
  <2> QED
    BY <2>1, FS_Interval DEF Bars
<1>2. IsFiniteSet(S)
  BY <1>1, FS_Subset
<1> QED
  BY <1>2, FS_CardinalityType

(* An engine without a state has no position and no fill. *)
LEMMA EmptyIsBalanced == Balanced(EmptyState)
<1>1. /\ EmptyState.pending = {} /\ EmptyState.holding = FALSE
      /\ \A b \in Bars : EmptyState.counted[b] = 0
  BY DEF EmptyState
<1>2. \A side : Applied(EmptyState, side) = {}
  BY <1>1 DEF Applied
<1>3. PositionIsNet(EmptyState)
  BY <1>1, <1>2, FS_EmptySet DEF PositionIsNet
<1> QED
  BY <1>1, <1>3 DEF Balanced

LEMMA InitPInv == Init => PInv
BY EmptyIsBalanced DEF Init, PInv

(* The side of an order the wallet took is never changed. *)
LEMMA SideStays ==
    ASSUME IInv, [Next]_vars, NEW b \in Bars, Accepted(b)
    PROVE  sideOf'[b] = sideOf[b]
<1>1. CASE UNCHANGED sideOf
  BY <1>1
<1>2. ASSUME NEW c \in Bars, ExecuteConfirmed(c) PROVE sideOf'[b] = sideOf[b]
  <2>1. swaps[c] = 0 /\ sideOf \in [Bars -> Sides]
    BY <1>2 DEF ExecuteConfirmed, IInv, BarsAreSaved, TypeOK, WalletTypeOK
  <2>2. b # c
    BY <2>1 DEF IInv, SentOrNone, Accepted
  <2> QED
    BY <1>2, <2>1, <2>2 DEF ExecuteConfirmed, SendSwap
<1>3. UNCHANGED sideOf \/ \E c \in Bars : ExecuteConfirmed(c)
  BY DEF Next, vars, walletVars, HoldBar, PlanTrade, Decline, SwapUnanswered,
     PollTimeout, RecordPending, PollOutcome, ReconcilePending, Die, Restart,
     NextBar, WalletStep, Wallet, Book, Drop, FinishOrder, FailOrder
<1> QED
  BY <1>1, <1>2, <1>3

(* A balanced copy stays balanced while the wallet and the loop go on. *)
LEMMA BalanceStays ==
    ASSUME IInv, [Next]_vars, NEW s \in EngineStates, Sound(s), Balanced(s)
    PROVE  /\ s = state' => Balanced(state)'
           /\ s = stateFile' => Balanced(stateFile)'
<1>1. ASSUME NEW b \in Bars, s.counted[b] = 1 PROVE sideOf'[b] = sideOf[b]
  <2>1. Accepted(b)
    BY <1>1 DEF Sound, Accepted
  <2> QED
    BY <2>1, SideStays
<1>2. ASSUME NEW side
      PROVE  {b \in Bars : s.counted[b] = 1 /\ sideOf'[b] = side} = Applied(s, side)
  BY <1>1 DEF Applied
<1>3. ASSUME NEW b \in s.pending
      PROVE  Accepted(b)' /\ (sideOf'[b] = "sell" <=> s.holding)
  <2>1. b \in Bars /\ Accepted(b) /\ Turns(b, s)
    BY DEF EngineStates, Balanced
  <2> QED
    BY <2>1, AcceptedStays, SideStays DEF Turns
<1>4. ASSUME s = state' PROVE Balanced(state)'
  <2>1. \A side : Applied(state, side)' = Applied(s, side)
    BY <1>2, <1>4 DEF Applied
  <2> QED
    BY <1>3, <1>4, <2>1 DEF Balanced, PositionIsNet, Turns
<1>5. ASSUME s = stateFile' PROVE Balanced(stateFile)'
  <2>1. \A side : Applied(stateFile, side)' = Applied(s, side)
    BY <1>2, <1>5 DEF Applied
  <2> QED
    BY <1>3, <1>5, <2>1 DEF Balanced, PositionIsNet, Turns
<1> QED
  BY <1>4, <1>5

(* The position the engine makes of a fill. *)
LEMMA NewPositions ==
    ASSUME TypeOK
    PROVE  /\ WithBar.holding = state.holding
           /\ Cleared.holding = state.holding
           /\ \A b \in Bars : WithPending(b).holding = state.holding
           /\ \A b \in Bars : Filled(b).holding <=> sideOf[b] = "buy"
<1>1. state \in EngineStates
  BY DEF TypeOK
<1> QED
  BY <1>1 DEF EngineStates, WithBar, Cleared, WithPending, Filled

(* A fill that turns the position is one more fill of its side. *)
LEMMA OutcomeIsBalanced ==
    ASSUME TypeOK, PositionIsNet(state), NEW o \in Bars, state.counted[o] = 0,
           Turns(o, state)
    PROVE  Balanced(Outcome(o))
<1>1. /\ state.counted \in [Bars -> Nat] /\ state.holding \in BOOLEAN
      /\ sideOf[o] \in {"buy", "sell"}
  BY DEF TypeOK, EngineStates, WalletTypeOK, Sides
<1>2. Outcome(o).pending = {}
  BY NewFields DEF Outcome
<1>3. ASSUME NEW s, s.counted = state.counted, s.holding = state.holding
      PROVE  PositionIsNet(s)
  BY <1>3 DEF PositionIsNet, Applied
<1>4. CASE walletOrders[o] # "finished"
  <2>1. PositionIsNet(Cleared)
    BY <1>3, NewFields, NewPositions
  <2> QED
    BY <1>2, <1>4, <2>1 DEF Outcome, Balanced
<1>5. CASE walletOrders[o] = "finished"
  <2> DEFINE f == Filled(o)
  <2>1. /\ f.counted = [state.counted EXCEPT ![o] = @ + 1]
        /\ f.holding <=> sideOf[o] = "buy"
    BY NewFields, NewPositions
  <2>2. f.counted[o] = 1 /\ \A b \in Bars \ {o} : f.counted[b] = state.counted[b]
    BY <1>1, <2>1
  <2> HIDE DEF f
  <2>3. ASSUME NEW side
        PROVE  Applied(f, side) = IF sideOf[o] = side THEN Applied(state, side) \cup {o}
                                                      ELSE Applied(state, side)
    BY <2>2 DEF Applied
  <2>4. ASSUME NEW side
        PROVE  /\ IsFiniteSet(Applied(state, side))
               /\ Cardinality(Applied(state, side)) \in Nat
               /\ o \notin Applied(state, side)
    <3>1. Applied(state, side) \in SUBSET Bars /\ o \notin Applied(state, side)
      BY DEF Applied
    <3> QED
      BY <3>1, BarsAreCounted
  <2>5. ASSUME NEW side
        PROVE  Cardinality(Applied(f, side)) =
                 Cardinality(Applied(state, side)) + IF sideOf[o] = side THEN 1 ELSE 0
    <3>1. Cardinality(Applied(state, side) \cup {o}) = Cardinality(Applied(state, side)) + 1
      BY <2>4, FS_AddElement
    <3> QED
      BY <2>3, <2>4, <3>1
  <2>6. PositionIsNet(f)
    <3>1. CASE sideOf[o] = "buy"
      <4>1. ~state.holding /\ f.holding
        BY <2>1, <3>1 DEF Turns
      <4>2. Cardinality(Applied(f, "buy")) = Cardinality(Applied(state, "buy")) + 1
        BY <2>5, <3>1
      <4>3. Cardinality(Applied(f, "sell")) = Cardinality(Applied(state, "sell"))
        BY <2>4, <2>5, <3>1
      <4> QED
        BY <2>4, <4>1, <4>2, <4>3 DEF PositionIsNet
    <3>2. CASE sideOf[o] = "sell"
      <4>1. state.holding /\ ~f.holding
        BY <2>1, <3>2 DEF Turns
      <4>2. Cardinality(Applied(f, "sell")) = Cardinality(Applied(state, "sell")) + 1
        BY <2>5, <3>2
      <4>3. Cardinality(Applied(f, "buy")) = Cardinality(Applied(state, "buy"))
        BY <2>4, <2>5, <3>2
      <4> QED
        BY <2>4, <4>1, <4>2, <4>3 DEF PositionIsNet
    <3> QED
      BY <1>1, <3>1, <3>2
  <2> QED
    BY <1>2, <1>5, <2>6 DEF Outcome, Balanced, f
<1> QED
  BY <1>4, <1>5

(* A new memory that is balanced, written to the file or not, with an order *)
(* in hand that still turns the position.                                   *)
LEMMA NextPInv ==
    ASSUME IInv, AInv, PInv, [Next]_vars
    PROVE  PInv'
<1> USE DEF IInv
<1>1. /\ Sound(state) /\ Sound(stateFile) /\ Balanced(state) /\ Balanced(stateFile)
      /\ state \in EngineStates /\ stateFile \in EngineStates /\ plan \subseteq Bars
  BY SoundCopies DEF AwaitedIsUncounted, PInv, TypeOK
<1>2. ASSUME NEW s \in EngineStates, Sound(s), Balanced(s), state' = s,
             stateFile' \in {s, stateFile}
      PROVE  Balanced(state)' /\ Balanced(stateFile)'
  BY <1>1, <1>2, BalanceStays
<1>3. ASSUME NEW s, s.counted = state.counted, s.holding = state.holding,
             s.pending \subseteq state.pending
      PROVE  Balanced(s) /\ Sound(s)
  BY <1>1, <1>3 DEF Balanced, PositionIsNet, Applied, Turns, Sound
<1>4. CASE HoldBar \/ PlanTrade
  <2>1. /\ state' = WithBar /\ stateFile' \in {WithBar, stateFile}
        /\ at' \in {"idle", "confirming"}
    BY <1>4 DEF HoldBar, PlanTrade, Ready, Goto, SaveState, SaveStateFails
  <2>2. Balanced(WithBar) /\ Sound(WithBar) /\ WithBar \in EngineStates
    BY <1>3, NewFields, NewPositions, NewStates
  <2> QED
    BY <1>2, <2>1, <2>2 DEF PInv
<1>5. ASSUME NEW b \in Bars, RecordPending(b) PROVE PInv'
  <2>1. /\ state' = WithPending(b) /\ stateFile' \in {WithPending(b), stateFile}
        /\ at = "swapping" /\ b \in plan /\ plan' \in {{}, {b}}
        /\ Accepted(b) /\ UNCHANGED walletVars
    BY <1>5 DEF RecordPending, Goto, Back, SaveState, SaveStateFails
  <2>2. Turns(b, state)
    BY <2>1 DEF PInv
  <2>3. /\ WithPending(b).counted = state.counted
        /\ WithPending(b).holding = state.holding
        /\ WithPending(b).pending = {b}
        /\ WithPending(b) \in EngineStates
    BY NewFields, NewPositions, NewStates
  <2>4. state.counted[b] = 0
    BY <2>1 DEF AwaitedIsUncounted, FoundOrders
  <2>5. Sound(WithPending(b))
    BY <1>1, <2>3, <2>4 DEF Sound
  <2>6. Balanced(WithPending(b))
    BY <1>1, <2>1, <2>2, <2>3 DEF Balanced, PositionIsNet, Applied, Turns
  <2>7. \A c \in plan' : Turns(c, state)'
    BY <2>1, <2>2, <2>3 DEF Turns, walletVars
  <2> QED
    BY <1>2, <2>1, <2>3, <2>5, <2>6, <2>7 DEF PInv
<1>6. ASSUME NEW b \in Bars, PollOutcome(b) \/ ReconcilePending(b) PROVE PInv'
  <2>1. PICK o \in Bars : /\ state' = Outcome(o)
                          /\ SaveState(Outcome(o)) \/ SaveStateFails
                          /\ state.counted[o] = 0 /\ Turns(o, state)
    <3>1. CASE PollOutcome(b)
      <4>1. PICK o \in FoundOrders(b) :
               /\ state' = Outcome(o)
               /\ SaveState(Outcome(o)) \/ SaveStateFails
        BY <3>1 DEF PollOutcome
      <4>2. at = "polling" /\ b \in plan
        BY <3>1 DEF PollOutcome
      <4>3. state.counted[o] = 0 /\ Turns(b, state)
        BY <4>2 DEF AwaitedIsUncounted, PInv
      <4>4. o \in Bars /\ sideOf[o] = sideOf[b]
        BY FoundAreBars DEF TypeOK, FoundOrders
      <4> QED
        BY <4>1, <4>3, <4>4 DEF Turns
    <3>2. CASE ReconcilePending(b)
      BY <1>1, <3>2 DEF ReconcilePending, AwaitedIsUncounted, Balanced
    <3> QED
      BY <1>6, <3>1, <3>2
  <2>2. /\ Sound(Outcome(o)) /\ Balanced(Outcome(o)) /\ Outcome(o) \in EngineStates
    BY <1>1, <2>1, OutcomeIsSound, OutcomeIsBalanced, NewStates DEF Balanced
  <2>3. stateFile' \in {Outcome(o), stateFile} /\ at' = "idle"
    BY <1>6, <2>1 DEF PollOutcome, ReconcilePending, Goto, Back, SaveState,
                      SaveStateFails
  <2> QED
    BY <1>2, <2>1, <2>2, <2>3 DEF PInv
<1>7. CASE Die
  <2>1. EmptyState \in EngineStates /\ Sound(EmptyState)
    BY NewStates DEF Sound, EmptyState
  <2>2. state' = EmptyState /\ stateFile' = stateFile /\ at' = "idle"
    BY <1>7 DEF Die, Back, Goto
  <2> QED
    BY <1>2, <2>1, <2>2, EmptyIsBalanced DEF PInv
<1>8. CASE Restart
  <2>1. state' = stateFile /\ stateFile' = stateFile /\ at' = "idle"
    BY <1>8 DEF Restart, LoopIsAlive
  <2> QED
    BY <1>1, <1>2, <2>1 DEF PInv
<1>9. ASSUME NEW b \in Bars, ExecuteConfirmed(b) PROVE PInv'
  <2>1. /\ UNCHANGED <<state, stateFile>> /\ plan' = {b}
        /\ sideOf' = [sideOf EXCEPT ![b] = SideOfPlan]
    BY <1>9 DEF ExecuteConfirmed, SendSwap, Goto
  <2>2. sideOf'[b] = SideOfPlan
    BY <2>1 DEF TypeOK, WalletTypeOK
  <2>3. Turns(b, state)'
    BY <2>1, <2>2 DEF Turns, SideOfPlan
  <2> QED
    BY <1>1, <1>2, <2>1, <2>3 DEF PInv
<1>10. ASSUME UNCHANGED <<state, stateFile, sideOf>>,
              at' \notin {"swapping", "polling"} \/ UNCHANGED <<at, plan>>
       PROVE  PInv'
  <2>1. \A b \in plan : Turns(b, state) => Turns(b, state)'
    BY <1>10 DEF Turns
  <2> QED
    BY <1>1, <1>2, <1>10, <2>1 DEF PInv
<1> QED
  BY <1>4, <1>5, <1>6, <1>7, <1>8, <1>9, <1>10 DEF Next, vars, walletVars, Decline,
     SwapUnanswered, PollTimeout, NextBar, WalletStep, Wallet, Book, Drop,
     FinishOrder, FailOrder, Goto, Back

(* While no order is stray, what finished at the wallet was applied. *)
LEMMA NetIsBalance ==
    ASSUME IInv, AInv, PInv
    PROVE  PositionIsBalance
<1> USE DEF IInv
<1> SUFFICES ASSUME engineUp, at # "swapping", state.pending = {}, Strays = {}
             PROVE  state.holding = (Tokens = 1)
  BY DEF PositionIsBalance
<1>1. Accounts(state) /\ Sound(state) /\ PositionIsNet(state)
      /\ state.holding \in BOOLEAN
  BY SoundCopies DEF AInv, AwaitedIsUncounted, PInv, Balanced, TypeOK, EngineStates
<1>2. ASSUME NEW b \in Bars
      PROVE  walletOrders[b] = "finished" <=> state.counted[b] = 1
  <2>1. ASSUME walletOrders[b] = "finished" PROVE state.counted[b] = 1
    <3>1. b \in learned
      BY <2>1 DEF Strays, Accepted
    <3> QED
      BY <1>1, <2>1, <3>1 DEF Accounts
  <2> QED
    BY <1>1, <2>1 DEF Sound
<1>3. ASSUME NEW side PROVE Finished(side) = Applied(state, side)
  BY <1>2 DEF Finished, Applied
<1>4. Tokens = IF state.holding THEN 1 ELSE 0
  BY <1>1, <1>3 DEF Tokens, PositionIsNet
<1> QED
  BY <1>1, <1>4

(* When no swap runs and nothing is pending, the position the engine acts   *)
(* on is what the wallet holds, whichever saves failed and whenever the     *)
(* process died, unless an order's id never arrived (_apply_order_fill).    *)
THEOREM PositionIsTheBalance == Spec => []PositionIsBalance
<1>1. Init => IInv /\ AInv /\ PInv
  BY InitIInv, InitAInv, InitPInv
<1>2. IInv /\ AInv /\ PInv /\ [Next]_vars => PInv'
  BY NextPInv
<1>3. IInv /\ AInv /\ PInv => PositionIsBalance
  BY NetIsBalance
<1> QED
  BY <1>1, <1>2, <1>3, AccountingInvariant, PTL DEF Spec
=============================================================================
