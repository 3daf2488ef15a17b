----------------------- MODULE DirectExecutionProofs -----------------------
(***************************************************************************)
(* Theorems of DirectExecution, for all signals, days and account states.   *)
(***************************************************************************)
EXTENDS DirectExecution, TLAPS

(* The order of a preview has a fingerprint. *)
LEMMA FingerprintOfPreview ==
    ASSUME NEW sig \in Signals, TypeOK
    PROVE  <<sig, today>> \in Fingerprints
BY DEF TypeOK, Fingerprints

(* Observing an account leaves a latch that is a reason, or none. *)
LEMMA ObservedLatch ==
    ASSUME NEW pause \in PauseReasons, NEW s \in Snapshots
    PROVE  ObserveBuyRisk(pause, s) \in PauseReasons
BY DEF ObserveBuyRisk, FirstRisk, PauseReasons, RiskReasons

(* The journal only moves to phases. *)
LEMMA TransitionTarget ==
    ASSUME NEW fp, NEW p, CanTransition(fp, p)
    PROVE  p \in Phases
BY DEF CanTransition, Transitions, Phases, Unresolved, Terminal

(* A save keeps both copies of the journal functions from orders to phases. *)
LEMMA SaveType ==
    ASSUME JournalTypeOK, NEW fp, NEW p \in Phases, Save(fp, p)
    PROVE  JournalTypeOK'
BY DEF JournalTypeOK, Save

LEMMA TransitionType ==
    ASSUME JournalTypeOK, NEW fp, NEW p, Transition(fp, p)
    PROVE  JournalTypeOK'
BY TransitionTarget, SaveType DEF Transition

LEMMA RecordResultType ==
    ASSUME JournalTypeOK, NEW fp, NEW status, RecordResult(fp, status)
    PROVE  JournalTypeOK' /\ UNCHANGED <<held, confirmation, latch>>
BY TransitionType DEF RecordResult, JournalTypeOK, journalVars

LEMMA MarkUnknownType ==
    ASSUME JournalTypeOK, NEW fp, MarkUnknown(fp) \/ MarkUnknownFails(fp)
    PROVE  JournalTypeOK' /\ UNCHANGED <<held, confirmation, latch>>
BY TransitionType
   DEF MarkUnknown, MarkUnknownFails, TransitionFails, SaveFails,
       JournalTypeOK, journalVars

(* What the executor holds is well typed after each of its operations. *)
LEMMA PreviewType ==
    ASSUME ExecutorTypeOK, NEW fp \in Fingerprints, NEW s \in Snapshots,
           Preview(fp, s) \/ PreviewRefused(fp, s)
    PROVE  ExecutorTypeOK'
<1>1. latch' \in PauseReasons
  BY ObservedLatch DEF Preview, PreviewRefused, ObserveRisk, ExecutorTypeOK
<1>2. CASE Preview(fp, s)
  <2>1. JournalTypeOK'
    BY <1>2, SaveType DEF Preview, Prepare, ExecutorTypeOK, Phases
  <2> QED
    BY <1>1, <1>2, <2>1 DEF Preview, ExecutorTypeOK
<1>3. CASE PreviewRefused(fp, s)
  <2>1. UNCHANGED <<records, journalFile, held, confirmation>>
    BY <1>3 DEF PreviewRefused, PrepareFails, SaveFails, journalVars
  <2> QED
    BY <1>1, <2>1 DEF ExecutorTypeOK, JournalTypeOK
<1> QED
  BY <1>2, <1>3

LEMMA ConfirmationType ==
    ASSUME ExecutorTypeOK, NEW fp \in Fingerprints, NEW s \in Snapshots,
           \/ ConfirmationRefused(fp, s, today)
           \/ Rehearse(fp, s, today)
           \/ BeginSubmission(fp, s, today)
    PROVE  ExecutorTypeOK'
<1>1. latch' \in PauseReasons
  BY ObservedLatch
     DEF ConfirmationRefused, Rehearse, BeginSubmission, ObserveRisk, ExecutorTypeOK
<1>2. JournalTypeOK'
  BY TransitionType
     DEF ConfirmationRefused, Rehearse, BeginSubmission, ExecutorTypeOK, JournalTypeOK
<1>3. confirmation' = {} /\ UNCHANGED held
  BY DEF ConfirmationRefused, Rehearse, BeginSubmission, Consume
<1> QED
  BY <1>1, <1>2, <1>3 DEF ExecutorTypeOK
-----------------------------------------------------------------------------
LEMMA InitType == Init => TypeOK
<1> SUFFICES ASSUME Init PROVE TypeOK
  OBVIOUS
<1>1. ExecutorTypeOK
  BY DEF Init, ExecutorInit, ExecutorTypeOK, JournalInit, JournalTypeOK,
         NoRecords, PauseReasons
<1>2. ExchangeTypeOK
  BY DEF Init, ExchangeInit, ExchangeTypeOK, OrderStates
<1>3. today \in Days
  BY DaysAssumption DEF Init, Days
<1> QED
  BY <1>1, <1>2, <1>3 DEF Init, TypeOK

LEMMA NextType == TypeOK /\ [Next]_vars => TypeOK'
<1> SUFFICES ASSUME TypeOK, [Next]_vars
             PROVE  TypeOK'
  OBVIOUS
<1> USE DEF TypeOK
<1>1. CASE Open
  BY <1>1 DEF Open, OpenExecutor, LoadJournal, Calm, exchangeVars, taskVars,
              ExecutorTypeOK, JournalTypeOK, ExchangeTypeOK, PauseReasons
<1>2. CASE Close
  BY <1>2 DEF Close, DropExecutor, DropJournal, NoRecords, Calm, exchangeVars,
              taskVars, ExecutorTypeOK, JournalTypeOK, ExchangeTypeOK, PauseReasons
<1>3. CASE Crash
  BY <1>3 DEF Crash, DropExecutor, DropJournal, NoRecords, Calm, Finish,
              exchangeVars, ExecutorTypeOK, JournalTypeOK, ExchangeTypeOK,
              PauseReasons
<1>4. CASE Cancel
  BY <1>4 DEF Cancel, CancelPreview, Calm, exchangeVars, taskVars,
              ExecutorTypeOK, JournalTypeOK, ExchangeTypeOK
<1>5. CASE NextDay
  BY <1>5, DaysAssumption
     DEF NextDay, Days, executorVars, exchangeVars, taskVars,
         ExecutorTypeOK, JournalTypeOK, ExchangeTypeOK
<1>6. ASSUME NEW sig \in Signals, NEW s \in Snapshots, PreviewOrder(sig, s)
      PROVE  TypeOK'
  <2>1. ExecutorTypeOK'
    BY <1>6, FingerprintOfPreview, PreviewType DEF PreviewOrder
  <2> QED
    BY <1>6, <2>1 DEF PreviewOrder, Calm, exchangeVars, taskVars, ExchangeTypeOK
<1>7. ASSUME NEW fp \in Fingerprints, NEW s \in Snapshots,
             RefuseOrRehearse(fp, s) \/ Submit(fp, s)
      PROVE  TypeOK'
  <2>1. ExecutorTypeOK'
    BY <1>7, ConfirmationType DEF RefuseOrRehearse, Submit
  <2> QED
    BY <1>7, <2>1 DEF RefuseOrRehearse, Submit, Goto, Calm, exchangeVars,
                      taskVars, ExchangeTypeOK
<1>8. ASSUME NEW fp \in Fingerprints, CallNewOrder(fp)
      PROVE  TypeOK'
  BY <1>8 DEF CallNewOrder, NewOrder, Goto, executorVars, ExecutorTypeOK,
              JournalTypeOK, ExchangeTypeOK
<1>9. ASSUME NEW fp \in Fingerprints,
             SubmissionUncertain(fp) \/ AcceptAnswer(fp) \/ LookupAnswer(fp)
      PROVE  TypeOK'
  <2>1. JournalTypeOK' /\ UNCHANGED <<held, confirmation, latch>>
    BY <1>9, MarkUnknownType, RecordResultType
       DEF SubmissionUncertain, AcceptAnswer, LookupAnswer, ExecutorTypeOK
  <2> QED
    BY <1>9, <2>1 DEF SubmissionUncertain, AcceptAnswer, LookupAnswer, Finish,
                      Calm, exchangeVars, ExecutorTypeOK, ExchangeTypeOK
<1>10. ASSUME NEW fp \in Fingerprints, Reconcile(fp)
       PROVE  TypeOK'
  <2>1. JournalTypeOK' /\ UNCHANGED <<held, confirmation, latch>>
    BY <1>10, MarkUnknownType
       DEF Reconcile, executorVars, ExecutorTypeOK, JournalTypeOK
  <2> QED
    BY <1>10, <2>1 DEF Reconcile, Goto, Calm, exchangeVars, ExecutorTypeOK,
                       ExchangeTypeOK
<1>11. ASSUME NEW fp \in Fingerprints, LookupUnresolved(fp)
       PROVE  TypeOK'
  BY <1>11 DEF LookupUnresolved, Finish, Calm, executorVars, exchangeVars,
               ExecutorTypeOK, JournalTypeOK, ExchangeTypeOK
<1>12. ASSUME NEW fp \in Fingerprints, MoveExchange(fp)
       PROVE  TypeOK'
  BY <1>12 DEF MoveExchange, ExchangeStep, Arrive, Lose, End, executorVars,
               taskVars, ExecutorTypeOK, JournalTypeOK, ExchangeTypeOK,
               OrderStates, EndStates, Traded
<1>13. CASE UNCHANGED vars
  BY <1>13 DEF vars, executorVars, exchangeVars, taskVars, ExecutorTypeOK,
               JournalTypeOK, ExchangeTypeOK
<1> QED
  BY <1>1, <1>2, <1>3, <1>4, <1>5, <1>6, <1>7, <1>8, <1>9, <1>10, <1>11,
     <1>12, <1>13 DEF Next

(* Every variable keeps its type in every reachable state. *)
THEOREM TypeCorrect == Spec => []TypeOK
BY InitType, NextType, PTL DEF Spec
-----------------------------------------------------------------------------
(* Saving a later phase of an order in progress keeps what the journal      *)
(* promises, when a terminal phase agrees with the exchange.                *)
LEMMA AdvanceKeeps ==
    ASSUME IInv, held,
           NEW fp \in Fingerprints, journalFile[fp] \in Unresolved,
           NEW p \in Unresolved \cup Terminal,
           p = "FILLED" => exchange[fp] = "FILLED",
           p = "REJECTED" => exchange[fp] \in EndStates \ {"FILLED"},
           journalFile' = [journalFile EXCEPT ![fp] = p],
           records' = journalFile',
           UNCHANGED <<held, confirmation, exchangeVars>>
    PROVE  /\ MemoryIsFile' /\ AtMostOneUnresolved' /\ SubmittedOnceAfterSaving'
           /\ TerminalIsTrue' /\ ConfirmationAlone' /\ OrdersComeFromCalls'
<1> USE DEF exchangeVars
<1>1. journalFile \in [Fingerprints -> Phases \cup {Absent}]
  BY DEF IInv, TypeOK, ExecutorTypeOK, JournalTypeOK
<1>2. confirmation = {}
  BY DEF IInv, ConfirmationAlone
<1>3. MemoryIsFile'
  BY DEF MemoryIsFile
<1>4. AtMostOneUnresolved'
  BY <1>1 DEF IInv, AtMostOneUnresolved
<1>5. SubmittedOnceAfterSaving'
  BY <1>1 DEF IInv, SubmittedOnceAfterSaving, Unresolved, Terminal, Absent
<1>6. TerminalIsTrue'
  BY <1>1 DEF IInv, TerminalIsTrue
<1>7. ConfirmationAlone'
  BY <1>2 DEF ConfirmationAlone
<1>8. OrdersComeFromCalls'
  BY DEF IInv, OrdersComeFromCalls
<1> QED
  BY <1>3, <1>4, <1>5, <1>6, <1>7, <1>8

(* What the journal holds of an order after an answer, or none, about it.   *)
LEMMA AnswerAdvances ==
    ASSUME IInv, held,
           NEW fp \in Fingerprints, journalFile[fp] \in Unresolved,
           \/ MarkUnknown(fp)
           \/ MarkUnknownFails(fp)
           \/ \E status \in Reported(fp) : RecordResult(fp, status)
    PROVE  /\ UNCHANGED <<held, confirmation>>
           /\ \E p \in Unresolved \cup Terminal :
                /\ p = "FILLED" => exchange[fp] = "FILLED"
                /\ p = "REJECTED" => exchange[fp] \in EndStates \ {"FILLED"}
                /\ p = "SUBMITTING" => journalFile[fp] = "SUBMITTING"
                /\ journalFile' = [journalFile EXCEPT ![fp] = p]
                /\ records' = journalFile'
<1>1. /\ journalFile \in [Fingerprints -> Phases \cup {Absent}]
      /\ exchange \in [Fingerprints -> OrderStates]
      /\ records = journalFile
  BY DEF IInv, TypeOK, ExecutorTypeOK, ExchangeTypeOK, JournalTypeOK, MemoryIsFile
<1>2. CASE UNCHANGED <<records, journalFile, held, confirmation>>
  <2>1. journalFile' = [journalFile EXCEPT ![fp] = journalFile[fp]]
    BY <1>1, <1>2
  <2>2. /\ journalFile[fp] # "FILLED"
        /\ journalFile[fp] # "REJECTED"
    BY DEF Unresolved
  <2> QED
    BY <1>1, <1>2, <2>1, <2>2
<1>3. CASE MarkUnknown(fp)
  <2>1. CASE UNCHANGED journalVars
    BY <1>2, <1>3, <2>1 DEF MarkUnknown, journalVars
  <2>2. CASE Transition(fp, "UNKNOWN")
    BY <1>1, <1>3, <2>2 DEF MarkUnknown, Transition, Save, Unresolved
  <2> QED
    BY <1>3, <2>1, <2>2 DEF MarkUnknown
<1>4. CASE MarkUnknownFails(fp)
  BY <1>2, <1>4 DEF MarkUnknownFails, TransitionFails, SaveFails, journalVars
<1>5. ASSUME NEW status \in Reported(fp), RecordResult(fp, status)
      PROVE  /\ UNCHANGED <<held, confirmation>>
             /\ \E p \in Unresolved \cup Terminal :
                  /\ p = "FILLED" => exchange[fp] = "FILLED"
                  /\ p = "REJECTED" => exchange[fp] \in EndStates \ {"FILLED"}
                  /\ p = "SUBMITTING" => journalFile[fp] = "SUBMITTING"
                  /\ journalFile' = [journalFile EXCEPT ![fp] = p]
                  /\ records' = journalFile'
  <2>1. CASE UNCHANGED journalVars
    BY <1>2, <1>5, <2>1 DEF RecordResult, journalVars
  <2>2. CASE Transition(fp, PhaseFor(status))
    <3>1. status = exchange[fp] \/ status = "NEW"
      BY <1>5 DEF Reported
    <3>2. status \in OrderStates /\ status # NoOrder
      BY <1>1, <1>5 DEF Reported, OrderStates, NoOrder
    <3>3. /\ PhaseFor(status) \in Unresolved \cup Terminal
          /\ PhaseFor(status) = "FILLED" => exchange[fp] = "FILLED"
          /\ PhaseFor(status) = "REJECTED" => exchange[fp] \in EndStates \ {"FILLED"}
          /\ PhaseFor(status) # "SUBMITTING"
      BY <3>1, <3>2 DEF PhaseFor, Unresolved, Terminal, OrderStates, NoOrder,
                        EndStates, Traded
    <3>4. /\ journalFile' = [journalFile EXCEPT ![fp] = PhaseFor(status)]
          /\ records' = journalFile'
      BY <1>1, <2>2 DEF Transition, Save
    <3> QED
      BY <1>5, <3>3, <3>4 DEF RecordResult
  <2> QED
    BY <1>5, <2>1, <2>2 DEF RecordResult
<1> QED
  BY <1>3, <1>4, <1>5
-----------------------------------------------------------------------------
(* What the steps that touch the journal or the exchange do to them, in the *)
(* terms of the durable state alone.                                        *)
NothingUnresolved ==
    records = journalFile /\ \A f \in Fingerprints : journalFile[f] \notin Unresolved

Saved(fp, phase) ==
    /\ journalFile' = [journalFile EXCEPT ![fp] = phase]
    /\ records' = journalFile'

PreviewEffect(fp) ==
    /\ NothingUnresolved
    /\ journalFile[fp] = Absent
    /\ Saved(fp, "PREPARED")
    /\ confirmation' = {fp}
    /\ UNCHANGED held

SubmitEffect(fp) ==
    /\ NothingUnresolved
    /\ journalFile[fp] = "PREPARED"
    /\ calls[fp] = 0
    /\ Saved(fp, "SUBMITTING")
    /\ confirmation' = {}
    /\ held' = TRUE
    /\ Goto("armed", fp)
    /\ UNCHANGED exchangeVars

CallEffect(fp) ==
    /\ journalFile[fp] = "SUBMITTING"
    /\ calls[fp] = 0
    /\ calls' = [calls EXCEPT ![fp] = 1]
    /\ wire' = wire \cup {fp}
    /\ Goto("called", fp)
    /\ UNCHANGED <<records, journalFile, held, confirmation, exchange>>

AnswerEffect(fp) ==
    /\ held
    /\ journalFile[fp] \in Unresolved
    /\ UNCHANGED <<held, confirmation, exchangeVars>>
    /\ \E p \in Unresolved \cup Terminal :
         /\ p = "FILLED" => exchange[fp] = "FILLED"
         /\ p = "REJECTED" => exchange[fp] \in EndStates \ {"FILLED"}
         /\ p = "SUBMITTING" => journalFile[fp] = "SUBMITTING"
         /\ Saved(fp, p)

LEMMA PreviewEffects ==
    ASSUME IInv, NEW fp \in Fingerprints, NEW s \in Snapshots, Preview(fp, s)
    PROVE  PreviewEffect(fp)
BY DEF Preview, CanPreview, Prepare, Save, IInv, MemoryIsFile, PreviewEffect,
       NothingUnresolved, Saved

LEMMA SubmitEffects ==
    ASSUME IInv, NEW fp \in Fingerprints, NEW s \in Snapshots, Submit(fp, s)
    PROVE  SubmitEffect(fp)
<1>1. /\ NothingUnresolved
      /\ journalFile[fp] = "PREPARED"
      /\ Saved(fp, "SUBMITTING")
      /\ confirmation' = {}
      /\ held' = TRUE
      /\ Goto("armed", fp)
      /\ UNCHANGED exchangeVars
  BY DEF Submit, BeginSubmission, Consume, Revalidated, Transition, Save, Calm,
         IInv, MemoryIsFile, ConfirmationAlone, NothingUnresolved, Saved
<1>2. calls \in [Fingerprints -> Nat]
  BY DEF IInv, TypeOK, ExchangeTypeOK
<1>3. calls[fp] = 0
  BY <1>1, <1>2 DEF IInv, SubmittedOnceAfterSaving
<1> QED
  BY <1>1, <1>3 DEF SubmitEffect

LEMMA CallEffects ==
    ASSUME IInv, NEW fp \in Fingerprints, CallNewOrder(fp)
    PROVE  CallEffect(fp)
<1>1. journalFile[fp] = "SUBMITTING" /\ calls[fp] = 0
  BY DEF CallNewOrder, At, IInv, TaskIsJournaled
<1>2. calls' = [calls EXCEPT ![fp] = calls[fp] + 1]
  BY DEF CallNewOrder, NewOrder
<1>3. calls' = [calls EXCEPT ![fp] = 1]
  BY <1>1, <1>2
<1> QED
  BY <1>1, <1>3 DEF CallNewOrder, NewOrder, executorVars, CallEffect

LEMMA AnswerEffects ==
    ASSUME IInv, NEW fp \in Fingerprints,
           SubmissionUncertain(fp) \/ AcceptAnswer(fp) \/ LookupAnswer(fp)
    PROVE  AnswerEffect(fp) /\ Finish
<1>1. held /\ journalFile[fp] \in Unresolved
  BY DEF SubmissionUncertain, AcceptAnswer, LookupAnswer, At, IInv,
         TaskIsJournaled, DownIsIdle, Unresolved
<1>2. Finish /\ UNCHANGED exchangeVars
  BY DEF SubmissionUncertain, AcceptAnswer, LookupAnswer, Calm
<1> QED
  BY <1>1, <1>2, AnswerAdvances
     DEF SubmissionUncertain, AcceptAnswer, LookupAnswer, AnswerEffect, Saved

LEMMA ReconcileEffects ==
    ASSUME IInv, NEW fp \in Fingerprints, Reconcile(fp)
    PROVE  /\ AnswerEffect(fp)
           /\ Goto("lookup", fp)
           /\ journalFile'[fp] \in {"SUBMITTED", "UNKNOWN"}
<1>1. /\ held /\ records = journalFile /\ journalFile[fp] \in Unresolved
      /\ Goto("lookup", fp) /\ UNCHANGED exchangeVars
  BY DEF Reconcile, Idle, Calm, IInv, MemoryIsFile
<1>2. journalFile \in [Fingerprints -> Phases \cup {Absent}]
  BY DEF IInv, TypeOK, ExecutorTypeOK, JournalTypeOK
<1>3. CASE journalFile[fp] = "SUBMITTING"
  <2>1. UNCHANGED <<held, confirmation>> /\ Saved(fp, "UNKNOWN")
    BY <1>1, <1>3 DEF Reconcile, MarkUnknown, Transition, Save, Saved
  <2>2. "UNKNOWN" \in Unresolved
    BY DEF Unresolved
  <2>3. journalFile'[fp] = "UNKNOWN"
    BY <1>2, <2>1 DEF Saved
  <2> QED
    BY <1>1, <2>1, <2>2, <2>3 DEF AnswerEffect
<1>4. CASE journalFile[fp] # "SUBMITTING"
  <2>1. UNCHANGED <<records, journalFile, held, confirmation>>
    BY <1>1, <1>4 DEF Reconcile, executorVars
  <2>2. Saved(fp, journalFile[fp])
    BY <1>1, <1>2, <2>1 DEF Saved
  <2>3. journalFile[fp] # "FILLED" /\ journalFile[fp] # "REJECTED"
    BY <1>1 DEF Unresolved
  <2> QED
    BY <1>1, <1>4, <2>1, <2>2, <2>3 DEF AnswerEffect, Unresolved
<1> QED
  BY <1>3, <1>4
-----------------------------------------------------------------------------
LEMMA InitIInv == Init => IInv
<1> SUFFICES ASSUME Init PROVE IInv
  OBVIOUS
<1>1. TypeOK
  BY InitType
<1>2. \A fp \in Fingerprints : journalFile[fp] = Absent
  BY DEF Init, ExecutorInit, JournalInit, NoRecords
<1>3. \A fp \in Fingerprints : calls[fp] = 0 /\ exchange[fp] = NoOrder
  BY DEF Init, ExchangeInit
<1>4. MemoryIsFile /\ AtMostOneUnresolved /\ SubmittedOnceAfterSaving /\ TerminalIsTrue
  BY <1>2, <1>3
     DEF Init, ExecutorInit, MemoryIsFile, AtMostOneUnresolved,
         SubmittedOnceAfterSaving, TerminalIsTrue, Unresolved, Absent
<1>5. TaskIsJournaled /\ DownIsIdle /\ ConfirmationAlone /\ OrdersComeFromCalls
  BY <1>3 DEF Init, ExecutorInit, ExchangeInit, TaskIsJournaled, DownIsIdle,
              ConfirmationAlone, OrdersComeFromCalls
<1> QED
  BY <1>1, <1>4, <1>5 DEF IInv

(* Every step of the direct execution keeps the inductive invariant.        *)
LEMMA NextIInv ==
    ASSUME IInv, [Next]_vars
    PROVE  IInv'
<1>1. TypeOK'
  BY NextType DEF IInv
<1>2. /\ records \in [Fingerprints -> Phases \cup {Absent}]
      /\ journalFile \in [Fingerprints -> Phases \cup {Absent}]
      /\ calls \in [Fingerprints -> Nat]
      /\ exchange \in [Fingerprints -> OrderStates]
      /\ held \in BOOLEAN
  BY DEF IInv, TypeOK, ExecutorTypeOK, ExchangeTypeOK, JournalTypeOK
<1> USE <1>1, <1>2
<1> DEFINE Promises == /\ MemoryIsFile /\ AtMostOneUnresolved
                       /\ SubmittedOnceAfterSaving /\ TerminalIsTrue
                       /\ ConfirmationAlone /\ OrdersComeFromCalls
<1>3. CASE UNCHANGED <<journalFile, exchangeVars>> /\ Open
  BY <1>3 DEF Open, OpenExecutor, LoadJournal, taskVars, exchangeVars, IInv,
              MemoryIsFile, AtMostOneUnresolved, SubmittedOnceAfterSaving,
              TerminalIsTrue, TaskIsJournaled, DownIsIdle, ConfirmationAlone,
              OrdersComeFromCalls
<1>4. CASE UNCHANGED <<journalFile, exchangeVars>> /\ (Close \/ Crash)
  BY <1>4 DEF Close, Crash, Idle, DropExecutor, DropJournal, Finish, taskVars,
              exchangeVars, IInv, MemoryIsFile, AtMostOneUnresolved,
              SubmittedOnceAfterSaving, TerminalIsTrue, TaskIsJournaled,
              DownIsIdle, ConfirmationAlone, OrdersComeFromCalls
(* The journal, the calls and the exchange are untouched, and the process   *)
(* goes on: a confirmation can only disappear and a task only finish.       *)
<1>5. ASSUME UNCHANGED <<records, journalFile, held, exchangeVars>>,
             confirmation' \subseteq confirmation,
             UNCHANGED taskVars \/ Finish
      PROVE  IInv'
  BY <1>5 DEF Finish, taskVars, exchangeVars, IInv, MemoryIsFile,
              AtMostOneUnresolved, SubmittedOnceAfterSaving, TerminalIsTrue,
              TaskIsJournaled, DownIsIdle, ConfirmationAlone, OrdersComeFromCalls
<1>6. ASSUME NEW fp \in Fingerprints, NEW s \in Snapshots, Preview(fp, s),
             Idle, UNCHANGED taskVars, UNCHANGED exchangeVars
      PROVE  IInv'
  <2>1. PreviewEffect(fp)
    BY <1>6, PreviewEffects
  <2> USE DEF PreviewEffect, NothingUnresolved, Saved
  <2>2. MemoryIsFile' /\ DownIsIdle'
    BY <1>6, <2>1 DEF MemoryIsFile, DownIsIdle, Idle
  <2>3. \A f \in Fingerprints : journalFile'[f] \notin Unresolved
    BY <2>1 DEF Unresolved
  <2>4. AtMostOneUnresolved' /\ ConfirmationAlone'
    BY <2>3 DEF AtMostOneUnresolved, ConfirmationAlone
  <2>5. SubmittedOnceAfterSaving' /\ TerminalIsTrue' /\ OrdersComeFromCalls'
    BY <1>6, <2>1
       DEF exchangeVars, IInv, SubmittedOnceAfterSaving, TerminalIsTrue,
           OrdersComeFromCalls
  <2>6. TaskIsJournaled'
    BY <1>6 DEF Idle, taskVars, IInv, TaskIsJournaled
  <2> QED
    BY <2>2, <2>4, <2>5, <2>6 DEF IInv
<1>7. ASSUME NEW fp \in Fingerprints, NEW s \in Snapshots, Submit(fp, s)
      PROVE  IInv'
  <2>1. SubmitEffect(fp)
    BY <1>7, SubmitEffects
  <2> USE DEF SubmitEffect, NothingUnresolved, Saved, Goto
  <2>2. MemoryIsFile' /\ DownIsIdle' /\ ConfirmationAlone'
    BY <2>1 DEF MemoryIsFile, DownIsIdle, ConfirmationAlone
  <2>3. AtMostOneUnresolved'
    BY <2>1 DEF AtMostOneUnresolved
  <2>4. SubmittedOnceAfterSaving' /\ TerminalIsTrue' /\ OrdersComeFromCalls'
    BY <2>1
       DEF exchangeVars, IInv, SubmittedOnceAfterSaving, TerminalIsTrue,
           OrdersComeFromCalls
  <2>5. TaskIsJournaled'
    BY <2>1 DEF exchangeVars, TaskIsJournaled
  <2> QED
    BY <2>2, <2>3, <2>4, <2>5 DEF IInv
<1>8. ASSUME NEW fp \in Fingerprints, CallNewOrder(fp)
      PROVE  IInv'
  <2>1. CallEffect(fp)
    BY <1>8, CallEffects
  <2> USE DEF CallEffect, Goto
  <2>2. MemoryIsFile' /\ AtMostOneUnresolved' /\ ConfirmationAlone'
    BY <2>1 DEF IInv, MemoryIsFile, AtMostOneUnresolved, ConfirmationAlone
  <2>3. SubmittedOnceAfterSaving' /\ TerminalIsTrue' /\ OrdersComeFromCalls'
    BY <2>1 DEF IInv, SubmittedOnceAfterSaving, TerminalIsTrue,
                OrdersComeFromCalls, Absent
  <2>4. TaskIsJournaled'
    BY <2>1 DEF TaskIsJournaled
  <2>5. DownIsIdle'
    BY <1>8, <2>1 DEF CallNewOrder, At, IInv, DownIsIdle
  <2> QED
    BY <2>2, <2>3, <2>4, <2>5 DEF IInv
<1>9. ASSUME NEW fp \in Fingerprints,
             SubmissionUncertain(fp) \/ AcceptAnswer(fp) \/ LookupAnswer(fp)
      PROVE  IInv'
  <2>1. AnswerEffect(fp) /\ Finish
    BY <1>9, AnswerEffects
  <2>2. Promises'
    BY <2>1, AdvanceKeeps DEF AnswerEffect, Saved
  <2>3. TaskIsJournaled' /\ DownIsIdle'
    BY <2>1 DEF AnswerEffect, Finish, TaskIsJournaled, DownIsIdle
  <2> QED
    BY <2>2, <2>3 DEF IInv
<1>10. ASSUME NEW fp \in Fingerprints, Reconcile(fp)
       PROVE  IInv'
  <2>1. /\ AnswerEffect(fp)
        /\ Goto("lookup", fp)
        /\ journalFile'[fp] \in {"SUBMITTED", "UNKNOWN"}
    BY <1>10, ReconcileEffects
  <2>2. Promises'
    BY <2>1, AdvanceKeeps DEF AnswerEffect, Saved
  <2>3. TaskIsJournaled' /\ DownIsIdle'
    BY <2>1 DEF AnswerEffect, Goto, TaskIsJournaled, DownIsIdle
  <2> QED
    BY <2>2, <2>3 DEF IInv
<1>11. ASSUME NEW fp \in Fingerprints, MoveExchange(fp)
       PROVE  IInv'
  <2>1. UNCHANGED <<records, journalFile, held, confirmation, task, order, calls>>
    BY <1>11 DEF MoveExchange, ExchangeStep, Arrive, Lose, End, executorVars,
                 taskVars
  <2>2. MemoryIsFile' /\ AtMostOneUnresolved' /\ SubmittedOnceAfterSaving'
    BY <2>1 DEF IInv, MemoryIsFile, AtMostOneUnresolved, SubmittedOnceAfterSaving
  <2>3. TaskIsJournaled' /\ DownIsIdle' /\ ConfirmationAlone'
    BY <2>1 DEF IInv, TaskIsJournaled, DownIsIdle, ConfirmationAlone
  <2>4. \A f \in Fingerprints : exchange[f] \in EndStates => exchange'[f] = exchange[f]
    BY <1>11 DEF MoveExchange, ExchangeStep, Arrive, Lose, End, EndStates, Traded,
                 NoOrder
  <2>5. TerminalIsTrue'
    BY <2>1, <2>4 DEF IInv, TerminalIsTrue, EndStates, Traded
  <2>6. OrdersComeFromCalls'
    BY <1>11, <2>1 DEF MoveExchange, ExchangeStep, Arrive, Lose, End, IInv,
                       OrdersComeFromCalls, NoOrder
  <2> QED
    BY <2>2, <2>3, <2>5, <2>6 DEF IInv
<1>12. ASSUME NEW sig \in Signals, NEW s \in Snapshots, PreviewOrder(sig, s)
       PROVE  IInv'
  <2>1. <<sig, today>> \in Fingerprints
    BY FingerprintOfPreview DEF IInv
  <2>2. CASE Preview(<<sig, today>>, s)
    BY <1>6, <1>12, <2>1, <2>2 DEF PreviewOrder, Calm
  <2>3. CASE PreviewRefused(<<sig, today>>, s)
    BY <1>5, <1>12, <2>3
       DEF PreviewOrder, PreviewRefused, PrepareFails, SaveFails, journalVars, Calm
  <2> QED
    BY <1>12, <2>2, <2>3 DEF PreviewOrder
<1>13. ASSUME NEW fp \in Fingerprints, NEW s \in Snapshots, RefuseOrRehearse(fp, s)
       PROVE  IInv'
  BY <1>5, <1>13 DEF RefuseOrRehearse, ConfirmationRefused, Rehearse, Consume, Calm
<1>14. ASSUME NEW fp \in Fingerprints, LookupUnresolved(fp)
       PROVE  IInv'
  BY <1>5, <1>14 DEF LookupUnresolved, executorVars, Calm
<1>15. CASE Cancel
  BY <1>5, <1>15 DEF Cancel, CancelPreview, Calm
<1>16. CASE NextDay
  BY <1>5, <1>16 DEF NextDay, executorVars
<1>17. CASE UNCHANGED vars
  BY <1>5, <1>17 DEF vars, executorVars
<1>18. CASE Open
  BY <1>3, <1>18 DEF Open, OpenExecutor, LoadJournal, Calm
<1>19. CASE Close \/ Crash
  BY <1>4, <1>19 DEF Close, Crash, DropExecutor, DropJournal, Calm
<1> QED
  BY <1>7, <1>8, <1>9, <1>10, <1>11, <1>12, <1>13, <1>14, <1>15, <1>16, <1>17,
     <1>18, <1>19 DEF Next

(* The inductive invariant holds in every reachable state. *)
THEOREM InductiveInvariant == Spec => []IInv
BY InitIInv, NextIInv, PTL DEF Spec

(* No failed save and no earlier owner of the lock separates what a running *)
(* executor believes of its orders from what a restart would find.          *)
THEOREM JournalMemoryIsDurable == Spec => []MemoryIsFile
<1>1. IInv => MemoryIsFile
  BY DEF IInv
<1> QED
  BY <1>1, InductiveInvariant, PTL

(* However processes come, crash and go, one order at most is in progress.  *)
THEOREM OneOrderInProgress == Spec => []AtMostOneUnresolved
<1>1. IInv => AtMostOneUnresolved
  BY DEF IInv
<1> QED
  BY <1>1, InductiveInvariant, PTL

(* No order is sent twice, and none before SUBMITTING is on disk.           *)
THEOREM NeverSubmittedTwice == Spec => []SubmittedOnceAfterSaving
<1>1. IInv => SubmittedOnceAfterSaving
  BY DEF IInv
<1> QED
  BY <1>1, InductiveInvariant, PTL

(* FILLED and REJECTED in the journal are what the exchange did.            *)
THEOREM TerminalPhasesAreTrue == Spec => []TerminalIsTrue
<1>1. IInv => TerminalIsTrue
  BY DEF IInv
<1> QED
  BY <1>1, InductiveInvariant, PTL
-----------------------------------------------------------------------------
(* The refinement: the durable journal and the calls are a one-shot order.  *)
StageMap == [fp \in Fingerprints |-> StageOf(journalFile[fp])]

SentSet == {fp \in Fingerprints : calls[fp] > 0}

(* Saving a phase of one order moves the stage of that order alone. *)
LEMMA SavedStage ==
    ASSUME IInv, NEW fp \in Fingerprints, NEW p, Saved(fp, p)
    PROVE  StageMap' = [StageMap EXCEPT ![fp] = StageOf(p)]
<1>1. journalFile \in [Fingerprints -> Phases \cup {Absent}]
  BY DEF IInv, TypeOK, ExecutorTypeOK, JournalTypeOK
<1>2. \A f \in Fingerprints : journalFile'[f] = IF f = fp THEN p ELSE journalFile[f]
  BY <1>1 DEF Saved
<1> QED
  BY <1>2 DEF StageMap

(* The stage that each phase shows. *)
LEMMA StageOfPhase ==
    /\ StageOf(Absent) = "idle"
    /\ StageOf("PREPARED") = "reserved"
    /\ StageOf("SUBMITTING") = "armed"
    /\ \A p \in {"SUBMITTED", "UNKNOWN"} : StageOf(p) = "lookup"
    /\ \A p \in Terminal : StageOf(p) = "closed"
BY DEF StageOf, Terminal, Absent

(* An order is in progress, in the abstract sense, if it is unresolved.     *)
LEMMA StageInProgress ==
    ASSUME IInv, NEW fp \in Fingerprints
    PROVE  /\ StageMap[fp] = StageOf(journalFile[fp])
           /\ StageMap[fp] \in {"armed", "lookup"} <=> journalFile[fp] \in Unresolved
<1>1. journalFile[fp] \in Phases \cup {Absent}
  BY DEF IInv, TypeOK, ExecutorTypeOK, JournalTypeOK
<1> QED
  BY <1>1, StageOfPhase DEF StageMap, Phases, Unresolved, Terminal

LEMMA InitOneShot == Init => OneShot!Init
<1> SUFFICES ASSUME Init PROVE OneShot!Init
  OBVIOUS
<1>1. \A fp \in Fingerprints : StageOf(journalFile[fp]) = "idle"
  BY StageOfPhase DEF Init, ExecutorInit, JournalInit, NoRecords
<1>2. \A fp \in Fingerprints : ~(calls[fp] > 0)
  BY DEF Init, ExchangeInit
<1> QED
  BY <1>1, <1>2 DEF OneShot!Init

(* Every step of the direct execution is a step of the one-shot order, or   *)
(* leaves it as it was.                                                     *)
LEMMA NextOneShot ==
    ASSUME IInv, [Next]_vars
    PROVE  [OneShot!Next]_(OneShot!vars)
<1>1. CASE UNCHANGED <<journalFile, calls>>
  BY <1>1 DEF OneShot!vars
<1>2. ASSUME NEW fp \in Fingerprints, PreviewEffect(fp), UNCHANGED exchangeVars
      PROVE  OneShot!Next
  <2>1. StageMap' = [StageMap EXCEPT ![fp] = "reserved"]
    BY <1>2, SavedStage, StageOfPhase DEF PreviewEffect
  <2>2. StageMap[fp] = "idle"
    BY <1>2, StageInProgress, StageOfPhase DEF PreviewEffect
  <2>3. \A f \in Fingerprints : StageMap[f] \notin {"armed", "lookup"}
    BY <1>2, StageInProgress DEF PreviewEffect, NothingUnresolved
  <2>4. OneShot!Reserve(fp)
    BY <1>2, <2>1, <2>2, <2>3
       DEF OneShot!Reserve, OneShot!InProgress, OneShot!Enter, StageMap, exchangeVars
  <2> QED
    BY <2>4 DEF OneShot!Next
<1>3. ASSUME NEW fp \in Fingerprints, SubmitEffect(fp)
      PROVE  OneShot!Next
  <2>1. StageMap' = [StageMap EXCEPT ![fp] = "armed"]
    BY <1>3, SavedStage, StageOfPhase DEF SubmitEffect
  <2>2. StageMap[fp] = "reserved"
    BY <1>3, StageInProgress, StageOfPhase DEF SubmitEffect
  <2>3. \A f \in Fingerprints : StageMap[f] \notin {"armed", "lookup"}
    BY <1>3, StageInProgress DEF SubmitEffect, NothingUnresolved
  <2>4. OneShot!Arm(fp)
    BY <1>3, <2>1, <2>2, <2>3
       DEF SubmitEffect, OneShot!Arm, OneShot!InProgress, OneShot!Enter, StageMap,
           exchangeVars
  <2> QED
    BY <2>4 DEF OneShot!Next
<1>4. ASSUME NEW fp \in Fingerprints, CallEffect(fp)
      PROVE  OneShot!Next
  <2>1. StageMap[fp] = "armed" /\ StageMap' = StageMap
    BY <1>4, StageInProgress, StageOfPhase DEF CallEffect, StageMap
  <2>2. fp \notin SentSet /\ SentSet' = SentSet \cup {fp}
    <3>1. calls \in [Fingerprints -> Nat]
      BY DEF IInv, TypeOK, ExchangeTypeOK
    <3> QED
      BY <1>4, <3>1 DEF CallEffect, SentSet
  <2>3. OneShot!Send(fp)
    BY <2>1, <2>2 DEF OneShot!Send, StageMap, SentSet
  <2> QED
    BY <2>3 DEF OneShot!Next
<1>5. ASSUME NEW fp \in Fingerprints, AnswerEffect(fp)
      PROVE  [OneShot!Next]_(OneShot!vars)
  <2>1. PICK p \in Unresolved \cup Terminal :
          /\ p = "FILLED" => exchange[fp] = "FILLED"
          /\ p = "REJECTED" => exchange[fp] \in EndStates \ {"FILLED"}
          /\ p = "SUBMITTING" => journalFile[fp] = "SUBMITTING"
          /\ Saved(fp, p)
    BY <1>5 DEF AnswerEffect
  <2>2. StageMap' = [StageMap EXCEPT ![fp] = StageOf(p)]
    BY <2>1, SavedStage
  <2>3. UNCHANGED calls /\ SentSet' = SentSet
    BY <1>5 DEF AnswerEffect, exchangeVars, SentSet
  <2>4. /\ StageMap[fp] = StageOf(journalFile[fp])
        /\ StageMap[fp] \in {"armed", "lookup"}
    BY <1>5, StageInProgress DEF AnswerEffect
  <2>5. CASE p \in Terminal
    <3>1. StageOf(p) = "closed"
      BY <2>5, StageOfPhase
    <3>2. exchange[fp] # NoOrder
      BY <2>1, <2>5 DEF Terminal, EndStates, Traded, NoOrder
    <3>3. calls[fp] = 1
      BY <3>2 DEF IInv, OrdersComeFromCalls
    <3>4. fp \in SentSet
      BY <3>3 DEF SentSet
    <3>5. OneShot!Close(fp)
      BY <2>2, <2>3, <2>4, <3>1, <3>4
         DEF OneShot!Close, OneShot!InProgress, OneShot!Enter, StageMap, SentSet
    <3> QED
      BY <3>5 DEF OneShot!Next
  <2>6. CASE p \in Unresolved /\ StageOf(p) = StageMap[fp]
    <3>1. StageMap' = StageMap
      BY <2>2, <2>6 DEF StageMap
    <3> QED
      BY <2>3, <3>1 DEF OneShot!vars, StageMap, SentSet
  <2>7. CASE p \in Unresolved /\ StageOf(p) # StageMap[fp]
    <3>1. StageOf(p) = "lookup" /\ StageMap[fp] = "armed"
      BY <2>1, <2>4, <2>7, StageOfPhase DEF Unresolved
    <3>2. OneShot!LookUp(fp)
      BY <2>2, <2>3, <3>1 DEF OneShot!LookUp, OneShot!Enter, StageMap, SentSet
    <3> QED
      BY <3>2 DEF OneShot!Next
  <2> QED
    BY <2>5, <2>6, <2>7
<1>6. ASSUME NEW sig \in Signals, NEW s \in Snapshots, PreviewOrder(sig, s)
      PROVE  [OneShot!Next]_(OneShot!vars)
  <2>1. <<sig, today>> \in Fingerprints
    BY FingerprintOfPreview DEF IInv
  <2>2. CASE Preview(<<sig, today>>, s)
    BY <1>2, <1>6, <2>1, <2>2, PreviewEffects DEF PreviewOrder, Calm
  <2>3. CASE PreviewRefused(<<sig, today>>, s)
    BY <1>1, <1>6, <2>3
       DEF PreviewOrder, PreviewRefused, PrepareFails, SaveFails, journalVars, Calm,
           exchangeVars
  <2> QED
    BY <1>6, <2>2, <2>3 DEF PreviewOrder
<1>7. ASSUME NEW fp \in Fingerprints, NEW s \in Snapshots,
             RefuseOrRehearse(fp, s) \/ Submit(fp, s)
      PROVE  [OneShot!Next]_(OneShot!vars)
  <2>1. CASE Submit(fp, s)
    BY <1>3, <2>1, SubmitEffects
  <2>2. CASE RefuseOrRehearse(fp, s)
    BY <1>1, <2>2 DEF RefuseOrRehearse, ConfirmationRefused, Rehearse, Calm,
                      exchangeVars
  <2> QED
    BY <1>7, <2>1, <2>2
<1>8. ASSUME NEW fp \in Fingerprints,
             \/ CallNewOrder(fp) \/ SubmissionUncertain(fp) \/ AcceptAnswer(fp)
             \/ Reconcile(fp) \/ LookupAnswer(fp)
      PROVE  [OneShot!Next]_(OneShot!vars)
  BY <1>4, <1>5, <1>8, CallEffects, AnswerEffects, ReconcileEffects
<1>9. ASSUME NEW fp \in Fingerprints, LookupUnresolved(fp) \/ MoveExchange(fp)
      PROVE  [OneShot!Next]_(OneShot!vars)
  BY <1>1, <1>9 DEF LookupUnresolved, MoveExchange, ExchangeStep, Arrive, Lose, End,
                    Calm, executorVars, exchangeVars
<1>10. CASE Open \/ Close \/ Crash \/ Cancel \/ NextDay
  BY <1>1, <1>10 DEF Open, OpenExecutor, LoadJournal, Close, Crash, DropExecutor,
                     DropJournal, Cancel, CancelPreview, NextDay, Calm,
                     executorVars, exchangeVars
<1>11. CASE UNCHANGED vars
  BY <1>1, <1>11 DEF vars, executorVars, exchangeVars
<1> QED
  BY <1>6, <1>7, <1>8, <1>9, <1>10, <1>11 DEF Next

(* The journal, its crashes and its lookups implement the one-shot order:   *)
(* armed while no other order is in progress, sent at most once and only    *)
(* while armed, closed only after it was sent, and never reopened.          *)
THEOREM DirectExecutionIsOneShot == Spec => ImplementsOneShot
BY InitOneShot, NextOneShot, InductiveInvariant, PTL
   DEF Spec, ImplementsOneShot, OneShot!Spec
=============================================================================
