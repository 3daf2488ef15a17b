--------------------------- MODULE TradingSession ---------------------------
(***************************************************************************)
(* McpTradingSession: one account, symbol and strategy; signals become at   *)
(* most one candidate plan each, and one candidate is pending at a time.    *)
(* `up' says that a process holds a session object; the other variables     *)
(* without `file' and `plans' are its memory.  `file' is the session file,  *)
(* replaced as a whole by every save; a save that fails raises and leaves   *)
(* the memory AHEAD of the file.  `plans' are the candidate files, one name *)
(* per signal.  `step' is where a method that saves more than once is.      *)
(*                                                                          *)
(* Every call is given the time, `now_ms', and what it saves says when.     *)
(* `times' and `fileTimes' are the times in the memory and in the file: of  *)
(* the first start, of the last mutation, and of the pending reservation,   *)
(* 0 standing for None.  `clock' is the time a call is given; it moves      *)
(* between two calls, in either direction, and `setBack' remembers that it  *)
(* once moved backwards.  Only the order of these times matters.            *)
(*                                                                          *)
(* A method whose guard fails raises (or answers BLOCKED or DUPLICATE) and  *)
(* changes nothing, so its guard is the guard of the action.                *)
(***************************************************************************)
EXTENDS SpotOrders, AutomationPolicy, FiniteSets

CONSTANTS
    MaxKeys,        \* the signal history limit (10000 in the code)
    MaxTime         \* the clock stays within 1..MaxTime

ASSUME MaxKeysAssumption == MaxKeys \in Nat
ASSUME MaxTimeAssumption == MaxTime \in Nat \ {0}

VARIABLES up, phase, pending, processed, file, step, plans,
          times, fileTimes, clock, setBack

memoryVars == <<phase, pending, processed, latch>>
timeVars == <<times, fileTimes, clock, setBack>>
sessionVars == <<up, memoryVars, file, step, plans, timeVars>>

SessionPhases == {"STOPPED", "STARTING", "RUNNING", "BUY_PAUSED",
                  "WAITING_CONFIRMATION", "WAITING_RESULT", "STOPPING",
                  "RECOVERY_ONLY"}
Accepting == {"RUNNING", "BUY_PAUSED"}
PendingPhases == {"WAITING_CONFIRMATION", "WAITING_RESULT", "STOPPING"}
PendingStatuses == {"RESERVING", "READY", "CONFIRMING", "TICKET_READY", "UNKNOWN"}

NoPending == [status |-> "NONE", signal |-> NoSignal, ticket |-> {}]

(* `ticket' is the fingerprint of the submission ticket, {} or {fp}. *)
Reservation(sig) == [status |-> "RESERVING", signal |-> sig, ticket |-> {}]

Pendings == {NoPending} \cup
    [status : PendingStatuses, signal : Signals, ticket : SUBSET Fingerprints]

Image(ph, pe, pr, la) ==
    [phase |-> ph, pending |-> pe, processed |-> pr, latch |-> la]

(* A session object without a file starts from these values. *)
NoFile == Image("NO_FILE", NoPending, {}, NoPause)

Times == [created : 0..MaxTime, updated : 0..MaxTime, reserved : 0..MaxTime]
NoTimes == [created |-> 0, updated |-> 0, reserved |-> 0]

SessionTypeOK ==
    /\ up \in BOOLEAN
    /\ phase \in SessionPhases
    /\ pending \in Pendings
    /\ processed \in SUBSET Signals
    /\ latch \in PauseReasons
    /\ file.phase \in SessionPhases \cup {"NO_FILE"}
    /\ file.pending \in Pendings
    /\ file.processed \in SUBSET Signals
    /\ file.latch \in PauseReasons
    /\ step \in {"idle", "starting", "reserving", "planned"}
    /\ plans \in SUBSET Signals

TimeTypeOK ==
    /\ times \in Times /\ fileTimes \in Times
    /\ clock \in 1..MaxTime
    /\ setBack \in BOOLEAN

SessionInit ==
    /\ up = FALSE
    /\ phase = "STOPPED"
    /\ pending = NoPending
    /\ processed = {}
    /\ latch = NoPause
    /\ file = NoFile
    /\ step = "idle"
    /\ plans = {}
    /\ times = NoTimes /\ fileTimes = NoTimes
    /\ clock \in 1..MaxTime
    /\ setBack = FALSE

(* _persist: the whole memory replaces the file, or the write fails. *)
Persist ==
    /\ file' = Image(phase', pending', processed', latch')
    /\ fileTimes' = times'
PersistFails == UNCHANGED <<file, fileTimes>>
TryPersist == Persist \/ PersistFails

SessionAt(s) == up /\ step = s
Stay == UNCHANGED <<up, step, plans>>

(* A mutation notes its time; the reservation's goes with the reservation. *)
Stamp(created, reserved) ==
    /\ times' = [created |-> created, updated |-> clock, reserved |-> reserved]
    /\ UNCHANGED <<clock, setBack>>

Touch == Stamp(times.created, IF pending' = NoPending THEN 0 ELSE times.reserved)

(* A mutation: the session resumes without looking at the latch. *)
AcceptingPhaseAlwaysRuns(pause) == "RUNNING"

AcceptingPhase(pause) == IF pause = NoPause THEN "RUNNING" ELSE "BUY_PAUSED"

(* observe raises on unusable evidence, before it changes the latch. *)
Observe(s) == Healthy(s) /\ ObserveRisk(s)

(* _record_processed appends first and raises afterwards. *)
RecordProcessed(sig) == processed' = processed \cup {sig}
HistoryFull == Cardinality(processed') > MaxKeys
-----------------------------------------------------------------------------
Start ==
    /\ SessionAt("idle")
    /\ phase = "STOPPED"
    /\ phase' = "STARTING"
    /\ Stamp(IF times.created = 0 THEN clock ELSE times.created, times.reserved)
    /\ UNCHANGED <<up, pending, processed, latch, plans>>
    /\ \/ Persist /\ step' = "starting"
       \/ PersistFails /\ step' = step

FinishStart(s) ==
    /\ SessionAt("starting")
    /\ Observe(s)
    /\ phase' = AcceptingPhase(latch')
    /\ step' = "idle"
    /\ UNCHANGED <<up, pending, processed, plans>>
    /\ Touch
    /\ Persist

(* Unusable evidence, or the second save failed. *)
StartFails(s) ==
    /\ SessionAt("starting")
    /\ IF Healthy(s) THEN ObserveRisk(s) ELSE UNCHANGED latch
    /\ phase' = "RECOVERY_ONLY"
    /\ step' = "idle"
    /\ UNCHANGED <<up, pending, processed, plans>>
    /\ Touch
    /\ TryPersist

CandidateAccepted(sig) ==
    /\ SessionAt("idle")
    /\ phase \in Accepting
    /\ sig \notin processed

(* The evidence is observed first; a limit pauses BUYs from here on. *)
ObservedPhase == IF latch' = NoPause THEN phase ELSE "BUY_PAUSED"

(* HOLD, or a SELL of dust: the signal is remembered and nothing is made.   *)
SkipSignal(sig, s) ==
    /\ CandidateAccepted(sig)
    /\ Observe(s)
    /\ \/ ActionOf[sig] = "hold"
       \/ /\ ActionOf[sig] = "sell" /\ s.position = "dust"
          /\ Allowed(latch', "sell", s)
    /\ phase' = ObservedPhase
    /\ RecordProcessed(sig)
    /\ UNCHANGED pending
    /\ Stay
    /\ IF HistoryFull
         THEN PersistFails /\ UNCHANGED <<times, clock, setBack>>
         ELSE Touch /\ TryPersist

(* Blocked by the policy: the signal may come again. *)
BlockSignal(sig, s) ==
    /\ CandidateAccepted(sig)
    /\ Observe(s)
    /\ ActionOf[sig] # "hold"
    /\ ~Allowed(latch', ActionOf[sig], s)
    /\ phase' = ObservedPhase
    /\ UNCHANGED <<pending, processed>>
    /\ Stay
    /\ Touch
    /\ TryPersist

(* RESERVING is saved before the plan file is written. *)
Reserve(sig, s) ==
    /\ CandidateAccepted(sig)
    /\ Observe(s)
    /\ Allowed(latch', ActionOf[sig], s)
    /\ ActionOf[sig] = "sell" => s.position = "lot"
    /\ pending' = Reservation(sig)
    /\ phase' = "WAITING_CONFIRMATION"
    /\ Stamp(times.created, clock)
    /\ UNCHANGED <<up, processed, plans>>
    /\ \/ Persist /\ step' = "reserving"
       \/ PersistFails /\ step' = step

WritePlan ==
    /\ SessionAt("reserving")
    /\ pending.signal \notin plans
    /\ plans' = plans \cup {pending.signal}
    /\ step' = "planned"
    /\ UNCHANGED <<up, memoryVars, file, timeVars>>

MarkReady ==
    /\ SessionAt("planned")
    /\ pending' = [pending EXCEPT !.status = "READY"]
    /\ RecordProcessed(pending.signal)
    /\ ~HistoryFull
    /\ step' = "idle"
    /\ Touch
    /\ UNCHANGED <<up, phase, latch, plans>>
    /\ Persist

(* The plan was not written; or it was, and the history is full or the save *)
(* failed: the handler saves what the memory holds by then.                 *)
CandidateFails ==
    /\ \/ SessionAt("reserving") /\ UNCHANGED <<pending, processed>>
       \/ /\ SessionAt("planned")
          /\ pending' = [pending EXCEPT !.status = "READY"]
          /\ RecordProcessed(pending.signal)
    /\ phase' = "RECOVERY_ONLY"
    /\ step' = "idle"
    /\ Touch
    /\ UNCHANGED <<up, latch, plans>>
    /\ TryPersist

(* A mutation: dismissing always resumes the session. *)
DismissCandidateResumes ==
    /\ SessionAt("idle")
    /\ pending.status = "READY"
    /\ pending' = NoPending
    /\ phase' = AcceptingPhase(latch)
    /\ UNCHANGED <<processed, latch>>
    /\ Stay
    /\ Touch
    /\ TryPersist

(* A mutation: a candidate is dismissed whatever has become of it. *)
DismissAnyCandidate ==
    /\ SessionAt("idle")
    /\ pending # NoPending
    /\ pending' = NoPending
    /\ phase' = IF phase = "STOPPING" THEN "STOPPED" ELSE AcceptingPhase(latch)
    /\ UNCHANGED <<processed, latch>>
    /\ Stay
    /\ Touch
    /\ TryPersist

(* dismiss_candidate looks at the candidate, whatever the phase. *)
DismissCandidate ==
    /\ SessionAt("idle")
    /\ pending.status = "READY"
    /\ pending' = NoPending
    /\ phase' = IF phase = "STOPPING" THEN "STOPPED" ELSE AcceptingPhase(latch)
    /\ UNCHANGED <<processed, latch>>
    /\ Stay
    /\ Touch
    /\ TryPersist

ManualResume(s) ==
    /\ SessionAt("idle")
    /\ phase = "BUY_PAUSED"
    /\ pending = NoPending
    /\ IF CanResume(s)
         THEN latch' = NoPause /\ phase' = "RUNNING"
         ELSE UNCHANGED <<latch, phase>>
    /\ UNCHANGED <<pending, processed>>
    /\ Stay
    /\ Touch
    /\ TryPersist

Stop ==
    /\ SessionAt("idle")
    /\ phase \notin {"STOPPED", "RECOVERY_ONLY"}
    /\ phase' = IF pending = NoPending THEN "STOPPED" ELSE "STOPPING"
    /\ UNCHANGED <<pending, processed, latch>>
    /\ Stay
    /\ Touch
    /\ TryPersist
-----------------------------------------------------------------------------
(* The methods that only the execution coordinator calls. *)

BeginConfirmation(sig) ==
    /\ phase = "WAITING_CONFIRMATION"
    /\ pending.status = "READY"
    /\ pending.signal = sig
    /\ pending' = [pending EXCEPT !.status = "CONFIRMING"]
    /\ phase' = "WAITING_RESULT"
    /\ UNCHANGED <<processed, latch>>
    /\ Stay
    /\ Touch

RecordSubmissionTicket(fp) ==
    /\ phase = "WAITING_RESULT"
    /\ pending.status = "CONFIRMING"
    /\ pending.signal = SignalOf(fp)
    /\ pending' = [pending EXCEPT !.status = "TICKET_READY", !.ticket = {fp}]
    /\ UNCHANGED <<phase, processed, latch>>
    /\ Stay
    /\ Touch

AwaitsOutcome ==
    /\ pending.status \in {"CONFIRMING", "TICKET_READY"}
    /\ phase \in {"WAITING_RESULT", "STOPPING"}

RecordUnknown ==
    /\ AwaitsOutcome
    /\ pending' = [pending EXCEPT !.status = "UNKNOWN"]
    /\ phase' = "RECOVERY_ONLY"
    /\ UNCHANGED <<processed, latch>>
    /\ Stay
    /\ Touch

(* A mutation: an order that has ended offers its candidate again. *)
RecordOutcomeRetries(s) ==
    /\ AwaitsOutcome
    /\ Observe(s)
    /\ pending' = [pending EXCEPT !.status = "READY", !.ticket = {}]
    /\ phase' = "WAITING_CONFIRMATION"
    /\ UNCHANGED processed
    /\ Stay
    /\ Touch

(* FILLED or REJECTED, with the account as it was after the order. *)
RecordOutcome(s) ==
    /\ AwaitsOutcome
    /\ Observe(s)
    /\ pending' = NoPending
    /\ phase' = IF phase = "STOPPING" THEN "STOPPED" ELSE AcceptingPhase(latch')
    /\ UNCHANGED processed
    /\ Stay
    /\ Touch

EnterRecovery ==
    /\ phase' = "RECOVERY_ONLY"
    /\ UNCHANGED <<pending, processed, latch>>
    /\ Stay
    /\ Touch
-----------------------------------------------------------------------------
(* Between two calls the time moves on, or the clock is set back. *)
ClockMoves ==
    /\ step = "idle"
    /\ \E t \in 1..MaxTime \ {clock} :
         /\ clock' = t
         /\ setBack' = (setBack \/ t < clock)
    /\ UNCHANGED <<up, memoryVars, file, step, plans, times, fileTimes>>

(* _load and _validate_loaded_state: what is saved must agree with itself,  *)
(* and its times must be in order.                                          *)
Consistent(f) ==
    /\ Cardinality(f.processed) <= MaxKeys
    /\ f.pending.status \in {"TICKET_READY", "UNKNOWN"} <=> f.pending.ticket # {}
    /\ f.phase \in PendingPhases => f.pending # NoPending
    /\ f.pending # NoPending => f.phase \in PendingPhases \cup {"RECOVERY_ONLY"}
    /\ f.phase = "BUY_PAUSED" => f.latch # NoPause
    /\ f.phase = "RUNNING" => f.latch = NoPause

InOrder(p, t) ==
    /\ t.created <= t.updated
    /\ p # NoPending => t.created <= t.reserved /\ t.reserved <= t.updated

Loadable(f, t) ==
    /\ Consistent(f)
    /\ f # NoFile => t.created # 0 /\ InOrder(f.pending, t)

(* An inductive invariant of the times: a session that was started knows    *)
(* since when, and the times of both copies are in order and not ahead of   *)
(* the clock until it is set back.                                          *)
TimesAgree ==
    /\ TimeTypeOK
    /\ file # NoFile => fileTimes.created # 0
    /\ up /\ (phase # "STOPPED" \/ pending # NoPending) => times.created # 0
    /\ ~setBack =>
         /\ times.updated <= clock /\ InOrder(pending, times)
         /\ fileTimes.updated <= clock /\ InOrder(file.pending, fileTimes)

Interrupted(f) ==
    f.phase = "STARTING" \/ f.pending.status \in {"RESERVING", "CONFIRMING"}

(* A mutation: an interrupted reservation is forgotten by a restart. *)
OpenSessionFresh ==
    /\ ~up
    /\ up' = TRUE
    /\ Loadable(file, fileTimes)
    /\ pending' = IF Interrupted(file) THEN NoPending ELSE file.pending
    /\ processed' = file.processed
    /\ latch' = file.latch
    /\ phase' = IF file = NoFile \/ Interrupted(file) THEN "STOPPED" ELSE file.phase
    /\ times' = [fileTimes EXCEPT !.reserved = IF pending' = NoPending THEN 0 ELSE @]
    /\ UNCHANGED <<step, plans, clock, setBack>>
    /\ IF Interrupted(file) THEN Persist ELSE UNCHANGED <<file, fileTimes>>

(* A missing file gives a new session; an interrupted one is saved as       *)
(* RECOVERY_ONLY, and is not loaded when that save fails.                   *)
OpenSession ==
    /\ ~up
    /\ up' = TRUE
    /\ Loadable(file, fileTimes)
    /\ pending' = file.pending
    /\ processed' = file.processed
    /\ latch' = file.latch
    /\ phase' = CASE file = NoFile      -> "STOPPED"
                  [] Interrupted(file)  -> "RECOVERY_ONLY"
                  [] OTHER              -> file.phase
    /\ times' = fileTimes
    /\ UNCHANGED <<step, plans, clock, setBack>>
    /\ IF Interrupted(file) THEN Persist ELSE UNCHANGED <<file, fileTimes>>

(* The process ends, anywhere.  What it had latched stays in `latch', where *)
(* nothing reads it until a new process has loaded the file.                *)
LoseSession ==
    /\ up
    /\ up' = FALSE
    /\ phase' = "STOPPED"
    /\ pending' = NoPending
    /\ processed' = {}
    /\ step' = "idle"
    /\ times' = NoTimes
    /\ UNCHANGED <<latch, file, plans, fileTimes, clock, setBack>>
=============================================================================
