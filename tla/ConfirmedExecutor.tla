------------------------- MODULE ConfirmedExecutor -------------------------
(***************************************************************************)
(* ConfirmedSpotExecutor: preview an order, wait for one exact confirmation *)
(* and durably enter SUBMITTING before any I/O.  `held' says that a process *)
(* owns the execution lock and has an executor over the journal it loaded   *)
(* then; the lock excludes every other owner, so one executor is enough:    *)
(* another process is a close (or crash) followed by an open.               *)
(* `confirmation' is the preview awaiting its phrase, {} or {fp}.           *)
(* `latch' is the BUY latch of the policy object the executor was given.    *)
(***************************************************************************)
EXTENDS ExecutionJournal, AutomationPolicy

VARIABLES held, confirmation

executorVars == <<records, journalFile, held, confirmation, latch>>

ExecutorTypeOK ==
    /\ JournalTypeOK
    /\ held \in BOOLEAN
    /\ confirmation \in SUBSET Fingerprints
    /\ \A f, g \in confirmation : f = g
    /\ latch \in PauseReasons

ExecutorInit ==
    /\ JournalInit
    /\ held = FALSE
    /\ confirmation = {}
    /\ latch = NoPause

(* The journal is read after the lock is taken. *)
OpenExecutor ==
    /\ ~held
    /\ held' = TRUE
    /\ confirmation' = {}
    /\ LoadJournal

(* Leaving the context, or the death of the process: the lock is free and   *)
(* the journal object and the pending confirmation are gone.                *)
DropExecutor ==
    /\ held' = FALSE
    /\ confirmation' = {}
    /\ DropJournal

(* SpotMarketRules.arguments: a SELL needs a tradable quantity. *)
RulesPass(fp, s) == ActionOf[SignalOf(fp)] = "sell" => s.position = "lot"

PolicyAllows(fp, s) == Allowed(latch, ActionOf[SignalOf(fp)], s)

CanPreview(fp, s) ==
    /\ held
    /\ confirmation = {}
    /\ \A f \in Fingerprints : records[f] \notin Unresolved
    /\ RulesPass(fp, s)

Preview(fp, s) ==
    /\ CanPreview(fp, s)
    /\ PolicyAllows(fp, s)
    /\ ObserveRisk(s)
    /\ Prepare(fp)
    /\ confirmation' = {fp}
    /\ UNCHANGED held

(* Blocked by the policy, already journaled, or not saved. *)
PreviewRefused(fp, s) ==
    /\ CanPreview(fp, s)
    /\ ObserveRisk(s)
    /\ \/ ~PolicyAllows(fp, s) /\ UNCHANGED journalVars
       \/ records[fp] # Absent /\ UNCHANGED journalVars
       \/ PrepareFails(fp)
    /\ UNCHANGED <<held, confirmation>>

CancelPreview ==
    /\ held
    /\ confirmation # {}
    /\ confirmation' = {}
    /\ UNCHANGED <<records, journalFile, held, latch>>

(* An inexact phrase raises and changes nothing.  The exact one is spent    *)
(* before anything is revalidated.                                          *)
Consume(fp) == held /\ fp \in confirmation /\ confirmation' = {}

Revalidated(fp, s, today) ==
    /\ DayOf(fp) = today
    /\ PolicyAllows(fp, s)
    /\ RulesPass(fp, s)
    /\ records[fp] = "PREPARED"

(* A mutation: SUBMITTING is entered in memory only. *)
BeginSubmissionUnsaved(fp, s, today) ==
    /\ Consume(fp)
    /\ Revalidated(fp, s, today)
    /\ ObserveRisk(s)
    /\ records' = [records EXCEPT ![fp] = "SUBMITTING"]
    /\ UNCHANGED <<journalFile, held>>

BeginSubmission(fp, s, today) ==
    /\ Consume(fp)
    /\ Revalidated(fp, s, today)
    /\ ObserveRisk(s)
    /\ Transition(fp, "SUBMITTING")
    /\ UNCHANGED held

(* Expired or another risk day; or the fresh evidence was evaluated and     *)
(* then the policy, the amount, the journal phase or the save refused.      *)
ConfirmationRefused(fp, s, today) ==
    /\ Consume(fp)
    /\ \/ UNCHANGED latch
       \/ DayOf(fp) = today /\ ObserveRisk(s)
    /\ UNCHANGED <<records, journalFile, held>>

(* rehearse_confirmation: revalidates as a submission does and arms nothing. *)
Rehearse(fp, s, today) ==
    /\ Consume(fp)
    /\ Revalidated(fp, s, today)
    /\ ObserveRisk(s)
    /\ UNCHANGED <<records, journalFile, held>>

MarkUnknown(fp) ==
    /\ held
    /\ \/ records[fp] = "UNKNOWN" /\ UNCHANGED journalVars
       \/ /\ records[fp] \in {"SUBMITTING", "SUBMITTED"}
          /\ Transition(fp, "UNKNOWN")
    /\ UNCHANGED <<held, confirmation, latch>>

MarkUnknownFails(fp) ==
    /\ held
    /\ TransitionFails(fp, "UNKNOWN")
    /\ UNCHANGED <<held, confirmation, latch>>

PhaseFor(status) ==
    CASE status = "FILLED" -> "FILLED"
      [] status = "NEW"    -> "SUBMITTED"
      [] OTHER             -> "REJECTED"

(* _record_result: the phase it already has is accepted again; a terminal   *)
(* phase has no way out.                                                    *)
RecordResult(fp, status) ==
    /\ held
    /\ \/ records[fp] = PhaseFor(status) /\ UNCHANGED journalVars
       \/ Transition(fp, PhaseFor(status))
    /\ UNCHANGED <<held, confirmation, latch>>
=============================================================================
