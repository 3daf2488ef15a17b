-------------------------- MODULE SessionExecution --------------------------
(***************************************************************************)
(* McpSessionExecution: the file handoff between the durable session, the   *)
(* confirmed executor (whose policy object is the session's own) and the    *)
(* host that submits.  A confirmed candidate becomes one submission ticket; *)
(* the host's receipt updates the fill ledger, then the journal, then the   *)
(* session.  Each of those files is written by a step of its own, any write *)
(* may fail, and the process may die between any two.                       *)
(*                                                                          *)
(* `job' is where the coordinator is between two writes:                    *)
(*   confirm_to_ticket  "armed" (SUBMITTING saved), "confirming" (the       *)
(*     session saved CONFIRMING), "ticketed" (the ticket is written),       *)
(*     "failing" (an exception was raised), "failed" (UNKNOWN was tried);   *)
(*   import_result  "uncertain" (UNKNOWN saved), "synced" (the ledger is    *)
(*     saved), "recorded" (the journal is saved).                           *)
(* `order' is what the job is about, {} or {fp}.                            *)
(***************************************************************************)
EXTENDS ConfirmedExecutor, TradingSession, SpotExchange

CONSTANT ClockSettles   \* a bound: the clock stands still once it was set back

ASSUME ClockSettlesAssumption == ClockSettles \in BOOLEAN

VARIABLES job, order, tickets, ledger, today

jobVars == <<job, order>>
journalSide == <<records, journalFile, held, confirmation>>
sessionSide == <<up, phase, pending, processed, file, step, plans, timeVars>>
hostSide == <<exchangeVars, tickets, ledger, today>>
vars == <<journalSide, sessionSide, latch, jobVars, hostSide>>

Jobs == {"idle", "armed", "confirming", "ticketed", "failing", "failed",
         "uncertain", "synced", "recorded"}

HandoffTypeOK ==
    /\ ExecutorTypeOK
    /\ SessionTypeOK
    /\ ExchangeTypeOK
    /\ job \in Jobs
    /\ order \in SUBSET Fingerprints
    /\ tickets \in SUBSET Fingerprints
    /\ ledger \in SUBSET Fingerprints
    /\ today \in Days

TypeOK == HandoffTypeOK /\ TimeTypeOK

Init ==
    /\ ExecutorInit
    /\ SessionInit
    /\ ExchangeInit
    /\ job = "idle"
    /\ order = {}
    /\ tickets = {}
    /\ ledger = {}
    /\ today = 1

(* One thread runs the session and the coordinator. *)
Free == up /\ step = "idle" /\ job = "idle"
Ready == Free /\ held

AtJob(j, fp) == job = j /\ fp \in order
Goto(j, fp) == job' = j /\ order' = {fp}
Finish == job' = "idle" /\ order' = {}

Enter ==
    /\ Free
    /\ OpenExecutor
    /\ UNCHANGED <<sessionSide, latch, jobVars, hostSide>>

Exit ==
    /\ Ready
    /\ DropExecutor
    /\ UNCHANGED <<sessionSide, latch, jobVars, hostSide>>

Crash ==
    /\ LoseSession
    /\ DropExecutor
    /\ Finish
    /\ UNCHANGED hostSide
-----------------------------------------------------------------------------
PreparePreview(s) ==
    /\ Ready
    /\ phase = "WAITING_CONFIRMATION"
    /\ pending.status = "READY"
    /\ LET fp == <<pending.signal, today>>
       IN  Preview(fp, s) \/ PreviewRefused(fp, s)
    /\ UNCHANGED <<sessionSide, jobVars, hostSide>>

(* A refused confirmation is spent, and the session is not told. *)
RefuseConfirmation(fp, s) ==
    /\ Ready
    /\ ConfirmationRefused(fp, s, today)
    /\ UNCHANGED <<sessionSide, jobVars, hostSide>>

Confirm(fp, s) ==
    /\ Ready
    /\ BeginSubmission(fp, s, today)
    /\ Goto("armed", fp)
    /\ UNCHANGED <<sessionSide, hostSide>>

TellSession(fp) ==
    /\ AtJob("armed", fp)
    /\ BeginConfirmation(SignalOf(fp))
    /\ UNCHANGED <<journalSide, hostSide>>
    /\ \/ Persist /\ Goto("confirming", fp)
       \/ PersistFails /\ Goto("failing", fp)

(* The candidate was dismissed, replaced or stopped since its preview. *)
SessionRefuses(fp) ==
    /\ AtJob("armed", fp)
    /\ ~ /\ phase = "WAITING_CONFIRMATION"
         /\ pending.status = "READY"
         /\ pending.signal = SignalOf(fp)
    /\ Goto("failing", fp)
    /\ UNCHANGED <<journalSide, sessionSide, latch, hostSide>>

WriteTicket(fp) ==
    /\ AtJob("confirming", fp)
    /\ fp \notin tickets
    /\ tickets' = tickets \cup {fp}
    /\ Goto("ticketed", fp)
    /\ UNCHANGED <<journalSide, sessionSide, latch, exchangeVars, ledger, today>>

(* The plan expired, the ticket exists already or was not written. *)
TicketFails(fp) ==
    /\ AtJob("confirming", fp)
    /\ Goto("failing", fp)
    /\ UNCHANGED <<journalSide, sessionSide, latch, hostSide>>

RecordTicket(fp) ==
    /\ AtJob("ticketed", fp)
    /\ RecordSubmissionTicket(fp)
    /\ UNCHANGED <<journalSide, hostSide>>
    /\ \/ Persist /\ Finish
       \/ PersistFails /\ Goto("failing", fp)

(* A mutation: an interrupted handoff puts the order back to PREPARED. *)
GiveUpByRollback(fp) ==
    /\ AtJob("failing", fp)
    /\ Goto("failed", fp)
    /\ records' = [records EXCEPT ![fp] = "PREPARED"]
    /\ journalFile' = records'
    /\ UNCHANGED <<held, confirmation, sessionSide, latch, hostSide>>

GiveUp(fp) ==
    /\ AtJob("failing", fp)
    /\ MarkUnknown(fp) \/ MarkUnknownFails(fp)
    /\ Goto("failed", fp)
    /\ UNCHANGED <<sessionSide, hostSide>>

Recover(fp) ==
    /\ AtJob("failed", fp)
    /\ EnterRecovery
    /\ Finish
    /\ UNCHANGED <<journalSide, hostSide>>
    /\ TryPersist
-----------------------------------------------------------------------------
Importing(fp) ==
    /\ Ready
    /\ phase \in {"WAITING_RESULT", "STOPPING"}
    /\ pending.status = "TICKET_READY"
    /\ fp \in pending.ticket

ImportUnknown(fp) ==
    /\ Importing(fp)
    /\ MarkUnknown(fp)
    /\ Goto("uncertain", fp)
    /\ UNCHANGED <<sessionSide, hostSide>>

TellUnknown(fp) ==
    /\ AtJob("uncertain", fp)
    /\ RecordUnknown
    /\ Finish
    /\ UNCHANGED <<journalSide, hostSide>>
    /\ TryPersist

(* A mutation: the journal is advanced before the fills are saved. *)
AcceptReceiptFirst(fp) ==
    /\ Importing(fp)
    /\ exchange[fp] \in EndStates
    /\ RecordResult(fp, exchange[fp])
    /\ Goto("recorded", fp)
    /\ UNCHANGED <<sessionSide, hostSide>>

(* The receipt of a closed order carries the complete fill history. *)
SyncFills(fp) ==
    /\ Importing(fp)
    /\ exchange[fp] \in EndStates
    /\ ledger' = {f \in Fingerprints : exchange[f] \in Traded}
    /\ Goto("synced", fp)
    /\ UNCHANGED <<journalSide, sessionSide, latch, exchangeVars, tickets, today>>

(* A mutation: a journal that could not be saved does not stop the import. *)
AcceptReceiptSwallowed(fp) ==
    /\ AtJob("synced", fp)
    /\ Goto("recorded", fp)
    /\ UNCHANGED <<journalSide, sessionSide, latch, hostSide>>

AcceptReceipt(fp) ==
    /\ AtJob("synced", fp)
    /\ RecordResult(fp, exchange[fp])
    /\ Goto("recorded", fp)
    /\ UNCHANGED <<sessionSide, hostSide>>

(* The journal was not saved; the fills stay in the ledger. *)
ReceiptNotSaved(fp) ==
    /\ AtJob("synced", fp)
    /\ Finish
    /\ UNCHANGED <<journalSide, sessionSide, latch, hostSide>>

TellOutcome(fp, s) ==
    /\ AtJob("recorded", fp)
    /\ RecordOutcome(s)
    /\ Finish
    /\ UNCHANGED <<journalSide, hostSide>>
    /\ TryPersist

(* The account in the receipt is not usable (it is too old): the session    *)
(* is not told, and waits for another import.                               *)
OutcomeRefused(fp, s) ==
    /\ AtJob("recorded", fp)
    /\ ~Healthy(s)
    /\ Finish
    /\ UNCHANGED <<journalSide, sessionSide, latch, hostSide>>
-----------------------------------------------------------------------------
(* The host reads a ticket and submits it at most once (external). *)
HostSubmits(fp) ==
    /\ fp \in tickets
    /\ calls[fp] = 0
    /\ NewOrder(fp)
    /\ UNCHANGED <<journalSide, sessionSide, latch, jobVars, tickets, ledger, today>>

MoveExchange(fp) ==
    /\ ExchangeStep(fp)
    /\ UNCHANGED <<journalSide, sessionSide, latch, jobVars, tickets, ledger, today>>

NextDay ==
    /\ today < MaxDay
    /\ today' = today + 1
    /\ UNCHANGED <<journalSide, sessionSide, latch, jobVars, exchangeVars,
                   tickets, ledger>>

(* A method of the session, called between two calls of the coordinator. *)
SessionStep ==
    /\ job = "idle"
    /\ \/ OpenSession \/ Start \/ WritePlan \/ MarkReady \/ CandidateFails
       \/ DismissCandidate \/ Stop
       \/ ~(ClockSettles /\ setBack) /\ ClockMoves
       \/ \E s \in Snapshots : FinishStart(s) \/ StartFails(s) \/ ManualResume(s)
       \/ \E sig \in Signals, s \in Snapshots :
            SkipSignal(sig, s) \/ BlockSignal(sig, s) \/ Reserve(sig, s)
    /\ UNCHANGED <<journalSide, jobVars, hostSide>>

Next ==
    \/ SessionStep \/ Enter \/ Exit \/ Crash \/ NextDay
    \/ \E s \in Snapshots : PreparePreview(s)
    \/ \E fp \in Fingerprints, s \in Snapshots :
         \/ RefuseConfirmation(fp, s) \/ Confirm(fp, s)
         \/ TellOutcome(fp, s) \/ OutcomeRefused(fp, s)
    \/ \E fp \in Fingerprints :
         \/ TellSession(fp) \/ SessionRefuses(fp)
         \/ WriteTicket(fp) \/ TicketFails(fp) \/ RecordTicket(fp)
         \/ GiveUp(fp) \/ Recover(fp)
         \/ ImportUnknown(fp) \/ TellUnknown(fp) \/ SyncFills(fp)
         \/ AcceptReceipt(fp) \/ ReceiptNotSaved(fp)
         \/ HostSubmits(fp) \/ MoveExchange(fp)

Spec == Init /\ [][Next]_vars
-----------------------------------------------------------------------------
(* A candidate is handed to the host at most once, over every restart,      *)
(* recovery and change of day: no two tickets are for the same event.       *)
OneTicketPerSignal ==
    \A f, g \in tickets : SignalOf(f) = SignalOf(g) => f = g

(* While an order that was handed to the host is open in the journal, the   *)
(* saved session still waits for it: after any crash or failed save it      *)
(* neither accepts a signal nor offers another candidate.                   *)
SessionWaitsForTicket ==
    \A fp \in tickets :
        journalFile[fp] \in Unresolved =>
            /\ file.pending.signal = SignalOf(fp)
            /\ file.phase \in {"WAITING_RESULT", "STOPPING", "RECOVERY_ONLY"}

(* "The fill ledger commits before journal/session advancement": an order   *)
(* that traded is terminal in the journal only when its fills are saved.    *)
LedgerFirst ==
    \A fp \in Fingerprints :
        journalFile[fp] \in Terminal /\ exchange[fp] \in Traded => fp \in ledger

(* The session file that any interleaving of the two objects leaves loads,  *)
(* unless the clock was set back: a save takes any time, and _load refuses  *)
(* times that are not in order.                                             *)
FileAlwaysLoads ==
    /\ Consistent(file)
    /\ ~setBack => Loadable(file, fileTimes)

(* A terminal order is the only way in which the session stops waiting for  *)
(* a ticket it recorded: what it forgets, the journal has closed.           *)
OutcomeAfterJournal ==
    [][\A fp \in file.pending.ticket :
          file'.pending.ticket = {} => journalFile[fp] \in Terminal]_vars

(* The stage of each order as the journal and the ticket files show it.     *)
StageOf(p) ==
    CASE p = Absent       -> "idle"
      [] p = "PREPARED"   -> "reserved"
      [] p = "SUBMITTING" -> "armed"
      [] p \in Terminal   -> "closed"
      [] OTHER            -> "lookup"

OneShot == INSTANCE OneShotOrder WITH
    Orders <- Fingerprints,
    stage  <- [fp \in Fingerprints |-> StageOf(journalFile[fp])],
    sent   <- tickets

(* The file handoff implements the one-shot order, its ticket being the     *)
(* send: it is issued once, while the order is armed alone.                 *)
ImplementsOneShot == OneShot!Spec
-----------------------------------------------------------------------------
(* What makes the above inductive.  The session has two copies of its state *)
(* and any save may fail, so that what the file has to satisfy the memory   *)
(* of a running session has to satisfy as well.                             *)
Memory == Image(phase, pending, processed, latch)

HandedOver == {"CONFIRMING", "TICKET_READY", "UNKNOWN"}
Waiting == {"WAITING_RESULT", "STOPPING", "RECOVERY_ONLY"}

(* A copy is consistent: it has a candidate when its phase is about one,    *)
(* remembers the event of it, and names a ticket that was written for it.   *)
Orderly(f) ==
    /\ f.phase \in PendingPhases => f.pending # NoPending
    /\ f.pending # NoPending => f.phase \in PendingPhases \cup {"RECOVERY_ONLY"}
    /\ f.phase = "BUY_PAUSED" => f.latch # NoPause
    /\ f.phase = "NO_FILE" => f = NoFile
    /\ f.pending.status \notin {"NONE", "RESERVING"} => f.pending.signal \in f.processed
    /\ f.pending.status \in {"TICKET_READY", "UNKNOWN"} <=> f.pending.ticket # {}
    /\ \A fp \in f.pending.ticket :
         fp \in tickets /\ f.pending.ticket = {fp} /\ SignalOf(fp) = f.pending.signal

(* It knows the event of every ticket, and does not offer it again.         *)
Knows(f) ==
    \A fp \in tickets :
        /\ SignalOf(fp) \in f.processed
        /\ f.pending.signal = SignalOf(fp) => f.pending.status \in HandedOver

(* It waits for the ticket whose order is open in the journal.              *)
Waits(f) ==
    \A fp \in tickets :
        journalFile[fp] \in Unresolved =>
            f.pending.signal = SignalOf(fp) /\ f.phase \in Waiting

CopiesAreSafe ==
    /\ Orderly(file) /\ Knows(file) /\ Waits(file)
    /\ file.phase = "RUNNING" => file.latch = NoPause
    /\ Orderly(Memory)
    /\ up => Knows(Memory) /\ Waits(Memory)

(* A ticket that the file names and the memory does not is of a closed order. *)
ForgetsClosed ==
    up => \A fp \in file.pending.ticket :
              fp \in pending.ticket \/ journalFile[fp] \in Terminal

(* The lock is held by a running process whose journal is the file, and a   *)
(* phrase is awaited only while nothing is unresolved.                      *)
JournalIsOpen ==
    /\ held => up /\ records = journalFile
    /\ confirmation # {} =>
         held /\ \A fp \in Fingerprints : journalFile[fp] \notin Unresolved
    /\ \A fp \in tickets : journalFile[fp] \notin {Absent, "PREPARED"}

(* A terminal phase is of an order that ended, with its fills in the ledger. *)
LedgerIsTrue ==
    /\ \A fp \in ledger : exchange[fp] \in Traded
    /\ \A fp \in Fingerprints :
         journalFile[fp] \in Terminal => exchange[fp] \in EndStates
    /\ LedgerFirst

(* A method of the session that is not finished. *)
MethodInHand ==
    step # "idle" =>
        /\ up
        /\ step = "starting" => phase = "STARTING"
        /\ step # "starting" =>
             phase = "WAITING_CONFIRMATION" /\ pending.status = "RESERVING"

(* A call of the coordinator that is not finished: what it has saved so far. *)
JobInHand ==
    /\ job = "idle" <=> order = {}
    /\ \A f, g \in order : f = g
    /\ job # "idle" => up /\ held /\ step = "idle"
    /\ \A fp \in order :
         /\ job \in {"armed", "confirming", "ticketed"} =>
              journalFile[fp] = "SUBMITTING"
         /\ job \in {"confirming", "ticketed"} =>
              /\ phase = "WAITING_RESULT"
              /\ pending.status = "CONFIRMING" /\ pending.signal = SignalOf(fp)
         /\ job = "confirming" =>
              file = Memory /\ \A g \in tickets : SignalOf(g) # SignalOf(fp)
         /\ job = "ticketed" => fp \in tickets
         /\ job \in {"uncertain", "synced", "recorded"} =>
              pending.status = "TICKET_READY" /\ fp \in pending.ticket
         /\ job = "synced" =>
              exchange[fp] \in EndStates /\ (exchange[fp] \in Traded => fp \in ledger)
         /\ job = "recorded" => journalFile[fp] \in Terminal

(* The invariant of the files; SessionWaitsForTicket and LedgerFirst are    *)
(* among what Waits and LedgerIsTrue say.                                   *)
CoreInv ==
    /\ HandoffTypeOK
    /\ OneTicketPerSignal
    /\ CopiesAreSafe
    /\ ForgetsClosed
    /\ JournalIsOpen
    /\ LedgerIsTrue
    /\ MethodInHand
    /\ JobInHand

(* The times of the session: one with an order to confirm was started.      *)
HandoffTimes ==
    /\ TimesAgree
    /\ confirmation # {} \/ job # "idle" => times.created # 0

(* The inductive invariant of the handoff. *)
IInv == CoreInv /\ HandoffTimes
-----------------------------------------------------------------------------
(* "The latch survives process restart": between two calls, in a session    *)
(* none of whose saves has failed (the rest of its memory is in the file),  *)
(* a restart would load the latch that the process holds.                   *)
LatchSurvivesRestart ==
    /\ Free
    /\ file = Image(phase, pending, processed, file.latch)
    => latch = file.latch

(* "Interrupted ticket persistence moves both journal and session to        *)
(* lookup-only recovery": while the journal holds an uncertain order, the   *)
(* session that entered recovery stays in it.                               *)
RecoveryIsHeld ==
    [][/\ file.phase = "RECOVERY_ONLY"
       /\ \E fp \in Fingerprints : journalFile[fp] = "UNKNOWN"
       => file'.phase = "RECOVERY_ONLY"]_vars
=============================================================================
