-------------------------- MODULE DirectExecution --------------------------
(***************************************************************************)
(* The confirmed executor over an injected caller: submit() arms the order, *)
(* calls spot.newOrder once and records the answer or UNKNOWN; reconcile()  *)
(* only looks orders up.  Every durable write is a step of its own, so that *)
(* the process may die, and the lock pass on, between any two of them.      *)
(*                                                                          *)
(* `task' is where the (single) thread of the process is:                   *)
(*   "idle", "armed"  (SUBMITTING is saved, the call not yet made),         *)
(*   "called"  (the call was made, its answer is awaited),                  *)
(*   "lookup"  (spot.getOrder was called, its answer is awaited).           *)
(***************************************************************************)
EXTENDS ConfirmedExecutor, SpotExchange

VARIABLES task, order, today    \* order: what the task is about, {} or {fp}

taskVars == <<task, order>>
vars == <<executorVars, exchangeVars, taskVars, today>>

TypeOK ==
    /\ ExecutorTypeOK
    /\ ExchangeTypeOK
    /\ task \in {"idle", "armed", "called", "lookup"}
    /\ order \in SUBSET Fingerprints
    /\ today \in Days

Init ==
    /\ ExecutorInit
    /\ ExchangeInit
    /\ task = "idle"
    /\ order = {}
    /\ today = 1

Idle == held /\ task = "idle"

At(t, fp) == task = t /\ fp \in order

Goto(t, fp) == task' = t /\ order' = {fp}

Finish == task' = "idle" /\ order' = {}

Calm == UNCHANGED <<exchangeVars, today>>

(* Each executor of this kind is created with a policy of its own. *)
Open == OpenExecutor /\ latch' = NoPause /\ UNCHANGED taskVars /\ Calm

Close == Idle /\ DropExecutor /\ latch' = NoPause /\ UNCHANGED taskVars /\ Calm

Crash == held /\ DropExecutor /\ latch' = NoPause /\ Finish /\ Calm

PreviewOrder(sig, s) ==
    /\ Idle
    /\ \/ Preview(<<sig, today>>, s)
       \/ PreviewRefused(<<sig, today>>, s)
    /\ UNCHANGED taskVars
    /\ Calm

Cancel == Idle /\ CancelPreview /\ UNCHANGED taskVars /\ Calm

RefuseOrRehearse(fp, s) ==
    /\ Idle
    /\ ConfirmationRefused(fp, s, today) \/ Rehearse(fp, s, today)
    /\ UNCHANGED taskVars
    /\ Calm

Submit(fp, s) ==
    /\ Idle
    /\ BeginSubmission(fp, s, today)
    /\ Goto("armed", fp)
    /\ Calm

CallNewOrder(fp) ==
    /\ At("armed", fp)
    /\ NewOrder(fp)
    /\ Goto("called", fp)
    /\ UNCHANGED <<executorVars, today>>

(* The call raised, its answer was invalid or could not be saved: the order *)
(* becomes UNKNOWN, or, when even that is not saved, stays SUBMITTING.      *)
SubmissionUncertain(fp) ==
    /\ At("armed", fp) \/ At("called", fp)
    /\ MarkUnknown(fp) \/ MarkUnknownFails(fp)
    /\ Finish
    /\ Calm

AcceptAnswer(fp) ==
    /\ At("called", fp)
    /\ \E status \in Reported(fp) : RecordResult(fp, status)
    /\ Finish
    /\ Calm

Reconcile(fp) ==
    /\ Idle
    /\ records[fp] \in Unresolved
    /\ IF records[fp] = "SUBMITTING"
         THEN MarkUnknown(fp)
         ELSE UNCHANGED executorVars
    /\ Goto("lookup", fp)
    /\ Calm

(* A mutation: an order the lookup does not find is taken for rejected. *)
LookupMissingIsRejected(fp) ==
    /\ At("lookup", fp)
    /\ \/ \E status \in Reported(fp) : RecordResult(fp, status)
       \/ Reported(fp) = {} /\ RecordResult(fp, "CANCELED")
    /\ Finish
    /\ Calm

LookupAnswer(fp) ==
    /\ At("lookup", fp)
    /\ \E status \in Reported(fp) : RecordResult(fp, status)
    /\ Finish
    /\ Calm

(* Not found, invalid, or not saved: nothing is inferred. *)
LookupUnresolved(fp) ==
    /\ At("lookup", fp)
    /\ Finish
    /\ UNCHANGED executorVars
    /\ Calm

MoveExchange(fp) == ExchangeStep(fp) /\ UNCHANGED <<executorVars, taskVars, today>>

NextDay ==
    /\ today < MaxDay
    /\ today' = today + 1
    /\ UNCHANGED <<executorVars, exchangeVars, taskVars>>

Next ==
    \/ Open \/ Close \/ Crash \/ Cancel \/ NextDay
    \/ \E sig \in Signals, s \in Snapshots : PreviewOrder(sig, s)
    \/ \E fp \in Fingerprints, s \in Snapshots :
         RefuseOrRehearse(fp, s) \/ Submit(fp, s)
    \/ \E fp \in Fingerprints :
         \/ CallNewOrder(fp) \/ SubmissionUncertain(fp) \/ AcceptAnswer(fp)
         \/ Reconcile(fp) \/ LookupAnswer(fp) \/ LookupUnresolved(fp)
         \/ MoveExchange(fp)

Spec == Init /\ [][Next]_vars
-----------------------------------------------------------------------------
(* While a process owns the journal, its memory is the file: no failed save *)
(* leaves in memory a phase that a restart would not find, and no earlier   *)
(* owner's order is missing from what it saves next.                        *)
MemoryIsFile == held => records = journalFile

(* At most one order is in progress in the journal, over all the processes  *)
(* that owned it: a preview is refused while one is unresolved, and nothing *)
(* can become unresolved between that check and the submission.             *)
AtMostOneUnresolved ==
    \A f, g \in Fingerprints :
        journalFile[f] \in Unresolved /\ journalFile[g] \in Unresolved => f = g

(* spot.newOrder is called at most once for an order, however often it is   *)
(* confirmed, the process dies or the lookup fails, and never before        *)
(* SUBMITTING is on disk.                                                   *)
SubmittedOnceAfterSaving ==
    \A fp \in Fingerprints :
        calls[fp] > 0 => /\ calls[fp] = 1
                         /\ journalFile[fp] \notin {Absent, "PREPARED"}

(* The journal calls an order FILLED or REJECTED only if it ended that way  *)
(* at the exchange: a timeout or a missing order never ends it.             *)
TerminalIsTrue ==
    \A fp \in Fingerprints :
        /\ journalFile[fp] = "FILLED"   => exchange[fp] = "FILLED"
        /\ journalFile[fp] = "REJECTED" => exchange[fp] \in EndStates \ {"FILLED"}

(* What makes the above inductive.  The order a task is about is in the     *)
(* phase its last save left, no task outlives its process, a preview waits  *)
(* for its phrase only while nothing is unresolved, and nothing reaches the *)
(* exchange but the calls.                                                  *)
TaskIsJournaled ==
    /\ task = "idle" => order = {}
    /\ \A f, g \in order : f = g
    /\ \A fp \in order :
         /\ task = "armed"  => journalFile[fp] = "SUBMITTING" /\ calls[fp] = 0
         /\ task = "called" => journalFile[fp] = "SUBMITTING"
         /\ task = "lookup" => journalFile[fp] \in {"SUBMITTED", "UNKNOWN"}

DownIsIdle == ~held => task = "idle" /\ confirmation = {}

ConfirmationAlone ==
    confirmation # {} => \A fp \in Fingerprints : journalFile[fp] \notin Unresolved

OrdersComeFromCalls ==
    \A fp \in Fingerprints :
        fp \in wire \/ exchange[fp] # NoOrder => calls[fp] = 1

(* The inductive invariant of the direct execution: the four properties     *)
(* above with the facts that each step needs to keep them.                  *)
IInv ==
    /\ TypeOK
    /\ MemoryIsFile
    /\ AtMostOneUnresolved
    /\ SubmittedOnceAfterSaving
    /\ TerminalIsTrue
    /\ TaskIsJournaled
    /\ DownIsIdle
    /\ ConfirmationAlone
    /\ OrdersComeFromCalls

(* The stage of each order as the durable journal shows it. *)
StageOf(phase) ==
    CASE phase = Absent       -> "idle"
      [] phase = "PREPARED"   -> "reserved"
      [] phase = "SUBMITTING" -> "armed"
      [] phase \in Terminal   -> "closed"
      [] OTHER                -> "lookup"

OneShot == INSTANCE OneShotOrder WITH
    Orders <- Fingerprints,
    stage  <- [fp \in Fingerprints |-> StageOf(journalFile[fp])],
    sent   <- {fp \in Fingerprints : calls[fp] > 0}

(* The journal, the crashes and the lookups together implement the one-shot *)
(* order: armed alone, sent once while armed, only looked up afterwards.    *)
ImplementsOneShot == OneShot!Spec
=============================================================================
