--------------------------- MODULE DesktopOrders ---------------------------
(***************************************************************************)
(* Live orders from the desktop window.  The command line writes a plan;    *)
(* a window loads it, shows its preview for one exact confirmation, saves   *)
(* SUBMITTING, writes the ticket and later imports the host's result.       *)
(* Each plan has a journal and a lock of its own; a signal here is what the *)
(* plan's fingerprint identifies, the event with its order arguments.       *)
(* Several windows (processes) share the directory.  While a session owns   *)
(* the lock its memory of the journal is the file, because it loads it      *)
(* under the lock and rolls a failed save back.                             *)
(*                                                                          *)
(* A plan lives a minute, a receipt and a preview fifteen seconds: the days *)
(* are the two sides of one midnight, and which side a receipt is from is a *)
(* choice.  Expiry and evidence that became too old are refusals that may   *)
(* happen at any time.                                                      *)
(***************************************************************************)
EXTENDS SpotOrders, FiniteSets

CONSTANTS
    Windows,    \* the desktop processes
    Nobody,     \* no window
    MaxOrders   \* a bound on the orders that the host submits

ASSUME WindowsAssumption == Nobody \notin Windows /\ MaxOrders \in Nat

VARIABLES
    plan,       \* the plan in the plan file, while it has not expired
    journal,    \* the records in the journal files of all plans
    lock,       \* the owner of each plan's execution lock
    session,    \* the live session of each window
    tickets,    \* the ticket files
    results,    \* the result files of the host
    ledger,     \* the orders whose fills are in the ledger file
    fate        \* what the host and the exchange did with each order

ownVars == <<journal, lock, session>>
hostVars == <<tickets, results, fate>>
vars == <<plan, ownVars, hostVars, ledger>>

J == INSTANCE ExecutionJournal WITH records <- journal, journalFile <- journal

NoSession == [stage |-> "none"]
OwningStages == {"preview", "armed", "ticket", "synced"}
Sessions == [stage : OwningStages \cup {"closed"}, order : Fingerprints]

Traded == {"FILLED", "CANCELED_AFTER_FILLS"}
EndStates == Traded \cup {"CANCELED"}
Fates == {"none", "sent"} \cup EndStates

NoResult == [outcome |-> "none", fills |-> {}]
Unknown == [outcome |-> "UNKNOWN", fills |-> {}]
Results ==
    {NoResult, Unknown} \cup [outcome : {"TERMINAL"}, fills : SUBSET Fingerprints]

TypeOK ==
    /\ plan \in Signals \cup {NoSignal}
    /\ journal \in [Fingerprints -> J!Phases \cup {J!Absent}]
    /\ lock \in [Signals -> Windows \cup {Nobody}]
    /\ session \in [Windows -> Sessions \cup {NoSession}]
    /\ tickets \subseteq Fingerprints
    /\ results \in [Fingerprints -> Results]
    /\ ledger \subseteq Fingerprints
    /\ fate \in [Fingerprints -> Fates]

Init ==
    /\ plan = NoSignal
    /\ journal = J!NoRecords
    /\ lock = [sig \in Signals |-> Nobody]
    /\ session = [w \in Windows |-> NoSession]
    /\ tickets = {}
    /\ results = [fp \in Fingerprints |-> NoResult]
    /\ ledger = {}
    /\ fate = [fp \in Fingerprints |-> "none"]

Owns(w, fp) == session[w].stage \in OwningStages /\ session[w].order = fp

At(stage, w, fp) == session[w] = [stage |-> stage, order |-> fp]

Goto(stage, w, fp) ==
    session' = [session EXCEPT ![w] = [stage |-> stage, order |-> fp]]

Forget(w) == session' = [session EXCEPT ![w] = NoSession]

Release(fp) == lock' = [lock EXCEPT ![SignalOf(fp)] = Nobody]

(* The fills that the complete trade history of the account holds. *)
History == {fp \in Fingerprints : fate[fp] \in Traded}
-----------------------------------------------------------------------------
(* What a plan can be built from; a refused signal leaves the plan file. *)
CanPlan(sig) == ActionOf[sig] # "hold"

(* The command line replaces the plan file. *)
PublishPlan(sig) ==
    /\ CanPlan(sig)
    /\ plan' = sig
    /\ UNCHANGED <<ownVars, hostVars, ledger>>

PlanExpires ==
    /\ plan # NoSignal
    /\ plan' = NoSignal
    /\ UNCHANGED <<ownVars, hostVars, ledger>>

(* The file holds a complete plan whose fingerprint is that of its order. *)
PlanLoads == plan # NoSignal

CanLoad(w) == session[w] = NoSession /\ PlanLoads /\ lock[plan] = Nobody

(* A mutation: an unresolved record does not block the next preview. *)
ReserveAnyway(d) == J!Prepare(<<plan, d>>)

(* The preview, once nothing is unresolved in the journal of this plan.     *)
Reserve(d) ==
    /\ \A day \in Days : journal[<<plan, day>>] \notin J!Unresolved
    /\ J!Prepare(<<plan, d>>)

LoadLive(w, d) ==
    /\ CanLoad(w)
    /\ Reserve(d)
    /\ lock' = [lock EXCEPT ![plan] = w]
    /\ Goto("preview", w, <<plan, d>>)
    /\ UNCHANGED <<plan, hostVars, ledger>>

(* The order was reserved, and then the preview differed from the plan or   *)
(* the dialog refused it: the lock is released, the record stays.           *)
LoadFails(w, d) ==
    /\ CanLoad(w)
    /\ Reserve(d)
    /\ UNCHANGED <<plan, lock, session, hostVars, ledger>>

(* Cancelled, expired, or refused while the phrase was consumed. *)
DropPreview(w, fp) ==
    /\ At("preview", w, fp)
    /\ Forget(w)
    /\ Release(fp)
    /\ UNCHANGED <<plan, journal, hostVars, ledger>>

Confirm(w, fp) ==
    /\ At("preview", w, fp)
    /\ J!Transition(fp, "SUBMITTING")
    /\ Goto("armed", w, fp)
    /\ UNCHANGED <<plan, lock, hostVars, ledger>>

WriteTicket(w, fp) ==
    /\ At("armed", w, fp)
    /\ fp \notin tickets
    /\ tickets' = tickets \cup {fp}
    /\ Goto("ticket", w, fp)
    /\ UNCHANGED <<plan, journal, lock, results, fate, ledger>>

(* The ticket was refused or not written; UNKNOWN may not be saved either.  *)
TicketFails(w, fp) ==
    /\ At("armed", w, fp)
    /\ J!Transition(fp, "UNKNOWN") \/ J!TransitionFails(fp, "UNKNOWN")
    /\ Forget(w)
    /\ Release(fp)
    /\ UNCHANGED <<plan, hostVars, ledger>>
-----------------------------------------------------------------------------
(* A result file of this ticket; without one the import changes nothing. *)
Verified(fp) == results[fp] # NoResult

ImportUnknown(w, fp) ==
    /\ At("ticket", w, fp)
    /\ results[fp] = Unknown
    /\ J!Transition(fp, "UNKNOWN")
    /\ Forget(w)
    /\ Release(fp)
    /\ UNCHANGED <<plan, hostVars, ledger>>

(* A mutation: the history of the result replaces what the ledger has. *)
SyncAnything(w, fp) ==
    /\ At("ticket", w, fp)
    /\ results[fp].outcome = "TERMINAL"
    /\ ledger' = results[fp].fills
    /\ Goto("synced", w, fp)
    /\ UNCHANGED <<plan, journal, lock, hostVars>>

(* The ledger refuses a history in which a recorded fill is missing. *)
SyncFills(w, fp) ==
    /\ At("ticket", w, fp)
    /\ results[fp].outcome = "TERMINAL"
    /\ ledger \subseteq results[fp].fills
    /\ ledger' = results[fp].fills
    /\ Goto("synced", w, fp)
    /\ UNCHANGED <<plan, journal, lock, hostVars>>

PhaseFor(fp) == IF fate[fp] = "FILLED" THEN "FILLED" ELSE "REJECTED"

(* A mutation: a terminal result is recorded before its fills are saved. *)
AcceptUnsynced(w, fp) ==
    /\ At("ticket", w, fp)
    /\ results[fp].outcome = "TERMINAL"
    /\ J!Transition(fp, PhaseFor(fp))
    /\ Forget(w)
    /\ Release(fp)
    /\ UNCHANGED <<plan, hostVars, ledger>>

AcceptResult(w, fp) ==
    /\ At("synced", w, fp)
    /\ J!Transition(fp, PhaseFor(fp))
    /\ Forget(w)
    /\ Release(fp)
    /\ UNCHANGED <<plan, hostVars, ledger>>

(* Whatever raises after the result was verified (an older history than the *)
(* ledger's, a lock, a save) closes the session, and the window keeps it:   *)
(* it can neither import again nor load another plan.                       *)
ImportFails(w, fp) ==
    /\ \/ At("ticket", w, fp) /\ Verified(fp)
       \/ At("synced", w, fp)
    /\ Goto("closed", w, fp)
    /\ Release(fp)
    /\ UNCHANGED <<plan, journal, hostVars, ledger>>

(* The window is closed, or its process dies between any two writes. *)
Leave(w) ==
    /\ session[w] # NoSession
    /\ Forget(w)
    /\ lock' = [sig \in Signals |-> IF lock[sig] = w THEN Nobody ELSE lock[sig]]
    /\ UNCHANGED <<plan, journal, hostVars, ledger>>
-----------------------------------------------------------------------------
(* The host reads a ticket, submits it at most once and may report at any   *)
(* time that the outcome is unknown, or how the order ended (external).     *)
HostSubmits(fp) ==
    /\ fp \in tickets
    /\ fate[fp] = "none"
    /\ Cardinality({f \in Fingerprints : fate[f] # "none"}) < MaxOrders
    /\ fate' = [fate EXCEPT ![fp] = "sent"]
    /\ UNCHANGED <<plan, ownVars, tickets, results, ledger>>

OrderEnds(fp) ==
    /\ fate[fp] = "sent"
    /\ \E state \in EndStates : fate' = [fate EXCEPT ![fp] = state]
    /\ UNCHANGED <<plan, ownVars, tickets, results, ledger>>

HostReports(fp) ==
    /\ fp \in tickets
    /\ \/ /\ results[fp] = NoResult
          /\ results' = [results EXCEPT ![fp] = Unknown]
       \/ /\ fate[fp] \in EndStates
          /\ results' = [results EXCEPT
                 ![fp] = [outcome |-> "TERMINAL", fills |-> History]]
    /\ UNCHANGED <<plan, ownVars, tickets, fate, ledger>>

(* The strategy cycle saves a fresh history into the same ledger file. *)
CycleSyncs ==
    /\ ledger \subseteq History
    /\ ledger' = History
    /\ UNCHANGED <<plan, ownVars, hostVars>>

Next ==
    \/ PlanExpires \/ CycleSyncs
    \/ \E sig \in Signals : PublishPlan(sig)
    \/ \E w \in Windows, d \in Days : LoadLive(w, d) \/ LoadFails(w, d)
    \/ \E w \in Windows, fp \in Fingerprints :
         \/ DropPreview(w, fp) \/ Confirm(w, fp) \/ WriteTicket(w, fp)
         \/ TicketFails(w, fp) \/ ImportUnknown(w, fp) \/ SyncFills(w, fp)
         \/ AcceptResult(w, fp) \/ ImportFails(w, fp)
    \/ \E w \in Windows : Leave(w)
    \/ \E fp \in Fingerprints : HostSubmits(fp) \/ OrderEnds(fp) \/ HostReports(fp)

Spec == Init /\ [][Next]_vars
-----------------------------------------------------------------------------
InProgress(fp) == journal[fp] \in J!Unresolved

(* A plan's lock is owned by the window whose session is on that plan.      *)
LockIsSession ==
    \A w \in Windows, sig \in Signals :
        lock[sig] = w <=>
            /\ session[w].stage \in OwningStages
            /\ SignalOf(session[w].order) = sig

(* What the owner of a journal has done is what the journal and the ticket  *)
(* file say, whatever other windows do.                                     *)
Journaled(w, fp) ==
    /\ At("preview", w, fp) =>
         /\ journal[fp] = "PREPARED"
         /\ \A d \in Days : ~InProgress(<<SignalOf(fp), d>>)
    /\ At("armed", w, fp) => journal[fp] = "SUBMITTING" /\ fp \notin tickets
    /\ At("ticket", w, fp) => journal[fp] = "SUBMITTING" /\ fp \in tickets
    /\ At("synced", w, fp) =>
         /\ journal[fp] = "SUBMITTING" /\ fp \in tickets
         /\ fate[fp] \in EndStates
         /\ fate[fp] \in Traded => fp \in ledger

SessionIsJournaled ==
    \A w \in Windows, fp \in Fingerprints : Journaled(w, fp)

(* One plan has at most one order in progress, over both days and over all  *)
(* windows, deaths and refused imports.                                     *)
OnePerPlan ==
    \A f, g \in Fingerprints :
        InProgress(f) /\ InProgress(g) /\ SignalOf(f) = SignalOf(g) => f = g

(* A ticket is for an order whose submission is durable. *)
TicketsAreArmed ==
    \A fp \in tickets : journal[fp] \in J!Unresolved \cup J!Terminal

(* Nothing is ordered without a ticket, and nothing is closed before its    *)
(* order has ended, or otherwise than it did.                               *)
Closed(fp, phase) ==
    /\ fp \in tickets
    /\ fate[fp] \in EndStates
    /\ phase = "FILLED" <=> fate[fp] = "FILLED"

OrdersHaveTickets ==
    \A fp \in Fingerprints :
        /\ fate[fp] # "none" => fp \in tickets
        /\ journal[fp] \in J!Terminal => Closed(fp, journal[fp])

(* What the result files and the ledger say did happen.                     *)
RecordsAreTrue ==
    /\ ledger \subseteq History
    /\ \A fp \in Fingerprints :
         results[fp].outcome = "TERMINAL" =>
             /\ fate[fp] \in EndStates
             /\ results[fp].fills \subseteq History
             /\ fate[fp] \in Traded => fp \in results[fp].fills

(* Desktop guide, step 7: "terminal fills commit to the local fill ledger   *)
(* before the execution journal advances", whichever window or command      *)
(* wrote the ledger last.                                                   *)
LedgerFirst ==
    \A fp \in Fingerprints :
        journal[fp] \in J!Terminal /\ fate[fp] \in Traded => fp \in ledger

(* The inductive invariant of DesktopOrdersProofs. *)
IInv ==
    /\ TypeOK
    /\ LockIsSession
    /\ SessionIsJournaled
    /\ OnePerPlan
    /\ TicketsAreArmed
    /\ OrdersHaveTickets
    /\ RecordsAreTrue
    /\ LedgerFirst

(* Results are imported in any order, by windows and by the strategy cycle: *)
(* no older history takes a fill out of the ledger.                         *)
LedgerKeepsFills == [][ledger \subseteq ledger']_ledger

(* The stage of an order as the journal shows it. *)
StageOf(p) ==
    CASE p = J!Absent     -> "idle"
      [] p = "PREPARED"   -> "reserved"
      [] p = "SUBMITTING" -> "armed"
      [] p \in J!Terminal -> "closed"
      [] OTHER            -> "lookup"

Identities(sig) == {sig} \X Days
StagesOf(sig) == [fp \in Identities(sig) |-> StageOf(journal[fp])]
TicketsOf(sig) == tickets \cap Identities(sig)

Plan(p) == INSTANCE OneShotOrder WITH
    Orders <- Identities(p), stage <- StagesOf(p), sent <- TicketsOf(p)

(* Each plan is a one-shot order of its own, its ticket being the send:     *)
(* armed while no other identity of the plan is in progress, its ticket     *)
(* written once and only then, looked up, and closed for ever.  Its last    *)
(* conjunct is Plan(p)!Spec for every p, in a form that TLC evaluates.      *)
PlansAreOneShot ==
    /\ \A p \in Signals : Plan(p)!Init
    /\ [][\A p \in Signals : [Plan(p)!Next]_(Plan(p)!vars)]_vars
-----------------------------------------------------------------------------
(* "Any unresolved submission blocks new preparation."                      *)
UnresolvedBlocksPreparation ==
    [][\A fp \in Fingerprints :
          journal[fp] = J!Absent /\ journal'[fp] # J!Absent =>
              \A f \in Fingerprints : ~InProgress(f)]_vars
=============================================================================
