----------------------- MODULE SessionExecutionProofs -----------------------
(***************************************************************************)
(* Theorems of SessionExecution, for all events, days and account states.   *)
(* A step changes the session (Move), the journal (JournalStep), or only    *)
(* one of the other files; what each of these keeps is proved once.         *)
(***************************************************************************)
EXTENDS SessionExecution, FiniteSetTheorems, TLAPS

Steps == {"idle", "starting", "reserving", "planned"}

LEMMA MemoryFields ==
    /\ Memory.phase = phase /\ Memory.pending = pending
    /\ Memory.processed = processed /\ Memory.latch = latch
BY DEF Memory, Image

LEMMA NoPendingFields ==
    /\ NoPending \in Pendings /\ NoPending.status = "NONE"
    /\ NoPending.signal = NoSignal /\ NoPending.signal \notin Signals
    /\ NoPending.ticket = {}
BY SignalsAssumption DEF NoPending, Pendings

LEMMA PendingFields ==
    ASSUME NEW p \in Pendings
    PROVE  /\ p.status \in PendingStatuses \cup {"NONE"}
           /\ p.status = "NONE" <=> p = NoPending
           /\ p # NoPending => p.signal \in Signals
           /\ p.ticket \subseteq Fingerprints
BY DEF NoPending, Pendings, PendingStatuses

(* A pending record of a known event with another status. *)
LEMMA PendingMoves ==
    ASSUME NEW p \in Pendings, p # NoPending, NEW st \in PendingStatuses
    PROVE  /\ [p EXCEPT !.status = st] \in Pendings
           /\ [p EXCEPT !.status = st].status = st
           /\ [p EXCEPT !.status = st].signal = p.signal
           /\ [p EXCEPT !.status = st].ticket = p.ticket
           /\ [p EXCEPT !.status = st] # NoPending
<1>1. p \in [status : PendingStatuses, signal : Signals, ticket : SUBSET Fingerprints]
  BY DEF Pendings
<1>2. st # "NONE"
  BY DEF PendingStatuses
<1> QED
  BY <1>1, <1>2 DEF Pendings, NoPending

LEMMA NoFileFields ==
    /\ NoFile.phase = "NO_FILE" /\ NoFile.pending = NoPending
    /\ NoFile.processed = {} /\ NoFile.latch = NoPause
BY DEF NoFile, Image

LEMMA SignalOfFingerprint == \A fp \in Fingerprints : SignalOf(fp) \in Signals
BY DEF Fingerprints, SignalOf

LEMMA StatusesDiffer ==
    /\ "NONE" \notin HandedOver /\ "RESERVING" \notin HandedOver
    /\ "READY" \notin HandedOver /\ "CONFIRMING" \in HandedOver
    /\ "TICKET_READY" \in HandedOver /\ "UNKNOWN" \in HandedOver
BY DEF HandedOver

(* What a snapshot does to the latch. *)
LEMMA ObservedLatch ==
    ASSUME latch \in PauseReasons, NEW s \in Snapshots, ObserveRisk(s)
    PROVE  /\ latch' \in PauseReasons
           /\ latch # NoPause => latch' = latch
BY SnapshotsAssumption
   DEF ObserveRisk, ObserveBuyRisk, FirstRisk, PauseReasons, RiskReasons, NoPause

(* What a step may use of the state it starts in. *)
LEMMA Known ==
    ASSUME CoreInv
    PROVE  /\ up \in BOOLEAN /\ held \in BOOLEAN
           /\ phase \in SessionPhases /\ pending \in Pendings
           /\ processed \subseteq Signals /\ latch \in PauseReasons
           /\ step \in Steps /\ plans \subseteq Signals
           /\ records \in [Fingerprints -> Phases \cup {Absent}]
           /\ journalFile \in [Fingerprints -> Phases \cup {Absent}]
           /\ confirmation \subseteq Fingerprints
           /\ exchange \in [Fingerprints -> OrderStates]
           /\ job \in Jobs /\ order \subseteq Fingerprints
           /\ tickets \subseteq Fingerprints /\ ledger \subseteq Fingerprints
           /\ today \in Days
           /\ held => up /\ records = journalFile
BY DEF CoreInv, HandoffTypeOK, ExecutorTypeOK, JournalTypeOK, SessionTypeOK, ExchangeTypeOK,
       JournalIsOpen, Steps

LEMMA MemoryKnown ==
    ASSUME CoreInv
    PROVE  /\ phase \in PendingPhases => pending # NoPending
           /\ pending # NoPending => phase \in PendingPhases \cup {"RECOVERY_ONLY"}
           /\ phase = "BUY_PAUSED" => latch # NoPause
           /\ pending.status \notin {"NONE", "RESERVING"} => pending.signal \in processed
           /\ pending.status \in {"TICKET_READY", "UNKNOWN"} <=> pending.ticket # {}
           /\ \A fp \in pending.ticket :
                fp \in tickets /\ pending.ticket = {fp} /\ SignalOf(fp) = pending.signal
           /\ up => \A fp \in tickets :
                /\ SignalOf(fp) \in processed
                /\ pending.signal = SignalOf(fp) => pending.status \in HandedOver
                /\ journalFile[fp] \in Unresolved =>
                     pending.signal = SignalOf(fp) /\ phase \in Waiting
BY MemoryFields DEF CoreInv, CopiesAreSafe, Orderly, Knows, Waits

(* A session that is not waiting has no ticket that is open. *)
LEMMA NoneOpen ==
    ASSUME CoreInv, up, pending.status \notin HandedOver \/ phase \notin Waiting
    PROVE  \A fp \in tickets : journalFile[fp] \notin Unresolved
BY MemoryKnown
-----------------------------------------------------------------------------
LEMMA InitCoreInv == Init => CoreInv
<1> SUFFICES ASSUME Init PROVE CoreInv
  OBVIOUS
<1> USE DEF Init, ExecutorInit, JournalInit, SessionInit, ExchangeInit
<1>1. HandoffTypeOK
  <2>1. ExecutorTypeOK
    BY DEF ExecutorTypeOK, JournalTypeOK, NoRecords, PauseReasons
  <2>2. SessionTypeOK
    BY NoFileFields, NoPendingFields DEF SessionTypeOK, SessionPhases, PauseReasons
  <2>3. ExchangeTypeOK
    BY DEF ExchangeTypeOK, OrderStates
  <2> QED
    BY <2>1, <2>2, <2>3, DaysAssumption DEF HandoffTypeOK, Jobs, Days
<1>2. OneTicketPerSignal
  BY DEF OneTicketPerSignal
<1>3. CopiesAreSafe
  BY MemoryFields, NoFileFields, NoPendingFields
     DEF CopiesAreSafe, Orderly, Knows, Waits, PendingPhases
<1>4. JournalIsOpen /\ ForgetsClosed /\ MethodInHand /\ JobInHand
  BY DEF JournalIsOpen, ForgetsClosed, MethodInHand, JobInHand
<1>5. LedgerIsTrue
  BY DEF LedgerIsTrue, LedgerFirst, NoRecords, Terminal, Absent
<1> QED
  BY <1>1, <1>2, <1>3, <1>4, <1>5 DEF CoreInv
-----------------------------------------------------------------------------
(* A method of a running session: it leaves a memory that may be saved, and *)
(* saves it or not; a ticket leaves the memory only with a closed order.    *)
Move ==
    /\ up /\ up' = up
    /\ step' \in Steps /\ plans' \subseteq Signals
    /\ phase' \in SessionPhases /\ pending' \in Pendings
    /\ processed' \subseteq Signals /\ latch' \in PauseReasons
    /\ Orderly(Memory') /\ Knows(Memory') /\ Waits(Memory')
    /\ \A fp \in pending.ticket : fp \in pending'.ticket \/ journalFile[fp] \in Terminal
    /\ \/ file' = file
       \/ file' = Memory' /\ (phase' = "RUNNING" => latch' = NoPause)
    /\ UNCHANGED <<journalSide, hostSide>>

(* All of the invariant but what is said of methods and jobs in hand. *)
Settled ==
    /\ ExecutorTypeOK /\ SessionTypeOK /\ ExchangeTypeOK
    /\ tickets \subseteq Fingerprints /\ ledger \subseteq Fingerprints /\ today \in Days
    /\ OneTicketPerSignal /\ CopiesAreSafe /\ ForgetsClosed
    /\ JournalIsOpen /\ LedgerIsTrue

LEMMA HandedOn ==
    ASSUME CoreInv, Settled', MethodInHand', JobInHand', job' \in Jobs,
           order' \subseteq Fingerprints
    PROVE  CoreInv'
BY DEF CoreInv, HandoffTypeOK, Settled

LEMMA CoreInvSettled == ASSUME CoreInv PROVE Settled
BY DEF CoreInv, HandoffTypeOK, Settled

LEMMA MoveSettled == ASSUME CoreInv, Move PROVE Settled'
<1> USE DEF Move, journalSide, hostSide, exchangeVars
<1>1. ExecutorTypeOK' /\ ExchangeTypeOK'
  BY DEF CoreInv, HandoffTypeOK, ExecutorTypeOK, JournalTypeOK, ExchangeTypeOK
<1>2. /\ Memory'.phase = phase' /\ Memory'.pending = pending'
      /\ Memory'.processed = processed' /\ Memory'.latch = latch'
  BY DEF Memory, Image
<1>3. SessionTypeOK'
  BY <1>2 DEF CoreInv, HandoffTypeOK, SessionTypeOK, Steps
<1>4. Orderly(file') /\ Knows(file') /\ Waits(file')
  BY DEF CoreInv, CopiesAreSafe
<1>5. Orderly(file)' /\ Knows(file)' /\ Waits(file)'
  BY <1>4 DEF Orderly, Knows, Waits
<1>6. Orderly(Memory)' /\ Knows(Memory)' /\ Waits(Memory)'
  BY DEF Orderly, Knows, Waits
<1>7. (file.phase = "RUNNING" => file.latch = NoPause)'
  BY <1>2 DEF CoreInv, CopiesAreSafe
<1>8. CopiesAreSafe'
  BY <1>5, <1>6, <1>7 DEF CopiesAreSafe
<1>9. ForgetsClosed'
  BY <1>2 DEF CoreInv, ForgetsClosed
<1>10. OneTicketPerSignal' /\ JournalIsOpen' /\ LedgerIsTrue'
  BY DEF CoreInv, OneTicketPerSignal, JournalIsOpen, LedgerIsTrue, LedgerFirst
<1> QED
  BY <1>1, <1>3, <1>8, <1>9, <1>10 DEF CoreInv, HandoffTypeOK, Settled

(* A memory that may be saved, said of its variables. *)
LEMMA MoveFromFields ==
    ASSUME up, up' = up, step' \in Steps, plans' \subseteq Signals,
           phase' \in SessionPhases, pending' \in Pendings,
           processed' \subseteq Signals, latch' \in PauseReasons,
           phase' \in PendingPhases => pending' # NoPending,
           pending' # NoPending => phase' \in PendingPhases \cup {"RECOVERY_ONLY"},
           phase' = "BUY_PAUSED" => latch' # NoPause,
           pending'.status \notin {"NONE", "RESERVING"} => pending'.signal \in processed',
           pending'.status \in {"TICKET_READY", "UNKNOWN"} <=> pending'.ticket # {},
           \A fp \in pending'.ticket :
              fp \in tickets /\ pending'.ticket = {fp} /\ SignalOf(fp) = pending'.signal,
           \A fp \in tickets :
              /\ SignalOf(fp) \in processed'
              /\ pending'.signal = SignalOf(fp) => pending'.status \in HandedOver
              /\ journalFile[fp] \in Unresolved =>
                   pending'.signal = SignalOf(fp) /\ phase' \in Waiting,
           \A fp \in pending.ticket :
              fp \in pending'.ticket \/ journalFile[fp] \in Terminal,
           TryPersist,
           file' # file => (phase' = "RUNNING" => latch' = NoPause),
           UNCHANGED <<journalSide, hostSide>>
    PROVE  Move
<1>1. /\ Memory'.phase = phase' /\ Memory'.pending = pending'
      /\ Memory'.processed = processed' /\ Memory'.latch = latch'
  BY DEF Memory, Image
<1>2. Orderly(Memory')
  BY <1>1 DEF Orderly, SessionPhases
<1>3. Knows(Memory') /\ Waits(Memory')
  BY <1>1 DEF Knows, Waits
<1>4. file' = file \/ file' = Memory'
  BY DEF TryPersist, Persist, PersistFails, Memory, Image
<1> QED
  BY <1>2, <1>3, <1>4 DEF Move

(* A method that leaves the pending record of a session that waits for no   *)
(* ticket, or puts it back to NoPending.                                    *)
LEMMA MoveWithoutTicket ==
    ASSUME CoreInv, up, up' = up, step' \in Steps, plans' \subseteq Signals,
           pending.status \notin HandedOver \/ phase \notin Waiting,
           pending' \in {pending, NoPending},
           pending.ticket = {} \/ pending' = pending,
           phase' \in SessionPhases, latch' \in PauseReasons,
           phase' \in PendingPhases => pending' # NoPending,
           pending' # NoPending => phase' \in PendingPhases \cup {"RECOVERY_ONLY"},
           phase' = "BUY_PAUSED" => latch' # NoPause,
           processed \subseteq processed', processed' \subseteq Signals,
           TryPersist,
           file' # file => (phase' = "RUNNING" => latch' = NoPause),
           UNCHANGED <<journalSide, hostSide>>
    PROVE  Move
<1>1. \A fp \in tickets : journalFile[fp] \notin Unresolved /\ SignalOf(fp) \in Signals
  BY NoneOpen, Known, SignalOfFingerprint
<1>2. /\ pending' \in Pendings
      /\ pending'.status \notin {"NONE", "RESERVING"} => pending'.signal \in processed'
      /\ pending'.status \in {"TICKET_READY", "UNKNOWN"} <=> pending'.ticket # {}
      /\ \A fp \in pending'.ticket :
           fp \in tickets /\ pending'.ticket = {fp} /\ SignalOf(fp) = pending'.signal
      /\ \A fp \in pending.ticket : fp \in pending'.ticket
  BY Known, MemoryKnown, NoPendingFields
<1>3. \A fp \in tickets :
        /\ SignalOf(fp) \in processed'
        /\ pending'.signal = SignalOf(fp) => pending'.status \in HandedOver
  BY <1>1, MemoryKnown, NoPendingFields
<1> QED
  BY <1>1, <1>2, <1>3, MoveFromFields
-----------------------------------------------------------------------------
(* The methods of the session, called while no job of the coordinator is in *)
(* hand, are moves.                                                         *)
Calm == UNCHANGED <<journalSide, hostSide>>

LEMMA StartMove == ASSUME CoreInv, Start, Calm PROVE Move
<1>1. pending = NoPending /\ pending.ticket = {}
  BY MemoryKnown, NoPendingFields DEF Start, PendingPhases
<1> QED
  BY <1>1, Known, MemoryKnown, NoPendingFields, StatusesDiffer, MoveWithoutTicket
     DEF Start, SessionAt, Calm, SessionPhases, PendingPhases, TryPersist, Steps

LEMMA AcceptingPhaseIs ==
    ASSUME NEW pause
    PROVE  /\ AcceptingPhase(pause) \in Accepting
           /\ AcceptingPhase(pause) = "RUNNING" <=> pause = NoPause
           /\ Accepting \subseteq SessionPhases
           /\ \A ph \in Accepting : ph \notin PendingPhases
BY DEF AcceptingPhase, Accepting, SessionPhases, PendingPhases

(* While it starts, a session has no candidate.  *)
LEMMA StartingKnown ==
    ASSUME CoreInv, step = "starting"
    PROVE  up /\ phase = "STARTING" /\ pending = NoPending
BY MemoryKnown DEF CoreInv, MethodInHand, PendingPhases

LEMMA ReservingKnown ==
    ASSUME CoreInv, step \in {"reserving", "planned"}
    PROVE  /\ up /\ phase = "WAITING_CONFIRMATION" /\ pending.status = "RESERVING"
           /\ pending # NoPending /\ pending.signal \in Signals /\ pending.ticket = {}
<1>1. up /\ phase = "WAITING_CONFIRMATION" /\ pending.status = "RESERVING"
  BY DEF CoreInv, MethodInHand
<1> QED
  BY <1>1, Known, MemoryKnown, PendingFields, NoPendingFields

LEMMA FinishStartMove ==
    ASSUME CoreInv, NEW s \in Snapshots, FinishStart(s), Calm PROVE Move
<1>1. latch' \in PauseReasons
  BY Known, ObservedLatch DEF FinishStart, Observe
<1>2. /\ phase' \in Accepting
      /\ phase' = "RUNNING" <=> latch' = NoPause
  BY AcceptingPhaseIs DEF FinishStart
<1>3. phase' # "BUY_PAUSED" \/ latch' # NoPause
  BY <1>2
<1> QED
  BY <1>1, <1>2, <1>3, Known, StartingKnown, AcceptingPhaseIs, NoPendingFields,
     StatusesDiffer, MoveWithoutTicket
     DEF FinishStart, SessionAt, Calm, TryPersist, Steps

LEMMA StartFailsMove ==
    ASSUME CoreInv, NEW s \in Snapshots, StartFails(s), Calm PROVE Move
<1>1. latch' \in PauseReasons
  BY Known, ObservedLatch DEF StartFails
<1> QED
  BY <1>1, Known, StartingKnown, NoPendingFields, StatusesDiffer, MoveWithoutTicket
     DEF StartFails, SessionAt, Calm, SessionPhases, PendingPhases, Steps

(* An accepted signal: the session has no candidate and has not seen it.    *)
LEMMA AcceptedKnown ==
    ASSUME CoreInv, NEW sig \in Signals, NEW s \in Snapshots,
           CandidateAccepted(sig), Observe(s)
    PROVE  /\ up /\ step = "idle" /\ phase \in Accepting /\ pending = NoPending
           /\ latch' \in PauseReasons
           /\ latch # NoPause => latch' = latch
           /\ \A fp \in tickets : SignalOf(fp) # sig
           /\ \A fp \in tickets : journalFile[fp] \notin Unresolved
<1>1. up /\ step = "idle" /\ phase \in Accepting /\ sig \notin processed
  BY DEF CandidateAccepted, SessionAt
<1>2. pending = NoPending /\ phase \notin Waiting
  BY <1>1, MemoryKnown DEF Accepting, PendingPhases, Waiting
<1> QED
  BY <1>1, <1>2, Known, MemoryKnown, NoneOpen, ObservedLatch DEF Observe

LEMMA ObservedPhaseIs ==
    ASSUME CoreInv, phase \in Accepting, latch # NoPause => latch' = latch,
           phase' = ObservedPhase
    PROVE  /\ phase' \in Accepting
           /\ phase' = "BUY_PAUSED" => latch' # NoPause
           /\ phase' = "RUNNING" => latch' = NoPause
BY MemoryKnown DEF ObservedPhase, Accepting

(* What an observed signal leaves when it makes no candidate. *)
LEMMA ObservedMove ==
    ASSUME CoreInv, NEW sig \in Signals, NEW s \in Snapshots,
           CandidateAccepted(sig), Observe(s), phase' = ObservedPhase,
           processed' \in {processed, processed \cup {sig}}, pending' = pending,
           Stay, TryPersist, Calm
    PROVE  Move
<1>1. /\ phase' \in Accepting
      /\ phase' = "BUY_PAUSED" => latch' # NoPause
      /\ phase' = "RUNNING" => latch' = NoPause
  BY AcceptedKnown, ObservedPhaseIs
<1>2. processed \subseteq processed' /\ processed' \subseteq Signals
  BY Known
<1> QED
  BY <1>1, <1>2, AcceptedKnown, AcceptingPhaseIs, Known, NoPendingFields,
     StatusesDiffer, MoveWithoutTicket DEF Stay, Calm

LEMMA SkipSignalMove ==
    ASSUME CoreInv, NEW sig \in Signals, NEW s \in Snapshots, SkipSignal(sig, s), Calm
    PROVE  Move
BY ObservedMove DEF SkipSignal, RecordProcessed, TryPersist

LEMMA BlockSignalMove ==
    ASSUME CoreInv, NEW sig \in Signals, NEW s \in Snapshots, BlockSignal(sig, s), Calm
    PROVE  Move
BY ObservedMove DEF BlockSignal

LEMMA ReserveMove ==
    ASSUME CoreInv, NEW sig \in Signals, NEW s \in Snapshots, Reserve(sig, s), Calm
    PROVE  Move /\ pending'.status = "RESERVING"
<1>1. CandidateAccepted(sig) /\ Observe(s)
  BY DEF Reserve
<1>2. /\ pending' \in Pendings /\ pending' # NoPending
      /\ pending'.status = "RESERVING" /\ pending'.signal = sig /\ pending'.ticket = {}
  BY DEF Reserve, Reservation, Pendings, PendingStatuses, NoPending
<1>3. \A fp \in tickets :
        /\ SignalOf(fp) \in processed' /\ SignalOf(fp) # sig
        /\ journalFile[fp] \notin Unresolved
  BY <1>1, AcceptedKnown, MemoryKnown DEF Reserve
<1>4. pending.ticket = {} /\ up
  BY <1>1, AcceptedKnown, NoPendingFields
<1> QED
  BY <1>1, <1>2, <1>3, <1>4, AcceptedKnown, Known, MoveFromFields
     DEF Reserve, Calm, SessionPhases, PendingPhases, TryPersist, Steps

(* A reservation whose plan is written becomes a candidate. *)
LEMMA ReadyMove ==
    ASSUME CoreInv, SessionAt("planned"), RecordProcessed(pending.signal),
           pending' = [pending EXCEPT !.status = "READY"],
           phase' \in {phase, "RECOVERY_ONLY"}, step' = "idle",
           UNCHANGED <<up, latch, plans>>, TryPersist, Calm
    PROVE  Move
<1>1. /\ up /\ phase = "WAITING_CONFIRMATION" /\ pending.status = "RESERVING"
      /\ pending # NoPending /\ pending.signal \in Signals /\ pending.ticket = {}
  BY ReservingKnown DEF SessionAt
<1>2. /\ pending' \in Pendings /\ pending' # NoPending
      /\ pending'.status = "READY" /\ pending'.signal = pending.signal
      /\ pending'.ticket = {}
  BY <1>1, Known, PendingMoves DEF PendingStatuses
<1>3. \A fp \in tickets :
        /\ SignalOf(fp) \in processed' /\ SignalOf(fp) # pending.signal
        /\ journalFile[fp] \notin Unresolved
  BY <1>1, MemoryKnown, StatusesDiffer DEF RecordProcessed
<1>4. pending'.signal \in processed' /\ processed' \subseteq Signals
  BY <1>1, <1>2, Known DEF RecordProcessed
<1>5. phase' \in PendingPhases \cup {"RECOVERY_ONLY"} /\ phase' \in SessionPhases
  BY <1>1 DEF PendingPhases, SessionPhases
<1>6. phase' # "BUY_PAUSED" /\ phase' # "RUNNING"
  BY <1>1
<1> QED
  BY <1>1, <1>2, <1>3, <1>4, <1>5, <1>6, Known, MoveFromFields DEF Calm, Steps

LEMMA MarkReadyMove == ASSUME CoreInv, MarkReady, Calm PROVE Move
BY ReadyMove DEF MarkReady, SessionAt, TryPersist

LEMMA CandidateFailsMove == ASSUME CoreInv, CandidateFails, Calm PROVE Move
<1>1. CASE SessionAt("reserving") /\ UNCHANGED <<pending, processed>>
  BY <1>1, Known, ReservingKnown, StatusesDiffer, MoveWithoutTicket
     DEF CandidateFails, SessionAt, Calm, SessionPhases, PendingPhases, Steps
<1>2. CASE /\ SessionAt("planned")
           /\ pending' = [pending EXCEPT !.status = "READY"]
           /\ RecordProcessed(pending.signal)
  BY <1>2, ReadyMove DEF CandidateFails, SessionAt
<1> QED
  BY <1>1, <1>2 DEF CandidateFails

LEMMA DismissCandidateMove == ASSUME CoreInv, DismissCandidate, Calm PROVE Move
<1>1. pending.ticket = {} /\ pending.status \notin HandedOver
  BY MemoryKnown, StatusesDiffer DEF DismissCandidate
<1>2. /\ phase' \in Accepting \cup {"STOPPED"}
      /\ phase' = "RUNNING" => latch' = NoPause
      /\ phase' = "BUY_PAUSED" => latch' # NoPause
  BY DEF DismissCandidate, AcceptingPhase, Accepting
<1>3. phase' \in SessionPhases /\ phase' \notin PendingPhases
  BY <1>2 DEF Accepting, SessionPhases, PendingPhases
<1> QED
  BY <1>1, <1>2, <1>3, Known, MoveWithoutTicket
     DEF DismissCandidate, SessionAt, Stay, Calm

LEMMA ManualResumeMove ==
    ASSUME CoreInv, NEW s \in Snapshots, ManualResume(s), Calm PROVE Move
<1>1. /\ latch' \in PauseReasons
      /\ phase' \in Accepting
      /\ phase' = "RUNNING" => latch' = NoPause
      /\ phase' = "BUY_PAUSED" => latch' # NoPause
  BY Known, MemoryKnown DEF ManualResume, Accepting, PauseReasons
<1> QED
  BY <1>1, Known, AcceptingPhaseIs, NoPendingFields, StatusesDiffer, MoveWithoutTicket
     DEF ManualResume, SessionAt, Stay, Calm

LEMMA StopMove == ASSUME CoreInv, Stop, Calm PROVE Move
<1>1. /\ up
      /\ phase' \in {"STOPPED", "STOPPING"}
      /\ phase' = "STOPPED" <=> pending = NoPending
  BY DEF Stop, SessionAt
<1>2. \A fp \in tickets :
        journalFile[fp] \in Unresolved =>
          pending.signal = SignalOf(fp) /\ phase' \in Waiting
  <2>1. \A fp \in tickets : SignalOf(fp) \in Signals
    BY Known, SignalOfFingerprint
  <2> QED
    BY <1>1, <2>1, MemoryKnown, NoPendingFields DEF Waiting
<1> QED
  BY <1>1, <1>2, Known, MemoryKnown, MoveFromFields
     DEF Stop, SessionAt, Stay, Calm, SessionPhases, PendingPhases

(* The session is told of a submission, a ticket or a result. *)
LEMMA TellSessionMove ==
    ASSUME CoreInv, NEW fp \in Fingerprints, TellSession(fp)
    PROVE  /\ Move
           /\ phase' = "WAITING_RESULT" /\ pending'.status = "CONFIRMING"
           /\ pending'.signal = SignalOf(fp)
           /\ \A g \in tickets : SignalOf(g) # SignalOf(fp)
           /\ job' = "confirming" => file' = Memory'
<1> USE DEF TellSession, BeginConfirmation
<1>1. up /\ step = "idle"
  BY DEF CoreInv, JobInHand, AtJob
<1>2. /\ pending.status = "READY" /\ pending.signal = SignalOf(fp)
      /\ pending # NoPending /\ pending.ticket = {} /\ pending.signal \in processed
  BY Known, MemoryKnown, PendingFields, NoPendingFields
<1>3. /\ pending' \in Pendings /\ pending' # NoPending
      /\ pending'.status = "CONFIRMING" /\ pending'.signal = SignalOf(fp)
      /\ pending'.ticket = {}
  BY <1>2, Known, PendingMoves DEF PendingStatuses
<1>4. \A g \in tickets : SignalOf(g) # SignalOf(fp) /\ SignalOf(g) \in processed
  BY <1>1, <1>2, MemoryKnown, StatusesDiffer
<1>5. \A g \in tickets : journalFile[g] \notin Unresolved
  BY <1>1, <1>2, NoneOpen, StatusesDiffer
<1>6. TryPersist /\ (Persist => file' = Memory')
  BY DEF TryPersist, Persist, Memory, Image
<1>7. job' = "confirming" => file' = Memory'
  BY <1>6 DEF Goto
<1>8. Move
  BY <1>1, <1>2, <1>3, <1>4, <1>5, <1>6, Known, MoveFromFields
     DEF Stay, SessionPhases, PendingPhases
<1> QED
  BY <1>3, <1>4, <1>7, <1>8

LEMMA RecordTicketMove ==
    ASSUME CoreInv, NEW fp \in Fingerprints, RecordTicket(fp)
    PROVE  Move
<1> USE DEF RecordTicket, RecordSubmissionTicket
<1>1. up /\ step = "idle" /\ fp \in tickets
  BY DEF CoreInv, JobInHand, AtJob
<1>2. /\ pending.status = "CONFIRMING" /\ pending.signal = SignalOf(fp)
      /\ pending # NoPending /\ pending.ticket = {} /\ pending.signal \in processed
  BY Known, MemoryKnown, PendingFields, NoPendingFields
<1>3. /\ pending' \in Pendings /\ pending' # NoPending
      /\ pending'.status = "TICKET_READY" /\ pending'.signal = SignalOf(fp)
      /\ pending'.ticket = {fp}
  <2>1. pending' = [pending EXCEPT !.status = "TICKET_READY", !.ticket = {fp}]
    OBVIOUS
  <2>2. pending \in Pendings
    BY Known
  <2>3. pending \in [status : PendingStatuses, signal : Signals, ticket : SUBSET Fingerprints]
    BY <1>2, <2>2 DEF Pendings
  <2>4. pending' \in [status : PendingStatuses, signal : Signals, ticket : SUBSET Fingerprints]
    BY <2>1, <2>3 DEF PendingStatuses
  <2>5. pending'.status = "TICKET_READY"
    BY <2>1, <2>3
  <2>6. pending'.signal = pending.signal
    BY <2>1, <2>3
  <2>7. pending'.ticket = {fp}
    BY <2>1, <2>3
  <2> QED
    BY <1>2, <2>4, <2>5, <2>6, <2>7, NoPendingFields DEF Pendings
<1>4. TryPersist
  BY DEF TryPersist
<1> QED
  BY <1>1, <1>2, <1>3, <1>4, Known, MemoryKnown, StatusesDiffer, MoveFromFields
     DEF Stay, SessionPhases, PendingPhases

LEMMA RecoverMove ==
    ASSUME CoreInv, NEW fp \in Fingerprints, Recover(fp)
    PROVE  Move
<1>1. up /\ step = "idle"
  BY DEF Recover, CoreInv, JobInHand, AtJob
<1> QED
  BY <1>1, Known, MemoryKnown, MoveFromFields
     DEF Recover, EnterRecovery, Stay, SessionPhases, PendingPhases, Waiting

LEMMA TellUnknownMove ==
    ASSUME CoreInv, NEW fp \in Fingerprints, TellUnknown(fp)
    PROVE  Move
<1> USE DEF TellUnknown, RecordUnknown
<1>1. /\ up /\ step = "idle"
      /\ pending.status = "TICKET_READY" /\ pending.ticket # {}
  BY DEF CoreInv, JobInHand, AtJob
<1>2. pending # NoPending /\ pending.signal \in processed
  BY <1>1, Known, MemoryKnown, NoPendingFields
<1>3. /\ pending' \in Pendings /\ pending' # NoPending
      /\ pending'.status = "UNKNOWN" /\ pending'.signal = pending.signal
      /\ pending'.ticket = pending.ticket
  BY <1>2, Known, PendingMoves DEF PendingStatuses
<1> QED
  BY <1>1, <1>2, <1>3, Known, MemoryKnown, StatusesDiffer, MoveFromFields
     DEF Stay, SessionPhases, PendingPhases, Waiting

(* The only step that forgets a ticket: its order is closed, and no other   *)
(* ticket of its event is open.                                             *)
LEMMA TellOutcomeMove ==
    ASSUME CoreInv, NEW fp \in Fingerprints, NEW s \in Snapshots, TellOutcome(fp, s)
    PROVE  Move
<1> USE DEF TellOutcome, RecordOutcome
<1>1. /\ up /\ step = "idle"
      /\ fp \in pending.ticket /\ journalFile[fp] \in Terminal
  BY DEF CoreInv, JobInHand, AtJob
<1>2. /\ fp \in tickets /\ pending.ticket = {fp} /\ SignalOf(fp) = pending.signal
  BY <1>1, MemoryKnown
<1>3. \A g \in tickets : journalFile[g] \notin Unresolved
  <2> SUFFICES ASSUME NEW g \in tickets, journalFile[g] \in Unresolved PROVE FALSE
    OBVIOUS
  <2>1. SignalOf(g) = SignalOf(fp)
    BY <1>1, <1>2, MemoryKnown
  <2>2. g = fp
    BY <1>2, <2>1 DEF CoreInv, OneTicketPerSignal
  <2> QED
    BY <1>1, <2>2 DEF Terminal, Unresolved
<1>4. latch' \in PauseReasons
  BY Known, ObservedLatch DEF Observe
<1>5. /\ phase' \in Accepting \cup {"STOPPED"}
      /\ phase' = "RUNNING" => latch' = NoPause
      /\ phase' = "BUY_PAUSED" => latch' # NoPause
  BY DEF AcceptingPhase, Accepting
<1>6. phase' \in SessionPhases /\ phase' \notin PendingPhases
  BY <1>5 DEF Accepting, SessionPhases, PendingPhases
<1>7. \A g \in tickets : SignalOf(g) \in processed /\ SignalOf(g) \in Signals
  BY <1>1, Known, MemoryKnown, SignalOfFingerprint
<1>8. pending' = NoPending /\ processed' = processed
  OBVIOUS
<1> QED
  BY <1>1, <1>2, <1>3, <1>4, <1>5, <1>6, <1>7, <1>8, Known, NoPendingFields,
     MoveFromFields DEF Stay
-----------------------------------------------------------------------------
(* A step of the journal: one record is saved, or none, and the session is  *)
(* not told; what the policy latched meanwhile stays latched.               *)
Saved(fp, p) ==
    /\ journalFile' = [journalFile EXCEPT ![fp] = p]
    /\ records' = journalFile'

LatchGrows == latch' \in PauseReasons /\ (latch # NoPause => latch' = latch)

JournalStep(fp, p) ==
    /\ held
    /\ Saved(fp, p)
    /\ LatchGrows
    /\ p = "PREPARED" => journalFile[fp] = Absent
    /\ p \in Unresolved =>
         \/ journalFile[fp] \in Unresolved
         \/ journalFile[fp] = "PREPARED" /\ confirmation' = {}
    /\ p \in Terminal =>
         exchange[fp] \in EndStates /\ (exchange[fp] \in Traded => fp \in ledger)
    /\ journalFile[fp] \in Terminal => p \in Terminal
    /\ \/ confirmation' = confirmation \/ confirmation' = {}
       \/ /\ confirmation' = {fp} /\ p = "PREPARED"
          /\ \A f \in Fingerprints : journalFile[f] \notin Unresolved
    /\ UNCHANGED <<held, sessionSide, hostSide>>

(* Nothing is saved, but a confirmation is spent or an account is observed. *)
PolicyStep ==
    /\ LatchGrows
    /\ confirmation' = confirmation \/ confirmation' = {}
    /\ UNCHANGED <<records, journalFile, held, sessionSide, hostSide>>

LEMMA LatchSettled ==
    ASSUME CoreInv, LatchGrows, UNCHANGED <<sessionSide, tickets>>
    PROVE  Orderly(Memory)' /\ SessionTypeOK'
<1>1. /\ phase' = phase /\ pending' = pending /\ processed' = processed
      /\ file' = file /\ up' = up /\ step' = step /\ plans' = plans
  BY DEF sessionSide
<1>2. /\ Memory'.phase = phase /\ Memory'.pending = pending
      /\ Memory'.processed = processed /\ Memory'.latch = latch'
  BY <1>1 DEF Memory, Image
<1>3. SessionTypeOK'
  BY <1>1 DEF CoreInv, HandoffTypeOK, SessionTypeOK, LatchGrows
<1>4. phase # "NO_FILE"
  BY Known DEF SessionPhases
<1> QED
  BY <1>1, <1>2, <1>3, <1>4, MemoryKnown DEF Orderly, LatchGrows

(* What both copies say of the tickets survives a step that opens no order  *)
(* of a ticket.                                                             *)
LEMMA CopiesSettled ==
    ASSUME CoreInv, LatchGrows, UNCHANGED <<sessionSide, tickets>>,
           \A fp \in tickets :
              journalFile'[fp] \in Unresolved => journalFile[fp] \in Unresolved
    PROVE  CopiesAreSafe'
<1>1. /\ phase' = phase /\ pending' = pending /\ processed' = processed
      /\ file' = file /\ up' = up
  BY DEF sessionSide
<1>2. /\ Memory'.phase = phase /\ Memory'.pending = pending
      /\ Memory'.processed = processed
  BY <1>1 DEF Memory, Image
<1>3. Orderly(Memory)'
  BY LatchSettled
<1>4. Orderly(file)' /\ Knows(file)' /\ Waits(file)'
  BY <1>1 DEF CoreInv, CopiesAreSafe, Orderly, Knows, Waits
<1>5. (up => Knows(Memory) /\ Waits(Memory))'
  BY <1>1, <1>2, MemoryFields DEF CoreInv, CopiesAreSafe, Knows, Waits
<1>6. (file.phase = "RUNNING" => file.latch = NoPause)'
  BY <1>1 DEF CoreInv, CopiesAreSafe
<1> QED
  BY <1>3, <1>4, <1>5, <1>6 DEF CopiesAreSafe

LEMMA JournalStepSettled ==
    ASSUME CoreInv, NEW fp \in Fingerprints, NEW p \in Phases, JournalStep(fp, p)
    PROVE  Settled'
<1>1. /\ held /\ held' = held /\ up' = up /\ file' = file /\ pending' = pending
      /\ tickets' = tickets /\ ledger' = ledger /\ today' = today
      /\ exchange' = exchange /\ wire' = wire /\ calls' = calls
      /\ UNCHANGED <<sessionSide, tickets>>
  BY DEF JournalStep, sessionSide, hostSide, exchangeVars
<1>2. /\ journalFile \in [Fingerprints -> Phases \cup {Absent}]
      /\ \A f \in Fingerprints : journalFile'[f] = IF f = fp THEN p ELSE journalFile[f]
      /\ journalFile' \in [Fingerprints -> Phases \cup {Absent}]
      /\ records' = journalFile'
  BY Known DEF JournalStep, Saved
<1>3. ExecutorTypeOK'
  BY <1>1, <1>2
     DEF JournalStep, LatchGrows, CoreInv, HandoffTypeOK, ExecutorTypeOK, JournalTypeOK
<1>4. ExchangeTypeOK' /\ OneTicketPerSignal'
  BY <1>1 DEF CoreInv, HandoffTypeOK, ExchangeTypeOK, OneTicketPerSignal
<1>5. \A f \in tickets : journalFile[f] \notin {Absent, "PREPARED"}
  BY DEF CoreInv, JournalIsOpen
<1>6. \A f \in tickets :
        journalFile'[f] \in Unresolved => journalFile[f] \in Unresolved
  BY <1>2, <1>5, Known DEF JournalStep
<1>7. CopiesAreSafe' /\ SessionTypeOK'
  BY <1>1, <1>6, CopiesSettled, LatchSettled DEF JournalStep
<1>8. \A f \in Fingerprints :
        journalFile[f] \in Terminal => journalFile'[f] \in Terminal
  BY <1>2 DEF JournalStep
<1>9. ForgetsClosed'
  <2>1. file.pending.ticket \subseteq Fingerprints
    BY PendingFields DEF CoreInv, HandoffTypeOK, SessionTypeOK
  <2> QED
    BY <1>1, <1>8, <2>1 DEF CoreInv, ForgetsClosed
<1>10. JournalIsOpen'
  <2>1. (held => up /\ records = journalFile)'
    BY <1>1, <1>2, Known
  <2>2. (confirmation # {} =>
           held /\ \A f \in Fingerprints : journalFile[f] \notin Unresolved)'
    <3>1. "PREPARED" \notin Unresolved
      BY DEF Unresolved
    <3> QED
      BY <1>1, <1>2, <3>1 DEF JournalStep, CoreInv, JournalIsOpen
  <2>3. (\A f \in tickets : journalFile[f] \notin {Absent, "PREPARED"})'
    <3>1. p # Absent
      BY DEF Phases, Unresolved, Terminal, Absent
    <3> QED
      BY <1>1, <1>2, <1>5, <3>1, Known DEF JournalStep
  <2> QED
    BY <2>1, <2>2, <2>3 DEF JournalIsOpen
<1>11. LedgerIsTrue'
  BY <1>1, <1>2 DEF JournalStep, CoreInv, LedgerIsTrue, LedgerFirst
<1> QED
  BY <1>1, <1>3, <1>4, <1>7, <1>9, <1>10, <1>11, Known DEF Settled

LEMMA PolicyStepSettled == ASSUME CoreInv, PolicyStep PROVE Settled'
<1>1. /\ held' = held /\ up' = up /\ file' = file /\ pending' = pending
      /\ records' = records /\ journalFile' = journalFile
      /\ tickets' = tickets /\ ledger' = ledger /\ today' = today
      /\ exchange' = exchange /\ wire' = wire /\ calls' = calls
      /\ UNCHANGED <<sessionSide, tickets>>
  BY DEF PolicyStep, sessionSide, hostSide, exchangeVars
<1>2. ExecutorTypeOK'
  BY <1>1 DEF PolicyStep, LatchGrows, CoreInv, HandoffTypeOK, ExecutorTypeOK, JournalTypeOK
<1>3. ExchangeTypeOK' /\ OneTicketPerSignal' /\ ForgetsClosed' /\ LedgerIsTrue'
  BY <1>1 DEF CoreInv, HandoffTypeOK, ExchangeTypeOK, OneTicketPerSignal, ForgetsClosed,
              LedgerIsTrue, LedgerFirst
<1>4. CopiesAreSafe' /\ SessionTypeOK'
  BY <1>1, CopiesSettled, LatchSettled DEF PolicyStep
<1>5. JournalIsOpen'
  BY <1>1 DEF PolicyStep, CoreInv, JournalIsOpen
<1> QED
  BY <1>1, <1>2, <1>3, <1>4, <1>5, Known DEF Settled
-----------------------------------------------------------------------------
(* The steps of the coordinator that are steps of the journal. *)

LEMMA SavedAgain ==
    ASSUME CoreInv, held, NEW fp \in Fingerprints, UNCHANGED journalVars
    PROVE  Saved(fp, journalFile[fp])
BY Known DEF Saved, journalVars

LEMMA LatchStays == ASSUME CoreInv, UNCHANGED latch PROVE LatchGrows
BY Known DEF LatchGrows

LEMMA PreviewSteps ==
    ASSUME CoreInv, NEW s \in Snapshots, PreparePreview(s)
    PROVE  /\ UNCHANGED <<sessionSide, jobVars, hostSide>>
           /\ \/ PolicyStep /\ UNCHANGED journalFile
              \/ \E fp \in Fingerprints :
                   /\ JournalStep(fp, "PREPARED")
                   /\ journalFile[fp] = Absent
                   /\ \A f \in Fingerprints : journalFile[f] \notin Unresolved
<1> DEFINE fp == <<pending.signal, today>>
<1>1. fp \in Fingerprints
  <2>1. pending.signal \in Signals
    BY Known, PendingFields, NoPendingFields DEF PreparePreview
  <2> QED
    BY <2>1, Known DEF Fingerprints
<1>2. /\ Preview(fp, s) \/ PreviewRefused(fp, s)
      /\ UNCHANGED <<sessionSide, jobVars, hostSide>>
  BY DEF PreparePreview
<1> HIDE DEF fp
<1>3. CASE Preview(fp, s)
  <2>1. /\ held /\ records = journalFile /\ confirmation = {}
        /\ \A f \in Fingerprints : journalFile[f] \notin Unresolved
        /\ journalFile[fp] = Absent /\ Saved(fp, "PREPARED")
        /\ confirmation' = {fp} /\ held' = held
    BY <1>3, Known DEF Preview, CanPreview, Prepare, Save, Saved
  <2>2. LatchGrows
    BY <1>3, Known, ObservedLatch DEF Preview, LatchGrows
  <2>3. "PREPARED" \notin Unresolved /\ "PREPARED" \notin Terminal /\ Absent \notin Terminal
    BY DEF Unresolved, Terminal, Absent
  <2>4. JournalStep(fp, "PREPARED")
    BY <1>2, <2>1, <2>2, <2>3 DEF JournalStep
  <2> QED
    BY <1>1, <1>2, <2>1, <2>4
<1>4. CASE PreviewRefused(fp, s)
  <2>1. UNCHANGED <<records, journalFile, held, confirmation>>
    BY <1>4 DEF PreviewRefused, PrepareFails, SaveFails, journalVars
  <2>2. LatchGrows
    BY <1>4, Known, ObservedLatch DEF PreviewRefused, LatchGrows
  <2> QED
    BY <1>2, <2>1, <2>2 DEF PolicyStep
<1> QED
  BY <1>2, <1>3, <1>4

LEMMA RefuseSteps ==
    ASSUME CoreInv, NEW fp \in Fingerprints, NEW s \in Snapshots, RefuseConfirmation(fp, s)
    PROVE  PolicyStep /\ UNCHANGED <<sessionSide, jobVars, hostSide>>
<1>1. LatchGrows
  BY Known, ObservedLatch, LatchStays
     DEF RefuseConfirmation, ConfirmationRefused, LatchGrows
<1> QED
  BY <1>1 DEF RefuseConfirmation, ConfirmationRefused, Consume, PolicyStep

LEMMA ConfirmSteps ==
    ASSUME CoreInv, NEW fp \in Fingerprints, NEW s \in Snapshots, Confirm(fp, s)
    PROVE  /\ JournalStep(fp, "SUBMITTING") /\ Goto("armed", fp)
           /\ up /\ step = "idle" /\ held
           /\ journalFile[fp] = "PREPARED" /\ journalFile'[fp] = "SUBMITTING"
           /\ \A f \in Fingerprints : journalFile[f] \notin Unresolved
<1>1. /\ BeginSubmission(fp, s, today) /\ Goto("armed", fp)
      /\ up /\ step = "idle" /\ UNCHANGED <<sessionSide, hostSide>>
  BY DEF Confirm, Ready, Free
<1>2. /\ held /\ held' = held /\ records = journalFile
      /\ fp \in confirmation /\ confirmation' = {}
      /\ journalFile[fp] = "PREPARED" /\ Saved(fp, "SUBMITTING")
  BY <1>1, Known
     DEF BeginSubmission, Consume, Revalidated, Transition, Save, Saved
<1>3. \A f \in Fingerprints : journalFile[f] \notin Unresolved
  BY <1>2 DEF CoreInv, JournalIsOpen
<1>4. LatchGrows
  BY <1>1, Known, ObservedLatch DEF BeginSubmission, LatchGrows
<1>5. "SUBMITTING" \notin Terminal /\ "PREPARED" \notin Terminal
  BY DEF Terminal
<1>6. JournalStep(fp, "SUBMITTING")
  BY <1>1, <1>2, <1>4, <1>5 DEF JournalStep
<1>7. journalFile'[fp] = "SUBMITTING"
  BY <1>2, Known DEF Saved
<1> QED
  BY <1>1, <1>2, <1>3, <1>6, <1>7

(* UNKNOWN is saved for an order that is unresolved, or nothing is.         *)
LEMMA UnknownSteps ==
    ASSUME CoreInv, NEW fp \in Fingerprints, MarkUnknown(fp) \/ MarkUnknownFails(fp),
           UNCHANGED <<sessionSide, hostSide>>
    PROVE  /\ journalFile[fp] \in Phases
           /\ \/ JournalStep(fp, journalFile[fp])
              \/ journalFile[fp] \in Unresolved /\ JournalStep(fp, "UNKNOWN")
<1>1. /\ held /\ held' = held /\ confirmation' = confirmation /\ LatchGrows
      /\ records = journalFile
  BY Known, LatchStays DEF MarkUnknown, MarkUnknownFails
<1>2. journalFile[fp] \in Phases
  BY <1>1 DEF MarkUnknown, MarkUnknownFails, TransitionFails, CanTransition, Phases,
              Unresolved
<1>3. CASE UNCHANGED journalVars
  <2>1. Saved(fp, journalFile[fp])
    BY <1>1, <1>3, SavedAgain
  <2>2. journalFile[fp] # "PREPARED"
    BY <1>1
       DEF MarkUnknown, MarkUnknownFails, TransitionFails, CanTransition, Transitions,
           Phases, Unresolved, Terminal
  <2>3. journalFile[fp] \in Terminal =>
          exchange[fp] \in EndStates /\ (exchange[fp] \in Traded => fp \in ledger)
    BY DEF CoreInv, LedgerIsTrue, LedgerFirst
  <2> QED
    BY <1>1, <1>2, <2>1, <2>2, <2>3 DEF JournalStep
<1>4. CASE records[fp] \in {"SUBMITTING", "SUBMITTED"} /\ Transition(fp, "UNKNOWN")
  <2>1. Saved(fp, "UNKNOWN")
    BY <1>1, <1>4 DEF Transition, Save, Saved
  <2>2. journalFile[fp] \in Unresolved
    BY <1>1, <1>4 DEF Unresolved
  <2>3. "UNKNOWN" \notin Terminal /\ journalFile[fp] \notin Terminal
    BY <2>2 DEF Unresolved, Terminal
  <2> QED
    BY <1>1, <1>2, <2>1, <2>2, <2>3 DEF JournalStep
<1> QED
  BY <1>3, <1>4 DEF MarkUnknown, MarkUnknownFails, TransitionFails, SaveFails

LEMMA AcceptSteps ==
    ASSUME CoreInv, NEW fp \in Fingerprints, AcceptReceipt(fp)
    PROVE  \E p \in Terminal :
             /\ JournalStep(fp, p)
             /\ journalFile[fp] = p \/ journalFile[fp] \in Unresolved
<1> DEFINE p == PhaseFor(exchange[fp])
<1>1. /\ job = "synced" /\ fp \in order /\ RecordResult(fp, exchange[fp])
      /\ UNCHANGED <<sessionSide, hostSide>>
  BY DEF AcceptReceipt, AtJob
<1>2. /\ exchange[fp] \in EndStates
      /\ exchange[fp] \in Traded => fp \in ledger
  BY <1>1 DEF CoreInv, JobInHand
<1>3. p \in Terminal
  BY <1>2 DEF PhaseFor, Terminal, EndStates, Traded
<1>4. /\ held /\ held' = held /\ confirmation' = confirmation /\ LatchGrows
      /\ records = journalFile
      /\ \/ records[fp] = p /\ UNCHANGED journalVars
         \/ Transition(fp, p)
  BY <1>1, Known, LatchStays DEF RecordResult
<1> HIDE DEF p
<1>5. Saved(fp, p)
  BY <1>4, SavedAgain DEF Transition, Save, Saved
<1>6. journalFile[fp] = p \/ journalFile[fp] \in Unresolved
  BY <1>3, <1>4
     DEF Transition, CanTransition, Transitions, Phases, Unresolved, Terminal
<1>7. p \notin Unresolved /\ p # "PREPARED"
  BY <1>3 DEF Terminal, Unresolved
<1>8. JournalStep(fp, p)
  BY <1>1, <1>2, <1>3, <1>4, <1>5, <1>7 DEF JournalStep
<1> QED
  BY <1>3, <1>6, <1>8
-----------------------------------------------------------------------------
(* The steps that are neither of the session nor of the journal. *)

LEMMA WritePlanMove == ASSUME CoreInv, WritePlan, Calm PROVE Move
<1>1. step = "planned" \/ step = "reserving"
  BY DEF WritePlan, SessionAt
<1>2. plans' \subseteq Signals
  BY <1>1, Known, ReservingKnown DEF WritePlan
<1>3. TryPersist /\ file' = file
  BY DEF WritePlan, TryPersist, PersistFails, timeVars
<1> QED
  BY <1>1, <1>2, <1>3, Known, MemoryKnown, ReservingKnown, StatusesDiffer,
     MoveWithoutTicket
     DEF WritePlan, SessionAt, memoryVars, Calm, PendingPhases, Steps

(* The ticket is for an event of which there is none, in a session that     *)
(* has saved that it waits for it.                                          *)
LEMMA WriteTicketSettled ==
    ASSUME CoreInv, NEW fp \in Fingerprints, WriteTicket(fp)
    PROVE  Settled' /\ fp \in tickets'
<1>1. /\ tickets' = tickets \cup {fp}
      /\ held' = held /\ up' = up /\ file' = file /\ Memory' = Memory
      /\ records' = records /\ journalFile' = journalFile /\ ledger' = ledger
      /\ exchange' = exchange /\ wire' = wire /\ calls' = calls /\ today' = today
      /\ confirmation' = confirmation /\ latch' = latch /\ pending' = pending
      /\ phase' = phase /\ processed' = processed /\ step' = step /\ plans' = plans
  BY DEF WriteTicket, journalSide, sessionSide, exchangeVars, Memory
<1>2. /\ journalFile[fp] = "SUBMITTING" /\ file = Memory
      /\ phase = "WAITING_RESULT" /\ pending.status = "CONFIRMING"
      /\ pending.signal = SignalOf(fp)
      /\ \A g \in tickets : SignalOf(g) # SignalOf(fp)
  BY DEF WriteTicket, AtJob, CoreInv, JobInHand
<1>3. pending.signal \in processed /\ "WAITING_RESULT" \in Waiting
  BY <1>2, MemoryKnown DEF Waiting
<1>4. OneTicketPerSignal'
  BY <1>1, <1>2 DEF CoreInv, OneTicketPerSignal
<1>5. Orderly(Memory)' /\ Orderly(file)'
  BY <1>1 DEF CoreInv, CopiesAreSafe, Orderly
<1>6. Knows(file)' /\ Waits(file)'
  BY <1>1, <1>2, <1>3, MemoryFields, StatusesDiffer
     DEF CoreInv, CopiesAreSafe, Knows, Waits
<1>7. CopiesAreSafe'
  <2>1. Knows(Memory)' /\ Waits(Memory)'
    BY <1>1, <1>2, <1>6 DEF Knows, Waits
  <2> QED
    BY <1>1, <1>5, <1>6, <2>1 DEF CoreInv, CopiesAreSafe
<1>8. JournalIsOpen'
  BY <1>1, <1>2 DEF CoreInv, JournalIsOpen, Absent
<1>9. ForgetsClosed' /\ LedgerIsTrue'
  BY <1>1 DEF CoreInv, ForgetsClosed, LedgerIsTrue, LedgerFirst
<1>10. ExecutorTypeOK' /\ SessionTypeOK' /\ ExchangeTypeOK'
  BY <1>1 DEF CoreInv, HandoffTypeOK, ExecutorTypeOK, JournalTypeOK, SessionTypeOK, ExchangeTypeOK
<1> QED
  BY <1>1, <1>4, <1>7, <1>8, <1>9, <1>10, Known DEF Settled

(* The ledger is saved with all the fills there are, before anything says   *)
(* that the order is closed.                                                *)
LEMMA SyncFillsSettled ==
    ASSUME CoreInv, NEW fp \in Fingerprints, SyncFills(fp) PROVE Settled'
<1>1. /\ ledger' = {f \in Fingerprints : exchange[f] \in Traded}
      /\ held' = held /\ up' = up /\ file' = file /\ Memory' = Memory
      /\ records' = records /\ journalFile' = journalFile /\ tickets' = tickets
      /\ exchange' = exchange /\ wire' = wire /\ calls' = calls /\ today' = today
      /\ confirmation' = confirmation /\ latch' = latch /\ pending' = pending
      /\ phase' = phase /\ processed' = processed /\ step' = step /\ plans' = plans
  BY DEF SyncFills, journalSide, sessionSide, exchangeVars, Memory
<1>2. ledger' \subseteq Fingerprints
  BY <1>1
<1>3. LedgerIsTrue'
  BY <1>1 DEF CoreInv, LedgerIsTrue, LedgerFirst
<1>4. CopiesAreSafe'
  BY <1>1 DEF CoreInv, CopiesAreSafe, Orderly, Knows, Waits
<1>5. OneTicketPerSignal' /\ ForgetsClosed' /\ JournalIsOpen'
  BY <1>1 DEF CoreInv, OneTicketPerSignal, ForgetsClosed, JournalIsOpen
<1>6. ExecutorTypeOK' /\ SessionTypeOK' /\ ExchangeTypeOK'
  BY <1>1 DEF CoreInv, HandoffTypeOK, ExecutorTypeOK, JournalTypeOK, SessionTypeOK, ExchangeTypeOK
<1> QED
  BY <1>1, <1>2, <1>3, <1>4, <1>5, <1>6, Known DEF Settled

(* A call, an order that arrives, is lost or ends, and the next day.        *)
LEMMA WorldSettled ==
    ASSUME CoreInv,
           UNCHANGED <<journalSide, sessionSide, latch, tickets, ledger>>,
           ExchangeTypeOK', today' \in Days,
           \A f \in Fingerprints : exchange[f] \in EndStates => exchange'[f] = exchange[f]
    PROVE  Settled'
<1>1. /\ ledger' = ledger
      /\ held' = held /\ up' = up /\ file' = file /\ Memory' = Memory
      /\ records' = records /\ journalFile' = journalFile /\ tickets' = tickets
      /\ confirmation' = confirmation /\ latch' = latch /\ pending' = pending
      /\ phase' = phase /\ processed' = processed /\ step' = step /\ plans' = plans
  BY DEF journalSide, sessionSide, Memory
<1>2. \A f \in Fingerprints : exchange[f] \in Traded => exchange'[f] = exchange[f]
  BY DEF EndStates
<1>3. LedgerIsTrue'
  BY <1>1, <1>2, Known DEF CoreInv, LedgerIsTrue, LedgerFirst
<1>4. CopiesAreSafe'
  BY <1>1 DEF CoreInv, CopiesAreSafe, Orderly, Knows, Waits
<1>5. OneTicketPerSignal' /\ ForgetsClosed' /\ JournalIsOpen'
  BY <1>1 DEF CoreInv, OneTicketPerSignal, ForgetsClosed, JournalIsOpen
<1>6. ExecutorTypeOK' /\ SessionTypeOK'
  BY <1>1 DEF CoreInv, HandoffTypeOK, ExecutorTypeOK, JournalTypeOK, SessionTypeOK
<1> QED
  BY <1>1, <1>3, <1>4, <1>5, <1>6, Known DEF Settled

LEMMA HostSettled ==
    ASSUME CoreInv,
           \/ NextDay
           \/ \E fp \in Fingerprints : HostSubmits(fp) \/ MoveExchange(fp)
    PROVE  Settled' /\ UNCHANGED <<journalSide, sessionSide, latch, jobVars, tickets, ledger>>
           /\ \A f \in Fingerprints : exchange[f] \in EndStates => exchange'[f] = exchange[f]
<1>1. ASSUME NextDay PROVE ExchangeTypeOK' /\ today' \in Days /\ exchange' = exchange
  BY <1>1, DaysAssumption, Known
     DEF NextDay, exchangeVars, CoreInv, HandoffTypeOK, ExchangeTypeOK, Days
<1>2. ASSUME NEW fp \in Fingerprints, HostSubmits(fp)
      PROVE  ExchangeTypeOK' /\ today' \in Days /\ exchange' = exchange
  BY <1>2, Known DEF HostSubmits, NewOrder, CoreInv, HandoffTypeOK, ExchangeTypeOK
<1>3. ASSUME NEW fp \in Fingerprints, MoveExchange(fp)
      PROVE  /\ ExchangeTypeOK' /\ today' \in Days
             /\ \A f \in Fingerprints :
                  exchange[f] \in EndStates => exchange'[f] = exchange[f]
  <2>1. exchange[fp] \in {NoOrder, "NEW"} \/ exchange' = exchange
    BY <1>3 DEF MoveExchange, ExchangeStep, Arrive, Lose, End
  <2>2. NoOrder \notin EndStates /\ "NEW" \notin EndStates
    BY DEF NoOrder, EndStates, Traded
  <2> QED
    BY <1>3, <2>1, <2>2, Known
       DEF MoveExchange, ExchangeStep, Arrive, Lose, End, CoreInv, HandoffTypeOK, ExchangeTypeOK,
           OrderStates
<1>4. UNCHANGED <<journalSide, sessionSide, latch, jobVars, tickets, ledger>>
  BY DEF NextDay, HostSubmits, MoveExchange
<1>5. /\ ExchangeTypeOK' /\ today' \in Days
      /\ \A f \in Fingerprints : exchange[f] \in EndStates => exchange'[f] = exchange[f]
  BY <1>1, <1>2, <1>3
<1> QED
  BY <1>4, <1>5, WorldSettled

(* The owner of the lock changes. *)
LEMMA LockSettled ==
    ASSUME CoreInv, Enter \/ Exit
    PROVE  Settled' /\ UNCHANGED <<journalFile, sessionSide, latch, jobVars, hostSide>>
           /\ job = "idle"
<1>1. /\ UNCHANGED <<journalFile, sessionSide, latch, jobVars, hostSide>>
      /\ up /\ job = "idle" /\ confirmation' = {}
      /\ \/ held' = TRUE /\ records' = journalFile
         \/ held' = FALSE /\ records' = NoRecords
  BY DEF Enter, Exit, Ready, Free, OpenExecutor, DropExecutor, LoadJournal, DropJournal
<1>2. /\ ledger' = ledger /\ up' = up /\ file' = file /\ Memory' = Memory
      /\ journalFile' = journalFile /\ tickets' = tickets
      /\ exchange' = exchange /\ wire' = wire /\ calls' = calls /\ today' = today
      /\ latch' = latch /\ pending' = pending
      /\ phase' = phase /\ processed' = processed /\ step' = step /\ plans' = plans
  BY <1>1 DEF sessionSide, hostSide, exchangeVars, Memory
<1>3. ExecutorTypeOK' /\ SessionTypeOK' /\ ExchangeTypeOK'
  BY <1>1, <1>2, Known
     DEF CoreInv, HandoffTypeOK, ExecutorTypeOK, JournalTypeOK, SessionTypeOK, ExchangeTypeOK,
         NoRecords
<1>4. CopiesAreSafe'
  BY <1>2 DEF CoreInv, CopiesAreSafe, Orderly, Knows, Waits
<1>5. OneTicketPerSignal' /\ ForgetsClosed' /\ JournalIsOpen' /\ LedgerIsTrue'
  BY <1>1, <1>2 DEF CoreInv, OneTicketPerSignal, ForgetsClosed, JournalIsOpen, LedgerIsTrue,
                    LedgerFirst
<1> QED
  BY <1>1, <1>2, <1>3, <1>4, <1>5, Known DEF Settled

(* The process dies: its memory and its lock are gone, the files are not.   *)
LEMMA CrashSettled == ASSUME CoreInv, Crash PROVE Settled'
<1>1. /\ up' = FALSE /\ held' = FALSE /\ confirmation' = {} /\ records' = NoRecords
      /\ phase' = "STOPPED" /\ pending' = NoPending /\ processed' = {} /\ step' = "idle"
      /\ latch' = latch /\ file' = file /\ plans' = plans /\ journalFile' = journalFile
      /\ tickets' = tickets /\ ledger' = ledger /\ today' = today
      /\ exchange' = exchange /\ wire' = wire /\ calls' = calls
  BY DEF Crash, LoseSession, DropExecutor, DropJournal, hostSide, exchangeVars
<1>2. /\ Memory'.phase = "STOPPED" /\ Memory'.pending = NoPending
      /\ Memory'.processed = {} /\ Memory'.latch = latch
  BY <1>1 DEF Memory, Image
<1>3. Orderly(Memory)'
  BY <1>1, <1>2, NoPendingFields DEF Orderly, PendingPhases
<1>4. CopiesAreSafe'
  BY <1>1, <1>3 DEF CoreInv, CopiesAreSafe, Orderly, Knows, Waits
<1>5. OneTicketPerSignal' /\ ForgetsClosed' /\ JournalIsOpen' /\ LedgerIsTrue'
  BY <1>1 DEF CoreInv, OneTicketPerSignal, ForgetsClosed, JournalIsOpen, LedgerIsTrue,
              LedgerFirst
<1>6. ExecutorTypeOK' /\ SessionTypeOK' /\ ExchangeTypeOK'
  BY <1>1, NoPendingFields
     DEF CoreInv, HandoffTypeOK, ExecutorTypeOK, JournalTypeOK, SessionTypeOK, ExchangeTypeOK,
         NoRecords, SessionPhases
<1> QED
  BY <1>1, <1>4, <1>5, <1>6, Known DEF Settled

(* What a new process holds is what the file says, but for the phase. *)
LEMMA OpenedFields ==
    ASSUME CoreInv, OpenSession
    PROVE  /\ phase' \in SessionPhases /\ up' = TRUE
           /\ Memory'.phase = phase' /\ Memory'.pending = file.pending
           /\ Memory'.processed = file.processed /\ Memory'.latch = file.latch
           /\ \/ phase' = file.phase \/ phase' = "RECOVERY_ONLY"
              \/ phase' = "STOPPED" /\ file = NoFile
           /\ \/ file' = file
              \/ file' = Memory' /\ phase' = "RECOVERY_ONLY"
<1>1. file.phase \in SessionPhases \/ file = NoFile
  BY DEF CoreInv, HandoffTypeOK, SessionTypeOK, CopiesAreSafe, Orderly
<1>2. file = NoFile => ~Interrupted(file)
  BY NoFileFields, NoPendingFields DEF Interrupted
<1>3. /\ Memory'.phase = phase' /\ Memory'.pending = file.pending
      /\ Memory'.processed = file.processed /\ Memory'.latch = file.latch
      /\ up' = TRUE
  BY DEF OpenSession, Memory, Image
<1>4. phase' = CASE file = NoFile      -> "STOPPED"
                 [] Interrupted(file)  -> "RECOVERY_ONLY"
                 [] OTHER              -> file.phase
  BY DEF OpenSession
<1>5. "STOPPED" \in SessionPhases /\ "RECOVERY_ONLY" \in SessionPhases
  BY DEF SessionPhases
<1>6. /\ phase' \in SessionPhases
      /\ \/ phase' = file.phase \/ phase' = "RECOVERY_ONLY"
         \/ phase' = "STOPPED" /\ file = NoFile
      /\ Interrupted(file) => phase' = "RECOVERY_ONLY"
  BY <1>1, <1>2, <1>4, <1>5
<1>7. file' = file \/ (file' = Memory' /\ Interrupted(file))
  BY DEF OpenSession, Memory, Image, Persist
<1> QED
  BY <1>3, <1>6, <1>7

LEMMA OpenSettled == ASSUME CoreInv, OpenSession, Calm PROVE Settled'
<1>1. /\ pending' = file.pending /\ processed' = file.processed /\ latch' = file.latch
      /\ step' = step /\ plans' = plans /\ up' = TRUE
  BY DEF OpenSession
<1>2. /\ ledger' = ledger /\ held' = held /\ confirmation' = confirmation
      /\ records' = records /\ journalFile' = journalFile /\ tickets' = tickets
      /\ exchange' = exchange /\ wire' = wire /\ calls' = calls /\ today' = today
  BY DEF Calm, journalSide, hostSide, exchangeVars
<1>3. Orderly(Memory')
  BY OpenedFields, NoFileFields, NoPendingFields
     DEF CoreInv, CopiesAreSafe, Orderly, PendingPhases, SessionPhases
<1>4. Knows(Memory')
  BY OpenedFields DEF CoreInv, CopiesAreSafe, Knows
<1>5. Waits(Memory')
  <2>1. ASSUME file = NoFile PROVE tickets = {}
    BY <2>1, NoFileFields DEF CoreInv, CopiesAreSafe, Knows
  <2> QED
    BY <2>1, OpenedFields DEF CoreInv, CopiesAreSafe, Waits, Waiting
<1>6. Orderly(file') /\ Knows(file') /\ Waits(file')
  BY <1>3, <1>4, <1>5, OpenedFields DEF CoreInv, CopiesAreSafe
<1>7. (file.phase = "RUNNING" => file.latch = NoPause)'
  BY OpenedFields DEF CoreInv, CopiesAreSafe
<1>8. CopiesAreSafe'
  <2>1. Orderly(file)' /\ Knows(file)' /\ Waits(file)'
    BY <1>2, <1>6 DEF Orderly, Knows, Waits
  <2>2. Orderly(Memory)' /\ Knows(Memory)' /\ Waits(Memory)'
    BY <1>2, <1>3, <1>4, <1>5 DEF Orderly, Knows, Waits
  <2> QED
    BY <1>7, <2>1, <2>2 DEF CopiesAreSafe
<1>9. file'.pending = file.pending
  BY OpenedFields
<1>10. ForgetsClosed'
  BY <1>1, <1>9 DEF ForgetsClosed
<1>11. OneTicketPerSignal' /\ JournalIsOpen' /\ LedgerIsTrue'
  BY <1>1, <1>2 DEF CoreInv, OneTicketPerSignal, JournalIsOpen, LedgerIsTrue, LedgerFirst
<1>12. SessionTypeOK'
  BY <1>1, OpenedFields DEF CoreInv, HandoffTypeOK, SessionTypeOK
<1>13. ExecutorTypeOK' /\ ExchangeTypeOK'
  BY <1>1, <1>2 DEF CoreInv, HandoffTypeOK, ExecutorTypeOK, JournalTypeOK, SessionTypeOK,
                    ExchangeTypeOK
<1> QED
  BY <1>2, <1>8, <1>10, <1>11, <1>12, <1>13, Known DEF Settled
-----------------------------------------------------------------------------
(* What is said of a job in hand survives a step that leaves the job alone. *)

LEMMA IdleJob ==
    ASSUME CoreInv, job = "idle", UNCHANGED jobVars
    PROVE  JobInHand' /\ job' \in Jobs /\ order' \subseteq Fingerprints
BY DEF CoreInv, JobInHand, jobVars, Jobs

LEMMA FinishedJob ==
    ASSUME CoreInv, Finish
    PROVE  JobInHand' /\ job' \in Jobs /\ order' \subseteq Fingerprints
BY DEF Finish, JobInHand, Jobs

LEMMA IdleMethod == ASSUME step' = "idle" PROVE MethodInHand'
BY DEF MethodInHand

(* A method of the session, all of which end or go on as methods. *)
(* The clock is no part of the core. *)
LEMMA ClockCoreInv ==
    ASSUME CoreInv, ClockMoves, Calm, UNCHANGED jobVars PROVE CoreInv'
<1>1. /\ up' = up /\ phase' = phase /\ pending' = pending /\ processed' = processed
      /\ latch' = latch /\ file' = file /\ step' = step /\ plans' = plans
      /\ records' = records /\ journalFile' = journalFile /\ held' = held
      /\ confirmation' = confirmation /\ tickets' = tickets /\ ledger' = ledger
      /\ today' = today /\ exchange' = exchange /\ wire' = wire /\ calls' = calls
      /\ job' = job /\ order' = order
  BY DEF ClockMoves, Calm, memoryVars, journalSide, hostSide, exchangeVars, jobVars
<1>2. HandoffTypeOK'
  BY <1>1 DEF CoreInv, HandoffTypeOK, ExecutorTypeOK, JournalTypeOK, SessionTypeOK,
              ExchangeTypeOK
<1>3. Memory' = Memory
  BY <1>1 DEF Memory
<1>4. CopiesAreSafe'
  BY <1>1, <1>3 DEF CoreInv, CopiesAreSafe, Orderly, Knows, Waits
<1>5. OneTicketPerSignal' /\ ForgetsClosed' /\ JournalIsOpen' /\ LedgerIsTrue'
  BY <1>1 DEF CoreInv, OneTicketPerSignal, ForgetsClosed, JournalIsOpen, LedgerIsTrue,
              LedgerFirst
<1>6. MethodInHand' /\ JobInHand'
  BY <1>1, <1>3 DEF CoreInv, MethodInHand, JobInHand
<1> QED
  BY <1>2, <1>4, <1>5, <1>6 DEF CoreInv

LEMMA SessionStepCoreInv == ASSUME CoreInv, SessionStep PROVE CoreInv'
<1>1. Calm /\ job = "idle" /\ UNCHANGED jobVars
  BY DEF SessionStep, Calm
<1>2. ASSUME Move, MethodInHand' PROVE CoreInv'
  BY <1>1, <1>2, MoveSettled, IdleJob, HandedOn
<1>3. CASE Start
  <2>1. step' = "idle" \/ (step' = "starting" /\ phase' = "STARTING")
    BY <1>3 DEF Start, SessionAt
  <2>2. MethodInHand'
    BY <1>3, <2>1, Known DEF MethodInHand, Start, SessionAt
  <2> QED
    BY <1>1, <1>2, <1>3, <2>2, StartMove
<1>4. CASE WritePlan
  <2>1. MethodInHand'
    BY <1>4 DEF WritePlan, SessionAt, memoryVars, CoreInv, MethodInHand
  <2> QED
    BY <1>1, <1>2, <1>4, <2>1, WritePlanMove
<1>5. ASSUME NEW sig \in Signals, NEW s \in Snapshots, Reserve(sig, s) PROVE CoreInv'
  <2>1. Move /\ pending'.status = "RESERVING"
    BY <1>1, <1>5, ReserveMove
  <2>2. MethodInHand'
    BY <1>5, <2>1 DEF Reserve, CandidateAccepted, SessionAt, MethodInHand, Move
  <2> QED
    BY <1>2, <2>1, <2>2
<1>6. CASE MarkReady \/ CandidateFails \/ DismissCandidate \/ Stop
  <2>1. MethodInHand'
    BY <1>6, IdleMethod
       DEF MarkReady, CandidateFails, DismissCandidate, Stop, Stay, SessionAt
  <2> QED
    BY <1>1, <1>2, <1>6, <2>1, MarkReadyMove, CandidateFailsMove, DismissCandidateMove,
       StopMove
<1>7. ASSUME NEW s \in Snapshots, FinishStart(s) \/ StartFails(s) \/ ManualResume(s)
      PROVE  CoreInv'
  <2>1. MethodInHand'
    BY <1>7, IdleMethod DEF FinishStart, StartFails, ManualResume, Stay, SessionAt
  <2> QED
    BY <1>1, <1>2, <1>7, <2>1, FinishStartMove, StartFailsMove, ManualResumeMove
<1>8. ASSUME NEW sig \in Signals, NEW s \in Snapshots,
             SkipSignal(sig, s) \/ BlockSignal(sig, s)
      PROVE  CoreInv'
  <2>1. MethodInHand'
    BY <1>8, IdleMethod DEF SkipSignal, BlockSignal, CandidateAccepted, Stay, SessionAt
  <2> QED
    BY <1>1, <1>2, <1>8, <2>1, SkipSignalMove, BlockSignalMove
<1>9. CASE OpenSession
  <2>1. step' = "idle"
    BY <1>9, Known DEF OpenSession, CoreInv, MethodInHand
  <2> QED
    BY <1>1, <1>9, <2>1, OpenSettled, IdleMethod, IdleJob, HandedOn
<1> QED
  BY <1>1, <1>3, <1>4, <1>5, <1>6, <1>7, <1>8, <1>9, ClockCoreInv DEF SessionStep

(* A step of the journal, or of the policy, that leaves the job in hand. *)
LEMMA SessionSideMethod ==
    ASSUME CoreInv, UNCHANGED sessionSide PROVE MethodInHand'
BY DEF sessionSide, CoreInv, MethodInHand

LEMMA PreviewCoreInv ==
    ASSUME CoreInv, NEW s \in Snapshots, PreparePreview(s) PROVE CoreInv'
<1>1. job = "idle" /\ UNCHANGED jobVars /\ UNCHANGED sessionSide
  BY PreviewSteps DEF PreparePreview, Ready, Free
<1>2. Settled'
  BY PreviewSteps, PolicyStepSettled, JournalStepSettled DEF Phases
<1> QED
  BY <1>1, <1>2, SessionSideMethod, IdleJob, HandedOn

LEMMA RefuseCoreInv ==
    ASSUME CoreInv, NEW fp \in Fingerprints, NEW s \in Snapshots, RefuseConfirmation(fp, s)
    PROVE  CoreInv'
<1>1. job = "idle" /\ UNCHANGED jobVars /\ UNCHANGED sessionSide
  BY RefuseSteps DEF RefuseConfirmation, Ready, Free
<1> QED
  BY <1>1, RefuseSteps, PolicyStepSettled, SessionSideMethod, IdleJob, HandedOn

LEMMA ConfirmCoreInv ==
    ASSUME CoreInv, NEW fp \in Fingerprints, NEW s \in Snapshots, Confirm(fp, s)
    PROVE  CoreInv'
<1>1. Settled'
  BY ConfirmSteps, JournalStepSettled DEF Phases, Unresolved
<1>2. UNCHANGED sessionSide /\ held' = held /\ up' = up /\ step' = step
  BY ConfirmSteps DEF JournalStep, sessionSide
<1>3. JobInHand'
  BY <1>2, ConfirmSteps DEF JobInHand, Goto
<1>4. job' \in Jobs /\ order' \subseteq Fingerprints
  BY ConfirmSteps DEF Goto, Jobs
<1> QED
  BY <1>1, <1>2, <1>3, <1>4, SessionSideMethod, HandedOn

(* What a job in hand was begun with. *)
LEMMA JobKnown ==
    ASSUME CoreInv, NEW fp \in order
    PROVE  /\ job # "idle" /\ order = {fp} /\ up /\ held /\ step = "idle"
           /\ fp \in Fingerprints
BY Known DEF CoreInv, JobInHand

LEMMA TellSessionCoreInv ==
    ASSUME CoreInv, NEW fp \in Fingerprints, TellSession(fp) PROVE CoreInv'
<1>1. /\ job = "armed" /\ fp \in order /\ journalFile[fp] = "SUBMITTING"
      /\ held /\ held' = held /\ journalFile' = journalFile /\ tickets' = tickets
      /\ step' = step /\ up' = up /\ step = "idle" /\ up
      /\ job' \in {"confirming", "failing"} /\ order' = {fp}
  BY JobKnown
     DEF TellSession, AtJob, CoreInv, JobInHand, BeginConfirmation, Stay, journalSide,
         hostSide, Goto
<1>2. Settled'
  BY TellSessionMove, MoveSettled
<1>3. JobInHand'
  BY <1>1, TellSessionMove DEF JobInHand
<1>4. job' \in Jobs /\ order' \subseteq Fingerprints
  BY <1>1 DEF Jobs
<1> QED
  BY <1>1, <1>2, <1>3, <1>4, IdleMethod, HandedOn

LEMMA WriteTicketCoreInv ==
    ASSUME CoreInv, NEW fp \in Fingerprints, WriteTicket(fp) PROVE CoreInv'
<1>1. /\ job = "confirming" /\ fp \in order
      /\ UNCHANGED <<journalFile, held, sessionSide>>
      /\ job' = "ticketed" /\ order' = {fp}
  BY DEF WriteTicket, AtJob, journalSide, Goto
<1>2. /\ phase' = phase /\ pending' = pending /\ up' = up /\ step' = step
      /\ held' = held /\ journalFile' = journalFile
  BY <1>1 DEF sessionSide
<1>3. Settled' /\ fp \in tickets'
  BY WriteTicketSettled
<1>4. JobInHand'
  BY <1>1, <1>2, <1>3, JobKnown DEF CoreInv, JobInHand
<1>5. job' \in Jobs /\ order' \subseteq Fingerprints
  BY <1>1 DEF Jobs
<1> QED
  BY <1>1, <1>3, <1>4, <1>5, SessionSideMethod, HandedOn

LEMMA SyncFillsCoreInv ==
    ASSUME CoreInv, NEW fp \in Fingerprints, SyncFills(fp) PROVE CoreInv'
<1>1. /\ up /\ held /\ step = "idle"
      /\ pending.status = "TICKET_READY" /\ fp \in pending.ticket
      /\ exchange[fp] \in EndStates
      /\ ledger' = {f \in Fingerprints : exchange[f] \in Traded}
      /\ UNCHANGED <<journalSide, sessionSide, exchange>>
      /\ job' = "synced" /\ order' = {fp}
  BY DEF SyncFills, Importing, Ready, Free, Goto, exchangeVars
<1>2. /\ phase' = phase /\ pending' = pending /\ up' = up /\ step' = step
      /\ held' = held /\ exchange' = exchange
  BY <1>1 DEF sessionSide, journalSide
<1>3. JobInHand'
  BY <1>1, <1>2 DEF JobInHand
<1>4. job' \in Jobs /\ order' \subseteq Fingerprints
  BY <1>1 DEF Jobs
<1> QED
  BY <1>1, <1>3, <1>4, SyncFillsSettled, SessionSideMethod, HandedOn

LEMMA GiveUpCoreInv ==
    ASSUME CoreInv, NEW fp \in Fingerprints, GiveUp(fp) PROVE CoreInv'
<1>1. /\ up /\ held /\ step = "idle" /\ job' = "failed" /\ order' = {fp}
      /\ UNCHANGED <<sessionSide, hostSide>>
      /\ MarkUnknown(fp) \/ MarkUnknownFails(fp)
  BY JobKnown DEF GiveUp, AtJob, Goto
<1>2. Settled'
  BY <1>1, UnknownSteps, JournalStepSettled DEF Phases, Unresolved
<1>3. up' = up /\ step' = step /\ held' = held
  BY <1>1 DEF sessionSide, MarkUnknown, MarkUnknownFails
<1>4. JobInHand' /\ job' \in Jobs /\ order' \subseteq Fingerprints
  BY <1>1, <1>3 DEF JobInHand, Jobs
<1> QED
  BY <1>1, <1>2, <1>4, SessionSideMethod, HandedOn

LEMMA ImportUnknownCoreInv ==
    ASSUME CoreInv, NEW fp \in Fingerprints, ImportUnknown(fp) PROVE CoreInv'
<1>1. /\ up /\ held /\ step = "idle" /\ job' = "uncertain" /\ order' = {fp}
      /\ pending.status = "TICKET_READY" /\ fp \in pending.ticket
      /\ UNCHANGED <<sessionSide, hostSide>> /\ MarkUnknown(fp)
  BY DEF ImportUnknown, Importing, Ready, Free, Goto
<1>2. Settled'
  BY <1>1, UnknownSteps, JournalStepSettled DEF Phases, Unresolved
<1>3. up' = up /\ step' = step /\ held' = held /\ pending' = pending
  BY <1>1 DEF sessionSide, MarkUnknown
<1>4. JobInHand' /\ job' \in Jobs /\ order' \subseteq Fingerprints
  BY <1>1, <1>3 DEF JobInHand, Jobs
<1> QED
  BY <1>1, <1>2, <1>4, SessionSideMethod, HandedOn

LEMMA AcceptReceiptCoreInv ==
    ASSUME CoreInv, NEW fp \in Fingerprints, AcceptReceipt(fp) PROVE CoreInv'
<1>1. /\ up /\ held /\ step = "idle" /\ job' = "recorded" /\ order' = {fp}
      /\ pending.status = "TICKET_READY" /\ fp \in pending.ticket
      /\ UNCHANGED <<sessionSide, hostSide>>
  BY JobKnown DEF AcceptReceipt, AtJob, CoreInv, JobInHand, Goto
<1>2. PICK p \in Terminal : JournalStep(fp, p)
  BY AcceptSteps
<1>3. Settled'
  BY <1>2, JournalStepSettled DEF Phases
<1>4. up' = up /\ step' = step /\ held' = held /\ pending' = pending
  BY <1>1, <1>2 DEF sessionSide, JournalStep
<1>5. journalFile'[fp] \in Terminal
  BY <1>2, Known DEF JournalStep, Saved
<1>6. JobInHand' /\ job' \in Jobs /\ order' \subseteq Fingerprints
  BY <1>1, <1>4, <1>5 DEF JobInHand, Jobs
<1> QED
  BY <1>1, <1>3, <1>6, SessionSideMethod, HandedOn

(* Nothing but the place of the coordinator changes. *)
LEMMA JobOnlyCoreInv ==
    ASSUME CoreInv, NEW fp \in Fingerprints,
           \/ SessionRefuses(fp) \/ TicketFails(fp) \/ ReceiptNotSaved(fp)
           \/ \E s \in Snapshots : OutcomeRefused(fp, s)
    PROVE  CoreInv'
<1>1. /\ fp \in order /\ UNCHANGED <<journalSide, sessionSide, latch, hostSide>>
      /\ Goto("failing", fp) \/ Finish
  BY DEF SessionRefuses, TicketFails, ReceiptNotSaved, OutcomeRefused, AtJob
<1>2. Settled'
  BY <1>1, LatchStays, PolicyStepSettled DEF PolicyStep, journalSide
<1>3. up /\ up' = up /\ held /\ held' = held /\ step = "idle" /\ step' = step
  BY <1>1, JobKnown DEF sessionSide, journalSide
<1>4. JobInHand' /\ job' \in Jobs /\ order' \subseteq Fingerprints
  <2>1. CASE Goto("failing", fp)
    BY <1>3, <2>1 DEF Goto, JobInHand, Jobs
  <2> QED
    BY <1>1, <2>1, FinishedJob
<1> QED
  BY <1>1, <1>2, <1>4, SessionSideMethod, HandedOn

(* The last write of a job tells the session. *)
LEMMA LastTellCoreInv ==
    ASSUME CoreInv, NEW fp \in Fingerprints,
           \/ RecordTicket(fp) \/ Recover(fp) \/ TellUnknown(fp)
           \/ \E s \in Snapshots : TellOutcome(fp, s)
    PROVE  CoreInv'
<1>1. Settled'
  BY RecordTicketMove, RecoverMove, TellUnknownMove, TellOutcomeMove, MoveSettled
<1>2. /\ fp \in order /\ Stay /\ UNCHANGED <<journalSide, hostSide>>
      /\ Goto("failing", fp) \/ Finish
  BY DEF RecordTicket, RecordSubmissionTicket, Recover, EnterRecovery, TellUnknown,
         RecordUnknown, TellOutcome, RecordOutcome, AtJob
<1>3. up /\ up' = up /\ held /\ held' = held /\ step' = "idle"
  BY <1>2, JobKnown DEF Stay, journalSide
<1>4. JobInHand' /\ job' \in Jobs /\ order' \subseteq Fingerprints
  <2>1. CASE Goto("failing", fp)
    BY <1>3, <2>1 DEF Goto, JobInHand, Jobs
  <2> QED
    BY <1>2, <2>1, FinishedJob
<1> QED
  BY <1>1, <1>3, <1>4, IdleMethod, HandedOn

LEMMA HostCoreInv ==
    ASSUME CoreInv,
           \/ NextDay
           \/ \E fp \in Fingerprints : HostSubmits(fp) \/ MoveExchange(fp)
    PROVE  CoreInv'
<1>1. /\ Settled' /\ UNCHANGED <<journalSide, sessionSide, latch, jobVars, tickets, ledger>>
      /\ \A f \in Fingerprints : exchange[f] \in EndStates => exchange'[f] = exchange[f]
  BY HostSettled
<1>2. /\ phase' = phase /\ pending' = pending /\ up' = up /\ step' = step /\ file' = file
      /\ held' = held /\ journalFile' = journalFile /\ tickets' = tickets
      /\ ledger' = ledger /\ job' = job /\ order' = order /\ Memory' = Memory
  BY <1>1 DEF journalSide, sessionSide, jobVars, Memory
<1>3. JobInHand'
  BY <1>1, <1>2, Known DEF CoreInv, JobInHand
<1> QED
  BY <1>1, <1>2, <1>3, Known, SessionSideMethod, HandedOn

LEMMA NextCoreInv == ASSUME CoreInv, [Next]_vars PROVE CoreInv'
<1>1. CASE Enter \/ Exit
  <2>1. /\ Settled' /\ UNCHANGED <<journalFile, sessionSide, latch, jobVars, hostSide>>
        /\ job = "idle"
    BY <1>1, LockSettled
  <2> QED
    BY <2>1, SessionSideMethod, IdleJob, HandedOn
<1>2. CASE Crash
  <2>1. step' = "idle" /\ Finish
    BY <1>2 DEF Crash, LoseSession
  <2> QED
    BY <1>2, <2>1, CrashSettled, IdleMethod, FinishedJob, HandedOn
<1>3. CASE UNCHANGED vars
  <2>1. /\ PolicyStep /\ UNCHANGED sessionSide
        /\ phase' = phase /\ pending' = pending /\ up' = up /\ step' = step /\ file' = file
        /\ held' = held /\ journalFile' = journalFile /\ tickets' = tickets
        /\ ledger' = ledger /\ job' = job /\ order' = order /\ Memory' = Memory
        /\ exchange' = exchange
    BY <1>3, LatchStays
       DEF vars, PolicyStep, journalSide, sessionSide, hostSide, exchangeVars, jobVars,
           Memory
  <2>2. JobInHand'
    BY <2>1 DEF CoreInv, JobInHand
  <2> QED
    BY <2>1, <2>2, Known, PolicyStepSettled, SessionSideMethod, HandedOn
<1> QED
  BY <1>1, <1>2, <1>3, SessionStepCoreInv, PreviewCoreInv, RefuseCoreInv, ConfirmCoreInv,
     TellSessionCoreInv, WriteTicketCoreInv, SyncFillsCoreInv, GiveUpCoreInv, ImportUnknownCoreInv,
     AcceptReceiptCoreInv, JobOnlyCoreInv, LastTellCoreInv, HostCoreInv DEF Next

LEMMA CoreAlways == Spec => []CoreInv
BY InitCoreInv, NextCoreInv, PTL DEF Spec
-----------------------------------------------------------------------------
(* The times of the session.  What a mutation notes: the time of the call,  *)
(* with the first start, and the reservation for as long as there is one.   *)

LEMMA StampKeepsTimes ==
    ASSUME TimesAgree, up, NEW c, NEW r, Stamp(c, r), TryPersist, c # 0,
           c = times.created \/ (c = clock /\ times.created = 0),
           r \in 0..MaxTime,
           pending' # NoPending =>
             r = clock \/ (r = times.reserved /\ pending # NoPending)
    PROVE  TimesAgree'
<1>1. /\ times' = [created |-> c, updated |-> clock, reserved |-> r]
      /\ clock' = clock /\ setBack' = setBack
  BY DEF Stamp
<1>2. /\ clock \in 1..MaxTime /\ times \in Times /\ fileTimes \in Times
      /\ setBack \in BOOLEAN
  BY DEF TimesAgree, TimeTypeOK
<1>3. c \in 0..MaxTime /\ times' \in Times
  BY <1>1, <1>2, MaxTimeAssumption DEF Times
<1>4. ~setBack => clock <= clock /\ InOrder(pending', times')
  <2> SUFFICES ASSUME ~setBack PROVE c <= clock /\ (pending' # NoPending => c <= r /\ r <= clock)
    BY <1>1, <1>2 DEF InOrder
  <2>1. /\ times.updated <= clock /\ times.created <= times.updated
        /\ pending # NoPending =>
             times.created <= times.reserved /\ times.reserved <= times.updated
    BY DEF TimesAgree, InOrder
  <2>2. pending # NoPending => times.created # 0
    BY DEF TimesAgree
  <2> QED
    BY <1>2, <2>1, <2>2, MaxTimeAssumption DEF Times
<1>5. \/ file' = file /\ fileTimes' = fileTimes
      \/ file'.pending = pending' /\ fileTimes' = times'
  BY DEF TryPersist, Persist, PersistFails, Image
<1>6. TimeTypeOK'
  BY <1>1, <1>2, <1>3, <1>5 DEF TimeTypeOK
<1>7. (file # NoFile => fileTimes.created # 0)'
  BY <1>1, <1>5 DEF TimesAgree, NoFile
<1>8. ~setBack => /\ times'.updated <= clock /\ InOrder(pending', times')
                  /\ fileTimes'.updated <= clock /\ InOrder(file'.pending, fileTimes')
  BY <1>1, <1>4, <1>5 DEF TimesAgree
<1>9. (~setBack => /\ times.updated <= clock /\ InOrder(pending, times)
                   /\ fileTimes.updated <= clock /\ InOrder(file.pending, fileTimes))'
  BY <1>1, <1>8 DEF InOrder
<1> QED
  BY <1>1, <1>6, <1>7, <1>9 DEF TimesAgree

LEMMA TouchKeepsTimes ==
    ASSUME TimesAgree, up, Touch, TryPersist,
           phase # "STOPPED" \/ pending # NoPending \/ times.created # 0,
           pending' # NoPending => pending # NoPending
    PROVE  TimesAgree'
<1> DEFINE r == IF pending' = NoPending THEN 0 ELSE times.reserved
<1>1. Stamp(times.created, r) /\ times.created # 0
  BY DEF Touch, TimesAgree
<1>2. r \in 0..MaxTime
  BY MaxTimeAssumption DEF TimesAgree, TimeTypeOK, Times
<1> QED
  BY <1>1, <1>2, StampKeepsTimes

(* A step that saves nothing and makes no candidate and no phase.           *)
LEMMA KeptTimes ==
    ASSUME TimesAgree, UNCHANGED <<times, fileTimes, clock, setBack, file>>,
           pending' # NoPending => pending # NoPending,
           up' => up \/ (phase' = "STOPPED" /\ pending' = NoPending),
           phase' # "STOPPED" => phase # "STOPPED" \/ times.created # 0
    PROVE  TimesAgree'
<1>1. TimeTypeOK' /\ (file # NoFile => fileTimes.created # 0)'
  BY DEF TimesAgree, TimeTypeOK, NoFile
<1>2. (up /\ (phase # "STOPPED" \/ pending # NoPending) => times.created # 0)'
  BY DEF TimesAgree
<1>3. (~setBack => /\ times.updated <= clock /\ InOrder(pending, times)
                   /\ fileTimes.updated <= clock /\ InOrder(file.pending, fileTimes))'
  BY DEF TimesAgree, InOrder
<1> QED
  BY <1>1, <1>2, <1>3 DEF TimesAgree

LEMMA StartTimes == ASSUME TimesAgree, Start PROVE TimesAgree'
<1> DEFINE c == IF times.created = 0 THEN clock ELSE times.created
<1>1. /\ up /\ pending' = pending /\ TryPersist /\ Stamp(c, times.reserved)
  BY DEF Start, SessionAt, TryPersist
<1>2. times.reserved \in 0..MaxTime /\ clock # 0
  BY MaxTimeAssumption DEF TimesAgree, TimeTypeOK, Times
<1> QED
  BY <1>1, <1>2, StampKeepsTimes

LEMMA ReserveTimes ==
    ASSUME TimesAgree, NEW sig, NEW s, Reserve(sig, s) PROVE TimesAgree'
<1>1. up /\ phase # "STOPPED" /\ TryPersist /\ Stamp(times.created, clock)
  BY DEF Reserve, CandidateAccepted, SessionAt, Accepting, TryPersist
<1>2. times.created # 0 /\ clock \in 0..MaxTime
  BY <1>1, MaxTimeAssumption DEF TimesAgree, TimeTypeOK
<1> QED
  BY <1>1, <1>2, StampKeepsTimes

LEMMA SignalTimes ==
    ASSUME TimesAgree, NEW sig, NEW s, SkipSignal(sig, s) \/ BlockSignal(sig, s)
    PROVE  TimesAgree'
<1>1. up /\ phase # "STOPPED" /\ pending' = pending /\ up' = up
  BY DEF SkipSignal, BlockSignal, CandidateAccepted, SessionAt, Accepting, Stay
<1>2. CASE Touch /\ TryPersist
  BY <1>1, <1>2, TouchKeepsTimes
<1>3. CASE PersistFails /\ UNCHANGED <<times, clock, setBack>>
  BY <1>1, <1>3, KeptTimes DEF PersistFails
<1> QED
  BY <1>2, <1>3 DEF SkipSignal, BlockSignal

(* The methods that change what there is: within one, the session was       *)
(* started, and a plan is written for the candidate that is reserved.       *)
LEMMA MutationTimes ==
    ASSUME TimesAgree,
           step # "idle" => phase # "STOPPED",
           step \in {"reserving", "planned"} => pending # NoPending,
           \/ MarkReady \/ CandidateFails \/ DismissCandidate \/ Stop
           \/ \E s \in Snapshots : FinishStart(s) \/ StartFails(s) \/ ManualResume(s)
    PROVE  TimesAgree'
<1>1. up /\ Touch /\ TryPersist
  BY DEF MarkReady, CandidateFails, DismissCandidate, Stop, FinishStart, StartFails,
         ManualResume, SessionAt, TryPersist
<1>2. phase # "STOPPED" \/ pending # NoPending
  BY DEF MarkReady, CandidateFails, DismissCandidate, Stop, FinishStart, StartFails,
         ManualResume, SessionAt, NoPending
<1>3. pending' # NoPending => pending # NoPending
  BY DEF MarkReady, CandidateFails, DismissCandidate, Stop, FinishStart, StartFails,
         ManualResume, SessionAt
<1> QED
  BY <1>1, <1>2, <1>3, TouchKeepsTimes

LEMMA ClockTimes == ASSUME TimesAgree, ClockMoves PROVE TimesAgree'
<1> USE DEF ClockMoves, memoryVars
<1>1. PICK t \in 1..MaxTime \ {clock} :
        clock' = t /\ setBack' = (setBack \/ t < clock)
  OBVIOUS
<1>2. TimeTypeOK'
  BY <1>1 DEF TimesAgree, TimeTypeOK
<1>3. ~setBack' => ~setBack /\ clock <= clock'
  <2>1. ~(t < clock) => clock <= t
    BY MaxTimeAssumption DEF TimesAgree, TimeTypeOK
  <2>2. setBack \in BOOLEAN
    BY DEF TimesAgree, TimeTypeOK
  <2> QED
    BY <1>1, <2>1, <2>2, Zenon
<1>4. (~setBack => /\ times.updated <= clock /\ InOrder(pending, times)
                   /\ fileTimes.updated <= clock /\ InOrder(file.pending, fileTimes))'
  <2>1. /\ times.updated \in Int /\ fileTimes.updated \in Int
        /\ clock \in Int /\ clock' \in Int
    BY <1>1, MaxTimeAssumption DEF TimesAgree, TimeTypeOK, Times
  <2> QED
    BY <1>3, <2>1 DEF TimesAgree, InOrder
<1> QED
  BY <1>2, <1>4 DEF TimesAgree, NoFile

(* A new process takes the times of the file, and a saved recovery keeps    *)
(* them.                                                                    *)
LEMMA OpenTimes == ASSUME TimesAgree, OpenSession PROVE TimesAgree'
<1>1. /\ times' = fileTimes /\ clock' = clock /\ setBack' = setBack
      /\ pending' = file.pending /\ fileTimes' = fileTimes
      /\ file' = file \/ (file'.pending = file.pending /\ Interrupted(file))
  BY DEF OpenSession, Persist, Image
<1>2. Interrupted(file) => file # NoFile
  BY NoFileFields DEF Interrupted, NoPending
<1>3. phase' # "STOPPED" \/ pending' # NoPending => fileTimes.created # 0
  <2>1. file = NoFile => phase' = "STOPPED" /\ pending' = NoPending
    BY <1>2, NoFileFields DEF OpenSession
  <2> QED
    BY <2>1 DEF TimesAgree
<1>4. TimeTypeOK'
  BY <1>1 DEF TimesAgree, TimeTypeOK
<1>5. (file # NoFile => fileTimes.created # 0)'
  BY <1>1, <1>2 DEF TimesAgree, NoFile
<1>6. (up /\ (phase # "STOPPED" \/ pending # NoPending) => times.created # 0)'
  BY <1>1, <1>3
<1>7. (~setBack => /\ times.updated <= clock /\ InOrder(pending, times)
                   /\ fileTimes.updated <= clock /\ InOrder(file.pending, fileTimes))'
  BY <1>1 DEF TimesAgree, InOrder
<1> QED
  BY <1>4, <1>5, <1>6, <1>7 DEF TimesAgree

LEMMA LostTimes == ASSUME TimesAgree, LoseSession PROVE TimesAgree'
<1> USE DEF LoseSession
<1>1. NoTimes \in Times /\ TimeTypeOK'
  BY MaxTimeAssumption DEF TimesAgree, TimeTypeOK, Times, NoTimes
<1>2. (~setBack => /\ times.updated <= clock /\ InOrder(pending, times)
                   /\ fileTimes.updated <= clock /\ InOrder(file.pending, fileTimes))'
  <2>1. NoTimes.updated = 0 /\ NoTimes.created = 0 /\ 0 <= 0 /\ 0 <= clock
    BY MaxTimeAssumption DEF NoTimes, TimesAgree, TimeTypeOK
  <2>2. InOrder(NoPending, NoTimes)
    BY <2>1 DEF InOrder
  <2>3. InOrder(pending, times)'
    BY <2>2 DEF InOrder
  <2>4. InOrder(file.pending, fileTimes)' <=> InOrder(file.pending, fileTimes)
    BY DEF InOrder
  <2> QED
    BY <2>1, <2>3, <2>4 DEF TimesAgree
<1> QED
  BY <1>1, <1>2 DEF TimesAgree, NoFile

LEMMA InitTimes == SessionInit => TimesAgree
<1> SUFFICES ASSUME SessionInit PROVE TimesAgree
  OBVIOUS
<1>1. NoTimes \in Times /\ NoTimes.created = 0 /\ NoTimes.updated = 0 /\ clock \in 1..MaxTime
  BY MaxTimeAssumption DEF Times, NoTimes, SessionInit
<1>2. TimeTypeOK
  BY <1>1 DEF TimeTypeOK, SessionInit
<1>3. InOrder(pending, times) /\ InOrder(file.pending, fileTimes)
  BY <1>1, NoFileFields DEF InOrder, SessionInit
<1>4. times.updated <= clock /\ fileTimes.updated <= clock
  BY <1>1, MaxTimeAssumption DEF SessionInit
<1> QED
  BY <1>2, <1>3, <1>4 DEF TimesAgree, SessionInit
-----------------------------------------------------------------------------
(* An order waits for its confirmation, or a job is in hand. *)
Armed == confirmation # {} \/ job # "idle"

(* No mutation forgets when the session was first started. *)
LEMMA CreatedStays ==
    ASSUME CoreInv, SessionStep, up, times.created # 0
    PROVE  times'.created = times.created
<1>1. CASE Start
  BY <1>1 DEF Start, Stamp
<1>2. CASE \E sig \in Signals, s \in Snapshots : Reserve(sig, s)
  BY <1>2 DEF Reserve, Stamp
<1>3. CASE Touch
  BY <1>3 DEF Touch, Stamp
<1>4. CASE times' = times
  BY <1>4
<1>5. CASE \/ MarkReady \/ CandidateFails \/ DismissCandidate \/ Stop
           \/ \E s \in Snapshots : FinishStart(s) \/ StartFails(s) \/ ManualResume(s)
           \/ \E sig \in Signals, s \in Snapshots :
                SkipSignal(sig, s) \/ BlockSignal(sig, s)
  BY <1>3, <1>4, <1>5
     DEF MarkReady, CandidateFails, DismissCandidate, Stop, FinishStart, StartFails,
         ManualResume, SkipSignal, BlockSignal
<1>6. CASE WritePlan \/ ClockMoves
  BY <1>4, <1>6 DEF WritePlan, timeVars, ClockMoves
<1> QED
  BY <1>1, <1>2, <1>5, <1>6 DEF SessionStep, OpenSession

LEMMA SessionStepTimes ==
    ASSUME CoreInv, HandoffTimes, SessionStep PROVE HandoffTimes'
<1>1. /\ step # "idle" => phase # "STOPPED"
      /\ step \in {"reserving", "planned"} => pending # NoPending
  <2>1. step \in Steps
    BY Known
  <2> QED
    BY <2>1, StartingKnown, ReservingKnown DEF Steps
<1>2. TimesAgree /\ job = "idle" /\ job' = job /\ confirmation' = confirmation
  BY DEF HandoffTimes, SessionStep, journalSide, jobVars
<1>3. ASSUME WritePlan PROVE TimesAgree'
  BY <1>2, <1>3, KeptTimes DEF WritePlan, memoryVars, timeVars
<1>4. TimesAgree'
  BY <1>1, <1>2, <1>3, StartTimes, ReserveTimes, SignalTimes, MutationTimes, ClockTimes,
     OpenTimes DEF SessionStep
<1>5. confirmation # {} => up /\ times.created # 0
  BY DEF CoreInv, JournalIsOpen, HandoffTimes
<1> QED
  BY <1>2, <1>4, <1>5, CreatedStays DEF HandoffTimes

(* A job of the coordinator tells the session what it has done. *)
LEMMA TellTimes ==
    ASSUME CoreInv, HandoffTimes, NEW fp \in Fingerprints,
           \/ TellSession(fp) \/ RecordTicket(fp) \/ Recover(fp) \/ TellUnknown(fp)
           \/ \E s \in Snapshots : TellOutcome(fp, s)
    PROVE  HandoffTimes'
<1>1. fp \in order /\ Touch /\ TryPersist
  BY DEF TellSession, BeginConfirmation, RecordTicket, RecordSubmissionTicket, Recover,
         EnterRecovery, TellUnknown, RecordUnknown, TellOutcome, RecordOutcome, AtJob,
         TryPersist
<1>2. up /\ times.created # 0 /\ TimesAgree
  BY <1>1, JobKnown DEF HandoffTimes
<1>3. pending' # NoPending => pending # NoPending
  BY NoPendingFields
     DEF TellSession, BeginConfirmation, RecordTicket, RecordSubmissionTicket, Recover,
         EnterRecovery, TellUnknown, RecordUnknown, TellOutcome, RecordOutcome,
         AwaitsOutcome
<1>4. TimesAgree'
  BY <1>1, <1>2, <1>3, TouchKeepsTimes
<1>5. times'.created = times.created
  BY <1>1 DEF Touch, Stamp
<1> QED
  BY <1>2, <1>4, <1>5 DEF HandoffTimes

(* The other steps leave the session alone: an order is previewed and a     *)
(* result imported for a session that waits.                                *)
LEMMA OtherTimes ==
    ASSUME CoreInv, HandoffTimes, UNCHANGED sessionSide, Armed' => Armed \/ phase # "STOPPED",
           Armed' => up
    PROVE  HandoffTimes'
<1>1. /\ TimesAgree' /\ times' = times
  BY KeptTimes DEF HandoffTimes, sessionSide, timeVars
<1>2. Armed' => times.created # 0
  BY DEF HandoffTimes, TimesAgree, Armed
<1> QED
  BY <1>1, <1>2 DEF HandoffTimes, Armed

LEMMA NextHandoffTimes ==
    ASSUME CoreInv, HandoffTimes, [Next]_vars PROVE HandoffTimes'
<1>1. Armed => up
  BY JobKnown DEF Armed, CoreInv, JournalIsOpen, JobInHand
<1>2. CASE Crash
  <2>1. TimesAgree'
    BY <1>2, LostTimes DEF Crash, HandoffTimes
  <2> QED
    BY <1>2, <2>1 DEF Crash, DropExecutor, Finish, HandoffTimes
<1>3. CASE \E s \in Snapshots : PreparePreview(s)
  <2>1. UNCHANGED sessionSide /\ up /\ phase # "STOPPED"
    BY <1>3 DEF PreparePreview, Ready, Free
  <2> QED
    BY <2>1, OtherTimes
<1>4. CASE \E fp \in Fingerprints, s \in Snapshots :
             RefuseConfirmation(fp, s) \/ Confirm(fp, s) \/ OutcomeRefused(fp, s)
  <2>1. UNCHANGED sessionSide /\ Armed /\ up
    BY <1>1, <1>4 DEF RefuseConfirmation, ConfirmationRefused, Confirm, BeginSubmission, Consume,
                OutcomeRefused, AtJob, Armed
  <2> QED
    BY <2>1, OtherTimes
<1>5. CASE \E fp \in Fingerprints :
             \/ SessionRefuses(fp) \/ WriteTicket(fp) \/ TicketFails(fp) \/ GiveUp(fp)
             \/ AcceptReceipt(fp) \/ ReceiptNotSaved(fp)
  <2>1. UNCHANGED sessionSide /\ Armed /\ up
    BY <1>1, <1>5 DEF SessionRefuses, WriteTicket, TicketFails, GiveUp, AcceptReceipt,
                      ReceiptNotSaved, AtJob, Armed
  <2> QED
    BY <2>1, OtherTimes
<1>6. CASE \E fp \in Fingerprints : ImportUnknown(fp) \/ SyncFills(fp)
  <2>1. UNCHANGED sessionSide /\ up /\ phase # "STOPPED"
    BY <1>6 DEF ImportUnknown, SyncFills, Importing, Ready, Free
  <2> QED
    BY <2>1, OtherTimes
<1>7. CASE \/ Enter \/ Exit \/ NextDay \/ UNCHANGED vars
           \/ \E fp \in Fingerprints : HostSubmits(fp) \/ MoveExchange(fp)
  <2>1. UNCHANGED sessionSide /\ (Armed' => Armed)
    BY <1>7 DEF Enter, Exit, OpenExecutor, DropExecutor, NextDay, HostSubmits,
                MoveExchange, vars, journalSide, jobVars, Armed
  <2> QED
    BY <1>1, <2>1, OtherTimes
<1> QED
  BY <1>2, <1>3, <1>4, <1>5, <1>6, <1>7, SessionStepTimes, TellTimes DEF Next

LEMMA InitHandoffTimes == Init => HandoffTimes
BY InitTimes DEF Init, HandoffTimes, ExecutorInit

LEMMA TimesAlways == Spec => []HandoffTimes
BY InitHandoffTimes, NextHandoffTimes, CoreAlways, PTL DEF Spec

(* The inductive invariant of the handoff holds in every reachable state,   *)
(* whatever save fails, wherever the process dies and however the clock     *)
(* moves.                                                                   *)
THEOREM HandoffInductiveInvariant == Spec => []IInv
<1>1. CoreInv /\ HandoffTimes => IInv
  BY DEF IInv
<1> QED
  BY <1>1, CoreAlways, TimesAlways, PTL
-----------------------------------------------------------------------------
(* Every variable of the handoff keeps its type: in particular the pending  *)
(* record of the session is one that begin_confirmation and                 *)
(* record_submission_ticket can have made.                                  *)
THEOREM HandoffTypeCorrect == Spec => []TypeOK
<1>1. IInv => TypeOK
  BY DEF IInv, CoreInv, HandoffTimes, TimesAgree, TypeOK
<1> QED
  BY <1>1, HandoffInductiveInvariant, PTL

(* No crash, failed save, recovery or change of day leads confirm_to_ticket *)
(* to write a second ticket for an event.                                   *)
THEOREM OneTicketForEachEvent == Spec => []OneTicketPerSignal
<1>1. CoreInv => OneTicketPerSignal
  BY DEF CoreInv
<1> QED
  BY <1>1, CoreAlways, PTL

(* The saved session waits for every ticket whose order is open in the      *)
(* journal, so that no restart of it (_load) accepts another signal.        *)
THEOREM SavedSessionWaits == Spec => []SessionWaitsForTicket
<1>1. CoreInv => SessionWaitsForTicket
  BY DEF CoreInv, CopiesAreSafe, Waits, Waiting, SessionWaitsForTicket
<1> QED
  BY <1>1, CoreAlways, PTL

(* import_result saves the fills before the journal closes an order.        *)
THEOREM FillsAreFirst == Spec => []LedgerFirst
<1>1. CoreInv => LedgerFirst
  BY DEF CoreInv, LedgerIsTrue
<1> QED
  BY <1>1, CoreAlways, PTL

(* The coordinator leaves no session file that _load refuses, as long as    *)
(* the strategy has no more events than the history holds; but for the      *)
(* order of its times once the clock was set back, which FileAlwaysLoads    *)
(* excepts.                                                                 *)
THEOREM HandoffFileLoads ==
    ASSUME IsFiniteSet(Signals), Cardinality(Signals) <= MaxKeys
    PROVE  Spec => []FileAlwaysLoads
<1>1. CoreInv => Consistent(file)
  <2> SUFFICES ASSUME CoreInv PROVE Consistent(file)
    OBVIOUS
  <2>1. file.processed \subseteq Signals
    BY DEF CoreInv, HandoffTypeOK, SessionTypeOK
  <2>2. /\ IsFiniteSet(file.processed)
        /\ Cardinality(file.processed) <= Cardinality(Signals)
    BY <2>1, FS_Subset
  <2>3. Cardinality(file.processed) \in Nat /\ Cardinality(Signals) \in Nat
    BY <2>2, FS_CardinalityType
  <2>4. Cardinality(file.processed) <= MaxKeys
    BY <2>2, <2>3, MaxKeysAssumption
  <2> QED
    BY <2>4 DEF CoreInv, CopiesAreSafe, Orderly, Consistent
<1>2. Consistent(file) /\ HandoffTimes => FileAlwaysLoads
  BY DEF HandoffTimes, TimesAgree, Loadable, FileAlwaysLoads
<1> QED
  BY <1>1, <1>2, CoreAlways, TimesAlways, PTL

(* The session file changes in the moves of a session, and when a new       *)
(* process saves the recovery it finds itself in.                           *)
LEMMA FileChanges ==
    ASSUME CoreInv, [Next]_vars
    PROVE  Move \/ OpenSession \/ file' = file
<1>1. ASSUME SessionStep PROVE Move \/ OpenSession \/ file' = file
  <2>1. Calm
    BY <1>1 DEF SessionStep, Calm
  <2> QED
    BY <1>1, <2>1, StartMove, WritePlanMove, ReserveMove, MarkReadyMove,
       CandidateFailsMove, DismissCandidateMove, StopMove, FinishStartMove,
       StartFailsMove, ManualResumeMove, SkipSignalMove, BlockSignalMove
       DEF SessionStep, ClockMoves
<1>2. ASSUME NEW fp \in Fingerprints, NEW s \in Snapshots,
             \/ TellSession(fp) \/ RecordTicket(fp) \/ Recover(fp) \/ TellUnknown(fp)
             \/ TellOutcome(fp, s)
      PROVE  Move
  BY <1>2, TellSessionMove, RecordTicketMove, RecoverMove, TellUnknownMove,
     TellOutcomeMove
<1>3. ASSUME NEW fp \in Fingerprints,
             TellSession(fp) \/ RecordTicket(fp) \/ Recover(fp) \/ TellUnknown(fp)
      PROVE  Move
  BY <1>3, TellSessionMove, RecordTicketMove, RecoverMove, TellUnknownMove
<1>4. ASSUME NEW fp \in Fingerprints, NEW s \in Snapshots,
             RefuseConfirmation(fp, s) \/ Confirm(fp, s) \/ OutcomeRefused(fp, s)
      PROVE  file' = file
  BY <1>4 DEF RefuseConfirmation, Confirm, OutcomeRefused, sessionSide
<1>5. ASSUME NEW fp \in Fingerprints,
             \/ SessionRefuses(fp) \/ WriteTicket(fp) \/ TicketFails(fp) \/ GiveUp(fp)
             \/ ImportUnknown(fp) \/ SyncFills(fp) \/ AcceptReceipt(fp)
             \/ ReceiptNotSaved(fp) \/ HostSubmits(fp) \/ MoveExchange(fp)
      PROVE  file' = file
  BY <1>5 DEF SessionRefuses, WriteTicket, TicketFails, GiveUp, ImportUnknown, SyncFills,
              AcceptReceipt, ReceiptNotSaved, HostSubmits, MoveExchange, sessionSide
<1>6. ASSUME \/ Enter \/ Exit \/ Crash \/ NextDay \/ UNCHANGED vars
             \/ \E s \in Snapshots : PreparePreview(s)
      PROVE  file' = file
  BY <1>6 DEF Enter, Exit, Crash, LoseSession, NextDay, PreparePreview, sessionSide, vars
<1> QED
  BY <1>1, <1>2, <1>3, <1>4, <1>5, <1>6 DEF Next

(* The session stops waiting for a ticket it recorded only when the journal *)
(* has closed the order (record_execution_outcome after _record_result).    *)
THEOREM OutcomeFollowsJournal == Spec => OutcomeAfterJournal
<1> DEFINE Closed == \A fp \in file.pending.ticket :
                        file'.pending.ticket = {} => journalFile[fp] \in Terminal
<1>1. ASSUME CoreInv, [Next]_vars PROVE [Closed]_vars
  <2>1. CASE Move
    <3>1. Memory'.pending = pending'
      BY DEF Memory, Image
    <3> QED
      BY <1>1, <2>1, <3>1 DEF Move, CoreInv, ForgetsClosed
  <2>2. CASE OpenSession
    BY <1>1, <2>2, OpenedFields
  <2> QED
    BY <1>1, <2>1, <2>2, FileChanges
<1> QED
  BY <1>1, CoreAlways, PTL DEF Spec, OutcomeAfterJournal
-----------------------------------------------------------------------------
(* The refinement: the journal and the ticket files are a one-shot order.   *)
StageMap == [fp \in Fingerprints |-> StageOf(journalFile[fp])]

(* Saving a phase of one order moves the stage of that order alone. *)
LEMMA SavedStage ==
    ASSUME CoreInv, NEW fp \in Fingerprints, NEW p, JournalStep(fp, p)
    PROVE  /\ StageMap' = [StageMap EXCEPT ![fp] = StageOf(p)]
           /\ tickets' = tickets
<1>1. \A f \in Fingerprints : journalFile'[f] = IF f = fp THEN p ELSE journalFile[f]
  BY Known DEF JournalStep, Saved
<1> QED
  BY <1>1 DEF StageMap, JournalStep, hostSide

LEMMA StageOfPhase ==
    /\ StageOf(Absent) = "idle"
    /\ StageOf("PREPARED") = "reserved"
    /\ StageOf("SUBMITTING") = "armed"
    /\ \A p \in {"SUBMITTED", "UNKNOWN"} : StageOf(p) = "lookup"
    /\ \A p \in Terminal : StageOf(p) = "closed"
BY DEF StageOf, Terminal, Absent

(* An order is in progress, in the abstract sense, if it is unresolved.     *)
LEMMA StageInProgress ==
    ASSUME CoreInv, NEW fp \in Fingerprints
    PROVE  /\ StageMap[fp] = StageOf(journalFile[fp])
           /\ StageMap[fp] \in {"armed", "lookup"} <=> journalFile[fp] \in Unresolved
<1>1. journalFile[fp] \in Phases \cup {Absent}
  BY Known
<1> QED
  BY <1>1, StageOfPhase DEF StageMap, Phases, Unresolved, Terminal

LEMMA InitOneShot == Init => OneShot!Init
<1> SUFFICES ASSUME Init PROVE OneShot!Init
  OBVIOUS
<1>1. \A fp \in Fingerprints : StageOf(journalFile[fp]) = "idle"
  BY StageOfPhase DEF Init, ExecutorInit, JournalInit, NoRecords
<1> QED
  BY <1>1 DEF Init, OneShot!Init

LEMMA OneShotStutters ==
    ASSUME UNCHANGED <<journalFile, tickets>>
    PROVE  UNCHANGED OneShot!vars
BY DEF OneShot!vars

(* A save of the phase the order is in, or of one that shows the same.      *)
LEMMA SameStage ==
    ASSUME CoreInv, NEW fp \in Fingerprints, NEW p, JournalStep(fp, p),
           StageOf(p) = StageMap[fp]
    PROVE  UNCHANGED OneShot!vars
<1>1. StageMap' = StageMap /\ tickets' = tickets
  BY SavedStage DEF StageMap
<1> QED
  BY <1>1 DEF OneShot!vars, StageMap

LEMMA PreviewIsReserve ==
    ASSUME CoreInv, NEW s \in Snapshots, PreparePreview(s)
    PROVE  [OneShot!Next]_(OneShot!vars)
<1>1. CASE PolicyStep /\ UNCHANGED journalFile
  BY <1>1, OneShotStutters DEF PolicyStep, hostSide
<1>2. ASSUME NEW fp \in Fingerprints, JournalStep(fp, "PREPARED"),
             journalFile[fp] = Absent,
             \A f \in Fingerprints : journalFile[f] \notin Unresolved
      PROVE  OneShot!Next
  <2>1. StageMap' = [StageMap EXCEPT ![fp] = "reserved"] /\ tickets' = tickets
    BY <1>2, SavedStage, StageOfPhase
  <2>2. /\ StageMap[fp] = "idle"
        /\ \A f \in Fingerprints : StageMap[f] \notin {"armed", "lookup"}
    BY <1>2, StageInProgress, StageOfPhase
  <2>3. OneShot!Reserve(fp)
    BY <2>1, <2>2 DEF OneShot!Reserve, OneShot!InProgress, OneShot!Enter, StageMap
  <2> QED
    BY <2>3 DEF OneShot!Next
<1> QED
  BY <1>1, <1>2, PreviewSteps

LEMMA ConfirmIsArm ==
    ASSUME CoreInv, NEW fp \in Fingerprints, NEW s \in Snapshots, Confirm(fp, s)
    PROVE  OneShot!Next
<1>1. StageMap' = [StageMap EXCEPT ![fp] = "armed"] /\ tickets' = tickets
  BY ConfirmSteps, SavedStage, StageOfPhase
<1>2. /\ StageMap[fp] = "reserved"
      /\ \A f \in Fingerprints : StageMap[f] \notin {"armed", "lookup"}
  BY ConfirmSteps, StageInProgress, StageOfPhase
<1>3. OneShot!Arm(fp)
  BY <1>1, <1>2 DEF OneShot!Arm, OneShot!InProgress, OneShot!Enter, StageMap
<1> QED
  BY <1>3 DEF OneShot!Next

LEMMA TicketIsSend ==
    ASSUME CoreInv, NEW fp \in Fingerprints, WriteTicket(fp)
    PROVE  OneShot!Next
<1>1. /\ fp \notin tickets /\ tickets' = tickets \cup {fp}
      /\ journalFile' = journalFile /\ journalFile[fp] = "SUBMITTING"
  BY DEF WriteTicket, AtJob, journalSide, CoreInv, JobInHand
<1>2. StageMap[fp] = "armed" /\ StageMap' = StageMap
  BY <1>1, StageInProgress, StageOfPhase DEF StageMap
<1>3. OneShot!Send(fp)
  BY <1>1, <1>2 DEF OneShot!Send, StageMap
<1> QED
  BY <1>3 DEF OneShot!Next

LEMMA UnknownIsLookUp ==
    ASSUME CoreInv, NEW fp \in Fingerprints, MarkUnknown(fp) \/ MarkUnknownFails(fp),
           UNCHANGED <<sessionSide, hostSide>>
    PROVE  [OneShot!Next]_(OneShot!vars)
<1>1. CASE JournalStep(fp, journalFile[fp])
  BY <1>1, SameStage, StageInProgress
<1>2. CASE journalFile[fp] \in Unresolved /\ JournalStep(fp, "UNKNOWN")
  <2>1. StageOf("UNKNOWN") = "lookup" /\ StageMap[fp] \in {"armed", "lookup"}
    BY <1>2, StageOfPhase, StageInProgress
  <2>2. CASE StageMap[fp] = "lookup"
    BY <1>2, <2>1, <2>2, SameStage
  <2>3. CASE StageMap[fp] = "armed"
    <3>1. StageMap' = [StageMap EXCEPT ![fp] = "lookup"] /\ tickets' = tickets
      BY <1>2, <2>1, SavedStage
    <3>2. OneShot!LookUp(fp)
      BY <2>3, <3>1 DEF OneShot!LookUp, OneShot!Enter, StageMap
    <3> QED
      BY <3>2 DEF OneShot!Next
  <2> QED
    BY <2>1, <2>2, <2>3
<1> QED
  BY <1>1, <1>2, UnknownSteps

LEMMA AcceptIsClose ==
    ASSUME CoreInv, NEW fp \in Fingerprints, AcceptReceipt(fp)
    PROVE  [OneShot!Next]_(OneShot!vars)
<1>1. PICK p \in Terminal :
        JournalStep(fp, p) /\ (journalFile[fp] = p \/ journalFile[fp] \in Unresolved)
  BY AcceptSteps
<1>2. fp \in tickets
  BY MemoryKnown DEF AcceptReceipt, AtJob, CoreInv, JobInHand
<1>3. StageOf(p) = "closed"
  BY StageOfPhase
<1>4. CASE journalFile[fp] = p
  BY <1>1, <1>4, SameStage, StageInProgress
<1>5. CASE journalFile[fp] \in Unresolved
  <2>1. StageMap' = [StageMap EXCEPT ![fp] = "closed"] /\ tickets' = tickets
    BY <1>1, <1>3, SavedStage
  <2>2. StageMap[fp] \in {"armed", "lookup"}
    BY <1>5, StageInProgress
  <2>3. OneShot!Close(fp)
    BY <1>2, <2>1, <2>2 DEF OneShot!Close, OneShot!InProgress, OneShot!Enter, StageMap
  <2> QED
    BY <2>3 DEF OneShot!Next
<1> QED
  BY <1>1, <1>4, <1>5

(* Every step of the handoff is a step of the one-shot order, or leaves it  *)
(* as it was.                                                               *)
LEMMA NextOneShot ==
    ASSUME CoreInv, [Next]_vars
    PROVE  [OneShot!Next]_(OneShot!vars)
<1>1. ASSUME NEW fp \in Fingerprints, GiveUp(fp) \/ ImportUnknown(fp)
      PROVE  [OneShot!Next]_(OneShot!vars)
  <2>1. /\ MarkUnknown(fp) \/ MarkUnknownFails(fp)
        /\ UNCHANGED <<sessionSide, hostSide>>
    BY <1>1 DEF GiveUp, ImportUnknown
  <2> QED
    BY <2>1, UnknownIsLookUp
<1>2. ASSUME NEW fp \in Fingerprints, NEW s \in Snapshots,
             RefuseConfirmation(fp, s) \/ TellOutcome(fp, s) \/ OutcomeRefused(fp, s)
      PROVE  UNCHANGED <<journalFile, tickets>>
  BY <1>2 DEF RefuseConfirmation, ConfirmationRefused, TellOutcome, OutcomeRefused,
              journalSide, hostSide
<1>3. ASSUME NEW fp \in Fingerprints,
             \/ TellSession(fp) \/ SessionRefuses(fp) \/ TicketFails(fp)
             \/ RecordTicket(fp) \/ Recover(fp) \/ TellUnknown(fp) \/ SyncFills(fp)
             \/ ReceiptNotSaved(fp) \/ HostSubmits(fp) \/ MoveExchange(fp)
      PROVE  UNCHANGED <<journalFile, tickets>>
  BY <1>3 DEF TellSession, SessionRefuses, TicketFails, RecordTicket, Recover,
              TellUnknown, SyncFills, ReceiptNotSaved, HostSubmits, MoveExchange,
              journalSide, hostSide
<1>4. ASSUME SessionStep \/ Enter \/ Exit \/ Crash \/ NextDay \/ UNCHANGED vars
      PROVE  UNCHANGED <<journalFile, tickets>>
  BY <1>4 DEF SessionStep, Enter, Exit, Crash, NextDay, OpenExecutor, DropExecutor,
              LoadJournal, DropJournal, journalSide, hostSide, vars
<1> QED
  BY <1>1, <1>2, <1>3, <1>4, OneShotStutters, PreviewIsReserve, ConfirmIsArm,
     TicketIsSend, AcceptIsClose DEF Next

(* The journal, the session, the ticket files and the receipts implement    *)
(* the one-shot order: a ticket is written while its order is armed, alone, *)
(* at most once, and an order is closed only after that.                    *)
THEOREM HandoffIsOneShot == Spec => ImplementsOneShot
BY InitOneShot, NextOneShot, CoreAlways, PTL
   DEF Spec, ImplementsOneShot, OneShot!Spec

(* The abstract order keeps its promises; of the handoff only the stages    *)
(* and the tickets are looked at.                                           *)
LEMMA OneShotPromises ==
    ASSUME OneShot!OneInProgress, OneShot!ClosedWasSent,
           [OneShot!Next]_(OneShot!vars)
    PROVE  OneShot!OneInProgress' /\ OneShot!ClosedWasSent'
<1> DEFINE st == StageMap
           next == StageMap'
<1>1. /\ DOMAIN st = Fingerprints /\ next = StageMap'
      /\ \A f, g \in Fingerprints :
           st[f] \in {"armed", "lookup"} /\ st[g] \in {"armed", "lookup"} => f = g
      /\ \A f \in Fingerprints : st[f] = "closed" => f \in tickets
  BY DEF OneShot!OneInProgress, OneShot!InProgress, OneShot!ClosedWasSent, StageMap
<1>2. SUFFICES
        /\ \A f, g \in Fingerprints :
             next[f] \in {"armed", "lookup"} /\ next[g] \in {"armed", "lookup"} => f = g
        /\ \A f \in Fingerprints : next[f] = "closed" => f \in tickets'
  BY DEF OneShot!OneInProgress, OneShot!InProgress, OneShot!ClosedWasSent, StageMap
<1>3. \/ next = st /\ tickets \subseteq tickets'
      \/ \E o \in Fingerprints :
           /\ tickets' = tickets
           /\ \/ next = [st EXCEPT ![o] = "reserved"]
              \/ /\ next = [st EXCEPT ![o] = "armed"]
                 /\ \A f \in Fingerprints : st[f] \notin {"armed", "lookup"}
              \/ next = [st EXCEPT ![o] = "lookup"] /\ st[o] = "armed"
              \/ next = [st EXCEPT ![o] = "closed"] /\ o \in tickets
  BY DEF OneShot!Next, OneShot!vars, OneShot!Reserve, OneShot!Arm, OneShot!Send,
         OneShot!LookUp, OneShot!Close, OneShot!Enter, OneShot!InProgress, StageMap
<1> HIDE DEF st, next
<1> QED
  BY <1>1, <1>3

(* Of all orders of the handoff one at most is unresolved in the journal,   *)
(* on whatever day and for whatever event, and a journal that has closed an *)
(* order had a ticket for it: the promises of the one-shot order, by the    *)
(* refinement.                                                              *)
THEOREM OneHandoffInProgress ==
    Spec => [](OneShot!OneInProgress /\ OneShot!ClosedWasSent)
<1>1. OneShot!Init => OneShot!OneInProgress /\ OneShot!ClosedWasSent
  BY DEF OneShot!Init, OneShot!OneInProgress, OneShot!InProgress, OneShot!ClosedWasSent
<1> QED
  BY <1>1, OneShotPromises, HandoffIsOneShot, PTL DEF ImplementsOneShot, OneShot!Spec
=============================================================================
