----------------------- MODULE CandidateSessionProofs -----------------------
(***************************************************************************)
(* Theorems of CandidateSession, for all signals and accounts.  A session   *)
(* keeps two copies of its state, the memory and the file; every save makes *)
(* the second the first, so that the work is to show that each method       *)
(* leaves a memory that may be saved (Move), whether or not it is.          *)
(***************************************************************************)
EXTENDS CandidateSession, FiniteSetTheorems, TLAPS

Memory == Image(phase, pending, processed, latch)

(* Without a coordinator a candidate is reserved or ready and has no ticket. *)
Candidates ==
    {NoPending} \cup [status : {"RESERVING", "READY"}, signal : Signals, ticket : {{}}]

Copies ==
    [phase : SessionPhases \cup {"NO_FILE"}, pending : Candidates,
     processed : SUBSET Signals, latch : PauseReasons]

(* What both copies satisfy, and why _load takes them. *)
Orderly(f) ==
    /\ f.phase \in PendingPhases => f.pending # NoPending
    /\ f.pending # NoPending => f.phase \in PendingPhases \cup {"RECOVERY_ONLY"}
    /\ f.phase = "BUY_PAUSED" => f.latch # NoPause
    /\ f.phase = "RUNNING" => f.latch = NoPause
    /\ f.pending.status = "READY" => f.pending.signal \in f.processed
    /\ f.phase = "NO_FILE" => f = NoFile

Remembers(f) == \A sig \in plans : sig \in f.processed \/ f.pending.signal = sig

Stops == {"STOPPING", "STOPPED"}

(* A session that is within a method has saved what it knows so far. *)
WithinMethod ==
    /\ up
    /\ file = Memory
    /\ step = "starting" => phase = "STARTING"
    /\ step \in {"reserving", "planned"} =>
         phase = "WAITING_CONFIRMATION" /\ pending.status = "RESERVING"

SInv ==
    /\ up \in BOOLEAN
    /\ step \in {"idle", "starting", "reserving", "planned"}
    /\ plans \subseteq Signals
    /\ phase \in SessionPhases
    /\ Memory \in Copies /\ Orderly(Memory)
    /\ file \in Copies /\ Orderly(file)
    /\ Remembers(file)
    /\ up => Remembers(Memory)
    /\ up /\ file.phase \in Stops => phase \in Stops \cup {"STARTING"}
    /\ step # "idle" => WithinMethod

LEMMA MemoryFields ==
    /\ Memory.phase = phase /\ Memory.pending = pending
    /\ Memory.processed = processed /\ Memory.latch = latch
    /\ Memory \in Copies =>
         /\ pending \in Candidates /\ processed \subseteq Signals
         /\ latch \in PauseReasons
BY DEF Memory, Image, Copies

LEMMA PendingFields ==
    ASSUME NEW p \in Candidates
    PROVE  /\ p.ticket = {}
           /\ p.status \in {"NONE", "RESERVING", "READY"}
           /\ p.status = "NONE" <=> p = NoPending
           /\ p # NoPending => p.signal \in Signals
           /\ p \in Pendings
           /\ NoPending.signal = NoSignal
BY DEF Candidates, NoPending, Pendings, PendingStatuses

(* What a snapshot does to the latch. *)
LEMMA ObservedLatch ==
    ASSUME latch \in PauseReasons, NEW s \in Snapshots, ObserveRisk(s)
    PROVE  /\ latch' \in PauseReasons
           /\ latch # NoPause => latch' = latch
BY SnapshotsAssumption
   DEF ObserveRisk, ObserveBuyRisk, FirstRisk, PauseReasons, RiskReasons, NoPause

LEMMA NoFileFields ==
    /\ NoFile \in Copies
    /\ NoFile.phase = "NO_FILE" /\ NoFile.pending = NoPending
    /\ NoFile.processed = {} /\ NoFile.latch = NoPause
    /\ NoPending \in Candidates /\ NoPending.status = "NONE"
BY DEF NoFile, Image, Copies, Candidates, NoPending, PauseReasons

LEMMA InitSInv == Init => SInv
<1> SUFFICES ASSUME Init PROVE SInv
  OBVIOUS
<1>1. Memory \in Copies
  BY NoFileFields DEF Init, SessionInit, Memory, Image, Copies, SessionPhases, PauseReasons
<1>2. Orderly(Memory)
  BY NoFileFields, MemoryFields
     DEF Init, SessionInit, Orderly, PendingPhases
<1>3. file \in Copies /\ Orderly(file) /\ Remembers(file)
  BY NoFileFields DEF Init, SessionInit, Orderly, Remembers, PendingPhases
<1> QED
  BY <1>1, <1>2, <1>3 DEF Init, SessionInit, SInv, SessionPhases

-----------------------------------------------------------------------------
(* A method of a running session: it leaves a memory that may be saved, and *)
(* saves it or not.                                                         *)
Move ==
    /\ up /\ up'
    /\ phase' \in SessionPhases
    /\ Memory' \in Copies /\ Orderly(Memory')
    /\ Remembers(Memory')
    /\ plans' = plans
    /\ file.phase \in Stops => phase' \in Stops \cup {"STARTING"}
    /\ file' = file \/ file' = Memory'
    /\ \/ step' = "idle"
       \/ step' = "starting" /\ phase' = "STARTING" /\ file' = Memory'
       \/ /\ step' = "reserving" /\ phase' = "WAITING_CONFIRMATION"
          /\ pending'.status = "RESERVING" /\ file' = Memory'

LEMMA MoveSInv == ASSUME SInv, Move PROVE SInv'
<1>1. Memory'.phase = phase'
  BY DEF Memory, Image
<1>2. file' \in Copies /\ Orderly(file') /\ Remembers(file')
  BY DEF SInv, Move, Remembers
<1>3. Remembers(file)' /\ Remembers(Memory)'
  BY <1>2 DEF Move, Remembers
<1>4. file'.phase \in Stops => phase' \in Stops \cup {"STARTING"}
  BY <1>1 DEF Move
<1>5. step' # "idle" => WithinMethod'
  BY DEF Move, WithinMethod
<1>6. (Memory \in Copies)' /\ Orderly(Memory)' /\ Orderly(file)'
  BY <1>2 DEF Move, Orderly
<1>. QED  BY <1>2, <1>3, <1>4, <1>5, <1>6 DEF SInv, Move

(* What the methods may use. *)
LEMMA MemoryKnown ==
    ASSUME SInv
    PROVE  /\ phase \in SessionPhases /\ pending \in Candidates
           /\ processed \subseteq Signals /\ latch \in PauseReasons
           /\ phase \in PendingPhases => pending # NoPending
           /\ pending # NoPending => phase \in PendingPhases \cup {"RECOVERY_ONLY"}
           /\ phase = "BUY_PAUSED" => latch # NoPause
           /\ phase = "RUNNING" => latch = NoPause
           /\ pending.status = "READY" => pending.signal \in processed
           /\ up => \A sig \in plans : sig \in processed \/ pending.signal = sig
           /\ up /\ file.phase \in Stops => phase \in Stops \cup {"STARTING"}
BY MemoryFields DEF SInv, Orderly, Remembers

(* A memory that may be saved, said of its variables. *)
LEMMA MoveFromFields ==
    ASSUME up, up', plans' = plans,
           phase' \in SessionPhases, pending' \in Candidates,
           processed' \subseteq Signals, latch' \in PauseReasons,
           phase' \in PendingPhases => pending' # NoPending,
           pending' # NoPending => phase' \in PendingPhases \cup {"RECOVERY_ONLY"},
           phase' = "BUY_PAUSED" => latch' # NoPause,
           phase' = "RUNNING" => latch' = NoPause,
           pending'.status = "READY" => pending'.signal \in processed',
           \A sig \in plans : sig \in processed' \/ pending'.signal = sig,
           file.phase \in Stops => phase' \in Stops \cup {"STARTING"},
           TryPersist,
           \/ step' = "idle"
           \/ step' = "starting" /\ phase' = "STARTING" /\ Persist
           \/ /\ step' = "reserving" /\ phase' = "WAITING_CONFIRMATION"
              /\ pending'.status = "RESERVING" /\ Persist
    PROVE  Move
<1>1. /\ Memory'.phase = phase' /\ Memory'.pending = pending'
      /\ Memory'.processed = processed' /\ Memory'.latch = latch'
  BY DEF Memory, Image
<1>2. Memory' \in Copies
  BY DEF Memory, Image, Copies
<1>3. Orderly(Memory')
  BY <1>1 DEF Orderly, SessionPhases
<1>4. Remembers(Memory')
  BY <1>1 DEF Remembers
<1>5. /\ Persist => file' = Memory'
      /\ file' = file \/ file' = Memory'
  BY DEF TryPersist, Persist, PersistFails, Memory, Image
<1> QED
  BY <1>2, <1>3, <1>4, <1>5 DEF Move

LEMMA StartMove == ASSUME SInv, Start PROVE Move
BY MemoryKnown, MoveFromFields
   DEF Start, SessionAt, SessionPhases, PendingPhases, TryPersist, Stops

(* Within a method the file is the memory. *)
LEMMA WithinKnown ==
    ASSUME SInv, step # "idle"
    PROVE  /\ file.phase = phase /\ file.phase \notin Stops
           /\ step = "starting" => phase = "STARTING" /\ pending = NoPending
           /\ step # "starting" =>
                /\ phase = "WAITING_CONFIRMATION" /\ pending.status = "RESERVING"
                /\ pending.signal \in Signals
<1>1. WithinMethod /\ step \in {"starting", "reserving", "planned"}
  BY DEF SInv
<1> QED
  BY <1>1, MemoryFields, MemoryKnown, PendingFields
     DEF WithinMethod, Stops, PendingPhases, NoPending

LEMMA FinishStartMove ==
    ASSUME SInv, NEW s \in Snapshots, FinishStart(s) PROVE Move
<1>1. latch' \in PauseReasons
  BY MemoryKnown, ObservedLatch DEF FinishStart, Observe
<1>2. /\ phase' \in Accepting
      /\ phase' = "RUNNING" <=> latch' = NoPause
  BY DEF FinishStart, AcceptingPhase, Accepting
<1> QED
  BY <1>1, <1>2, MemoryKnown, WithinKnown, MoveFromFields
     DEF FinishStart, SessionAt, SessionPhases, PendingPhases, Accepting, TryPersist, Stops

LEMMA StartFailsMove ==
    ASSUME SInv, NEW s \in Snapshots, StartFails(s) PROVE Move
<1>1. latch' \in PauseReasons
  BY MemoryKnown, ObservedLatch DEF StartFails
<1> QED
  BY <1>1, MemoryKnown, WithinKnown, MoveFromFields
     DEF StartFails, SessionAt, SessionPhases, PendingPhases, Stops

(* What an observed signal leaves when it makes no candidate. *)
LEMMA ObservedMove ==
    ASSUME SInv, NEW sig \in Signals, NEW s \in Snapshots,
           CandidateAccepted(sig), Observe(s), phase' = ObservedPhase,
           processed' \in {processed, processed \cup {sig}}, pending' = pending,
           Stay, TryPersist
    PROVE  Move
<1>1. /\ latch' \in PauseReasons
      /\ latch # NoPause => latch' = latch
  BY MemoryKnown, ObservedLatch DEF Observe
<1>2. phase' \in Accepting
  BY DEF CandidateAccepted, ObservedPhase, Accepting
<1>3. /\ phase' = "BUY_PAUSED" => latch' # NoPause
      /\ phase' = "RUNNING" => latch' = NoPause
  BY <1>1, MemoryKnown DEF CandidateAccepted, ObservedPhase, Accepting
<1>4. pending = NoPending /\ file.phase \notin Stops
  BY MemoryKnown DEF CandidateAccepted, SessionAt, Accepting, PendingPhases, Stops
<1>5. /\ pending'.status = "READY" => pending'.signal \in processed'
      /\ \A x \in plans : x \in processed' \/ pending'.signal = x
  BY MemoryKnown DEF CandidateAccepted, SessionAt
<1> QED
  BY <1>1, <1>2, <1>3, <1>4, <1>5, MemoryKnown, MoveFromFields
     DEF CandidateAccepted, SessionAt, Stay, SessionPhases, PendingPhases, Accepting

LEMMA SkipSignalMove ==
    ASSUME SInv, NEW sig \in Signals, NEW s \in Snapshots, SkipSignal(sig, s)
    PROVE  Move
BY ObservedMove DEF SkipSignal, RecordProcessed, TryPersist

LEMMA BlockSignalMove ==
    ASSUME SInv, NEW sig \in Signals, NEW s \in Snapshots, BlockSignal(sig, s)
    PROVE  Move
BY ObservedMove DEF BlockSignal

LEMMA ReserveMove ==
    ASSUME SInv, NEW sig \in Signals, NEW s \in Snapshots, Reserve(sig, s)
    PROVE  Move
<1>1. latch' \in PauseReasons
  BY MemoryKnown, ObservedLatch DEF Reserve, Observe
<1>2. pending = NoPending /\ file.phase \notin Stops
  BY MemoryKnown DEF Reserve, CandidateAccepted, SessionAt, Accepting, PendingPhases, Stops
<1>3. /\ pending' \in Candidates /\ pending' # NoPending
      /\ pending'.status = "RESERVING"
  BY DEF Reserve, Reservation, Candidates, NoPending
<1>4. \A x \in plans : x \in processed'
  <2>1. NoPending.signal \notin Signals /\ plans \subseteq Signals
    BY SignalsAssumption DEF NoPending, SInv
  <2> QED
    BY <1>2, <2>1, MemoryKnown DEF Reserve, CandidateAccepted, SessionAt
<1> QED
  BY <1>1, <1>2, <1>3, <1>4, MemoryKnown, MoveFromFields
     DEF Reserve, CandidateAccepted, SessionAt, SessionPhases, PendingPhases, TryPersist

(* A reservation whose plan is written becomes a candidate. *)
LEMMA BecomesReady ==
    ASSUME SInv, step = "planned", RecordProcessed(pending.signal),
           pending' = [pending EXCEPT !.status = "READY"]
    PROVE  /\ pending' \in Candidates /\ pending' # NoPending
           /\ pending'.status = "READY"
           /\ pending'.signal = pending.signal
           /\ pending'.signal \in processed' /\ processed' \subseteq Signals
           /\ \A x \in plans : x \in processed' \/ pending'.signal = x
<1>1. pending \in [status : {"RESERVING"}, signal : Signals, ticket : {{}}]
  BY WithinKnown, MemoryKnown DEF Candidates, NoPending
<1>2. up
  BY DEF SInv, WithinMethod
<1> QED
  BY <1>1, <1>2, MemoryKnown DEF RecordProcessed, Candidates, NoPending

LEMMA MarkReadyMove == ASSUME SInv, MarkReady PROVE Move
BY BecomesReady, MemoryKnown, WithinKnown, MoveFromFields
   DEF MarkReady, SessionAt, TryPersist, PendingPhases

LEMMA CandidateFailsMove == ASSUME SInv, CandidateFails PROVE Move
<1>1. CASE SessionAt("reserving") /\ UNCHANGED <<pending, processed>>
  BY <1>1, MemoryKnown, WithinKnown, MoveFromFields
     DEF CandidateFails, SessionAt, SessionPhases, PendingPhases
<1>2. CASE /\ SessionAt("planned")
           /\ pending' = [pending EXCEPT !.status = "READY"]
           /\ RecordProcessed(pending.signal)
  BY <1>2, BecomesReady, MemoryKnown, WithinKnown, MoveFromFields
     DEF CandidateFails, SessionAt, SessionPhases, PendingPhases
<1> QED
  BY <1>1, <1>2 DEF CandidateFails

LEMMA DismissCandidateMove == ASSUME SInv, DismissCandidate PROVE Move
<1>1. /\ up /\ pending.status = "READY" /\ pending # NoPending
      /\ pending.signal \in processed
  BY MemoryKnown, NoFileFields DEF DismissCandidate, SessionAt
<1>2. /\ phase' \in Accepting \cup {"STOPPED"}
      /\ phase' = "BUY_PAUSED" => latch # NoPause
      /\ phase' = "RUNNING" => latch = NoPause
      /\ file.phase \in Stops => phase' = "STOPPED"
  BY <1>1, MemoryKnown
     DEF DismissCandidate, AcceptingPhase, Accepting, Stops, PendingPhases
<1>3. pending' = NoPending /\ NoPending \in Candidates /\ NoPending.status = "NONE"
  BY NoFileFields DEF DismissCandidate
<1>4. \A x \in plans : x \in processed
  BY <1>1, MemoryKnown
<1> QED
  BY <1>1, <1>2, <1>3, <1>4, MemoryKnown, MoveFromFields
     DEF DismissCandidate, SessionAt, Stay, Accepting, SessionPhases, PendingPhases, Stops

LEMMA ManualResumeMove ==
    ASSUME SInv, NEW s \in Snapshots, ManualResume(s) PROVE Move
BY MemoryKnown, MoveFromFields, NoFileFields
   DEF ManualResume, SessionAt, Stay, SessionPhases, PendingPhases, Stops, PauseReasons

LEMMA StopMove == ASSUME SInv, Stop PROVE Move
BY MemoryKnown, MoveFromFields
   DEF Stop, SessionAt, Stay, SessionPhases, PendingPhases, Stops
-----------------------------------------------------------------------------
(* The steps that are no method of a running session. *)

LEMMA WritePlanSInv == ASSUME SInv, WritePlan PROVE SInv'
<1>1. WithinMethod /\ pending.signal \in Signals
  BY WithinKnown DEF WritePlan, SessionAt, SInv
<1>2. Memory' = Memory /\ file' = file
  BY DEF WritePlan, memoryVars, Memory, Image
<1>3. Remembers(file)' /\ Remembers(Memory)'
  BY <1>1, <1>2, MemoryFields DEF SInv, WritePlan, Remembers, WithinMethod
<1>4. plans' \subseteq Signals /\ WithinMethod'
  BY <1>1, <1>2 DEF SInv, WritePlan, WithinMethod, memoryVars, SessionAt
<1>5. up /\ up' = up /\ phase' = phase /\ step' = "planned"
  BY DEF WritePlan, SessionAt, memoryVars
<1>6. (Memory \in Copies)' /\ Orderly(Memory)' /\ (file \in Copies)' /\ Orderly(file)'
  BY <1>2 DEF SInv, Orderly
<1> QED
  BY <1>3, <1>4, <1>5, <1>6, <1>2 DEF SInv

(* What a new process holds is what the file says, but for the phase. *)
LEMMA OpenedFields ==
    ASSUME SInv, OpenSession
    PROVE  /\ phase' \in SessionPhases
           /\ Memory'.phase = phase' /\ Memory'.pending = file.pending
           /\ Memory'.processed = file.processed /\ Memory'.latch = file.latch
           /\ \/ phase' = file.phase \/ phase' = "RECOVERY_ONLY"
              \/ phase' = "STOPPED" /\ file = NoFile
           /\ file' = file \/ file' = Memory'
           /\ Interrupted(file) => phase' = "RECOVERY_ONLY"
<1>1. file.phase \in SessionPhases \/ file = NoFile
  BY DEF SInv, Copies, Orderly
<1>2. file = NoFile => ~Interrupted(file)
  BY NoFileFields DEF Interrupted
<1>3. /\ Memory'.phase = phase' /\ Memory'.pending = file.pending
      /\ Memory'.processed = file.processed /\ Memory'.latch = file.latch
  BY DEF OpenSession, Memory, Image
<1>4. phase' = CASE file = NoFile      -> "STOPPED"
                 [] Interrupted(file)  -> "RECOVERY_ONLY"
                 [] OTHER              -> file.phase
  BY DEF OpenSession
<1>5. file' = file \/ file' = Memory'
  BY DEF OpenSession, Memory, Image, Persist
<1>6. /\ phase' \in SessionPhases
      /\ \/ phase' = file.phase \/ phase' = "RECOVERY_ONLY"
         \/ phase' = "STOPPED" /\ file = NoFile
      /\ Interrupted(file) => phase' = "RECOVERY_ONLY"
  <2>1. "STOPPED" \in SessionPhases /\ "RECOVERY_ONLY" \in SessionPhases
    BY DEF SessionPhases
  <2> QED
    BY <1>1, <1>2, <1>4, <2>1
<1> QED
  BY <1>3, <1>5, <1>6

LEMMA OpenSessionSInv == ASSUME SInv, OpenSession PROVE SInv'
<1> DEFINE m == Memory'
<1>1. Memory' \in Copies
  <2>1. /\ file.pending \in Candidates /\ file.processed \subseteq Signals
        /\ file.latch \in PauseReasons
    BY DEF SInv, Copies
  <2> QED
    BY <2>1, OpenedFields DEF OpenSession, Memory, Image, Copies
<1>2. Orderly(Memory')
  BY OpenedFields, NoFileFields DEF SInv, Orderly, PendingPhases, SessionPhases
<1>3. Remembers(Memory')
  BY OpenedFields DEF SInv, Remembers
<1>4. file' \in Copies /\ Orderly(file') /\ Remembers(file')
  BY <1>1, <1>2, <1>3, OpenedFields DEF SInv
<1>5. file'.phase \in Stops => phase' \in Stops
  BY OpenedFields, NoFileFields DEF OpenSession, Stops, Persist, Image
<1>6. up' /\ step' = "idle" /\ plans' = plans
  BY DEF OpenSession, SInv, WithinMethod
<1>7. Remembers(file)' /\ Remembers(Memory)'
  BY <1>3, <1>4, <1>6 DEF Remembers
<1>8. (Memory \in Copies)' /\ Orderly(Memory)' /\ (file \in Copies)' /\ Orderly(file)'
  BY <1>1, <1>2, <1>4 DEF Orderly
<1> QED
  BY <1>5, <1>6, <1>7, <1>8, OpenedFields DEF SInv

LEMMA LoseSessionSInv == ASSUME SInv, LoseSession PROVE SInv'
<1>1. /\ Memory'.phase = "STOPPED" /\ Memory'.pending = NoPending
      /\ Memory'.processed = {} /\ Memory'.latch = latch
  BY DEF LoseSession, Memory, Image
<1>2. Memory' \in Copies /\ Orderly(Memory')
  BY <1>1, NoFileFields, MemoryKnown
     DEF LoseSession, Memory, Image, Copies, Orderly, SessionPhases, PendingPhases
<1>3. (Memory \in Copies)' /\ Orderly(Memory)'
  BY <1>2 DEF Orderly
<1>4. /\ up' = FALSE /\ step' = "idle" /\ phase' = "STOPPED" /\ phase' \in SessionPhases
      /\ file' = file /\ plans' = plans
  BY DEF LoseSession, SessionPhases
<1>5. (file \in Copies)' /\ Orderly(file)' /\ Remembers(file)'
  BY <1>4 DEF SInv, Orderly, Remembers
<1> QED
  BY <1>3, <1>4, <1>5 DEF SInv

LEMMA StutterSInv ==
    ASSUME SInv, UNCHANGED <<up, memoryVars, file, step, plans>> PROVE SInv'
<1>1. /\ Memory' = Memory /\ file' = file /\ plans' = plans /\ up' = up
      /\ phase' = phase /\ step' = step /\ pending' = pending
  BY DEF memoryVars, Memory, Image
<1>2. Remembers(file)' <=> Remembers(file)
  BY <1>1 DEF Remembers
<1>3. Remembers(Memory)' <=> Remembers(Memory)
  BY <1>1 DEF Remembers
<1>4. (Orderly(file)' <=> Orderly(file)) /\ (Orderly(Memory)' <=> Orderly(Memory))
  BY <1>1 DEF Orderly
<1>5. WithinMethod' <=> WithinMethod
  BY <1>1 DEF WithinMethod
<1>6. (Memory \in Copies)' /\ (file \in Copies)'
  BY <1>1 DEF SInv
<1>7. Orderly(Memory)' /\ Orderly(file)' /\ Remembers(file)' /\ (up => Remembers(Memory))'
  BY <1>1, <1>2, <1>3, <1>4 DEF SInv
<1>8. (step # "idle" => WithinMethod)'
  BY <1>1, <1>5 DEF SInv
<1>9. (up /\ file.phase \in Stops => phase \in Stops \cup {"STARTING"})'
  BY <1>1 DEF SInv
<1> QED
  BY <1>1, <1>6, <1>7, <1>8, <1>9 DEF SInv

(* The methods of a running session. *)
LEMMA MethodMove ==
    ASSUME SInv, Next
    PROVE  Move \/ OpenSession \/ LoseSession \/ WritePlan \/ ClockMoves
BY StartMove, MarkReadyMove, CandidateFailsMove, DismissCandidateMove, StopMove,
   FinishStartMove, StartFailsMove, ManualResumeMove,
   SkipSignalMove, BlockSignalMove, ReserveMove
   DEF Next

LEMMA NextSInv == ASSUME SInv, [Next]_sessionVars PROVE SInv'
<1>1. CASE UNCHANGED sessionVars \/ ClockMoves
  BY <1>1, StutterSInv DEF sessionVars, ClockMoves
<1> QED
  BY <1>1, MethodMove, MoveSInv, OpenSessionSInv, LoseSessionSInv, WritePlanSInv

LEMMA SInvAlways == Spec => []SInv
BY InitSInv, NextSInv, PTL DEF Spec
-----------------------------------------------------------------------------
(* The times of the session.  What a mutation notes: the time of the call,  *)
(* with the first start, and the reservation for as long as there is one.   *)

LEMMA StampKeepsTimes ==
    ASSUME TimesAgree, up, NEW c, NEW r, Stamp(c, r), TryPersist, c # 0,
           c = times.created \/ (c = clock /\ times.created = 0),
           r \in 0..MaxTime,
           pending' # NoPending =>
             r = clock \/ (r = times.reserved /\ pending # NoPending)
    PROVE  TimesAgree'
<1>1. /\ times' = [created |-> c, updated |-> clock, reserved |-> r]
      /\ clock' = clock /\ setBack' = setBack
  BY DEF Stamp
<1>2. /\ clock \in 1..MaxTime /\ times \in Times /\ fileTimes \in Times
      /\ setBack \in BOOLEAN
  BY DEF TimesAgree, TimeTypeOK
<1>3. c \in 0..MaxTime /\ times' \in Times
  BY <1>1, <1>2, MaxTimeAssumption DEF Times
<1>4. ~setBack => clock <= clock /\ InOrder(pending', times')
  <2> SUFFICES ASSUME ~setBack PROVE c <= clock /\ (pending' # NoPending => c <= r /\ r <= clock)
    BY <1>1, <1>2 DEF InOrder
  <2>1. /\ times.updated <= clock /\ times.created <= times.updated
        /\ pending # NoPending =>
             times.created <= times.reserved /\ times.reserved <= times.updated
    BY DEF TimesAgree, InOrder
  <2>2. pending # NoPending => times.created # 0
    BY DEF TimesAgree
  <2> QED
    BY <1>2, <2>1, <2>2, MaxTimeAssumption DEF Times
<1>5. \/ file' = file /\ fileTimes' = fileTimes
      \/ file'.pending = pending' /\ fileTimes' = times'
  BY DEF TryPersist, Persist, PersistFails, Image
<1>6. TimeTypeOK'
  BY <1>1, <1>2, <1>3, <1>5 DEF TimeTypeOK
<1>7. (file # NoFile => fileTimes.created # 0)'
  BY <1>1, <1>5 DEF TimesAgree, NoFile
<1>8. ~setBack => /\ times'.updated <= clock /\ InOrder(pending', times')
                  /\ fileTimes'.updated <= clock /\ InOrder(file'.pending, fileTimes')
  BY <1>1, <1>4, <1>5 DEF TimesAgree
<1>9. (~setBack => /\ times.updated <= clock /\ InOrder(pending, times)
                   /\ fileTimes.updated <= clock /\ InOrder(file.pending, fileTimes))'
  BY <1>1, <1>8 DEF InOrder
<1> QED
  BY <1>1, <1>6, <1>7, <1>9 DEF TimesAgree

LEMMA TouchKeepsTimes ==
    ASSUME TimesAgree, up, Touch, TryPersist,
           phase # "STOPPED" \/ pending # NoPending \/ times.created # 0,
           pending' # NoPending => pending # NoPending
    PROVE  TimesAgree'
<1> DEFINE r == IF pending' = NoPending THEN 0 ELSE times.reserved
<1>1. Stamp(times.created, r) /\ times.created # 0
  BY DEF Touch, TimesAgree
<1>2. r \in 0..MaxTime
  BY MaxTimeAssumption DEF TimesAgree, TimeTypeOK, Times
<1> QED
  BY <1>1, <1>2, StampKeepsTimes

(* A step that saves nothing and makes no candidate and no phase.           *)
LEMMA KeptTimes ==
    ASSUME TimesAgree, UNCHANGED <<times, fileTimes, clock, setBack, file>>,
           pending' # NoPending => pending # NoPending,
           up' => up \/ (phase' = "STOPPED" /\ pending' = NoPending),
           phase' # "STOPPED" => phase # "STOPPED" \/ times.created # 0
    PROVE  TimesAgree'
<1>1. TimeTypeOK' /\ (file # NoFile => fileTimes.created # 0)'
  BY DEF TimesAgree, TimeTypeOK, NoFile
<1>2. (up /\ (phase # "STOPPED" \/ pending # NoPending) => times.created # 0)'
  BY DEF TimesAgree
<1>3. (~setBack => /\ times.updated <= clock /\ InOrder(pending, times)
                   /\ fileTimes.updated <= clock /\ InOrder(file.pending, fileTimes))'
  BY DEF TimesAgree, InOrder
<1> QED
  BY <1>1, <1>2, <1>3 DEF TimesAgree

LEMMA StartTimes == ASSUME TimesAgree, Start PROVE TimesAgree'
<1> DEFINE c == IF times.created = 0 THEN clock ELSE times.created
<1>1. /\ up /\ pending' = pending /\ TryPersist /\ Stamp(c, times.reserved)
  BY DEF Start, SessionAt, TryPersist
<1>2. times.reserved \in 0..MaxTime /\ clock # 0
  BY MaxTimeAssumption DEF TimesAgree, TimeTypeOK, Times
<1> QED
  BY <1>1, <1>2, StampKeepsTimes

LEMMA ReserveTimes ==
    ASSUME TimesAgree, NEW sig, NEW s, Reserve(sig, s) PROVE TimesAgree'
<1>1. up /\ phase # "STOPPED" /\ TryPersist /\ Stamp(times.created, clock)
  BY DEF Reserve, CandidateAccepted, SessionAt, Accepting, TryPersist
<1>2. times.created # 0 /\ clock \in 0..MaxTime
  BY <1>1, MaxTimeAssumption DEF TimesAgree, TimeTypeOK
<1> QED
  BY <1>1, <1>2, StampKeepsTimes

LEMMA SignalTimes ==
    ASSUME TimesAgree, NEW sig, NEW s, SkipSignal(sig, s) \/ BlockSignal(sig, s)
    PROVE  TimesAgree'
<1>1. up /\ phase # "STOPPED" /\ pending' = pending /\ up' = up
  BY DEF SkipSignal, BlockSignal, CandidateAccepted, SessionAt, Accepting, Stay
<1>2. CASE Touch /\ TryPersist
  BY <1>1, <1>2, TouchKeepsTimes
<1>3. CASE PersistFails /\ UNCHANGED <<times, clock, setBack>>
  BY <1>1, <1>3, KeptTimes DEF PersistFails
<1> QED
  BY <1>2, <1>3 DEF SkipSignal, BlockSignal

(* The methods that change what there is: within one, the session was       *)
(* started, and a plan is written for the candidate that is reserved.       *)
LEMMA MutationTimes ==
    ASSUME TimesAgree,
           step # "idle" => phase # "STOPPED",
           step \in {"reserving", "planned"} => pending # NoPending,
           \/ MarkReady \/ CandidateFails \/ DismissCandidate \/ Stop
           \/ \E s \in Snapshots : FinishStart(s) \/ StartFails(s) \/ ManualResume(s)
    PROVE  TimesAgree'
<1>1. up /\ Touch /\ TryPersist
  BY DEF MarkReady, CandidateFails, DismissCandidate, Stop, FinishStart, StartFails,
         ManualResume, SessionAt, TryPersist
<1>2. phase # "STOPPED" \/ pending # NoPending
  BY DEF MarkReady, CandidateFails, DismissCandidate, Stop, FinishStart, StartFails,
         ManualResume, SessionAt, NoPending
<1>3. pending' # NoPending => pending # NoPending
  BY DEF MarkReady, CandidateFails, DismissCandidate, Stop, FinishStart, StartFails,
         ManualResume, SessionAt
<1> QED
  BY <1>1, <1>2, <1>3, TouchKeepsTimes

LEMMA ClockTimes == ASSUME TimesAgree, ClockMoves PROVE TimesAgree'
<1> USE DEF ClockMoves, memoryVars
<1>1. PICK t \in 1..MaxTime \ {clock} :
        clock' = t /\ setBack' = (setBack \/ t < clock)
  OBVIOUS
<1>2. TimeTypeOK'
  BY <1>1 DEF TimesAgree, TimeTypeOK
<1>3. ~setBack' => ~setBack /\ clock <= clock'
  <2>1. ~(t < clock) => clock <= t
    BY MaxTimeAssumption DEF TimesAgree, TimeTypeOK
  <2>2. setBack \in BOOLEAN
    BY DEF TimesAgree, TimeTypeOK
  <2> QED
    BY <1>1, <2>1, <2>2, Zenon
<1>4. (~setBack => /\ times.updated <= clock /\ InOrder(pending, times)
                   /\ fileTimes.updated <= clock /\ InOrder(file.pending, fileTimes))'
  <2>1. /\ times.updated \in Int /\ fileTimes.updated \in Int
        /\ clock \in Int /\ clock' \in Int
    BY <1>1, MaxTimeAssumption DEF TimesAgree, TimeTypeOK, Times
  <2> QED
    BY <1>3, <2>1 DEF TimesAgree, InOrder
<1> QED
  BY <1>2, <1>4 DEF TimesAgree, NoFile

(* A new process takes the times of the file, and a saved recovery keeps    *)
(* them.                                                                    *)
LEMMA OpenTimes == ASSUME TimesAgree, OpenSession PROVE TimesAgree'
<1>1. /\ times' = fileTimes /\ clock' = clock /\ setBack' = setBack
      /\ pending' = file.pending /\ fileTimes' = fileTimes
      /\ file' = file \/ (file'.pending = file.pending /\ Interrupted(file))
  BY DEF OpenSession, Persist, Image
<1>2. Interrupted(file) => file # NoFile
  BY NoFileFields DEF Interrupted, NoPending
<1>3. phase' # "STOPPED" \/ pending' # NoPending => fileTimes.created # 0
  <2>1. file = NoFile => phase' = "STOPPED" /\ pending' = NoPending
    BY <1>2, NoFileFields DEF OpenSession
  <2> QED
    BY <2>1 DEF TimesAgree
<1>4. TimeTypeOK'
  BY <1>1 DEF TimesAgree, TimeTypeOK
<1>5. (file # NoFile => fileTimes.created # 0)'
  BY <1>1, <1>2 DEF TimesAgree, NoFile
<1>6. (up /\ (phase # "STOPPED" \/ pending # NoPending) => times.created # 0)'
  BY <1>1, <1>3
<1>7. (~setBack => /\ times.updated <= clock /\ InOrder(pending, times)
                   /\ fileTimes.updated <= clock /\ InOrder(file.pending, fileTimes))'
  BY <1>1 DEF TimesAgree, InOrder
<1> QED
  BY <1>4, <1>5, <1>6, <1>7 DEF TimesAgree

LEMMA LostTimes == ASSUME TimesAgree, LoseSession PROVE TimesAgree'
<1> USE DEF LoseSession
<1>1. NoTimes \in Times /\ TimeTypeOK'
  BY MaxTimeAssumption DEF TimesAgree, TimeTypeOK, Times, NoTimes
<1>2. (~setBack => /\ times.updated <= clock /\ InOrder(pending, times)
                   /\ fileTimes.updated <= clock /\ InOrder(file.pending, fileTimes))'
  <2>1. NoTimes.updated = 0 /\ NoTimes.created = 0 /\ 0 <= 0 /\ 0 <= clock
    BY MaxTimeAssumption DEF NoTimes, TimesAgree, TimeTypeOK
  <2>2. InOrder(NoPending, NoTimes)
    BY <2>1 DEF InOrder
  <2>3. InOrder(pending, times)'
    BY <2>2 DEF InOrder
  <2>4. InOrder(file.pending, fileTimes)' <=> InOrder(file.pending, fileTimes)
    BY DEF InOrder
  <2> QED
    BY <2>1, <2>3, <2>4 DEF TimesAgree
<1> QED
  BY <1>1, <1>2 DEF TimesAgree, NoFile

LEMMA InitTimes == SessionInit => TimesAgree
<1> SUFFICES ASSUME SessionInit PROVE TimesAgree
  OBVIOUS
<1>1. NoTimes \in Times /\ NoTimes.created = 0 /\ NoTimes.updated = 0 /\ clock \in 1..MaxTime
  BY MaxTimeAssumption DEF Times, NoTimes, SessionInit
<1>2. TimeTypeOK
  BY <1>1 DEF TimeTypeOK, SessionInit
<1>3. InOrder(pending, times) /\ InOrder(file.pending, fileTimes)
  BY <1>1, NoFileFields DEF InOrder, SessionInit
<1>4. times.updated <= clock /\ fileTimes.updated <= clock
  BY <1>1, MaxTimeAssumption DEF SessionInit
<1> QED
  BY <1>2, <1>3, <1>4 DEF TimesAgree, SessionInit

LEMMA NextTimes == ASSUME SInv, TimesAgree, [Next]_sessionVars PROVE TimesAgree'
<1>1. CASE UNCHANGED sessionVars \/ WritePlan
  BY <1>1, KeptTimes DEF sessionVars, memoryVars, timeVars, WritePlan
<1>2. /\ step # "idle" => phase # "STOPPED"
      /\ step \in {"reserving", "planned"} => pending # NoPending
  BY WithinKnown DEF NoPending
<1> QED
  BY <1>1, <1>2, StartTimes, ReserveTimes, SignalTimes, MutationTimes, ClockTimes,
     OpenTimes, LostTimes DEF Next

(* The times of the session (created_at_ms, updated_at_ms and a candidate's *)
(* created_at_ms) are in order in both copies until the clock is set back.  *)
LEMMA TimesAlways == Spec => []TimesAgree
<1>1. Init => TimesAgree
  BY InitTimes DEF Init
<1> QED
  BY <1>1, NextTimes, SInvAlways, PTL DEF Spec
-----------------------------------------------------------------------------
(* The types of the session (McpTradingSession): in particular every        *)
(* pending record is one of a known signal, without a ticket as long as no  *)
(* coordinator confirms it.                                                 *)
THEOREM SessionTypeCorrect == Spec => [](SessionTypeOK /\ TimeTypeOK)
<1>1. SInv => SessionTypeOK
  <2> SUFFICES ASSUME SInv PROVE SessionTypeOK
    OBVIOUS
  <2>1. /\ file.phase \in SessionPhases \cup {"NO_FILE"} /\ file.pending \in Pendings
        /\ file.processed \in SUBSET Signals /\ file.latch \in PauseReasons
    BY PendingFields DEF SInv, Copies
  <2>2. pending \in Pendings
    BY MemoryKnown, PendingFields
  <2> QED
    BY <2>1, <2>2, MemoryKnown DEF SInv, SessionTypeOK
<1>2. TimesAgree => TimeTypeOK
  BY DEF TimesAgree
<1> QED
  BY <1>1, <1>2, SInvAlways, TimesAlways, PTL

(* Whatever limit, failed save or crash ends a method (_persist, _load), the *)
(* file it leaves is consistent, and while the clock has not been set back   *)
(* its times are in order too, so that _load takes it; as long as the        *)
(* strategy has no more events than the history may hold (max_signal_keys).  *)
(* Without that assumption the run candidates_history refutes it; a clock    *)
(* that was set back is the case FileAlwaysLoads excepts.                    *)
THEOREM FileLoads ==
    ASSUME IsFiniteSet(Signals), Cardinality(Signals) <= MaxKeys
    PROVE  Spec => []FileAlwaysLoads
<1>1. SInv => Consistent(file)
  <2> SUFFICES ASSUME SInv PROVE Consistent(file)
    OBVIOUS
  <2>1. Cardinality(file.processed) <= MaxKeys
    <3>1. file.processed \subseteq Signals
      BY DEF SInv, Copies
    <3>2. /\ IsFiniteSet(file.processed)
          /\ Cardinality(file.processed) <= Cardinality(Signals)
      BY <3>1, FS_Subset
    <3>3. Cardinality(file.processed) \in Nat /\ Cardinality(Signals) \in Nat
      BY <3>2, FS_CardinalityType
    <3> QED
      BY <3>2, <3>3, MaxKeysAssumption
  <2>2. file.pending.ticket = {} /\ file.pending.status \notin {"TICKET_READY", "UNKNOWN"}
    BY PendingFields DEF SInv, Copies
  <2> QED
    BY <2>1, <2>2 DEF SInv, Orderly, Consistent
<1>2. Consistent(file) /\ TimesAgree => FileAlwaysLoads
  BY DEF TimesAgree, Loadable, FileAlwaysLoads
<1> QED
  BY <1>1, <1>2, SInvAlways, TimesAlways, PTL

(* A signal whose plan file exists is remembered by the saved session, as    *)
(* the pending candidate or in the history (propose saves RESERVING before   *)
(* it writes the plan): no crash lets the same event be proposed twice.      *)
THEOREM PlannedSignalRemembered == Spec => []CandidateRemembered
<1>1. SInv => CandidateRemembered
  BY DEF SInv, Remembers, CandidateRemembered
<1> QED
  BY <1>1, SInvAlways, PTL

(* A saved stop is left only by a start, by a restart that finds an          *)
(* interrupted reservation, or by a failure: no late candidate, dismissal or *)
(* resumption (stop, dismiss_candidate, manual_resume) brings it back.       *)
THEOREM StopHolds == Spec => SavedStopHolds
<1> DEFINE Held == file.phase \in {"STOPPING", "STOPPED"} =>
                     file'.phase \in {"STOPPING", "STOPPED", "STARTING", "RECOVERY_ONLY"}
<1>1. ASSUME SInv, [Next]_sessionVars PROVE [Held]_sessionVars
  <2>1. CASE Move
    <3>1. Memory'.phase = phase'
      BY DEF Memory, Image
    <3> QED
      BY <2>1, <3>1 DEF Move, Stops
  <2>2. CASE OpenSession
    BY <1>1, <2>2, OpenedFields, NoFileFields
  <2>3. CASE LoseSession \/ WritePlan \/ ClockMoves
    BY <2>3 DEF LoseSession, WritePlan, ClockMoves
  <2>4. CASE UNCHANGED sessionVars
    BY <2>4
  <2> QED
    BY <1>1, <2>1, <2>2, <2>3, <2>4, MethodMove
<1> QED
  BY <1>1, SInvAlways, PTL DEF Spec, SavedStopHolds

(* A BUY latch that was saved and is in the memory ends in no other way than *)
(* manual_resume on a usable account under its limits: neither evidence that *)
(* looks better nor a restart (observe, _load) forgets it.                   *)
THEOREM LatchHolds == Spec => LatchEndsByResume
<1> DEFINE Ends == file.latch # NoPause /\ latch' = NoPause /\ latch # NoPause
           Resumed == \E s \in Snapshots : ManualResume(s) /\ CanResume(s)
<1>1. ASSUME SInv, [Next]_sessionVars PROVE [Ends => Resumed]_sessionVars
  <2> SUFFICES ASSUME Next, Ends PROVE Resumed
    BY <1>1
  <2>1. ASSUME NEW s \in Snapshots, ManualResume(s) PROVE Resumed
    BY <2>1 DEF ManualResume
  <2>2. ASSUME NEW s \in Snapshots, ObserveRisk(s) PROVE FALSE
    BY <1>1, <2>2, MemoryKnown, ObservedLatch
  <2>3. ASSUME latch' \in {latch, file.latch} PROVE FALSE
    BY <2>3
  <2>4. ASSUME NEW s \in Snapshots, FinishStart(s) \/ StartFails(s) PROVE FALSE
    BY <2>2, <2>3, <2>4 DEF FinishStart, StartFails, Observe
  <2>5. ASSUME NEW sig \in Signals, NEW s \in Snapshots,
               SkipSignal(sig, s) \/ BlockSignal(sig, s) \/ Reserve(sig, s)
        PROVE  FALSE
    BY <2>2, <2>5 DEF SkipSignal, BlockSignal, Reserve, Observe
  <2>6. ASSUME \/ OpenSession \/ LoseSession \/ Start \/ WritePlan \/ MarkReady
               \/ CandidateFails \/ DismissCandidate \/ Stop \/ ClockMoves
        PROVE  FALSE
    BY <2>3, <2>6
       DEF OpenSession, LoseSession, Start, WritePlan, memoryVars, MarkReady,
           CandidateFails, DismissCandidate, Stop, ClockMoves
  <2> QED
    BY <2>1, <2>4, <2>5, <2>6 DEF Next
<1> QED
  BY <1>1, SInvAlways, PTL DEF Spec, LatchEndsByResume
=============================================================================
