------------------------ MODULE DesktopOrdersProofs ------------------------
(***************************************************************************)
(* That the windows which share the journals, tickets and ledger keep one   *)
(* order per plan and save fills first, for all plans, days and windows.    *)
(* A step of a window changes the record of at most one order, and the lock *)
(* keeps the sessions of the other windows off that order's plan.           *)
(***************************************************************************)
EXTENDS DesktopOrders, TLAPS

LEMMA Identity ==
    ASSUME NEW fp \in Fingerprints
    PROVE  /\ SignalOf(fp) \in Signals /\ DayOf(fp) \in Days
           /\ fp = <<SignalOf(fp), DayOf(fp)>>
BY DEF Fingerprints, SignalOf, DayOf

LEMMA StageNames ==
    /\ "preview" \in OwningStages /\ "armed" \in OwningStages
    /\ "ticket" \in OwningStages /\ "synced" \in OwningStages
    /\ "none" \notin OwningStages /\ "closed" \notin OwningStages
BY DEF OwningStages

LEMMA PhaseNames ==
    /\ J!Unresolved = {"SUBMITTING", "SUBMITTED", "UNKNOWN"}
    /\ J!Terminal = {"FILLED", "REJECTED"}
    /\ "PREPARED" \notin J!Unresolved \cup J!Terminal
    /\ J!Absent \notin J!Unresolved \cup J!Terminal
    /\ J!Unresolved \cap J!Terminal = {}
    /\ J!Unresolved \cup J!Terminal \cup {"PREPARED"} = J!Phases
BY DEF J!Unresolved, J!Terminal, J!Phases, J!Absent

(* Each step on the journal changes one record, to a phase. *)
LEMMA JournalStep ==
    ASSUME NEW fp, NEW p, J!Transition(fp, p)
    PROVE  /\ p \in J!Phases /\ p # "PREPARED"
           /\ journal[fp] \in {"PREPARED"} \cup J!Unresolved
           /\ journal' = [journal EXCEPT ![fp] = p]
BY DEF J!Transition, J!CanTransition, J!Save, J!Transitions, J!Phases,
       J!Unresolved, J!Terminal

LEMMA ReserveStep ==
    ASSUME NEW d, Reserve(d)
    PROVE  /\ journal[<<plan, d>>] = J!Absent
           /\ \A day \in Days : ~InProgress(<<plan, day>>)
           /\ journal' = [journal EXCEPT ![<<plan, d>>] = "PREPARED"]
BY DEF Reserve, J!Prepare, J!Save, InProgress

(* A window with an open session has its plan's lock, and no other has.     *)
LEMMA OneOwner ==
    ASSUME TypeOK, LockIsSession, NEW w \in Windows, NEW fp \in Fingerprints,
           Owns(w, fp)
    PROVE  /\ lock[SignalOf(fp)] = w
           /\ \A v \in Windows \ {w}, g \in Fingerprints :
                Owns(v, g) => SignalOf(g) # SignalOf(fp)
BY Identity DEF LockIsSession, Owns

LEMMA AtOwns ==
    ASSUME NEW stage \in OwningStages, NEW w, NEW fp, At(stage, w, fp)
    PROVE  Owns(w, fp)
BY DEF At, Owns

LEMMA NoOwner ==
    ASSUME TypeOK, LockIsSession, NEW sig \in Signals, lock[sig] = Nobody
    PROVE  \A v \in Windows, g \in Fingerprints :
               Owns(v, g) => SignalOf(g) # sig
BY Identity, WindowsAssumption DEF LockIsSession, Owns

-----------------------------------------------------------------------------
(* What a step leaves of the sessions on other plans.                       *)
LEMMA OthersStayJournaled ==
    ASSUME TypeOK, SessionIsJournaled,
           NEW w \in Windows, NEW fp \in Fingerprints, NEW p, NEW s,
           session' = [session EXCEPT ![w] = s],
           journal' = [journal EXCEPT ![fp] = p] \/ journal' = journal,
           tickets' = tickets \/ tickets' = tickets \cup {fp},
           fate' = fate, ledger \subseteq ledger',
           \A v \in Windows \ {w}, g \in Fingerprints :
               Owns(v, g) => SignalOf(g) # SignalOf(fp)
    PROVE  \A v \in Windows \ {w}, g \in Fingerprints : Journaled(v, g)'
<1>. SUFFICES ASSUME NEW v \in Windows \ {w}, NEW g \in Fingerprints
              PROVE  Journaled(v, g)'
  OBVIOUS
<1>1. session'[v] = session[v]
  BY DEF TypeOK
<1>2. Journaled(v, g)
  BY DEF SessionIsJournaled
<1>3. \A stage : At(stage, v, g)' <=> At(stage, v, g)
  BY <1>1 DEF At
<1>4. CASE Owns(v, g)
  <2>1. SignalOf(g) # SignalOf(fp)
    BY <1>4
  <2>2. \A d \in Days : <<SignalOf(g), d>> # fp
    BY <2>1 DEF SignalOf
  <2>3. g # fp
    BY <2>1
  <2>4. journal'[g] = journal[g]
    BY <2>3 DEF TypeOK
  <2>5. \A d \in Days : journal'[<<SignalOf(g), d>>] = journal[<<SignalOf(g), d>>]
    BY <2>2, Identity DEF TypeOK, Fingerprints
  <2>6. g \in tickets' <=> g \in tickets
    BY <2>3
  <2>. QED
    BY <1>2, <1>3, <2>4, <2>5, <2>6 DEF Journaled, InProgress
<1>5. CASE ~Owns(v, g)
  BY <1>3, <1>5, AtOwns, StageNames DEF Journaled
<1>. QED  BY <1>4, <1>5

(* The three ways in which a lock and a session move together.              *)
LEMMA AcquireLock ==
    ASSUME TypeOK, LockIsSession,
           NEW w \in Windows, NEW fp \in Fingerprints, NEW stage \in OwningStages,
           session[w].stage \notin OwningStages, lock[SignalOf(fp)] = Nobody,
           Goto(stage, w, fp),
           lock' = [lock EXCEPT ![SignalOf(fp)] = w]
    PROVE  LockIsSession'
<1>. SUFFICES ASSUME NEW v \in Windows, NEW sig \in Signals
              PROVE  (lock[sig] = v <=> /\ session[v].stage \in OwningStages
                                        /\ SignalOf(session[v].order) = sig)'
  BY DEF LockIsSession
<1>1. lock[sig] = v <=> /\ session[v].stage \in OwningStages
                        /\ SignalOf(session[v].order) = sig
  BY DEF LockIsSession
<1>2. SignalOf(fp) \in Signals
  BY Identity
<1>3. /\ session'[v] = IF v = w THEN [stage |-> stage, order |-> fp] ELSE session[v]
      /\ lock'[sig] = IF sig = SignalOf(fp) THEN w ELSE lock[sig]
  BY <1>2 DEF TypeOK, Goto
<1>4. CASE v = w
  <2>1. lock[sig] # w
    BY <1>1, <1>4
  <2>. QED  BY <1>3, <1>4, <2>1
<1>5. CASE v # w
  <2>1. lock[SignalOf(fp)] # v
    BY WindowsAssumption
  <2>. QED  BY <1>1, <1>3, <1>5, <2>1
<1>. QED  BY <1>4, <1>5

LEMMA KeepLock ==
    ASSUME TypeOK, LockIsSession,
           NEW w \in Windows, NEW fp \in Fingerprints, NEW stage \in OwningStages,
           Owns(w, fp), Goto(stage, w, fp), lock' = lock
    PROVE  LockIsSession'
<1>. SUFFICES ASSUME NEW v \in Windows, NEW sig \in Signals
              PROVE  (lock[sig] = v <=> /\ session[v].stage \in OwningStages
                                        /\ SignalOf(session[v].order) = sig)'
  BY DEF LockIsSession
<1>1. lock[sig] = v <=> /\ session[v].stage \in OwningStages
                        /\ SignalOf(session[v].order) = sig
  BY DEF LockIsSession
<1>2. session'[v] = IF v = w THEN [stage |-> stage, order |-> fp] ELSE session[v]
  BY DEF TypeOK, Goto
<1>. QED  BY <1>1, <1>2 DEF Owns

LEMMA ReleaseLock ==
    ASSUME TypeOK, LockIsSession,
           NEW w \in Windows, NEW fp \in Fingerprints, Owns(w, fp),
           NEW s, s.stage \notin OwningStages,
           session' = [session EXCEPT ![w] = s], Release(fp)
    PROVE  LockIsSession'
<1>. SUFFICES ASSUME NEW v \in Windows, NEW sig \in Signals
              PROVE  (lock[sig] = v <=> /\ session[v].stage \in OwningStages
                                        /\ SignalOf(session[v].order) = sig)'
  BY DEF LockIsSession
<1>1. lock[sig] = v <=> /\ session[v].stage \in OwningStages
                        /\ SignalOf(session[v].order) = sig
  BY DEF LockIsSession
<1>2. SignalOf(fp) \in Signals /\ lock[SignalOf(fp)] = w
  BY Identity, OneOwner
<1>3. /\ session'[v] = IF v = w THEN s ELSE session[v]
      /\ lock'[sig] = IF sig = SignalOf(fp) THEN Nobody ELSE lock[sig]
  BY <1>2 DEF TypeOK, Release
<1>4. v # Nobody
  BY WindowsAssumption
<1>5. CASE v = w
  <2>1. lock[sig] = w => sig = SignalOf(fp)
    BY <1>1, <1>5 DEF Owns
  <2>. QED  BY <1>3, <1>4, <1>5, <2>1
<1>6. CASE v # w
  BY <1>1, <1>2, <1>3, <1>4, <1>6
<1>. QED  BY <1>5, <1>6

(* A session that is over has nothing to answer for. *)
LEMMA OverIsJournaled ==
    ASSUME NEW w \in Windows, session'[w].stage \notin OwningStages
    PROVE  \A g \in Fingerprints : Journaled(w, g)'
BY StageNames DEF Journaled, At

LEMMA SessionsJournaled ==
    ASSUME NEW w \in Windows,
           \A g \in Fingerprints : Journaled(w, g)',
           \A v \in Windows \ {w}, g \in Fingerprints : Journaled(v, g)'
    PROVE  SessionIsJournaled'
BY DEF SessionIsJournaled

(* A change of one record.  It may become unresolved if it was, or if no    *)
(* other identity of its plan is; closed, if it has a ticket and its fills  *)
(* are saved.                                                               *)
Records ==
    OnePerPlan /\ TicketsAreArmed /\ OrdersHaveTickets /\ RecordsAreTrue /\ LedgerFirst

LEMMA RecordStep ==
    ASSUME TypeOK, Records, NEW fp \in Fingerprints, NEW p,
           journal' = [journal EXCEPT ![fp] = p],
           UNCHANGED <<hostVars, ledger>>,
           p \in J!Unresolved =>
               \/ InProgress(fp)
               \/ \A d \in Days : ~InProgress(<<SignalOf(fp), d>>),
           fp \in tickets => p \in J!Unresolved \cup J!Terminal,
           p \in J!Terminal =>
               Closed(fp, p) /\ (fate[fp] \in Traded => fp \in ledger)
    PROVE  Records'
<1>1. \A g \in Fingerprints : journal'[g] = IF g = fp THEN p ELSE journal[g]
  BY DEF TypeOK
<1>2. OnePerPlan'
  <2>. SUFFICES ASSUME NEW f \in Fingerprints, NEW g \in Fingerprints,
                       InProgress(f)', InProgress(g)', SignalOf(f) = SignalOf(g)
                PROVE  f = g
    BY DEF OnePerPlan
  <2>1. CASE f # fp /\ g # fp
    BY <1>1, <2>1 DEF Records, OnePerPlan, InProgress
  <2>2. ASSUME NEW h \in Fingerprints, h # fp, SignalOf(h) = SignalOf(fp),
               InProgress(h)', p \in J!Unresolved
        PROVE  FALSE
    <3>1. InProgress(h)
      BY <1>1, <2>2 DEF InProgress
    <3>2. InProgress(fp)
      BY <2>2, <3>1, Identity
    <3>. QED  BY <2>2, <3>1, <3>2 DEF Records, OnePerPlan
  <2>3. InProgress(fp)' => p \in J!Unresolved
    BY <1>1 DEF InProgress
  <2>. QED  BY <2>1, <2>2, <2>3
<1>3. TicketsAreArmed'
  BY <1>1 DEF Records, TicketsAreArmed, TypeOK, hostVars
<1>4. OrdersHaveTickets' /\ RecordsAreTrue' /\ LedgerFirst'
  BY <1>1 DEF Records, OrdersHaveTickets, RecordsAreTrue, LedgerFirst, History, Closed, hostVars
<1>. QED  BY <1>2, <1>3, <1>4 DEF Records

LEMMA RecordsStay ==
    ASSUME Records, journal' = journal, UNCHANGED <<hostVars, ledger>>
    PROVE  Records'
BY DEF Records, OnePerPlan, TicketsAreArmed, OrdersHaveTickets, RecordsAreTrue,
       LedgerFirst, InProgress, History, Closed, hostVars

(* The ledger may take a history that contains it, if it is a true one.     *)
LEMMA LedgerStep ==
    ASSUME Records, journal' = journal, UNCHANGED hostVars,
           ledger \subseteq ledger', ledger' \subseteq History
    PROVE  Records'
BY DEF Records, OnePerPlan, TicketsAreArmed, OrdersHaveTickets, RecordsAreTrue,
       LedgerFirst, InProgress, History, Closed, hostVars

Sound == TypeOK /\ LockIsSession /\ SessionIsJournaled /\ Records

LEMMA SoundIsIInv == IInv <=> Sound
BY DEF IInv, Sound, Records
-----------------------------------------------------------------------------
LEMMA InitSound == Init => Sound
<1>. SUFFICES ASSUME Init  PROVE Sound
  OBVIOUS
<1>0. journal = [fp \in Fingerprints |-> J!Absent]
  BY DEF Init, J!NoRecords, J!Fingerprints, J!Days, Fingerprints, Days
<1>1. TypeOK
  BY <1>0 DEF Init, TypeOK, NoSession, NoResult, Results, Fates
<1>2. LockIsSession
  BY WindowsAssumption, StageNames DEF Init, LockIsSession, NoSession
<1>3. SessionIsJournaled
  BY DEF Init, SessionIsJournaled, Journaled, At, NoSession
<1>4. \A fp \in Fingerprints :
          ~InProgress(fp) /\ journal[fp] \notin J!Terminal
  BY <1>0, PhaseNames DEF InProgress
<1>5. Records
  BY <1>4 DEF Init, Records, OnePerPlan, TicketsAreArmed, OrdersHaveTickets,
              RecordsAreTrue, LedgerFirst, NoResult
<1>. QED  BY <1>1, <1>2, <1>3, <1>5 DEF Sound

(* A plan is loaded. *)
LEMMA LoadSound ==
    ASSUME Sound, NEW w \in Windows, NEW d \in Days,
           LoadLive(w, d) \/ LoadFails(w, d)
    PROVE  Sound'
<1>. DEFINE fp == <<plan, d>>
<1>. USE DEF Sound
<1>1. /\ CanLoad(w) /\ Reserve(d)
      /\ UNCHANGED <<plan, hostVars, ledger>>
  BY DEF LoadLive, LoadFails
<1>2. /\ plan \in Signals /\ fp \in Fingerprints /\ SignalOf(fp) = plan
      /\ session[w].stage \notin OwningStages /\ lock[plan] = Nobody
  BY <1>1, StageNames
     DEF CanLoad, PlanLoads, TypeOK, Fingerprints, SignalOf, NoSession
<1>3. /\ journal[fp] = J!Absent
      /\ \A day \in Days : ~InProgress(<<plan, day>>)
      /\ journal' = [journal EXCEPT ![fp] = "PREPARED"]
  BY <1>1, ReserveStep
<1>4. fp \notin tickets
  BY <1>3, PhaseNames DEF Records, TicketsAreArmed
<1>5. Records'
  BY <1>1, <1>2, <1>3, <1>4, PhaseNames, RecordStep
<1>6. \A v \in Windows, g \in Fingerprints : Owns(v, g) => SignalOf(g) # SignalOf(fp)
  BY <1>2, NoOwner
<1>7. journal'[fp] = "PREPARED" /\ journal' \in [Fingerprints -> J!Phases \cup {J!Absent}]
  BY <1>2, <1>3, PhaseNames DEF TypeOK
<1>8. CASE LoadLive(w, d)
  <2>1. Goto("preview", w, fp) /\ lock' = [lock EXCEPT ![SignalOf(fp)] = w]
    BY <1>2, <1>8 DEF LoadLive
  <2>2. TypeOK'
    BY <1>1, <1>2, <1>7, <2>1, StageNames DEF TypeOK, Goto, Sessions, hostVars
  <2>3. LockIsSession'
    BY <1>2, <2>1, StageNames, AcquireLock
  <2>4. \A v \in Windows \ {w}, g \in Fingerprints : Journaled(v, g)'
    <3>. DEFINE s == [stage |-> "preview", order |-> fp]
    <3>1. session' = [session EXCEPT ![w] = s]
      BY <2>1 DEF Goto
    <3>. QED  BY <1>1, <1>2, <1>3, <1>6, <3>1, OthersStayJournaled DEF hostVars
  <2>5. \A g \in Fingerprints : Journaled(w, g)'
    <3>. SUFFICES ASSUME NEW g \in Fingerprints  PROVE Journaled(w, g)'
      OBVIOUS
    <3>1. session'[w] = [stage |-> "preview", order |-> fp]
      BY <2>1 DEF Goto, TypeOK
    <3>2. \A day \in Days : journal'[<<plan, day>>] \notin J!Unresolved
      <4>. SUFFICES ASSUME NEW day \in Days
                    PROVE  journal'[<<plan, day>>] \notin J!Unresolved
        OBVIOUS
      <4>1. <<plan, day>> \in Fingerprints
        BY <1>2 DEF Fingerprints
      <4>2. journal'[<<plan, day>>] \in {"PREPARED", journal[<<plan, day>>]}
        BY <1>3, <4>1 DEF TypeOK
      <4>. QED  BY <1>3, <4>2, PhaseNames DEF InProgress
    <3>3. CASE g = fp
      BY <1>2, <1>7, <3>1, <3>2, <3>3 DEF Journaled, At, InProgress
    <3>4. CASE g # fp
      BY <3>1, <3>4 DEF Journaled, At
    <3>. QED  BY <3>3, <3>4
  <2>. QED  BY <1>5, <2>2, <2>3, <2>4, <2>5, SessionsJournaled
<1>9. CASE LoadFails(w, d)
  <2>1. session' = session /\ lock' = lock
    BY <1>9 DEF LoadFails
  <2>2. TypeOK'
    BY <1>1, <1>7, <2>1 DEF TypeOK, hostVars
  <2>3. LockIsSession'
    BY <2>1 DEF LockIsSession
  <2>4. \A v \in Windows \ {w}, g \in Fingerprints : Journaled(v, g)'
    <3>1. session' = [session EXCEPT ![w] = session[w]]
      BY <2>1 DEF TypeOK
    <3>. QED  BY <1>1, <1>2, <1>3, <1>6, <3>1, OthersStayJournaled DEF hostVars
  <2>5. \A g \in Fingerprints : Journaled(w, g)'
    BY <1>2, <2>1, OverIsJournaled
  <2>. QED  BY <1>5, <2>2, <2>3, <2>4, <2>5, SessionsJournaled
<1>. QED  BY <1>8, <1>9

(* A session ends, with or without a last change of its record. *)
LEMMA EndSound ==
    ASSUME Sound, NEW w \in Windows, NEW fp \in Fingerprints, Owns(w, fp),
           NEW s \in Sessions \cup {NoSession}, s.stage \notin OwningStages,
           session' = [session EXCEPT ![w] = s], Release(fp),
           UNCHANGED <<plan, hostVars, ledger>>,
           NEW p \in J!Phases,
           \/ journal' = journal
           \/ /\ journal' = [journal EXCEPT ![fp] = p]
              /\ p # "PREPARED"
              /\ p \in J!Unresolved => InProgress(fp)
              /\ p \in J!Terminal =>
                     Closed(fp, p) /\ (fate[fp] \in Traded => fp \in ledger)
    PROVE  Sound'
<1>. USE DEF Sound
<1>1. TypeOK'
  <2>1. session' \in [Windows -> Sessions \cup {NoSession}]
    BY DEF TypeOK
  <2>2. lock' \in [Signals -> Windows \cup {Nobody}]
    BY DEF TypeOK, Release
  <2>3. journal' \in [Fingerprints -> J!Phases \cup {J!Absent}]
    BY DEF TypeOK
  <2>. QED  BY <2>1, <2>2, <2>3 DEF TypeOK, hostVars
<1>2. LockIsSession'
  BY ReleaseLock
<1>3. Records'
  <2>1. CASE journal' = journal
    BY <2>1, RecordsStay
  <2>2. CASE journal' # journal
    BY <2>2, RecordStep, PhaseNames
  <2>. QED  BY <2>1, <2>2
<1>4. \A v \in Windows \ {w}, g \in Fingerprints : Journaled(v, g)'
  <2>1. fate' = fate /\ tickets' = tickets
    BY DEF hostVars
  <2>. QED  BY <2>1, OneOwner, OthersStayJournaled
<1>5. \A g \in Fingerprints : Journaled(w, g)'
  <2>1. session'[w] = s
    BY DEF TypeOK
  <2>. QED  BY <2>1, OverIsJournaled
<1>. QED  BY <1>1, <1>2, <1>3, <1>4, <1>5, SessionsJournaled

LEMMA DropSound ==
    ASSUME Sound, NEW w \in Windows, NEW fp \in Fingerprints, DropPreview(w, fp)
    PROVE  Sound'
<1>1. Owns(w, fp)
  BY AtOwns, StageNames DEF DropPreview
<1>2. /\ session' = [session EXCEPT ![w] = NoSession] /\ Release(fp)
      /\ UNCHANGED <<plan, journal, hostVars, ledger>>
  BY DEF DropPreview, Forget
<1>3. NoSession.stage \notin OwningStages
  BY StageNames DEF NoSession
<1>. QED  BY <1>1, <1>2, <1>3, PhaseNames, EndSound

LEMMA TicketFailsSound ==
    ASSUME Sound, NEW w \in Windows, NEW fp \in Fingerprints, TicketFails(w, fp)
    PROVE  Sound'
<1>1. journal[fp] = "SUBMITTING" /\ Owns(w, fp)
  BY AtOwns, StageNames DEF TicketFails, Sound, SessionIsJournaled, Journaled
<1>2. InProgress(fp)
  BY <1>1, PhaseNames DEF InProgress
<1>3. \/ journal' = journal
      \/ journal' = [journal EXCEPT ![fp] = "UNKNOWN"]
  BY JournalStep DEF TicketFails, J!TransitionFails, J!SaveFails, J!journalVars
<1>4. "UNKNOWN" \in J!Phases /\ "UNKNOWN" \notin J!Terminal
  BY PhaseNames
<1>5. /\ session' = [session EXCEPT ![w] = NoSession] /\ Release(fp)
      /\ UNCHANGED <<plan, hostVars, ledger>>
  BY DEF TicketFails, Forget
<1>6. NoSession.stage \notin OwningStages
  BY StageNames DEF NoSession
<1>. QED  BY <1>1, <1>2, <1>3, <1>4, <1>5, <1>6, EndSound

LEMMA ImportUnknownSound ==
    ASSUME Sound, NEW w \in Windows, NEW fp \in Fingerprints, ImportUnknown(w, fp)
    PROVE  Sound'
<1>1. journal[fp] = "SUBMITTING" /\ Owns(w, fp)
  BY AtOwns, StageNames DEF ImportUnknown, Sound, SessionIsJournaled, Journaled
<1>2. InProgress(fp)
  BY <1>1, PhaseNames DEF InProgress
<1>3. journal' = [journal EXCEPT ![fp] = "UNKNOWN"]
  BY JournalStep DEF ImportUnknown
<1>4. "UNKNOWN" \in J!Phases /\ "UNKNOWN" \notin J!Terminal
  BY PhaseNames
<1>5. /\ session' = [session EXCEPT ![w] = NoSession] /\ Release(fp)
      /\ UNCHANGED <<plan, hostVars, ledger>>
  BY DEF ImportUnknown, Forget
<1>6. NoSession.stage \notin OwningStages
  BY StageNames DEF NoSession
<1>. QED  BY <1>1, <1>2, <1>3, <1>4, <1>5, <1>6, EndSound

(* The record closes: the session that synced has saved its fills.          *)
LEMMA AcceptResultSound ==
    ASSUME Sound, NEW w \in Windows, NEW fp \in Fingerprints, AcceptResult(w, fp)
    PROVE  Sound'
<1>1. Journaled(w, fp) /\ Owns(w, fp)
  BY AtOwns, StageNames DEF AcceptResult, Sound, SessionIsJournaled
<1>2. /\ journal[fp] = "SUBMITTING" /\ Closed(fp, PhaseFor(fp))
      /\ fate[fp] \in Traded => fp \in ledger
  BY <1>1 DEF AcceptResult, Journaled, Closed, PhaseFor
<1>3. journal' = [journal EXCEPT ![fp] = PhaseFor(fp)]
  BY JournalStep DEF AcceptResult
<1>4. PhaseFor(fp) \in J!Phases /\ PhaseFor(fp) \in J!Terminal
  BY PhaseNames DEF PhaseFor
<1>5. /\ session' = [session EXCEPT ![w] = NoSession] /\ Release(fp)
      /\ UNCHANGED <<plan, hostVars, ledger>>
  BY DEF AcceptResult, Forget
<1>6. NoSession.stage \notin OwningStages
  BY StageNames DEF NoSession
<1>. QED  BY <1>1, <1>2, <1>3, <1>4, <1>5, <1>6, PhaseNames, EndSound

LEMMA ImportFailsSound ==
    ASSUME Sound, NEW w \in Windows, NEW fp \in Fingerprints, ImportFails(w, fp)
    PROVE  Sound'
<1>1. Owns(w, fp)
  BY AtOwns, StageNames DEF ImportFails
<1>. DEFINE s == [stage |-> "closed", order |-> fp]
<1>2. s \in Sessions /\ s.stage \notin OwningStages
  BY StageNames DEF Sessions
<1>3. /\ session' = [session EXCEPT ![w] = s] /\ Release(fp)
      /\ UNCHANGED <<plan, journal, hostVars, ledger>>
  BY DEF ImportFails, Goto
<1>. HIDE DEF s
<1>. QED  BY <1>1, <1>2, <1>3, PhaseNames, EndSound
-----------------------------------------------------------------------------
(* A session goes on to another stage of the same order. *)
LEMMA GoOn ==
    ASSUME Sound, NEW w \in Windows, NEW fp \in Fingerprints, Owns(w, fp),
           NEW stage \in OwningStages, Goto(stage, w, fp),
           UNCHANGED <<plan, lock, results, fate>>,
           journal' \in [Fingerprints -> J!Phases \cup {J!Absent}],
           NEW p,
           journal' = [journal EXCEPT ![fp] = p] \/ journal' = journal,
           tickets' = tickets \/ tickets' = tickets \cup {fp},
           ledger \subseteq ledger', ledger' \subseteq Fingerprints,
           Journaled(w, fp)', Records'
    PROVE  Sound'
<1>. USE DEF Sound
<1>1. TypeOK'
  <2>1. session' \in [Windows -> Sessions \cup {NoSession}]
    BY DEF TypeOK, Goto, Sessions
  <2>. QED  BY <2>1 DEF TypeOK
<1>2. LockIsSession'
  BY KeepLock
<1>3. \A v \in Windows \ {w}, g \in Fingerprints : Journaled(v, g)'
  <2>. DEFINE s == [stage |-> stage, order |-> fp]
  <2>1. session' = [session EXCEPT ![w] = s]
    BY DEF Goto
  <2>. HIDE DEF s
  <2>. QED  BY <2>1, OneOwner, OthersStayJournaled
<1>4. \A g \in Fingerprints : Journaled(w, g)'
  <2>. SUFFICES ASSUME NEW g \in Fingerprints, g # fp  PROVE Journaled(w, g)'
    OBVIOUS
  <2>1. session'[w] = [stage |-> stage, order |-> fp]
    BY DEF Goto, TypeOK
  <2>. QED  BY <2>1 DEF Journaled, At
<1>. QED  BY <1>1, <1>2, <1>3, <1>4, SessionsJournaled

LEMMA ConfirmSound ==
    ASSUME Sound, NEW w \in Windows, NEW fp \in Fingerprints, Confirm(w, fp)
    PROVE  Sound'
<1>. USE DEF Sound
<1>1. Journaled(w, fp) /\ Owns(w, fp)
  BY AtOwns, StageNames DEF Confirm, SessionIsJournaled
<1>2. /\ journal[fp] = "PREPARED"
      /\ \A d \in Days : ~InProgress(<<SignalOf(fp), d>>)
  BY <1>1 DEF Confirm, Journaled
<1>3. journal' = [journal EXCEPT ![fp] = "SUBMITTING"]
  BY JournalStep DEF Confirm
<1>4. fp \notin tickets
  BY <1>2, PhaseNames DEF Records, TicketsAreArmed
<1>5. Goto("armed", w, fp) /\ UNCHANGED <<plan, lock, hostVars, ledger>>
  BY DEF Confirm
<1>6. Records'
  BY <1>2, <1>3, <1>4, <1>5, PhaseNames, RecordStep
<1>7. journal' \in [Fingerprints -> J!Phases \cup {J!Absent}] /\ journal'[fp] = "SUBMITTING"
  BY <1>3, PhaseNames DEF TypeOK
<1>8. Journaled(w, fp)'
  <2>1. session'[w] = [stage |-> "armed", order |-> fp]
    BY <1>5 DEF Goto, TypeOK
  <2>. QED  BY <1>4, <1>5, <1>7, <2>1 DEF Journaled, At, hostVars
<1>9. UNCHANGED <<plan, lock, results, fate>> /\ tickets' = tickets /\ ledger' = ledger
  BY <1>5 DEF hostVars
<1>10. ledger' \subseteq Fingerprints
  BY <1>9 DEF TypeOK
<1>. QED  BY <1>1, <1>3, <1>5, <1>6, <1>7, <1>8, <1>9, <1>10, StageNames, GoOn

LEMMA WriteTicketSound ==
    ASSUME Sound, NEW w \in Windows, NEW fp \in Fingerprints, WriteTicket(w, fp)
    PROVE  Sound'
<1>. USE DEF Sound
<1>1. Journaled(w, fp) /\ Owns(w, fp)
  BY AtOwns, StageNames DEF WriteTicket, SessionIsJournaled
<1>2. journal[fp] = "SUBMITTING"
  BY <1>1 DEF WriteTicket, Journaled
<1>3. /\ Goto("ticket", w, fp) /\ tickets' = tickets \cup {fp}
      /\ UNCHANGED <<plan, journal, lock, results, fate, ledger>>
  BY DEF WriteTicket
<1>4. Records'
  BY <1>2, <1>3, PhaseNames
     DEF Records, OnePerPlan, TicketsAreArmed, OrdersHaveTickets, RecordsAreTrue,
         LedgerFirst, InProgress, History, Closed
<1>5. Journaled(w, fp)'
  <2>1. session'[w] = [stage |-> "ticket", order |-> fp]
    BY <1>3 DEF Goto, TypeOK
  <2>. QED  BY <1>2, <1>3, <2>1 DEF Journaled, At
<1>6. /\ journal' \in [Fingerprints -> J!Phases \cup {J!Absent}]
      /\ ledger' \subseteq Fingerprints
  BY <1>3 DEF TypeOK
<1>. QED  BY <1>1, <1>3, <1>4, <1>5, <1>6, StageNames, GoOn

LEMMA SyncFillsSound ==
    ASSUME Sound, NEW w \in Windows, NEW fp \in Fingerprints, SyncFills(w, fp)
    PROVE  Sound'
<1>. USE DEF Sound
<1>1. Journaled(w, fp) /\ Owns(w, fp)
  BY AtOwns, StageNames DEF SyncFills, SessionIsJournaled
<1>2. journal[fp] = "SUBMITTING" /\ fp \in tickets
  BY <1>1 DEF SyncFills, Journaled
<1>3. /\ Goto("synced", w, fp)
      /\ results[fp].outcome = "TERMINAL"
      /\ ledger \subseteq results[fp].fills /\ ledger' = results[fp].fills
      /\ UNCHANGED <<plan, journal, lock, hostVars>>
  BY DEF SyncFills
<1>4. /\ fate[fp] \in EndStates
      /\ results[fp].fills \subseteq History
      /\ fate[fp] \in Traded => fp \in results[fp].fills
  BY <1>3 DEF Records, RecordsAreTrue
<1>5. Records'
  BY <1>3, <1>4, LedgerStep
<1>6. Journaled(w, fp)'
  <2>1. session'[w] = [stage |-> "synced", order |-> fp]
    BY <1>3 DEF Goto, TypeOK
  <2>. QED  BY <1>2, <1>3, <1>4, <2>1 DEF Journaled, At, hostVars
<1>7. /\ journal' \in [Fingerprints -> J!Phases \cup {J!Absent}]
      /\ ledger' \subseteq Fingerprints
  BY <1>3, <1>4 DEF TypeOK, History
<1>8. UNCHANGED <<plan, lock, results, fate>> /\ tickets' = tickets /\ journal' = journal
  BY <1>3 DEF hostVars
<1>. QED  BY <1>1, <1>3, <1>5, <1>6, <1>7, <1>8, StageNames, GoOn

(* A window is closed or dies: what it owned is free, what it saved stays.  *)
LEMMA LeaveSound ==
    ASSUME Sound, NEW w \in Windows, Leave(w)
    PROVE  Sound'
<1>. USE DEF Sound
<1>1. /\ session' = [session EXCEPT ![w] = NoSession]
      /\ lock' = [sig \in Signals |-> IF lock[sig] = w THEN Nobody ELSE lock[sig]]
      /\ UNCHANGED <<plan, journal, hostVars, ledger>>
  BY DEF Leave, Forget
<1>2. TypeOK'
  BY <1>1 DEF TypeOK, hostVars
<1>3. \A v \in Windows : session'[v] = IF v = w THEN NoSession ELSE session[v]
  BY <1>1 DEF TypeOK
<1>4. NoSession.stage \notin OwningStages
  BY StageNames DEF NoSession
<1>5. LockIsSession'
  <2>. SUFFICES ASSUME NEW v \in Windows, NEW sig \in Signals
                PROVE  (lock[sig] = v <=> /\ session[v].stage \in OwningStages
                                          /\ SignalOf(session[v].order) = sig)'
    BY DEF LockIsSession
  <2>1. lock[sig] = v <=> /\ session[v].stage \in OwningStages
                          /\ SignalOf(session[v].order) = sig
    BY DEF LockIsSession
  <2>2. lock'[sig] = IF lock[sig] = w THEN Nobody ELSE lock[sig]
    BY <1>1
  <2>. QED  BY <1>3, <1>4, <2>1, <2>2, WindowsAssumption
<1>6. Records'
  BY <1>1, RecordsStay
<1>7. \A v \in Windows \ {w}, g \in Fingerprints : Journaled(v, g)'
  <2>. SUFFICES ASSUME NEW v \in Windows \ {w}, NEW g \in Fingerprints
                PROVE  Journaled(v, g)'
    OBVIOUS
  <2>1. Journaled(v, g)
    BY DEF SessionIsJournaled
  <2>. QED  BY <1>1, <1>3, <2>1 DEF Journaled, At, InProgress, hostVars
<1>8. \A g \in Fingerprints : Journaled(w, g)'
  BY <1>3, <1>4, OverIsJournaled
<1>. QED  BY <1>2, <1>5, <1>6, <1>7, <1>8, SessionsJournaled

(* The host and the other commands touch neither journals nor sessions.     *)
LEMMA OutsideKeeps ==
    ASSUME Sound, UNCHANGED ownVars, tickets' = tickets,
           ledger \subseteq ledger',
           \A fp \in Fingerprints : fate[fp] \in EndStates => fate'[fp] = fate[fp],
           TypeOK', Records'
    PROVE  Sound'
<1>. USE DEF Sound
<1>1. LockIsSession'
  BY DEF LockIsSession, ownVars
<1>2. SessionIsJournaled'
  <2>. SUFFICES ASSUME NEW v \in Windows, NEW g \in Fingerprints
                PROVE  Journaled(v, g)'
    BY DEF SessionIsJournaled
  <2>1. Journaled(v, g)
    BY DEF SessionIsJournaled
  <2>. QED  BY <2>1 DEF Journaled, At, InProgress, ownVars
<1>. QED  BY <1>1, <1>2

LEMMA HostSubmitsSound ==
    ASSUME Sound, NEW fp \in Fingerprints, HostSubmits(fp)
    PROVE  Sound'
<1>. USE DEF Sound
<1>1. /\ fp \in tickets /\ fate[fp] = "none"
      /\ fate' = [fate EXCEPT ![fp] = "sent"]
      /\ UNCHANGED <<plan, ownVars, tickets, results, ledger>>
  BY DEF HostSubmits
<1>2. TypeOK'
  BY <1>1 DEF TypeOK, Fates, ownVars
<1>3. /\ \A g \in Fingerprints : fate'[g] = IF g = fp THEN "sent" ELSE fate[g]
      /\ "sent" \notin EndStates /\ "none" \notin EndStates /\ Traded \subseteq EndStates
  BY <1>1 DEF TypeOK, EndStates, Traded
<1>4. History' = History
  BY <1>1, <1>3 DEF History
<1>5. OnePerPlan' /\ TicketsAreArmed' /\ OrdersHaveTickets'
  BY <1>1, <1>3
     DEF Records, OnePerPlan, TicketsAreArmed, OrdersHaveTickets, InProgress, Closed, ownVars
<1>6. RecordsAreTrue' /\ LedgerFirst'
  BY <1>1, <1>3, <1>4 DEF Records, RecordsAreTrue, LedgerFirst, ownVars
<1>. QED  BY <1>1, <1>2, <1>3, <1>5, <1>6, OutsideKeeps DEF Records

(* An order that ends is not closed in any journal yet. *)
LEMMA OrderEndsSound ==
    ASSUME Sound, NEW fp \in Fingerprints, OrderEnds(fp)
    PROVE  Sound'
<1>. USE DEF Sound
<1>1. PICK end \in EndStates : fate' = [fate EXCEPT ![fp] = end]
  BY DEF OrderEnds
<1>2. /\ fate[fp] = "sent"
      /\ UNCHANGED <<plan, ownVars, tickets, results, ledger>>
  BY DEF OrderEnds
<1>3. TypeOK'
  BY <1>1, <1>2 DEF TypeOK, Fates, ownVars
<1>4. /\ \A g \in Fingerprints : fate'[g] = IF g = fp THEN end ELSE fate[g]
      /\ "sent" \notin EndStates /\ Traded \subseteq EndStates
  BY <1>1 DEF TypeOK, EndStates, Traded
<1>5. History \subseteq History'
  BY <1>2, <1>4 DEF History
<1>6. OnePerPlan' /\ TicketsAreArmed' /\ OrdersHaveTickets'
  BY <1>2, <1>4
     DEF Records, OnePerPlan, TicketsAreArmed, OrdersHaveTickets, InProgress, Closed, ownVars
<1>7. /\ "sent" \notin EndStates
      /\ \A g \in Fingerprints : fate[g] \in EndStates => fate'[g] = fate[g]
      /\ journal' = journal /\ results' = results /\ ledger' = ledger
  BY <1>2, <1>4 DEF ownVars
<1>8. RecordsAreTrue'
  <2>1. RecordsAreTrue
    BY DEF Records
  <2>. QED  BY <2>1, <1>5, <1>7 DEF RecordsAreTrue
<1>9. LedgerFirst'
  <2>1. LedgerFirst /\ OrdersHaveTickets
    BY DEF Records
  <2>. QED  BY <2>1, <1>7 DEF LedgerFirst, OrdersHaveTickets, Closed
<1>. QED  BY <1>2, <1>3, <1>4, <1>6, <1>8, <1>9, OutsideKeeps DEF Records

LEMMA HostReportsSound ==
    ASSUME Sound, NEW fp \in Fingerprints, HostReports(fp)
    PROVE  Sound'
<1>. USE DEF Sound
<1>. DEFINE new == [outcome |-> "TERMINAL", fills |-> History]
<1>1. UNCHANGED <<plan, ownVars, tickets, fate, ledger>>
  BY DEF HostReports
<1>2. PICK r : /\ results' = [results EXCEPT ![fp] = r]
               /\ r = Unknown \/ (r = new /\ fate[fp] \in EndStates)
  BY DEF HostReports
<1>3. History \subseteq Fingerprints /\ History' = History
  BY <1>1 DEF History
<1>4. r \in Results
  BY <1>2, <1>3 DEF Results
<1>5. TypeOK'
  BY <1>1, <1>2, <1>4 DEF TypeOK, ownVars
<1>6. \A g \in Fingerprints : results'[g] = IF g = fp THEN r ELSE results[g]
  BY <1>2 DEF TypeOK
<1>7. r.outcome = "TERMINAL" =>
          /\ fate[fp] \in EndStates
          /\ r.fills \subseteq History
          /\ fate[fp] \in Traded => fp \in r.fills
  BY <1>2 DEF Unknown, History
<1>8. RecordsAreTrue'
  <2>1. RecordsAreTrue /\ fate' = fate /\ ledger' = ledger
    BY <1>1 DEF Records
  <2>2. ASSUME NEW g \in Fingerprints, results'[g].outcome = "TERMINAL"
        PROVE  /\ fate[g] \in EndStates
               /\ results'[g].fills \subseteq History
               /\ fate[g] \in Traded => g \in results'[g].fills
    <3>1. CASE g = fp
      BY <2>2, <3>1, <1>6, <1>7
    <3>2. CASE g # fp
      BY <2>1, <2>2, <3>2, <1>6 DEF RecordsAreTrue
    <3>. QED  BY <3>1, <3>2
  <2>. QED  BY <1>3, <2>1, <2>2 DEF RecordsAreTrue
<1>9. journal' = journal /\ tickets' = tickets /\ fate' = fate /\ ledger' = ledger
  BY <1>1 DEF ownVars
<1>10. OnePerPlan' /\ TicketsAreArmed' /\ OrdersHaveTickets'
  BY <1>9 DEF Records, OnePerPlan, TicketsAreArmed, OrdersHaveTickets, InProgress, Closed
<1>11. LedgerFirst'
  BY <1>9 DEF Records, LedgerFirst
<1>. QED  BY <1>1, <1>5, <1>8, <1>10, <1>11, OutsideKeeps DEF Records

LEMMA CycleSyncsSound ==
    ASSUME Sound, CycleSyncs
    PROVE  Sound'
<1>. USE DEF Sound
<1>1. /\ ledger \subseteq ledger' /\ ledger' \subseteq History
      /\ UNCHANGED <<plan, ownVars, hostVars>>
  BY DEF CycleSyncs
<1>2. Records'
  BY <1>1, LedgerStep DEF ownVars
<1>3. TypeOK'
  BY <1>1 DEF TypeOK, History, ownVars, hostVars
<1>. QED  BY <1>1, <1>2, <1>3, OutsideKeeps DEF hostVars

LEMMA PlanSound ==
    ASSUME Sound, (\E sig \in Signals : PublishPlan(sig)) \/ PlanExpires \/ UNCHANGED vars
    PROVE  Sound'
<1>. USE DEF Sound
<1>1. UNCHANGED <<ownVars, hostVars, ledger>> /\ plan' \in Signals \cup {NoSignal}
  BY DEF PublishPlan, PlanExpires, vars, TypeOK
<1>2. TypeOK'
  BY <1>1 DEF TypeOK, ownVars, hostVars
<1>3. Records'
  BY <1>1, RecordsStay DEF ownVars
<1>. QED  BY <1>1, <1>2, <1>3, OutsideKeeps DEF hostVars

LEMMA NextSound == Sound /\ [Next]_vars => Sound'
BY LoadSound, DropSound, ConfirmSound, WriteTicketSound, TicketFailsSound,
   ImportUnknownSound, SyncFillsSound, AcceptResultSound, ImportFailsSound,
   LeaveSound, HostSubmitsSound, OrderEndsSound, HostReportsSound,
   CycleSyncsSound, PlanSound
   DEF Next

(* Whatever the windows, the host and the strategy cycle do, and wherever   *)
(* they stop, journals, locks, tickets, results and ledger agree.           *)
THEOREM DesktopInductiveInvariant == Spec => []IInv
<1>1. Spec => []Sound
  BY InitSound, NextSound, PTL DEF Spec
<1>. QED  BY <1>1, SoundIsIInv, PTL

(* An order that traded is closed only when its fills are in the ledger.    *)
THEOREM FillsBeforeJournal == Spec => []LedgerFirst
<1>1. IInv => LedgerFirst
  BY DEF IInv
<1>. QED  BY <1>1, DesktopInductiveInvariant, PTL

(* No import and no evaluation takes a fill out of the ledger file.         *)
THEOREM FillsStay == Spec => LedgerKeepsFills
<1>1. [Next]_vars => [ledger \subseteq ledger']_ledger
  BY DEF Next, vars, ownVars, hostVars, PublishPlan, PlanExpires, LoadLive, LoadFails,
         DropPreview, Confirm, WriteTicket, TicketFails, ImportUnknown, SyncFills,
         AcceptResult, ImportFails, Leave, HostSubmits, OrderEnds, HostReports,
         CycleSyncs
<1>. QED  BY <1>1, PTL DEF Spec, LedgerKeepsFills
-----------------------------------------------------------------------------
(* The refinement: each plan, alone, is a one-shot order.                   *)
LEMMA PlanNames ==
    ASSUME NEW p \in Signals
    PROVE  /\ \A fp \in Fingerprints : fp \in Identities(p) <=> SignalOf(fp) = p
           /\ Identities(p) \subseteq Fingerprints
           /\ \A d \in Days : <<p, d>> \in Identities(p)
BY DEF Identities, Fingerprints, SignalOf

LEMMA StageOfPhase ==
    /\ StageOf(J!Absent) = "idle"
    /\ StageOf("PREPARED") = "reserved"
    /\ StageOf("SUBMITTING") = "armed"
    /\ StageOf("UNKNOWN") = "lookup"
    /\ \A ph \in J!Terminal : StageOf(ph) = "closed"
    /\ \A ph \in J!Phases \cup {J!Absent} :
         StageOf(ph) \in {"armed", "lookup"} => ph \in J!Unresolved
BY DEF StageOf, J!Absent, J!Phases, J!Unresolved, J!Terminal

LEMMA InitPlans ==
    ASSUME Init, NEW p \in Signals
    PROVE  Plan(p)!Init
<1>1. \A fp \in Identities(p) : StageOf(journal[fp]) = "idle"
  BY PlanNames, StageOfPhase DEF Init, J!NoRecords, J!Fingerprints, J!Days,
                                 Fingerprints, Days
<1>. QED
  BY <1>1 DEF Init, Plan!Init, StagesOf, TicketsOf

(* A record that changes moves the stage of its own plan, of no other. *)
LEMMA PlanStage ==
    ASSUME TypeOK, NEW p \in Signals, NEW fp \in Fingerprints, NEW ph,
           journal' = [journal EXCEPT ![fp] = ph], tickets' = tickets
    PROVE  /\ TicketsOf(p)' = TicketsOf(p)
           /\ SignalOf(fp) = p =>
                StagesOf(p)' = [StagesOf(p) EXCEPT ![fp] = StageOf(ph)]
           /\ SignalOf(fp) # p => StagesOf(p)' = StagesOf(p)
<1>1. \A g \in Fingerprints : journal'[g] = IF g = fp THEN ph ELSE journal[g]
  BY DEF TypeOK
<1>2. TicketsOf(p)' = TicketsOf(p)
  BY DEF TicketsOf
<1>3. ASSUME SignalOf(fp) = p
      PROVE  StagesOf(p)' = [StagesOf(p) EXCEPT ![fp] = StageOf(ph)]
  <2>1. \A g \in Identities(p) :
            StageOf(journal'[g]) = IF g = fp THEN StageOf(ph) ELSE StageOf(journal[g])
    BY <1>1, PlanNames
  <2>2. StagesOf(p)' = [g \in Identities(p) |->
                            IF g = fp THEN StageOf(ph) ELSE StageOf(journal[g])]
    BY <2>1 DEF StagesOf
  <2>. QED  BY <2>2 DEF StagesOf
<1>4. ASSUME SignalOf(fp) # p
      PROVE  StagesOf(p)' = StagesOf(p)
  BY <1>1, <1>4, PlanNames DEF StagesOf
<1>. QED  BY <1>2, <1>3, <1>4

LEMMA PlanStays ==
    ASSUME NEW p \in Signals, UNCHANGED <<journal, tickets>>
    PROVE  UNCHANGED Plan(p)!vars
BY DEF Plan!vars, StagesOf, TicketsOf

(* In a plan nothing is in progress that the journal does not show so. *)
LEMMA PlanIsFree ==
    ASSUME TypeOK, NEW p \in Signals, \A d \in Days : ~InProgress(<<p, d>>)
    PROVE  \A fp \in Identities(p) : ~Plan(p)!InProgress(fp)
<1>. SUFFICES ASSUME NEW fp \in Identities(p), Plan(p)!InProgress(fp)
              PROVE  FALSE
  OBVIOUS
<1>1. fp \in Fingerprints /\ \E d \in Days : fp = <<p, d>>
  BY PlanNames DEF Identities
<1>2. StageOf(journal[fp]) \in {"armed", "lookup"}
  BY DEF Plan!InProgress, StagesOf
<1>3. journal[fp] \in J!Unresolved
  BY <1>1, <1>2, StageOfPhase DEF TypeOK
<1>. QED  BY <1>1, <1>3 DEF InProgress

LEMMA PrepareIsOneShot ==
    ASSUME TypeOK, NEW p \in Signals, NEW fp \in Fingerprints, NEW ph,
           journal[fp] = J!Absent, \A d \in Days : ~InProgress(<<SignalOf(fp), d>>),
           ph = "PREPARED", journal' = [journal EXCEPT ![fp] = ph], tickets' = tickets
    PROVE  [Plan(p)!Next]_(Plan(p)!vars)
<1>1. CASE SignalOf(fp) # p
  BY <1>1, PlanStage DEF Plan!vars
<1>2. CASE SignalOf(fp) = p
  <2>1. fp \in Identities(p) /\ StagesOf(p)[fp] = "idle"
    BY <1>2, PlanNames, StageOfPhase DEF StagesOf
  <2>2. \A g \in Identities(p) : ~Plan(p)!InProgress(g)
    BY <1>2, PlanIsFree
  <2>3. /\ StagesOf(p)' = [StagesOf(p) EXCEPT ![fp] = StageOf(ph)]
        /\ TicketsOf(p)' = TicketsOf(p)
    BY <1>2, PlanStage
  <2>4. StageOf(ph) = "reserved"
    BY StageOfPhase
  <2>5. Plan(p)!Reserve(fp)
    BY <2>1, <2>2, <2>3, <2>4 DEF Plan!Reserve, Plan!Enter
  <2>. QED  BY <2>1, <2>5 DEF Plan!Next
<1>. QED  BY <1>1, <1>2

LEMMA ReserveIsOneShot ==
    ASSUME Sound, NEW p \in Signals, NEW w \in Windows, NEW d \in Days,
           LoadLive(w, d) \/ LoadFails(w, d)
    PROVE  [Plan(p)!Next]_(Plan(p)!vars)
<1>1. TypeOK /\ plan \in Signals /\ Reserve(d) /\ tickets' = tickets
  BY DEF Sound, TypeOK, LoadLive, LoadFails, CanLoad, PlanLoads, hostVars
<1>2. PICK fp \in Fingerprints : fp = <<plan, d>>
  BY <1>1 DEF Fingerprints
<1>3. SignalOf(fp) = plan
  BY <1>2 DEF SignalOf
<1>4. /\ journal[fp] = J!Absent
      /\ \A day \in Days : ~InProgress(<<SignalOf(fp), day>>)
      /\ journal' = [journal EXCEPT ![fp] = "PREPARED"]
  BY <1>1, <1>2, <1>3, ReserveStep
<1>. QED  BY <1>1, <1>4, PrepareIsOneShot

(* The steps of a window on the order that its session is about. *)
LEMMA OrderIsOneShot ==
    ASSUME Sound, NEW p \in Signals, NEW w \in Windows, NEW fp \in Fingerprints,
           \/ Confirm(w, fp) \/ WriteTicket(w, fp) \/ TicketFails(w, fp)
           \/ ImportUnknown(w, fp) \/ AcceptResult(w, fp)
    PROVE  [Plan(p)!Next]_(Plan(p)!vars)
<1>1. TypeOK /\ Journaled(w, fp) /\ SignalOf(fp) \in Signals /\ SignalOf(fp) = fp[1]
  BY Identity DEF Sound, SessionIsJournaled, SignalOf
<1>2. ASSUME NEW ph, J!Transition(fp, ph), tickets' = tickets, SignalOf(fp) # p
      PROVE  UNCHANGED Plan(p)!vars
  BY <1>1, <1>2, JournalStep, PlanStage DEF Plan!vars
<1>3. ASSUME NEW ph, J!Transition(fp, ph), tickets' = tickets, SignalOf(fp) = p
      PROVE  /\ StagesOf(p)' = [StagesOf(p) EXCEPT ![fp] = StageOf(ph)]
             /\ TicketsOf(p)' = TicketsOf(p)
  BY <1>1, <1>3, JournalStep, PlanStage
<1>4. ASSUME SignalOf(fp) = p
      PROVE  /\ fp \in Identities(p) /\ StagesOf(p)[fp] = StageOf(journal[fp])
             /\ fp \in TicketsOf(p) <=> fp \in tickets
  BY <1>4, PlanNames DEF StagesOf, TicketsOf
<1>5. CASE Confirm(w, fp)
  <2>1. /\ J!Transition(fp, "SUBMITTING") /\ tickets' = tickets
        /\ journal[fp] = "PREPARED" /\ \A d \in Days : ~InProgress(<<SignalOf(fp), d>>)
    BY <1>1, <1>5 DEF Confirm, Journaled, hostVars
  <2>2. CASE SignalOf(fp) = p
    <3>1. \A g \in Identities(p) : ~Plan(p)!InProgress(g)
      BY <1>1, <2>1, <2>2, PlanIsFree
    <3>2. /\ StagesOf(p)[fp] = "reserved"
          /\ StagesOf(p)' = [StagesOf(p) EXCEPT ![fp] = "armed"]
          /\ TicketsOf(p)' = TicketsOf(p)
      BY <1>3, <1>4, <2>1, <2>2, StageOfPhase
    <3>3. Plan(p)!Arm(fp)
      BY <3>1, <3>2 DEF Plan!Arm, Plan!Enter
    <3>. QED  BY <1>4, <2>2, <3>3 DEF Plan!Next
  <2>. QED  BY <1>2, <2>1, <2>2
<1>6. CASE WriteTicket(w, fp)
  <2>1. /\ journal[fp] = "SUBMITTING" /\ fp \notin tickets
        /\ journal' = journal /\ tickets' = tickets \cup {fp}
    BY <1>1, <1>6 DEF WriteTicket, Journaled
  <2>2. StagesOf(p)' = StagesOf(p)
    BY <2>1 DEF StagesOf
  <2>3. CASE SignalOf(fp) = p
    <3>1. Plan(p)!Send(fp)
      BY <1>4, <2>1, <2>2, <2>3, StageOfPhase DEF Plan!Send, TicketsOf
    <3>. QED  BY <1>4, <2>3, <3>1 DEF Plan!Next
  <2>4. CASE SignalOf(fp) # p
    BY <2>1, <2>2, <2>4, PlanNames DEF TicketsOf, Plan!vars
  <2>. QED  BY <2>3, <2>4
<1>7. CASE TicketFails(w, fp)
  <2>1. journal[fp] = "SUBMITTING" /\ tickets' = tickets
    BY <1>1, <1>7 DEF TicketFails, Journaled, hostVars
  <2>2. CASE J!Transition(fp, "UNKNOWN")
    <3>1. CASE SignalOf(fp) = p
      <4>1. Plan(p)!LookUp(fp)
        BY <1>3, <1>4, <2>1, <2>2, <3>1, StageOfPhase DEF Plan!LookUp, Plan!Enter
      <4>. QED  BY <1>4, <3>1, <4>1 DEF Plan!Next
    <3>. QED  BY <1>2, <2>1, <2>2, <3>1
  <2>3. CASE J!TransitionFails(fp, "UNKNOWN")
    BY <2>1, <2>3, PlanStays DEF J!TransitionFails, J!SaveFails, J!journalVars
  <2>. QED  BY <1>7, <2>2, <2>3 DEF TicketFails
<1>8. CASE ImportUnknown(w, fp)
  <2>1. J!Transition(fp, "UNKNOWN") /\ journal[fp] = "SUBMITTING" /\ tickets' = tickets
    BY <1>1, <1>8 DEF ImportUnknown, Journaled, hostVars
  <2>2. CASE SignalOf(fp) = p
    <3>1. Plan(p)!LookUp(fp)
      BY <1>3, <1>4, <2>1, <2>2, StageOfPhase DEF Plan!LookUp, Plan!Enter
    <3>. QED  BY <1>4, <2>2, <3>1 DEF Plan!Next
  <2>. QED  BY <1>2, <2>1, <2>2
<1>9. CASE AcceptResult(w, fp)
  <2>1. /\ J!Transition(fp, PhaseFor(fp)) /\ PhaseFor(fp) \in J!Terminal
        /\ journal[fp] = "SUBMITTING" /\ fp \in tickets /\ tickets' = tickets
    BY <1>1, <1>9, PhaseNames DEF AcceptResult, Journaled, hostVars, PhaseFor
  <2>2. CASE SignalOf(fp) = p
    <3>1. /\ StagesOf(p)' = [StagesOf(p) EXCEPT ![fp] = "closed"]
          /\ TicketsOf(p)' = TicketsOf(p)
      BY <1>3, <2>1, <2>2, StageOfPhase
    <3>2. StagesOf(p)[fp] = "armed" /\ fp \in TicketsOf(p)
      BY <1>4, <2>1, <2>2, StageOfPhase
    <3>3. Plan(p)!Close(fp)
      BY <3>1, <3>2 DEF Plan!Close, Plan!InProgress, Plan!Enter
    <3>. QED  BY <1>4, <2>2, <3>3 DEF Plan!Next
  <2>. QED  BY <1>2, <2>1, <2>2
<1>. QED  BY <1>5, <1>6, <1>7, <1>8, <1>9

LEMMA NextPlans ==
    ASSUME Sound, [Next]_vars, NEW p \in Signals
    PROVE  [Plan(p)!Next]_(Plan(p)!vars)
<1>1. ASSUME NEW w \in Windows, NEW d \in Days, LoadLive(w, d) \/ LoadFails(w, d)
      PROVE  [Plan(p)!Next]_(Plan(p)!vars)
  BY <1>1, ReserveIsOneShot
<1>2. ASSUME NEW w \in Windows, NEW fp \in Fingerprints,
             \/ Confirm(w, fp) \/ WriteTicket(w, fp) \/ TicketFails(w, fp)
             \/ ImportUnknown(w, fp) \/ AcceptResult(w, fp)
      PROVE  [Plan(p)!Next]_(Plan(p)!vars)
  BY <1>2, OrderIsOneShot
<1>3. ASSUME UNCHANGED <<journal, tickets>>
      PROVE  [Plan(p)!Next]_(Plan(p)!vars)
  BY <1>3, PlanStays
<1>4. ASSUME NEW w \in Windows, NEW fp \in Fingerprints,
             DropPreview(w, fp) \/ SyncFills(w, fp) \/ ImportFails(w, fp) \/ Leave(w)
      PROVE  UNCHANGED <<journal, tickets>>
  BY <1>4 DEF DropPreview, SyncFills, ImportFails, Leave, hostVars
<1>5. ASSUME NEW w \in Windows, Leave(w)
      PROVE  UNCHANGED <<journal, tickets>>
  BY <1>5 DEF Leave, hostVars
<1>6. ASSUME NEW fp \in Fingerprints, HostSubmits(fp) \/ OrderEnds(fp) \/ HostReports(fp)
      PROVE  UNCHANGED <<journal, tickets>>
  BY <1>6 DEF HostSubmits, OrderEnds, HostReports, ownVars
<1>7. ASSUME \/ \E sig \in Signals : PublishPlan(sig)
             \/ PlanExpires \/ CycleSyncs \/ UNCHANGED vars
      PROVE  UNCHANGED <<journal, tickets>>
  BY <1>7 DEF PublishPlan, PlanExpires, CycleSyncs, vars, ownVars, hostVars
<1>. QED  BY <1>1, <1>2, <1>3, <1>4, <1>5, <1>6, <1>7 DEF Next

(* Whatever is imported, refused or interrupted, and by whichever window,   *)
(* the orders of one plan implement the abstract one-shot order.            *)
THEOREM EachPlanIsOneShot == Spec => PlansAreOneShot
<1>1. Init => \A p \in Signals : Plan(p)!Init
  BY InitPlans
<1>2. Sound /\ [Next]_vars => [\A p \in Signals : [Plan(p)!Next]_(Plan(p)!vars)]_vars
  BY NextPlans
<1>3. Spec => []Sound
  BY InitSound, NextSound, PTL DEF Spec
<1>. QED  BY <1>1, <1>2, <1>3, PTL DEF Spec, PlansAreOneShot
=============================================================================
