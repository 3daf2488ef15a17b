-------------------------- MODULE ExecutionJournal --------------------------
(***************************************************************************)
(* The durable idempotency journal.  `records' is what the open journal     *)
(* object holds in memory, `journalFile' what a new owner of the lock would *)
(* load.  Every save writes ALL of the memory and replaces the file in one  *)
(* step; a failed save raises and rolls the memory back.                    *)
(***************************************************************************)
EXTENDS SpotOrders

VARIABLES records, journalFile

journalVars == <<records, journalFile>>

Absent == "ABSENT"
Unresolved == {"SUBMITTING", "SUBMITTED", "UNKNOWN"}
Terminal == {"FILLED", "REJECTED"}
Phases == {"PREPARED"} \cup Unresolved \cup Terminal

Transitions ==
    [p \in Phases |->
        CASE p = "PREPARED"   -> {"SUBMITTING"}
          [] p = "SUBMITTING" -> {"SUBMITTED", "UNKNOWN"} \cup Terminal
          [] p = "SUBMITTED"  -> {"UNKNOWN"} \cup Terminal
          [] p = "UNKNOWN"    -> {"SUBMITTED"} \cup Terminal
          [] OTHER            -> {}]

NoRecords == [fp \in Fingerprints |-> Absent]

JournalTypeOK ==
    /\ records \in [Fingerprints -> Phases \cup {Absent}]
    /\ journalFile \in [Fingerprints -> Phases \cup {Absent}]

JournalInit == records = NoRecords /\ journalFile = NoRecords

(* A mutation: a new owner of the lock starts from an empty journal. *)
LoadNothing == records' = NoRecords /\ UNCHANGED journalFile

LoadJournal == records' = journalFile /\ UNCHANGED journalFile

DropJournal == records' = NoRecords /\ UNCHANGED journalFile

Save(fp, phase) ==
    /\ records' = [records EXCEPT ![fp] = phase]
    /\ journalFile' = records'

(* A mutation: a failed save leaves the new phase in memory. *)
SaveFailsDirty(fp, phase) ==
    /\ records' = [records EXCEPT ![fp] = phase]
    /\ UNCHANGED journalFile

SaveFails(fp, phase) == UNCHANGED journalVars

CanTransition(fp, phase) ==
    /\ records[fp] \in Phases
    /\ phase \in Transitions[records[fp]]

Prepare(fp) == records[fp] = Absent /\ Save(fp, "PREPARED")

PrepareFails(fp) == records[fp] = Absent /\ SaveFails(fp, "PREPARED")

Transition(fp, phase) == CanTransition(fp, phase) /\ Save(fp, phase)

(* Besides a failed save, a clock that moved backwards refuses it. *)
TransitionFails(fp, phase) == CanTransition(fp, phase) /\ SaveFails(fp, phase)
=============================================================================
