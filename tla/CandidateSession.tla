-------------------------- MODULE CandidateSession --------------------------
(***************************************************************************)
(* The session as the strategy cycle and its operator drive it, without an  *)
(* execution coordinator: signals, dismissals, pauses and stops, any save   *)
(* failing and the process ending between any two steps.                    *)
(***************************************************************************)
EXTENDS TradingSession

Init == SessionInit

Next ==
    \/ OpenSession \/ LoseSession
    \/ Start \/ WritePlan \/ MarkReady \/ CandidateFails
    \/ DismissCandidate \/ Stop \/ ClockMoves
    \/ \E s \in Snapshots : FinishStart(s) \/ StartFails(s) \/ ManualResume(s)
    \/ \E sig \in Signals, s \in Snapshots :
         SkipSignal(sig, s) \/ BlockSignal(sig, s) \/ Reserve(sig, s)

Spec == Init /\ [][Next]_sessionVars
-----------------------------------------------------------------------------
(* Whatever happens between two saves, the session file that is left is one *)
(* that _load accepts: no crash, failed save or limit strands the session.  *)
(* Its times are in order as long as the clock was never set back: a save   *)
(* takes any time, and _load refuses a session that was changed before it   *)
(* was created, or a candidate from outside that interval.                  *)
FileAlwaysLoads ==
    /\ Consistent(file)
    /\ ~setBack => Loadable(file, fileTimes)

(* "One strategy ID plus stable event time can create at most one           *)
(* candidate": once a plan file exists, the saved session remembers its     *)
(* signal, so that a restart at any moment cannot propose it again.         *)
CandidateRemembered ==
    \A sig \in plans : sig \in file.processed \/ file.pending.signal = sig

(* A stop that was saved holds: the file never goes from a stop to a phase  *)
(* that accepts signals or waits for one without a start in between.        *)
SavedStopHolds ==
    [][file.phase \in {"STOPPING", "STOPPED"}
       => file'.phase \in {"STOPPING", "STOPPED", "STARTING", "RECOVERY_ONLY"}
    ]_sessionVars

(* A saved BUY latch outlives every restart and every observation: only an  *)
(* operator's resume, on a usable account under its limits, ends it.        *)
LatchEndsByResume ==
    [][file.latch # NoPause /\ latch' = NoPause /\ latch # NoPause
       => \E s \in Snapshots : ManualResume(s) /\ CanResume(s)]_sessionVars
=============================================================================
