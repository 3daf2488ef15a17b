------------------------------ MODULE TickDesk ------------------------------
(***************************************************************************)
(* The desktop window over the tick monitor: the GUI thread starts and      *)
(* stops the runner, polls it, sends it operator commands and collects its  *)
(* results; the worker thread evaluates.  The process may die, and another  *)
(* process may write the same database.                                     *)
(***************************************************************************)
EXTENDS MedianMonitor

VARIABLE desk       \* "off", "on" (the poll timer runs), "stopping", or "failed":
                    \* still stopping, with the cleanup's failure shown

vars == <<sessionVars, runnerVars, monitorVars, history, desk>>

TypeOK ==
    /\ SessionTypeOK
    /\ RunnerTypeOK
    /\ MonitorTypeOK
    /\ desk \in {"off", "on", "stopping", "failed"}

Init ==
    /\ SessionInit
    /\ RunnerInit
    /\ MonitorInit
    /\ desk = "off"

(* poll(): a submission, when the runner takes one. *)
Submit == flight' = "running" /\ work' = "commands"

Start ==
    /\ desk = "off"
    /\ desk' = "on"
    /\ flight' = "running" /\ work' = "commands"
    /\ UNCHANGED <<sessionVars, commands, disposal, page, caughtUp, resumeFlag,
                   pauseFlag, repairFrom, history>>

Poll ==
    /\ desk = "on"
    /\ Submitting
    /\ Submit
    /\ UNCHANGED <<sessionVars, commands, disposal, page, caughtUp, resumeFlag,
                   pauseFlag, repairFrom, history, desk>>

PaperCommand(action) ==
    /\ desk = "on"
    /\ Enqueue(action)
    /\ IF Submitting THEN Submit ELSE UNCHANGED <<flight, work>>
    /\ UNCHANGED <<sessionVars, disposal, page, caughtUp, resumeFlag, pauseFlag,
                   repairFrom, history, desk>>

(* finish_stop(): the runner is closed once no evaluation is in flight. *)
CloseRunner == disposal' = IF RunnerOpen THEN "queued" ELSE disposal

Stop ==
    /\ desk = "on"
    /\ desk' = "stopping"
    /\ IF flight = "none" THEN CloseRunner ELSE UNCHANGED disposal
    /\ UNCHANGED <<sessionVars, commands, flight, monitorVars, history>>

(* A mutation: an evaluation that raised is reported but not taken. *)
CollectOnlyResults ==
    /\ Landed
    /\ flight' = IF flight = "done" THEN "none" ELSE flight
    /\ IF desk = "stopping" /\ flight = "done" THEN CloseRunner ELSE UNCHANGED disposal
    /\ UNCHANGED <<sessionVars, commands, monitorVars, history, desk>>

(* collect(), on the result timer. *)
Collect ==
    /\ Take
    /\ IF desk = "stopping" THEN CloseRunner ELSE UNCHANGED disposal
    /\ UNCHANGED <<sessionVars, commands, monitorVars, history, desk>>

(* The worker closes the session, after any evaluation it was given before. *)
(* When closing raises, the session may be open still or may be closed.     *)
Dispose ==
    /\ disposal = "queued"
    /\ flight # "running"
    /\ \/ disposal' = "done" /\ DropSession
       \/ /\ disposal' = "failed"
          /\ DropSession \/ UNCHANGED sessionVars
    /\ UNCHANGED <<commands, flight, monitorVars, history, desk>>

(* The runner is dropped with whatever commands it still holds, and the     *)
(* lock is released.                                                        *)
FinishStop ==
    /\ desk = "stopping"
    /\ disposal = "done"
    /\ desk' = "off"
    /\ commands' = <<>> /\ disposal' = "none" /\ UNCHANGED flight
    /\ MonitorReset
    /\ UNCHANGED sessionVars

(* The cleanup failed: the runner and the lock are kept, the error is shown *)
(* and nothing but the end of the process leads out.                        *)
CleanupFailed ==
    /\ desk = "stopping"
    /\ disposal = "failed"
    /\ desk' = "failed"
    /\ UNCHANGED <<sessionVars, runnerVars, monitorVars, history>>

Die ==
    /\ desk # "off"
    /\ desk' = "off"
    /\ DropSession
    /\ commands' = <<>> /\ flight' = "none" /\ disposal' = "none"
    /\ MonitorReset

Worker == Evaluate /\ UNCHANGED desk

Other ==
    /\ OtherWriter
    /\ UNCHANGED <<runnerVars, monitorVars, history, desk>>

Next ==
    \/ Start \/ Poll \/ Stop \/ Collect \/ Dispose \/ FinishStop \/ CleanupFailed
    \/ Die
    \/ \E action \in Commands : PaperCommand(action)
    \/ Worker
    \/ Other

(* The worker thread runs, the two timers of the window fire, and an HTTP   *)
(* call ends, at the latest by its timeout.  The operator does not send     *)
(* commands for ever faster than the worker drains them, so that it finds   *)
(* the queue empty.                                                         *)
Fairness ==
    /\ WF_vars(Worker)
    /\ SF_vars(CommandsDone /\ UNCHANGED desk)
    /\ WF_vars(Dispose)
    /\ WF_vars(Poll)
    /\ WF_vars(Collect)
    /\ WF_vars(FinishStop)
    /\ WF_vars(CleanupFailed)

Spec == Init /\ [][Next]_vars /\ Fairness

-----------------------------------------------------------------------------
(* The ledger and the fills are one history: whoever wrote, whatever failed *)
(* and whenever the process died, fills alternate from a BUY on, the        *)
(* position is what the last fill left, and every fill is before the        *)
(* cursor, so that no trade is filled again.                                *)
BooksAgree ==
    LET done == {t \in Trades : fills[t] # "none"}
        before(t) == {u \in done : u < t}
        last(S) == CHOOSE t \in S : \A u \in S : u <= t
    IN /\ \A t \in done : t < db.next
       /\ \A t \in done :
            (fills[t] = "sell") =
              (before(t) # {} /\ fills[last(before(t))] = "buy")
       /\ db.holding = (done # {} /\ fills[last(done)] = "buy")

(* A committed ledger at a limit has its BUYs paused: no fill, day, restart *)
(* or resumption leaves a ledger over a limit that may buy.                 *)
LimitLatches ==
    db.breach \/ db.entries >= MaxEntries \/ db.losses >= MaxLosses => db.paused

(* Every committed state passes the checks made when it is opened           *)
(* (median_paper.py:137-140).                                               *)
LedgerReopens ==
    /\ db.recovery => db.paused
    /\ db.holding => db.next > 1

(* A gap is forgotten only after a trade was accepted beyond the cursor of  *)
(* the last saved data error, or of the reopening (docs/MEDIAN_DESKTOP.md:  *)
(* 25); but for an error that accept_page saved and the monitor could not   *)
(* save again, of which it knows no cursor: TLC refutes the same without    *)
(* the last disjunct.                                                       *)
GapNeedsRepair ==
    [][db.recovery /\ ~db'.recovery => db'.next > gapAt \/ unnoted]_vars

(* BUYs are resumed only when the last command carried out is a resumption: *)
(* a pause withdraws one asked for before it, across pages, errors and      *)
(* deferred evaluations, and a restart resumes nothing.                     *)
PauseCancelsResume ==
    [][db.paused /\ ~db'.paused => lastRun = "resume"]_vars

(* The database is one tape of fills to which the monitor, a second process *)
(* with memory of its own and every restart only add, and no page that is   *)
(* accepted by a session behind a saved pause buys (the revision of         *)
(* median_paper.py:156-165).                                                *)
Tape == INSTANCE PaperTape
          WITH next <- db.next, tape <- fills, paused <- db.paused

IsOneTape == Tape!Spec

(* A window that is stopping stops: after the evaluation in flight and the  *)
(* disposal on the worker's thread the lock is released, and then the       *)
(* session is closed; or the cleanup failed, the lock is kept and the       *)
(* window shows the error (docs/MEDIAN_DESKTOP.md:37).                      *)
StopIsReached ==
    desk = "stopping" ~> (desk = "off" /\ session = {}) \/ desk = "failed"

(* A queued pause ends in a paused ledger or in an evaluation that failed,  *)
(* which the window reports, unless the window is stopped first.            *)
PauseTakesEffect ==
    (\E i \in DOMAIN commands : commands[i] = "pause")
      ~> (db.paused \/ flight = "failed" \/ desk # "on")
=============================================================================
