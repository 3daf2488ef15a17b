---------------------------- MODULE MedianMonitor ----------------------------
(***************************************************************************)
(* One evaluation of the tick monitor on the worker thread: the queued      *)
(* commands, the session, the market status, up to PagesPerCycle pages of   *)
(* trades, and a requested resumption.  `work' is where the worker is and   *)
(* each commit is a step of its own.                                        *)
(***************************************************************************)
EXTENDS TickPaperSession, PollRunner, FiniteSetsExt

CONSTANTS
    PageLimit,      \* rows of a page (1000)
    PagesPerCycle   \* pages of one evaluation (3)

ASSUME MonitorAssumption ==
    {PageLimit, PagesPerCycle} \subseteq Nat \ {0}

VARIABLES
    work,           \* the worker's place in _evaluate
    page,           \* pages fetched so far, while they are
    caughtUp,       \* the last page was short
    resumeFlag,     \* _resume
    pauseFlag,      \* _pause: a pause commanded before there is a session
    repairFrom,     \* _recovery_cursor, 0 for None
    lastRun,        \* history: "resume" when the last command this monitor
                    \* carried out is one
    gapAt,          \* history: the cursor of the last saved data error
    unnoted         \* history: that error was saved by accept_page alone, and
                    \* the monitor has not noted its cursor

monitorVars == <<work, page, caughtUp, resumeFlag, pauseFlag, repairFrom>>
history == <<lastRun, gapAt, unnoted>>

MonitorTypeOK ==
    /\ work \in {"idle", "commands", "opening", "pausing", "status", "pages",
                 "latching", "resuming"}
    /\ page \in 0 .. PagesPerCycle
    /\ {caughtUp, resumeFlag, pauseFlag} \subseteq BOOLEAN
    /\ repairFrom \in 0 .. MaxTrade + 1
    /\ lastRun \in {"none", "resume"}
    /\ gapAt \in 0 .. MaxTrade + 1
    /\ unnoted \in BOOLEAN

MonitorInit ==
    /\ work = "idle"
    /\ page = 0
    /\ caughtUp = FALSE
    /\ resumeFlag = FALSE
    /\ pauseFlag = FALSE
    /\ repairFrom = 0
    /\ lastRun = "none"
    /\ gapAt = 0
    /\ unnoted = FALSE

(* A new monitor, or none. *)
MonitorReset ==
    /\ work' = "idle" /\ page' = 0 /\ caughtUp' = FALSE
    /\ resumeFlag' = FALSE /\ pauseFlag' = FALSE /\ repairFrom' = 0
    /\ lastRun' = "none" /\ unnoted' = FALSE /\ UNCHANGED gapAt

Goto(place) == work' = place /\ UNCHANGED <<flight, page, caughtUp>>

(* The evaluation ends, with an event or with an exception. *)
End(outcome) ==
    work' = "idle" /\ flight' = outcome /\ page' = 0 /\ caughtUp' = FALSE

Fail == End("failed")

Evaluating(place) == flight = "running" /\ work = place

Quiet == UNCHANGED <<commands, disposal, lastRun>>

(* A data error that was saved is noted with its cursor. *)
Noted(at) ==
    /\ repairFrom' = (IF at > 1 THEN at ELSE 0)
    /\ gapAt' = at
    /\ unnoted' = FALSE

GapStays == UNCHANGED <<gapAt, unnoted>>
NotNoted == UNCHANGED repairFrom /\ GapStays

(* A mutation: a pause does not withdraw a resumption asked for before. *)
CommandPauseKeepsResume ==
    /\ Evaluating("commands")
    /\ TakeCommand("pause")
    /\ lastRun' = "none" /\ GapStays
    /\ UNCHANGED resumeFlag
    /\ IF SessionOpen
         THEN /\ \/ Commit(Paused(Memory), NoFills) /\ Goto("commands")
                 \/ CommitFails /\ Fail
              /\ UNCHANGED pauseFlag
         ELSE pauseFlag' = TRUE /\ UNCHANGED sessionVars /\ Goto("commands")
    /\ UNCHANGED <<repairFrom, disposal>>

(* A mutation: a pause is only noted for the session's opening. *)
CommandPauseOnlyNoted ==
    /\ Evaluating("commands")
    /\ TakeCommand("pause")
    /\ lastRun' = "none" /\ GapStays
    /\ resumeFlag' = FALSE
    /\ pauseFlag' = TRUE
    /\ Goto("commands")
    /\ UNCHANGED <<sessionVars, repairFrom, disposal>>

(* paper_control("pause"): a pause that cannot be saved ends the evaluation *)
(* with an exception.                                                       *)
CommandPause ==
    /\ Evaluating("commands")
    /\ TakeCommand("pause")
    /\ lastRun' = "none" /\ GapStays
    /\ resumeFlag' = FALSE
    /\ IF SessionOpen
         THEN /\ \/ Commit(Paused(Memory), NoFills) /\ Goto("commands")
                 \/ CommitFails /\ Fail
              /\ UNCHANGED pauseFlag
         ELSE pauseFlag' = TRUE /\ UNCHANGED sessionVars /\ Goto("commands")
    /\ UNCHANGED <<repairFrom, disposal>>

CommandResume ==
    /\ Evaluating("commands")
    /\ TakeCommand("resume")
    /\ lastRun' = "resume" /\ GapStays
    /\ resumeFlag' = TRUE
    /\ Goto("commands")
    /\ UNCHANGED <<sessionVars, pauseFlag, repairFrom, disposal>>

CommandsDone ==
    /\ Evaluating("commands")
    /\ commands = <<>>
    /\ Goto(IF SessionOpen THEN "status" ELSE "opening")
    /\ UNCHANGED <<sessionVars, resumeFlag, pauseFlag, repairFrom, gapAt, unnoted>>
    /\ Quiet

(* The session is made; the catalog or the database may refuse. *)
Open ==
    /\ Evaluating("opening")
    /\ \/ /\ OpenSession
          /\ IF db.recovery THEN Noted(db.next) ELSE NotNoted
          /\ Goto("pausing")
       \/ UNCHANGED sessionVars /\ NotNoted /\ Fail
    /\ UNCHANGED <<resumeFlag, pauseFlag>>
    /\ Quiet

(* A reopened ledger does not resume its BUYs.  When this save fails the    *)
(* session stays open, and the next evaluation does not come here again.    *)
PauseReopened ==
    /\ Evaluating("pausing")
    /\ IF Memory.next > 1 \/ pauseFlag
         THEN \/ /\ Commit(Paused(Memory), NoFills)
                 /\ pauseFlag' = FALSE
                 /\ Goto("status")
              \/ CommitFails /\ Fail /\ UNCHANGED pauseFlag
         ELSE UNCHANGED <<sessionVars, pauseFlag>> /\ Goto("status")
    /\ UNCHANGED <<resumeFlag, repairFrom, gapAt, unnoted>>
    /\ Quiet

MarketOpen ==
    /\ Evaluating("status")
    /\ Goto("pages")
    /\ UNCHANGED <<sessionVars, resumeFlag, pauseFlag, repairFrom, gapAt, unnoted>>
    /\ Quiet

(* A market that is not trading is a data error, not an exception. *)
MarketClosed ==
    /\ Evaluating("status")
    /\ \/ /\ Commit(WithDataError(Memory), NoFills)
          /\ Noted(Memory.next)
          /\ End("done")
       \/ CommitFails /\ Fail /\ NotNoted
    /\ UNCHANGED <<resumeFlag, pauseFlag>>
    /\ Quiet

(* The status raises, or the provider refuses what it got. *)
DataInvalid ==
    /\ Evaluating("status") \/ Evaluating("pages")
    /\ Goto("latching")
    /\ UNCHANGED <<sessionVars, resumeFlag, pauseFlag, repairFrom, gapAt, unnoted>>
    /\ Quiet

(* The stream refuses the page: accept_page saves the mark of the error by  *)
(* itself, and raises; the cursor is noted by the handler only.             *)
PageRejected ==
    /\ Evaluating("pages")
    /\ \/ /\ Commit(WithDataError(Memory), NoFills)
          /\ gapAt' = Memory.next /\ unnoted' = TRUE
          /\ Goto("latching")
       \/ CommitFails /\ Fail /\ GapStays
    /\ UNCHANGED <<resumeFlag, pauseFlag, repairFrom>>
    /\ Quiet

(* A mutation: the cursor of the error is not noted. *)
LatchDataErrorForgets ==
    /\ Evaluating("latching")
    /\ resumeFlag' = FALSE
    /\ \/ /\ Commit(WithDataError(Memory), NoFills)
          /\ gapAt' = Memory.next /\ unnoted' = FALSE
       \/ CommitFails /\ GapStays
    /\ Fail
    /\ UNCHANGED <<pauseFlag, repairFrom>>
    /\ Quiet

(* The handler of a ValueError, or of any exception of the status: an error *)
(* that cannot be saved is not noted, though the page may have saved it.    *)
LatchDataError ==
    /\ Evaluating("latching")
    /\ resumeFlag' = FALSE
    /\ \/ /\ Commit(WithDataError(Memory), NoFills)
          /\ Noted(Memory.next)
       \/ CommitFails /\ NotNoted
    /\ Fail
    /\ UNCHANGED pauseFlag
    /\ Quiet

(* The connection breaks: a RequestException is no ValueError, and passes.  *)
ConnectionBroken ==
    /\ Evaluating("pages")
    /\ Fail
    /\ UNCHANGED <<sessionVars, resumeFlag, pauseFlag, repairFrom, gapAt, unnoted>>
    /\ Quiet

(* The first page of an empty stream: the latest trades, for warm-up. *)
ColdPage ==
    /\ Evaluating("pages")
    /\ Memory.next = 1
    /\ \/ UNCHANGED sessionVars /\ Goto("resuming")
       \/ \E last \in Trades :
            Commit([Memory EXCEPT !.next = last + 1], NoFills) /\ Goto("resuming")
    /\ UNCHANGED <<resumeFlag, pauseFlag, repairFrom, gapAt, unnoted>>
    /\ Quiet

(* A page from the cursor.  A full page is catching up and none of it is    *)
(* fresh; of a short one some last trades may be.                           *)
NextPage ==
    /\ Evaluating("pages")
    /\ Memory.next > 1
    /\ \E n \in 0 .. Min({PageLimit, (MaxTrade + 1) - Memory.next}) :
         LET full == n = PageLimit
             end == Memory.next + n
             more == full /\ page + 1 < PagesPerCycle
         IN /\ IF n = 0
                 THEN UNCHANGED sessionVars
                 ELSE \E fresh \in IF full THEN {end} ELSE Memory.next .. end :
                      \E r \in Accepted(Memory, n, fresh) : Commit(r.ledger, r.new)
            /\ work' = IF more THEN "pages" ELSE "resuming"
            /\ page' = IF more THEN page + 1 ELSE 0
            /\ caughtUp' = ~full
            /\ UNCHANGED flight
    /\ UNCHANGED <<resumeFlag, pauseFlag, repairFrom, gapAt, unnoted>>
    /\ Quiet

(* The transaction of a page fails, and the exception is no ValueError. *)
PageUnsaved ==
    /\ Evaluating("pages")
    /\ CommitFails /\ Fail
    /\ UNCHANGED <<resumeFlag, pauseFlag, repairFrom, gapAt, unnoted>>
    /\ Quiet

(* Nothing was asked for, or the trades are not caught up, fresh and        *)
(* repaired, or a limit is still reached.                                   *)
NotResumed ==
    /\ Evaluating("resuming")
    /\ resumeFlag' = FALSE
    /\ End("done")
    /\ UNCHANGED <<sessionVars, pauseFlag, repairFrom, gapAt, unnoted>>
    /\ Quiet

Repaired ==
    \/ ~Memory.recovery
    \/ repairFrom = 0
    \/ Memory.next > repairFrom

Resume ==
    /\ Evaluating("resuming")
    /\ resumeFlag /\ caughtUp /\ Memory.next > 1 /\ Repaired
    /\ resumeFlag' = FALSE
    /\ \/ /\ \E s \in Resumed(Memory) : Commit(s, NoFills)
          /\ gapAt' = 0 /\ unnoted' = FALSE
          /\ End("done")
       \/ CommitFails /\ Fail /\ GapStays
    /\ UNCHANGED <<pauseFlag, repairFrom>>
    /\ Quiet

Evaluate ==
    \/ CommandPause \/ CommandResume \/ CommandsDone
    \/ Open \/ PauseReopened
    \/ MarketOpen \/ MarketClosed \/ DataInvalid
    \/ PageRejected \/ LatchDataError \/ ConnectionBroken
    \/ ColdPage \/ NextPage \/ PageUnsaved
    \/ NotResumed \/ Resume
=============================================================================
