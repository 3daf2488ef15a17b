# A TLA+ model of bstock-web3

This directory holds TLA+ modules that model the order execution, the account
evidence and the paper trading of `src/bstock_web3`, TLC configurations that
check them on small instances, and proofs that TLAPS checks for every instance.
`PROJECT.json` lists the
components, the runs, the mutants that show each property can fail, the lines
of the source each definition stands for, the hazards, the findings and the
theorems.

To check one run: `tlc -workers 2 -config MCDirectExecution.cfg MCDirectExecution.tla`.
To check the proofs: `tlapm DirectExecutionProofs.tla`, and likewise
`CandidateSessionProofs.tla`, `SessionExecutionProofs.tla`, `WalletEngineProofs.tla`,
`PaperEngineProofs.tla`, `LiveEvidenceProofs.tla`, `DesktopOrdersProofs.tla` and
`TickDeskProofs.tla`.

## 1. The system

The program turns market data into strategy signals and, after one explicit
confirmation per order, into Spot orders that an external host places.  Its
parts, the state they keep and how they interact:

| Part | State | Operations | Talks to |
|---|---|---|---|
| `AutomationPolicy` | BUY latch | `evaluate`, `observe`, `request_manual_resume`, `checkpoint`/`restore` | called by the executor and the session, which share one object |
| `ExecutionLock` | the OS lock | `acquire`, `release` | held by whoever owns the journal |
| `ExecutionJournal` | records in memory, one JSON file | `prepare`, `transition`, `load` | written by the executor |
| `ConfirmedSpotExecutor` | the preview awaiting its phrase | `preview`, `cancel_preview`, `begin_submission`, `submit`, `rehearse_confirmation`, `accept_submission_result`, `mark_submission_unknown`, `reconcile` | journal, policy, the host's caller |
| `McpTradingSession` | phase, pending candidate, processed signals, policy; one JSON file | `start`, `prepare_candidate`, `dismiss_candidate`, `begin_confirmation`, `record_submission_ticket`, `record_execution_outcome`, `enter_recovery`, `request_manual_resume`, `stop`, load | plan files, the coordinator |
| `McpSessionExecution` | the current plan and preview | `prepare_preview`, `confirm_to_ticket`, `import_result` | session, executor, ticket files, receipts, fill ledger |
| `SpotFillLedger` | normalized fills, one file | `sync` | receipts, risk statistics |
| `SpotEquityRiskLedger`, `McpSpotEquityGuard` | daily equity baseline | `observe`, cash flows | snapshots |
| MCP cycle (`mcp_cycle`) | none | one evaluation: evidence, market, guard, ledger, signal, session, under the session's lock | session, guard, ledger |
| MCP bridge, snapshots, receipts | the plan file, the verified-snapshot file, the account binding | build a request, verify a receipt, build a plan | host files, the window, the command lines |
| Desktop live handoff, rehearsal | preview, ticket and lock of one plan; a journal per plan | `confirm`, `import_result`, `cancel`, `close` | executor, fill ledger, result files |
| `BStockEngine`, `AgenticWalletCli` | engine state, one JSON file | `evaluate_once`, `execute_confirmed`, pending order, paper account | the `baw` wallet process, the command line's loop |
| `TickPaperSession` | ledger, tick window, fills; one SQLite database with a revision | `accept_page`, `pause_buys`, `resume_buys`, `data_error` | its database, perhaps a second process |
| `MedianMonitor` | session, requested resumption and pause, cursor of the last data error | `paper_control`, `evaluate_once`, `close` | session, catalog, `AggregateTradeProvider` |
| Range and candle strategies | indicator windows | one decision per bar or tick | engine, monitor, cycle |
| `PollRunner` | one worker thread, the evaluation in flight, a queue of eight commands | `submit`, `command`, `take`, `close` | GUI thread on one side, an engine or monitor on the other |
| Desktop monitor window | poll timer, result timer, state lock | `toggle`, `poll`, `paper_command`, `collect`, `finish_stop` | `PollRunner` |
| `SpotSignalObserver` | evidence files | one observation | providers |
| Market data, catalog, CLIs | caches | I/O | everything |

What is hard here, and what makes each part correct:

* The host's call may be lost, may time out while the order travels, and may be
  answered late.  *An order is sent at most once and never before its
  submission is durable; nothing is inferred from silence.*
* The process may die between any two files: journal, session, ticket, ledger,
  plan.  *What is left always loads, remembers every candidate and ticket, and
  never permits a second one.*
* Every save may fail.  The journal rolls its memory back; the session does
  not, so that its memory runs ahead of its file.  *The two kinds of error
  handling must both leave safe files.*
* The executor and the session change each other's ground between a preview and
  its confirmation: a stop, a dismissal, another risk day, a BUY limit.
* The BUY latch must outlive restarts and only an operator may clear it, while
  SELLs go on.
* The host reads balances and trades in separate calls while the account goes
  on; the window, the cycle and the commands share the files made of them.  *No
  transfer passes for a profit or a loss, a decision rests on what is saved, and
  no order of steps leaves files that refuse the account.*
* The desktop has a journal and a lock for each plan, a ledger for all of them,
  and results that arrive in any order.  *A plan is sent once, and the ledger
  forgets no fill.*
* The paper engine saves up to three times in one evaluation, and its clock may
  jump.  *One fill for a bar, one set of limits and one baseline for a day.*
* The wallet engine learns the id of an order only from the answer of the swap
  command.  *A bar leads to one swap, a known order is followed to its end, and
  its fill is booked once.*
* The tick ledger is written by a worker thread, commanded by the GUI thread,
  fed by a public endpoint that fails, and shared with whoever opens the same
  database.  *Ledger, cursor and fills stay one history; a limit, a gap or a
  pause keeps BUYs off until it is lifted in the way the docs allow.*

Order execution has one thread per process and an exclusive lock per journal,
so that what interleaves there are processes (by way of the lock), files, the
exchange and the operator.  The desktop monitor has two threads, which meet in
`PollRunner`.

## 2. The modules

| Module | Models | Reads as |
|---|---|---|
| `SpotOrders` | identity of an order | `Fingerprints == Signals \X Days`: the digest contains the risk day (and price and quantity, for which the day stands) |
| `AutomationPolicy` | the risk gate | a snapshot is the set of answers the gate derives from it; `latch` is `buy_pause_reason` |
| `ExecutionJournal` | journal memory and file | `Save`/`SaveFails`, `Prepare`, `Transition`, `LoadJournal` |
| `ConfirmedExecutor` | the executor's methods | each method is an operator; a refusal that changes nothing is a guard |
| `SpotExchange` | the exchange (external) | `NewOrder`, `Arrive`, `Lose`, `End`; `Reported` is what a valid answer may say |
| `OneShotOrder` | the promise | reserve, arm alone, send once while armed, only look up afterwards, close forever |
| `DirectExecution` | the executor over an injected caller | `submit` and `reconcile` split at every durable write and every call; crashes and lock hand-over |
| `TradingSession` | the session's methods | memory and file apart; a method that saves twice is two actions, told apart by `step`; `times` and `fileTimes` are the times the loader compares, `clock` what the next call is given |
| `CandidateSession` | the session under the strategy cycle | `Next` over the session's own methods |
| `SessionExecution` | coordinator, session, executor, tickets, ledger, host | one action per file written, told apart by `job` |
| `AgenticWallet` | the wallet (external) and what `AgenticWalletCli` reads of it | a signal bar names its order; `FoundOrders` is `_find_order` with its fallback to similar orders |
| `WalletEngine` | `BStockEngine` in live-confirmed mode under `cli.py`'s loop | `state` and `stateFile` apart; `at` is the place in the loop |
| `PollRunner` | the runner | `flight` is `future`, `disposal` is `close_future` |
| `TickPaperSession` | ledger, stream cursor and fills | `Commit` is the one transaction; `session` is what the memory holds, `stale` that its revision is behind |
| `PaperTape` | the promise of the tick ledger | a tape: every trade is passed once and in order and leaves at most one fill, which stays, and no BUY while paused |
| `MedianMonitor` | one evaluation on the worker | `work` is the place in `evaluate_once`, one step per commit |
| `TickDesk` | window, runner, monitor, ledger and a second writer | one action per GUI handler; a disposal may raise, and `desk` is "failed" when the window has shown that |
| `PaperEngine` | `BStockEngine` in paper mode under the desktop's worker | `state` and `file` apart; `at` is the place in `evaluate_once`, one step per save |
| `SpotAccount` | the account at the venue (external), and what `spot_accounting.py` and the guard compute of its fills | a complete history is a prefix, its length stands for it; `cash`, `held` and `book` hold what is computed for every prefix |
| `LiveEvidence` | host reads, receipts, equity guard, fill ledger, cycle and risk command | one action per file written; `cycle` is the cycle that holds the session lock |
| `DesktopOrders` | plan file, live handoff of any number of windows, tickets, results, ledger | one action per file written; `journal` has the records of all the plans' journals |
| `DirectExecutionProofs`, `CandidateSessionProofs`, `SessionExecutionProofs`, `WalletEngineProofs`, `PaperEngineProofs`, `LiveEvidenceProofs`, `DesktopOrdersProofs`, `TickDeskProofs` | theorems about the modules they are named for | section 4 |

`SessionExecution` composes `ConfirmedExecutor`, `TradingSession` and
`SpotExchange`; `latch` is one variable of both because the code gives the
executor the session's policy object.  `DirectExecution` and
`SessionExecution` each instantiate `OneShotOrder` under a refinement mapping:
the stage of an order is read off the durable journal, and `sent` is the call
in the one and the ticket file in the other.  `DesktopOrders` instantiates it
once for each plan, `Plan(p)`: what is one-shot there is a plan, not the window.
`TickDesk` instantiates `PaperTape` with the cursor, the fills and the pause that
are in the database, whoever wrote them.
`LiveEvidence` extends `SpotAccount`; the rows of the ledger in `LiveEvidence`
are the fills of an order in `DesktopOrders`.  There is no module that composes
the cycle of `LiveEvidence` with the session of `CandidateSession`: the decision
of the one is the signal and the account of the other.

Conventions.  A method whose guard fails raises, or answers BLOCKED or
DUPLICATE, without a change: its guard is the guard of the action.  A file is
replaced as a whole (`os.replace`), so a save is one step, and a failed one
leaves the file.  A process that ends, by closing or by dying, loses its
memory; the next owner loads the files.

## 3. The runs

Every passing run ends with all states explored.

| Run | Instance | Shows |
|---|---|---|
| `direct` | 2 orders (a BUY and a SELL event), 2 days, so 4 fingerprints; 4 kinds of account | `SubmittedOnceAfterSaving`, `TerminalIsTrue`, the inductive invariant `IInv` of the proofs (with `TypeOK`, `MemoryIsFile` and `AtMostOneUnresolved` among its conjuncts), and that it implements `OneShotOrder` |
| `candidates` | a BUY, a SELL and a HOLD event, history limit 3, 5 kinds of account, 3 instants and a clock that moves both ways | the session file is always consistent and, until the clock is set back, has its times in order, so that it loads; it remembers every candidate, keeps a stop and the BUY latch |
| `candidates_history` | the same, history limit 2, 2 instants | violation: the file saved by the failure handler at the limit is refused by the loader |
| `handoff` | 2 events, 2 days, history limit 2, 5 kinds of account, 2 instants | one ticket per event, a session that waits for its ticket, the inductive invariant `IInv` of the proofs (with fills before journal, `LedgerFirst`, among what it says), the journal before the session, and `OneShotOrder` with the ticket as the send |
| `handoff_latch` | the same, 1 day, 1 instant | violation: a latch set by the executor is not saved by the session |
| `handoff_recovery` | the same, 1 day, 1 instant | violation: dismissing a candidate ends a recovery whose order is UNKNOWN |
| `wallet` | 4 signal bars | one swap per bar, fills booked once, saved orders accounted for, a position that is the balance, and the inductive invariant `IInv` of the proofs |
| `tick_desk` | 4 trades over 2 days, pages of 3, 2 pages per evaluation, 1 entry per day, 1 loss, a queue of 1 | books that agree, limits that latch, noted gaps repaired before BUYs, a pause that withdraws a resumption, and that the database implements `PaperTape`; a window that is stopping stops, or its cleanup failed and it says so with the lock kept; a queued pause takes effect |
| `paper` | 6 bars in days of 2, 3 and 1; prices 1 and 2, cash 4, an entry a day, a loss limit of 3, a streak of 2, a cooldown of 2 bars | one fill per bar, the entries of a day, buys within their limits, one baseline a day, a file that loads, and the inductive invariant `IInv` |
| `evidence` | 2 fills, 2 requests, 2 instants, transfers of 1 in or out on either asset | transfers are caught, nothing locks the account out, decisions are on file, and `IInv` |
| `desktop_orders` | 2 plans, 2 days, 2 windows, 2 orders, plans and windows interchangeable | each plan is a one-shot order, the ledger keeps its fills, and `IInv` |
| `desktop_unresolved` | the same | violation: an unresolved submission of one plan does not block another plan |

Bounds and why they are enough.  Two events make every conflict between two
orders, two days every conflict between two identities of one event.  The
accounts are one for each way in which the gate's answer differs: usable, in
the entry cooldown, at a BUY limit, only dust held, unusable.  The history
limit (10000 in the code) is a constant: at least the number of events where it
is not the question, one less where it is.  `MaxDay` bounds the days.  Four bars
give a lost order, one that is taken for it, a sale and one more.  Four trades
give a warm-up page, a full page, a short page with two fresh trades, a BUY and
a SELL in one page, and a day that changes between two trades; with limits of
one each limit is reached by the first trade that can, and a queue of one is
full at once.  Three instants give a start, a candidate and a clock set back to
before either; two give the coordinator a file whose times the loader refuses.
Six bars give the paper engine a purchase and a losing sale in
one day, a second in the next, and a clock set back from the third to either; a
purchase at 2 and a sale at 1 lose the limit of a day, two of them the cash.  Two
fills give a BUY with its fee in the base asset and a SELL with its fee in the
quote asset, a read torn by either, and a history that is older than another's;
two requests give a second receipt that overtakes a cycle on the first.  The two
instants of `evidence` are two UTC days.
Two plans and two windows give every conflict over a plan, over the ledger and
between the two; `MaxOrders` bounds the orders the host takes, of four tickets
that may be written.  `MaxBar`, `MaxTrade`, `MaxFills`, `MaxTime` and
`MaxRequests` bound the bars, trades, fills, instants and requests, `Flows` the net
transfers; the other constants are the code's own limits made small.  Nothing
else is bounded; the number of crashes, restarts, failed saves, previews,
lookups, evaluations and commands is not.  In `candidates` the clock may move
between any two calls, so that the deadlock check says little there; in
`handoff` it stands still once it has been set back, a bound (`ClockSettles`)
that the theorems do not have.  Two
passing runs do not check deadlock, because their systems may stop: `handoff`
when the loader refuses the file that a clock set back has left, and `evidence`
with its fills, time and requests used up.

Fairness.  In the order-execution, evidence, paper and wallet models none is
assumed: an operator need not confirm, the host need not answer and the process
need not be restarted, so their properties are safety properties.  `TickDesk` assumes weak
fairness of the worker thread and the disposal it runs (an HTTP call ends at
the latest by its timeout), of the poll timer, and of the result timer that
collects and finishes a stop, or shows that the cleanup failed; and that the worker, which drains the commands in
a loop, finds the queue empty at some time (strong fairness of `CommandsDone`):
an operator who sends commands for ever faster than they are taken would keep
it from evaluating.  In a queue of one every command that is taken leaves it empty,
and strong fairness says just that.  In a longer queue the operator can keep it
from ever being empty, the worker's loop then never ends, and `PauseTakesEffect`
fails: it is a promise to an operator who pauses for as long as the worker needs.
A disposal ends, but not always well: no fairness prefers the one that succeeds.
Nothing is assumed of the operator, of the trades, of the second writer or of
crashes.

Mutants.  For each property of each passing run, `PROJECT.json` names a
plausible bug (a dropped check, a missing rollback, a swapped order of writes)
under which TLC finds that property violated.

## 4. The proofs

`DirectExecutionProofs` proves, for all sets of signals, days and snapshots that
satisfy `SignalsAssumption`, `DaysAssumption` and `SnapshotsAssumption`:

* `TypeCorrect`: `Spec => []TypeOK`.
* `InductiveInvariant`: `Spec => []IInv`, and from it `JournalMemoryIsDurable`,
  `OneOrderInProgress`, `NeverSubmittedTwice` and `TerminalPhasesAreTrue`, the
  safety invariants of the executor.
* `DirectExecutionIsOneShot`: `Spec => ImplementsOneShot`, the refinement.

None of the four invariants is inductive alone.  That an order is sent once
needs to know that a task that is about to call has its order in SUBMITTING
with no call made (`TaskIsJournaled`); that only one order is unresolved needs
to know that nothing is unresolved while a phrase is awaited
(`ConfirmationAlone`), which in turn needs the memory to be the file, because
the check reads the memory; that a terminal phase is true needs an answer to
come from a call (`OrdersComeFromCalls`).  `IInv` is their conjunction.  The
effects of the steps that touch the journal are stated once, in terms of the
durable state (`PreviewEffect`, `SubmitEffect`, `CallEffect`, `AnswerEffect`),
and used for both the invariant and the refinement: a preview is `Reserve`, a
submission `Arm`, the call `Send`, an answer `LookUp`, `Close` or a stutter,
everything else a stutter.

`CandidateSessionProofs` proves, under the same assumptions, `SessionTypeCorrect`,
`PlannedSignalRemembered` (`CandidateRemembered`), `StopHolds` (`SavedStopHolds`),
`LatchHolds` (`LatchEndsByResume`) and, for a history that can hold every event
(`Cardinality(Signals) <= MaxKeys`), `FileLoads` (`FileAlwaysLoads`); the run
`candidates_history` shows that the last one needs its assumption.  `FileLoads` says
of the file's times that they are in order until the clock is set back; the
invariant behind it, `TimesAgree`, keeps the times of both copies in order and not
ahead of the clock (`StampKeepsTimes`, `TouchKeepsTimes`).  Every one of
them is about the file, but any save may fail, so that what a method leaves in the
memory may be saved by the next one: the invariant `SInv` says of both copies that
they are consistent (`Orderly`) and know every plan that was written (`Remembers`),
that the memory never undoes a saved stop, and that within a method the file is the
memory (`WithinMethod`), which is why a plan file is written only for a reservation
that was saved.  Each method is shown to be a `Move`, which leaves a memory that may
be saved and saves it or not; that a `Move` keeps `SInv` is proved once.

`SessionExecutionProofs` proves, under the same assumptions, every property of the run
`handoff`, and that the coordinator too leaves a session file that loads, which
`candidates` checks of the cycle:

* `HandoffTypeCorrect` and `HandoffInductiveInvariant` (`Spec => []IInv`), and from
  it `OneTicketForEachEvent` (`OneTicketPerSignal`), `SavedSessionWaits`
  (`SessionWaitsForTicket`) and `FillsAreFirst` (`LedgerFirst`);
* `HandoffFileLoads` (`FileAlwaysLoads`), which needs a history that can hold every
  event and excepts a clock that was set back, as in `FileLoads`; the times are a
  second conjunct of `IInv` (`HandoffTimes`), proved with the help of the first
  (`CoreInv`), which does not need them;
* the action property `OutcomeFollowsJournal` (`OutcomeAfterJournal`);
* the refinement `HandoffIsOneShot` (`ImplementsOneShot`), and by way of it
  `OneHandoffInProgress`: one order at most is unresolved in the journal, and what
  the journal has closed had a ticket.

What makes this hard is that the session has two copies, of which the memory may be
ahead of the file by any number of failed saves, and a journal with a ticket
directory that neither copy is written together with.  The invariant says of both
copies that they know every ticket (`Knows`: its event is remembered, and no
candidate for it is offered again) and wait for the one whose order is open
(`Waits`); one ticket per event follows only because a confirmation that goes on to
a ticket has saved the session and found no ticket for its event (`JobInHand`).  That a session stops waiting after the journal
and not before needs a fact about the difference of the copies: a ticket that the
file names and the memory has dropped is of an order the journal has closed
(`ForgetsClosed`), because the next save, whatever it is for, will drop it from the
file.  Every step changes either the session (`Move`), the journal
(`JournalStep`) or one of the other files, and what each of these keeps is proved
once.  In the refinement a preview is `Reserve`, a confirmation `Arm`, the ticket
file `Send`, an imported receipt `Close`, an order given up or unknown `LookUp` or,
if it was looked up before, a stutter; that `Arm` is alone is what `JournalIsOpen`
says of an awaited phrase.

`WalletEngineProofs` proves, for every `MaxBar` that satisfies
`MaxBarAssumption`:

* `TypeCorrect`: `Spec => []TypeOK`.
* `WalletInductiveInvariant`: `Spec => []IInv`, and from it `OneSwapForEachBar`
  (`OneSwapPerBar`) and `FillIsCountedOnce` (`FillCountedOnce`).
* `SavedOrdersAreAccounted`: `Spec => []SavedOrderIsAccounted`.
* `PositionIsTheBalance`: `Spec => []PositionIsBalance`.

That a bar leads to one swap is not inductive: a plan may only be confirmed if
its bar is already in the file and has no swap, and a file that is behind the
memory must not know less than the swaps that were sent (`BarsAreSaved`).  That
a fill is counted once needs the memory as well as the file
(`CountedIsFinished`), because a restart or a later save copies one to the
other, and that nothing which may still be booked has been counted
(`AwaitedIsUncounted`): the pending order, and every row `_find_order` may
return for the running swap, its own or one booked since it was sent
(`FoundWhenSent`, `FoundWhenBooked`).  `Sound` states this of one copy of the
state, and `NextSound` follows both copies through the steps.  That a saved order is
accounted for rests on what the search can return: an order whose id was saved is
older than the one that is being sent and is not found for it (`LearnedIsOld`), so
that a row found in the place of an order is of a stray, and strays remain
(`StraysStay`).  That the position is the balance takes a second induction (`PInv`) on
top of that one: in either copy of the state the position is the number of purchases
less the number of sales applied to it (`PositionIsNet`), and the order that is
pending or being sent turns it (`Turns`), also after a restart with an older file.
Both hold whether or not an order is astray, because a row found for an order has
its side; only that every finished order was applied once needs that none is.

`PaperEngineProofs` proves, for all constants that satisfy `PaperAssumption`,
`PaperInductiveInvariant` (`Spec => []IInv`) and from it `PaperFileLoads`,
`BarIsFilledOnce`, `DayHasItsEntries`, `BuysStayWithinLimits` and `BaselineStays`.
What a bar or a day has seen is counted by the file, so that the invariant has
to say how far the memory may be ahead of it: in days and bars, never in the
portfolio (`MemoryAhead`), which is what the rollback of a fill is for.  A BUY is
decided from a memory that was saved (`ValuedIsSaved`), and the file's bar and
day bound the fills and entries that happened (`FilledBefore`, `BoughtBefore`),
also those of a day to which the clock was set back.  That the file loads rests
on the books (`Balanced`) and on a sale that never yields less than nothing.

`LiveEvidenceProofs` proves, for all constants that satisfy `AccountAssumption`
and `EvidenceAssumption`, `EvidenceInductiveInvariant` and from it
`DecisionsAreOnFile`, `GuardCatchesTransfers` and `FilesNeverLockOut`.  The guard
compares each receipt with the one before it; the invariant adds this up to the
baseline (`GuardFollowsRows`) and ties every receipt, wherever it is kept, to the
rows and transfers of the account when it was read (`Genuine`).  The books of
the ledger and the sums of the guard are computed from the same rows in two
ways; that they agree (`BooksAgreeWithCash`) is proved over every sequence of
BUYs and partial SELLs with fees on either side.

`DesktopOrdersProofs` proves, for any sets of plans, days and windows,
`DesktopInductiveInvariant`, from it `FillsBeforeJournal` (the docs' "fill
ledger committed first") and `FillsStay`, and the refinement
`EachPlanIsOneShot`.  A window's step is safe because of what it knows: the lock
of a plan is held exactly by the window whose session is on it (`LockIsSession`),
and while it is held the journal says what that session last wrote
(`SessionIsJournaled`), so that nobody else has moved the record.  The
refinement follows one plan: a step on another plan's files is a stutter of it.

`TickDeskProofs` proves, for all constants that satisfy `SessionAssumption`,
`QueueSizeAssumption` and `MonitorAssumption`, every property of the run
`tick_desk` but its two liveness properties: `DeskTypeCorrect`, `LedgerAndFillsAgree` (`BooksAgree`),
`NoBuyAtALimit` (`LimitLatches`), `DatabaseOpensAgain` (`LedgerReopens`),
`NoGapIsForgotten` (`GapNeedsRepair`), `PauseIsLastWord` (`PauseCancelsResume`) and the refinement
`DatabaseIsOneTape` (`IsOneTape`).
The argument has two halves.  One is about what a page makes of a ledger: a trade
keeps it `Sound` and its `Books` in order (`FilledIsSound`, `ObservedStep`), and so
does a page of any length (`AcceptedFollows`).  The pages are a recursive function,
and the library's induction theorems take an operator as a parameter, so that the
induction is made by hand: the least number of trades for which it fails
(`LeastNumber`) cannot exist.  The other half is about who holds what between two
steps: a session that is not behind the database holds its ledger
(`MemoryIsLedger`), which is why a commit continues the books it read; the worker
has a session wherever it uses one (`WorkerHasSession`); a data error is behind the
cursor, or is marked in the ledger and noted by the monitor (`GapIsNoted`), which
is why a resumption never clears the mark of an unrepaired gap, but for an error
that `accept_page` alone has saved (`unnoted`), which `NoGapIsForgotten` excepts
(section 5); and a resumption
that waits is the last thing that was asked for (`ResumeIsLast`).  That a ledger
at its loss limit stays paused needs one more fact, that a position is never held
at the limit (`Sound`), since its sale would go over it.  The refinement uses both halves: with two writers
on one database a commit still continues the tape that is there, because it compares
the revision and so starts from the ledger it replaces; and a page fills only trades
beyond its cursor, and a purchase only while its ledger is not paused.

Only model-checked: `StopIsReached` and `PauseTakesEffect` of `TickDesk`, because
liveness under fairness is out of the prover's reach.  The four violations are
counterexamples and have nothing to prove.

## 5. Findings

* `candidates_history`: at the history limit `_record_processed` appends before
  it raises, and the handler saves a file with one key too many, which `_load`
  refuses.
* `handoff_latch`: `docs/AUTOMATION_POLICY.md:27` says that the latch survives a
  restart; a latch set by the executor's evaluation is not saved.
* `handoff_recovery`: `docs/MCP_SESSION_EXECUTION.md:36` says that an interrupted
  handoff moves journal and session to lookup-only recovery;
  `dismiss_candidate` leaves it.
* `desktop_unresolved`: `docs/MCP_CONFIRMED_EXECUTOR.md:33` says that any unresolved
  submission blocks new preparation; the desktop opens a journal per plan, so
  that it blocks that plan only.

Disagreements that can be read off the models and have no run of their own:

* `docs/MCP_EXECUTION_HANDOFF.md:50` says that a FILLED or REJECTED signal cannot be
  prepared again.  The journal's key contains the risk day, price and quantity
  (`execution_safety.py:234`), so that a journal alone permits it on another
  day; the session's list of processed signals does not.
* `README.md:333-334` says that a timeout cannot silently create a duplicate
  order.  That holds once the id arrived; when the swap command itself times
  out, the engine keeps nothing of it, and the next bar's plan is the same trade.
* The comment at `median_monitor.py:72` and `docs/MEDIAN_DESKTOP.md:25` say that a
  reopened ledger pauses its entries; when that save fails, the session is
  already assigned and the next evaluation passes it by.
* `docs/MEDIAN_DESKTOP.md:25` says that gap recovery requires the cursor to advance
  after the error, and that an empty response with a fresh old tail is not enough.
  The mark of a refused page is saved by `accept_page` (`median_paper.py:197-200`),
  its cursor is noted only after the monitor's own save of the same error
  (`median_monitor.py:115-116`).  When that one fails, a later resumption on an
  empty short page clears the mark without a newer trade.  `GapNeedsRepair` excepts
  this case by its last disjunct, `unnoted`; without it TLC finds the trace
  `PageRejected`, `LatchDataError` with a failed save, `CommandResume`, an empty
  `NextPage`, `Resume`.
* `docs/MEDIAN_DESKTOP.md:21` says that public-feed failures persist a pause; a
  `requests` exception (`ConnectionBroken`) is not the `ValueError` that is caught.
* `docs/MCP_EXECUTION_HANDOFF.md:60` says that a re-import is idempotent, and
  `docs/DESKTOP_LIVE_MCP.md` that after closing the journal still requires a lookup
  or an import.  In the desktop nothing imports after closing: an import that
  fails, or that is UNKNOWN, closes the session as well (`ImportFails`,
  `ImportUnknown`), and a session that failed keeps its window from loading a plan.

`SavedOrderIsAccounted` and `PositionIsBalance` carry the condition that no
order is astray (`Strays`): without it TLC shows `_find_order` taking a late
order, whose id never arrived, for the one it was asked for.  No document
promises otherwise, so it is a hazard and not a finding.

## 6. Abstractions and what is left out

* In the order execution expiry, cooldown and the age of a snapshot are choices of
  the environment (an unusable account, a refused confirmation, a failed save).
  Of the time itself the session's models have what the loader compares: when
  the session was started, when it was last changed and when its candidate was
  reserved.  Every method saves whatever time it is given, and the loader refuses
  a file that was updated before it was created, or whose candidate was created
  outside that interval (`mcp_session.py:415-418`, `437-439`).  So a stop, a
  dismissal, a result or a recovery that is saved after the clock was set back
  may leave a file that the next start refuses, for good: `FileAlwaysLoads`
  promises a file that loads only until then (`setBack`), and for any clock
  that it is consistent otherwise.  No document promises more, so this is listed
  as a hazard and not as a finding.  The risk day of the coordinator moves
  independently of this clock.  `PaperEngine` has bars and days and a clock that
  jumps, `LiveEvidence` instants, ages and days.
* Amounts, prices, lot rules and document formats are abstracted to the
  answers the control flow depends on.
* One process has a session object at a time.  The strategy cycle and the
  coordinator lock different files, so two processes can in fact hold it; the
  hazard is listed and not modelled yet.
* In `PaperEngine` amounts are whole units and quotients are rounded down; a
  position is bought and sold whole, as in the code.  The strategy may decide
  anything at any reading.  The position cap is no less than the order size,
  which the configuration checks.
* In `LiveEvidence` the time of an observation lies between the first read and now;
  the code takes any time from the request on.  That a request expires is not
  modelled, so that the model accepts more than the code.  A fee in a third
  asset, dust, an identity that does not
  match and the tolerance of 1e-8 are left out, and two receipts with the same
  time and contents are one.  A torn read (rows that the quote balance lacks,
  with the same base) can be accepted, and a transfer that cancels the
  difference with it: `TransfersAreCaught` therefore speaks of baselines and
  observations whose two reads saw the same rows.
* In `DesktopOrders` a plan's fingerprint stands for the signal with its order
  arguments (`mcp_bridge.py:457-469` digests both).  The rehearsal has a journal of
  its own for each plan and time and writes no ticket: not modelled.  A lock
  that a failed confirmation leaves to the finalizer is released at once.
* `spot_equity_risk.py` and `adopt_position` have no caller in the package and
  are not modelled.
* `pause_buys` of `AutomationPolicy` has no caller and is not an action.
* The wallet sells what one BUY brought; partial amounts and prices are left
  out.
* A tick's price is abstracted to what it decides: whether the daily loss limit
  is reached, whether the strategy signals, whether a sale loses.  The local
  clock is not behind the exchange's, so that the fresh trades of a page are
  its last ones.  The second writer pauses and accepts trades only.
* A window whose cleanup failed stays as it is until the process ends, as in the
  code (`desktop.py:882-886`): closing it tries `finish_stop` again, which meets the
  same exception.
* The parts listed as not modelled in `PROJECT.json`.

## 7. Plan

1. A second process with a session object: the cycle of `LiveEvidence` composed
   with `SessionExecution` over one session file.
2. The tick and range strategies as algorithms: page acceptance, guards, regime
   choice, checked against reference definitions.  `docs/RANGE_DESKTOP.md:27` says
   that a BUY locks its parameters while the code passes the locked parameters
   once for a page; such a model would show what a BUY and a SELL of one page do.
3. Theorems about what the first two add.  Of the present runs no safety property,
   action property or refinement is left without one.
