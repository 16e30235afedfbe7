# A verification project for wuu

wuu is a coding agent: a Go core (`internal/`, `cmd/wuu`) that runs model turns
with tools, an app server that desktop, mobile and headless clients talk to, and
those clients.  This directory holds TLA+ models of the parts of the core whose
correctness depends on interleavings, crashes and time, the TLC configurations
that check them on small instances, and proofs, checked by TLAPS, that some of
the results hold for every instance.

## 1. Inventory

| component | state | operations | what is hard, and what makes it correct |
|---|---|---|---|
| inference journal (`internal/session/inference_journal.go`) | SQLite rows of runtimes, workflows, operations, attempts, submissions; a coalescing map per runtime | prepare, submit, progress, first event, complete, recover, reconcile, prune, heartbeat, close | several processes share the rows, any of them can die between two writes, and progress lands late; a request judged safe to repeat must never have been sent, outcomes are final, costs add up |
| inference execution (`internal/providers/inference_execution.go`) | attempt counter, submissions, a sticky journal error | begin, record, observe, complete, plan a recovery | two goroutines update one submission; the request must follow its journal row |
| provider coordinator (`internal/providers/provider_coordinator.go`) | per account: slots, cooldown, circuit, waiters, a timer | acquire, cancel, release, succeed, fail, timer | admission races with cancellation; no slot may leak, no wake-up may be lost, a late success may not close a newer circuit |
| execution runs (`internal/execution/store.go`, `internal/appserver/run_handlers.go`) | rows of runs and their turns | create, resolve, attach, finish, fail, reconcile | one active run per thread across processes; runs of a dead process must not block the thread |
| app server (`internal/appserver`) | threads, turns, queues, background jobs | start-up, turns, steering, interrupts, shutdown | one turn per thread at a time; shutdown drains what it admitted |
| thread leases and deletion (`internal/session/thread_*_lease.go`, `appserver/thread_delete.go`) | lock files, reset generations, the thread's row | acquire, release, delete, reset | a deletion races with a turn or a side message that another process starts, and is three durable steps |
| side threads (`internal/sidethread`, `appserver/side_thread_handlers.go`) | one file per main thread, at a live or a staged path; a turn's goroutine with a watcher; a lease | send, finish, interrupt, reset, open, recover | the file is the only channel between servers: an interrupt, a recovery, a late reply and a deletion all write it |
| sub-agent control (`internal/agentcontrol`, `internal/agentthread`, `internal/subagent`) | spawn slots, durable terminals and their acknowledgements, a ledger of results and their consumers, tree freezes | spawn, follow up, stop, announce, claim, snapshot, recover | a result goes through four durable places and five in memory, on several servers; it must be answered before it is claimed, claimed once, and known to somebody until then |
| goals (`internal/goal`, `internal/goalruntime`) | goal rows, accounting, continuation claims | set, pause, continue, account | one continuation per idle thread; accounting of late turns |
| automation, cron (`internal/automation`, `internal/cron`) | tasks, due times, run records | schedule, fire, admit, finish | a fire is admitted once over restarts |
| processes (`internal/process`) | managed child processes, logs | start, stop, clean up | ownership over restarts |
| remote (`internal/remote`) | the relay's table of sockets; per end a channel, an attachment, a session; the host's spool of numbered lines | dial, greet, forward, handshake, attach, resume, acknowledge | every socket has a goroutine of its own, so notices of an old connection arrive after the next one is up; no line is lost, repeated or applied to the wrong session |
| channels (`internal/channels`) | messages, cursors, wakes | post, read, wake | a wake is neither lost nor repeated |
| agent loop (`internal/agent`) | conversation, pending tool calls | stream, call tools, retry, compact | every tool call gets one answer under cancellation |
| tools, hooks, MCP, skills, plugins, compaction, configuration, catalogs, worktrees | file system and external programs | | I/O and text: not modelled |
| desktop, mobile, protocol packages | user interface | | not modelled |

The components meet in five places: the SQLite database of a workspace (journal,
runs, threads), lock files (leases, presence), in-process mutexes with callbacks
and channels (coordinator, app server, sub-agents), the sockets of the relay,
and the runtime id a process registers on start, which the journal and the run
store both use to tell a dead owner from a live one.

Where this code is hard: work of one thread is spread over request handlers,
turn goroutines, drains, timers and worker callbacks that each hold a lock only
for a moment; work of one workspace is spread over processes that share a
database and detect each other's death by heartbeat and pid; and every durable
write may be the last one of its process.  `PROJECT.json` lists the hazards one
by one, each at its line, with the property that would catch it.

## 2. Plan

Written in this order; the first six groups exist, the rest is what a next step
would take up.

| step | modules | subject | abstract promise |
|---|---|---|---|
| 1 | `InferenceJournal`, `RequestRecovery`, MC, claims, proofs, refinement | journal and executions, crash recovery | `RequestRecovery` |
| 2 | `ProviderCoordinator`, MC, proofs | admission, cool-downs, circuit | slots and silences as invariants |
| 3 | `ExecutionRuns`, MC, proofs | runs, turns, queues, interrupts, shutdown of one thread | `ActiveRunIsHeld` |
| 4 | `RemoteRelay`, `RemoteLink` (which composes relay, host and phone), `RemoteDelivery`, MC, proofs | the link between a phone and its host | `RemoteDelivery` |
| 5 | `ResultDelivery`, MC, proofs | durable worker terminals, ledger, announcement, turns that answer, claims, freeze, replay | a result is claimed once, answered before, and never forgotten |
| 6 | `SideThreads`, MC, proofs | lifecycle and execution locks, side conversations, deletion against the turns of other processes | nobody works in a deleted thread; a reply ends once and the conversation is kept |
| 7 | `SpawnQueue` | spawn slots, the launch queue, nested workers | slots are given back, the queue drains |
| 8 | `GoalContinuation`, `AutomationRuns` | continuations and cron fires | one admission each |
| 9 | execution resets, `WorkflowBudget`, agent loop, managed processes, channels | | |

`ExecutionRuns` and `ResultDelivery` look at the same turns from two sides: the
first has the runs, the drain flags, kicks and timers and treats a result as a token; the second
has the results with their durable life and lets a drain run whenever
it could.  Each names the other where it leaves something out.

## 3. Modules and code

**`InferenceJournal`** models `internal/session/inference_journal.go` and the
calls of `internal/providers/inference_execution.go`.  `wf`, `used`, `ledger`,
`op`, `att`, `sub` are the tables, `rt` the runtime rows with the process behind
each.  Each journal call is one immediate SQLite transaction and so one action.
What is not one transaction is several actions: an observation changes the
in-memory submission under a mutex (`mem`), takes a copy (`hand`), and stores it
in the coalescing map later (`pending`); the flusher claims a batch (`batch`),
then writes or drops it; a terminal write waits for its own barrier first
(`exec.pc`: call, flush, write).  `Reconcile` is the whole of `ReconcileOrphans`,
`PruneOperations` and `PruneWorkflows` are the two transactions of `Prune`.
`wire` is history: what was really sent.  Attempt *n* of operation *o* is
`<<o, n>>`; ids are never reused.
Simplified: one workspace scope; the owner id is the runtime; "canceled",
fallback and abandon outcomes of a submission are "failed"; one submission per
attempt; payloads are absent and usage is a small number.

**`RequestRecovery`** is the abstract promise: attempts are numbered without
gaps, the latest is sent at most once, and an operation judged safe to repeat
is never sent again.  `InferenceJournal` implements it under the mapping
`Contract`.

**`InferenceJournalClaims`** states an expectation found in a comment that the
code does not meet (section 6).

**`ProviderCoordinator`** models `internal/providers/provider_coordinator.go` for
one scope.  Deadlines are kept as distances in ticks from now, so that time needs
no bound; `quiet`, the ages of the waiters and `since` saturate where the code stops
telling values apart.  A caller is in `Acquire` (its own select), holds a lease,
or is idle.  A timer function that was already running when its timer was stopped
is counted in `late` and runs at any later time.  `Schedule` is
`scheduleLocked`, used by every action that calls it.  A lease's outcomes
race through `sync.Once`, so each lease reports one.  `now`, which callers read
just before they take the mutex, is the time at which they have it.

**`ExecutionRuns`** models the runs and turns of one thread:
`internal/execution/store.go`, `appserver/run_handlers.go` and the turn paths of
`appserver/turn_handlers.go`, `turn_execution_lease.go`, `server.go`.

| state | code |
|---|---|
| `row` | table `execution_runs` |
| `tracker`, `retries`, `activeBy` | `Server.runs`, `activeRunByThread` |
| `lease`, `cur` | the thread's execution lease, `threadState.currentTurn` |
| `turn[s][k].pc` | how far a turn's goroutine is: reserved (`admitted`), current (`started`), in its loop (`running`), then its tail: `released`, `detach`, `kick`, or `retry`, `failing`, `dropped` |
| `handler` | the request that the serving goroutine is at |
| `steers`, `queued`, `results` | pending steers, queued user turns, completions waiting for a synthetic turn |
| `drainQ`, `drainR` | the two drain flags, `drainingQueuedTurns` and `drainingAgentCompletionTurns`; while one is up, also where its drain is |
| `timers` | the lease retries that are scheduled, for the queue and for the results; several of one kind count as one |
| `worker`, `frozen` | anonymous workers of the thread, the tree freeze |
| `asked` | history: the reasons `run/interrupt` was called with |

A server serves one request at a time (`stdio.go` calls `handleLine` in its scanner loop,
and so does `Close`), so `handler` is one place; turns, drains, timers and workers
run beside it.  The steps of a handler between which another goroutine can act
are actions of their own: `MarkReason`, then `InterruptTurn` or
`InterruptBetween`, then `FailBetween`, then `DetachBetween`.  The tail of a turn
runs after the lease is released, so it overlaps the next turn; that is where
most of the properties could fail.  A turn goes through every cause of giving up
a start (`GiveUp`: the run is terminal, the store refuses, the server closed, the
client cannot be answered).  `registerExecutionRun`, the reservation of
the goroutine and the answer are one step, `Launch`, since the serving goroutine
does nothing else meanwhile and the turn starts only after it; when it is given
up, `AbortLaunch` releases and settles at once, in the order of the code.
The two kicks at the end of a turn only set flags and are one step.

A drain goes step by step, since its flag is under a lock of its own: it looks whether a turn runs (`CheckQueue`,
`CheckResults`, `LookAround`), takes an entry or finds none (`StartQueued`, `TakeNothing`), and clears the flag later
(`StopQueue`, `DrainAgain`, `StopResults`, `YieldToQueue`).  A kick that comes between the decision to stop and the
clearing finds the flag up and returns.  The take of an entry and the admission of its turn are one step, as are a cleared flag and the
kick or timer right after it: whoever comes between starts the same drain.  `turn/queue` enters its prompt, then answers, then kicks
(`QueueUser`, `AnswerQueued`); an answer that cannot be written leaves the kick out.

Not in the model: goal continuation, process completions, automation runs, the durable side of
results (`ResultDelivery` has it), compact turns, ephemeral runs, the validator (whether an
answer is valid is a free choice), an interrupt that comes while a drain holds the entry it took, and an
admission that `startSyntheticTurn` may retry.  Only the settlement in a turn's tail may be
refused by the store; the other writes of a live server succeed.  In particular `handleRunStart` drops the error of the write that
fails a run whose start was given up (`run_handlers.go:119, 130`): when the store refuses it, the row stays active with nothing
attached to it until its process dies.  No property covers this.  A dead process's memory and results are forgotten.

**`RemoteRelay`** models `internal/remote/relay/relay.go`: `registered` is
`s.conns`, and each socket has a goroutine whose place is `phase` (greeting,
telling the peer, serving, routing, leaving, parting).  A goroutine looks a socket up under the mutex
(`Route`, `Announce`, `Drop`) and sends outside of it (`Greet`, `Tell`, `Forward`), so what it holds in
`held` can be old.  `up` and `down` are the two directions of a socket; both are FIFO and lose what is in them when
the socket breaks.

**`RemoteLink`** adds the two ends, `phone/phone.go`, `host/host.go`,
`host/session.go` and `host/spool.go`.

| state | code |
|---|---|
| `hostChan`, `hostAtt`, `app` | `deviceSession.channel`, `.attached`, `.app` |
| `emitted`, `spool` | `appConn.seq` of every session, the spool of the present one |
| `pending`, `phoneChan`, `phoneAtt` | `Client.pendingHS`, `.channel`, `.attached` |
| `contID`, `lastRecv`, `dirty` | the session the phone is in, the last line applied, `ackDirty` |

A channel is named by its handshake, since its keys come from both ephemerals; a
frame of another channel does not open (`HostIgnores`, `PhoneIgnores`).  One action
is one message handled under the session's or the client's mutex: a handshake,
an attach with its replay (`HostResumes`) or a new session (`HostRenews`), a line applied,
an ack, a request forwarded.  Left out: pings, state snapshots, push hints, notices of the host's presence to other
devices, profiles, enrolment and pairing, restarts of the relay, the
cryptography, and what a line says.

**`RemoteDelivery`** is the abstract link: the phone sees the lines of one session from the first on,
in order and each once, until it is given a newer session.  `RemoteLink`
implements it under the mapping in `Delivery`, checked by the run `link` and proved (section 7).

**`ResultDelivery`** models how the result of a background worker reaches the
conversation of the thread that spawned it, for one thread and any number of servers:
`agentcontrol/worker_terminal_ack.go`, `delivery.go`, `tree_freeze.go`,
`agentthread/store.go`, and from `appserver` `agent_threads.go`, `held_user_work.go` and
the turn paths of `turn_handlers.go`.

| state | code |
|---|---|
| `record` | the terminal record of a worker in its directory |
| `ledger` | the entry of the result in `events.jsonl`: absent, ready, or its consumer |
| `chat` | what the stored history says: no marker, a marker, a marker cut off by another opening message, a marker with its answer |
| `held` | completions in the table `held_user_work` |
| `lease` | the thread's execution lease |
| `worker[r]` | how far the worker and its finalisation are, and whose execution it is: `prepared`, entered (`noted`), to be announced (`vouched`), announced (`handed`) |
| `mem[s]` | per server: the runtime open, `final` (`agentTerminalFinalizations`), `steers`, the completion `queue`, `leftover` (the user's queue), what each drain has `taken`, `folded` (`frozenTreeResultIDs`), a `replay` timer, `frozen`, `stopping` |
| `turn[s]` | its stage, `about` (what it was started for), `ids` (`AgentCompletionResultIDs`), `marks` (steers it took), `stamped`, `good` |
| `request[s]` | how far a `turn/steer` of a held message is: found in the table, getting a turn of its own, that turn launched |
| `edit[s]` | who has `heldUserWorkMu`: what it read of the table, and for what |
| `answers`, `excused`, `dropped` | history: durable answers, results that may be answered again and why they may, entries a server let go of |
| `overwritten` | history: held results that a write of the table lost |

The steps of a finalisation (`Prepare`, `MarkReady`, `Check`, `Hand`,
`Acknowledge`) are actions of their own, and so are the stages of a turn
(admission with its gate, `Start`, `Launch`, `TakeSteers`, `Persist`, `Settle`): a crash, a
second server, an interrupt or a deletion may come between any two.  A store that
refuses is a choice in the action: an answer not saved, accounting that fails, a claim refused at settlement or in the gate,
an admission that fails after the gate, a start that is aborted, a table of held messages that cannot be written.

The table of held messages is read (`Read`, `LoadHeldUserWork`), changed in memory and replaced as a whole (`Replace`,
`ReplaceHeldUserWork`), on two connections.  The mutex around the two belongs to one server, so a server has one edit at a time
and two servers can overlap theirs: an interrupt (`InterruptTurn`, `Hold`), a steer (`SteerHeld`, `Steer`), the late removal of a message that got its turn
(`RemoveStarted`), a deletion (`Delete`), and whatever the user does with a held prompt of his own (`EditOther`), which writes the
results in the table anew as well; the last three end in `WriteBack`, and any may fail (`EditFails`).  Interrupt and steer hold the thread's mutex meanwhile
(`Unlocked`).  Requests of one server are serial, as above.
Simplified: queues are sets, so order and duplicates are not seen; a drain may run when its queue holds
something (`ExecutionRuns` has the flags and kicks); the ledger can always be
read.  Not in the model: results of synchronous spawns, nested workers and parents that wait for children, closing
turns of workers that must report, process completions, the HelpMe rewrite,
compact turns, and orderly shutdown (a server stops by crashing).

**`SideThreads`** models the side conversation of one main thread and the deletion of that thread, for any
number of servers on one session directory: `sidethread/store.go`, `appserver/side_thread_handlers.go`,
`appserver/thread_delete.go`, and the leases of `internal/session`.

| state | code |
|---|---|
| `main` | the row of the main thread |
| `live`, `staged` | the conversation's file at its path, and at the path a deletion moves it to |
| `exec`, `side`, `life` | who has the execution leases of the main and of the side thread, and the lifecycle lease; a lock file and the server that holds it, for a request or a turn |
| `up` | who has the shared presence lease |
| `req` | where each server is in the one request it handles |
| `turn` | the side turn of each server: streaming, to be written, to be written as failed, leaving; whether it was `told` |
| `work` | a turn of the main thread, as far as its lease |

A write of the store is one action, since it runs under the store's file lock.  What a handler does between
two writes, or after a lease, is actions of its own: a send waits for the lifecycle lease, looks the row up,
and begins its turn; an interrupt tells the server's own turn, then settles the file; a reset looks, then erases; a
recovery sees a running file, then tries the lease, then settles; a deletion takes both leases, waits for
the third, stages, deletes the row, and commits or rolls back.  Any of these can fail, and a server can
crash between any two.  A drain that gives up leaves the side turn behind, which then runs
without its server's presence.  A main turn that such a drain abandons counts as dead.
Left out: execution resets, the check for durable workers (`RefuseDelete` may happen without a cause), what a
request is built from, and `RollbackTurn`, which needs a server that closes inside a send, while `Close` and sends run on one goroutine.

## 4. Runs

All runs name their bounds as CONSTANTs or as a CONSTRAINT of the MC module; times are
for two workers.

| run | instance | states | shows |
|---|---|---|---|
| `crash` | 2 runtimes, 1 operation, 2 attempts, 1 replay allowed | 484,687 | `WriteAhead`, `RescheduleSafeNeverSent`, `CountersMatchRows`, `JournalInvariant`, the refinement `KeepsRecoveryContract`, `LiveOwnerSettlesItself` |
| `late` | as `crash` with 1 attempt and usage reported as 1 or 2 tokens; or 1 runtime with a parent and a best-effort child; usage limit of 1 token | 323,846 | `LedgerMatchesRows`, `ActiveOperationHasActiveWorkflow`, `OutcomesAreFinal`, `HardLimitNeverBlind` |
| `settle` | 2 runtimes, 1 attempt, fairness | 438,233 | `OrphansSettle` |
| `stranded` | 2 workflows, fairness | | refutes `EveryOrphanSettles` |
| `admission` | 1 foreground caller (priority 3), 2 in the background (2); 2 slots, 1 reserved; fairness | 295,338 | `SlotsAreLeased`, `ForegroundKeepsItsSlots`, `NoLostWakeup`, `SilenceIsKept`, `LateSuccessIsIgnored`, `RecoveryIsPaced`, `ForegroundIsServed` |
| `runs` | 2 servers, 2 runs, 2 turn goroutines (symmetric), 1 worker, 1 retry, every request and fault | 1,310,462 | `ActiveRunIsHeld`, `LeaseIsOwned`, `TimeoutIsReported`, `QueueStaysAwake` |
| `settles` | 1 server, 1 run, 2 turn goroutines, no workers and steers, fairness | 260,223 | `EveryRunSettles` |
| `forgotten` | 1 server, 2 turn goroutines, `turn/start` and `turn/queue`, no fault | | refutes `QueuedTurnsAreStarted` in 11 states |
| `standoff` | 1 server, 1 run, 2 workers, no request but `run/start`, no fault | | refutes `YieldedResultsWait` in 16 states |
| `link` | 2 sockets a side and 3 dials in all, 2 sessions of 2 lines, a spool of 1, 2 handshakes, 1 request, 1 restart | 684,918 | `QuietLinkIsDelivered`, `SpoolKeepsUnreceived`, `ReplayIsComplete`, `FirstHandshakeAttaches`, `FramesReachTheirSession`, the refinement `DeliverySpec` |
| `delivery` | 2 servers (symmetric), 2 results, every fault | 851,262 | `RemovedIsRecorded`, `ClaimMeansAnswered`, `TurnOwnsItsResult`, `AnsweredTwiceIsExcused`, `AnnouncedIsCarried`, `ClaimsAreFinal` |
| `side` | 2 servers, 2 side turns, every fault, fairness | 281,755 | `DeletionStopsWork`, `RepliesAreFinal`, `HistoryIsKept`, `RecoverySparesTheLiving`, `InterruptReachesOwner` |

The type invariants are theorems (section 7) and not repeated in the runs; `JournalInvariant` contains
`RecoveryHasSuccessor`.

Why the bounds are enough.  *Journal*: the hazards are pairwise, one owner and one
recoverer, one attempt and its successor; two runtimes and two attempts
contain them.  `WorkerAndRecoverer` lets one runtime work and stop in every way
and the other, which comes when the first one's heartbeat has lapsed or its process is gone, serve and
recover; a month passes only over a process that is no more.  `CrashedWorker` and `SingleWorker` cut further
where a run is about less.  A second operation matters only for workflow-wide
checks; in `late` it appears when one runtime works alone, and then nothing is reported or flushed of it, and the
smaller total is reported only where no output was counted (`LateOrSecond`).  In `late` the submission has one updater; that several cannot undo an outcome is the theorem `OutcomesStay`.  *Coordinator*: with three callers on two slots somebody always
waits; a background caller ages up to the highest priority, past the foreground one, so the order of the queue turns over and
`ForegroundIsServed` needs that of two equals the older is first; a late timer and an opening of the
circuit cover the generation checks.  *Runs*: two turn goroutines let a tail
overlap the next turn; the second server only recovers, and meets the first one while it still closes in the
first run only (`RecoveryOnly`); the second run is plain, with nobody waiting and no freeze (`SecondRunIsPlain`); the
first is interrupted for one reason and retried when its worker has stopped (`FirstRunIsShort`); the user's waiting
prompt comes before the retry (`UserComesEarly`); and a drain that waits for the lease does so before there is a run (`TimersComeFirst`).  That keeps what is interesting about each without their product.  *Link*: two sockets a side let the notices of an old
connection meet the new one, two lines overflow a spool of one and give a replay an order, and
two sessions let an ack or a request of the old one arrive in the new
(`Scenarios` of `MCRemoteLink`: in each session a request or two lines, one of them with a restart; a third socket is
dialed when one end has attached, or something was restarted).  *Delivery*: with one
result, two servers already race for the lease, the ledger and the record, and either
may die; the second result is for what a turn does with two (its own and a steered or folded one), on
one server and without a freeze.  `Scenarios` of `MCResultDelivery` stops where a result has been
answered twice, keeps two entries under way or held, which is what two paths need to meet, and lets one of a freeze, a
lost entry and an answer that may come again happen at a time.  The table is edited when the first worker is done and both servers are up,
and one of a request for a held message, an edit of the user's own and a loss happens at a time, so two overlapping edits and what they overwrite are in
the run; that a message is held anew before the late removal of its first turn is not, and is left to the theorem.  Answers are counted up to two: more tell nothing new.  *Side*: two servers, of which either may own
the turn, delete, recover or crash, and a second turn that meets what the first left; nothing
else is bounded, and requests never run out.  The
theorems of section 7 hold without any of these bounds.

Deadlock is not an error in the journal, run, link and delivery models: a process that stopped,
an idle server and a quiet link may rest.  In the coordinator and in `side` it is checked: time
always passes, and a server can always ask, boot or crash.

## 5. Fairness

* Journal (`FairSpec`): a dead process's heartbeat lapses; a booted server goes
  through `settleOnBoot` and its maintenance ticker fires.  Nothing is assumed of executions,
  providers, the flusher or of a process staying up: `OrphansSettle` has as
  premises that some server stays up, that dead pids are in the end not in use, and
  that no active workflow has lost all its rows (section 6 shows why).
* Coordinator: time passes, timers run, a caller leaves its select when it can,
  and a lease is released in the end (the HTTP clients bound a silent stream).
  Nobody must acquire or cancel.
* Runs: goroutines take their next step, a turn's loop ends, workers end and are
  acknowledged, timers fire, and a shutdown that began ends (it has a
  deadline).  No client must ask for anything, no agent must consume a steer or spawn, no
  process must stop.
* Side threads: the watcher polls (a ticker of its own goroutine) and a provider request whose context was
  cancelled returns.  Nobody must ask, answer or stay up.  A turn that is not told may stream for ever, which is why
  the watcher alone makes `InterruptReachesOwner` true.
* Link and delivery: none.  What is checked of them is safety; `QuietLinkIsDelivered` and
  `AnnouncedIsCarried` say of a state in which nothing is on its way, or of an entry that must be somewhere, what
  a liveness property would say of the future.

## 6. What the checks found

Three expectations written in the repository do not hold, each with a run that
shows it:

1. **stranded** (`inference_journal.go:1492`): when every operation of an active
   workflow was pruned, `SUM` is NULL, the scan fails and the whole reconciliation
   is rolled back, at every later pass.
2. **forgotten** (`turn_handlers.go:2708`): a drain that sees a turn run decides to stop, and clears its flag later.  The turn
   ends in between; its kick returns because the flag is up, and then the flag is cleared.  The queued turn stays until
   something else kicks the queue, while the tests expect it to start (`turn_execution_lease_test.go:325-327`).
3. **standoff** (`turn_handlers.go:2669`): a completion that steered a run's turn
   too late is queued as a user turn, which waits for the run; the run waits for another
   worker, whose completion gives way to the queued turn (3282-3285).  Nothing is left to wake either.

Observations made while modelling, for which there is no refuting run:

* "The client owns reconnection" (`phone.go:6-7`), but when host and phone
  connect at about the same time, the phone starts two handshakes, and the answer to the first clears the second
  (`phone.go:406`); both sockets stay up and neither end starts again.  A late notice of an old connection leaves one end
  without its channel in the same way.  `FirstHandshakeAttaches` therefore speaks of a link with one handshake.
* A staged file "is harmless and remains eligible for a later idempotent cleanup attempt"
  (`thread_delete.go:93-95`), but a repeated `thread/delete` finds no row and rolls the file back to its live path, after a
  crash or a failed commit; then nothing deletes it any more.  `HistoryIsKept` speaks of threads whose row exists.
* `updateSubmission` (`inference_execution.go:867`) hands its copy to the coalescing map
  after unlocking, so an older copy can replace a newer one there; `OutcomesAreFinal` holds
  although it does, because merging in the database never goes back.
* In `ReconcileOrphans` the branch for a terminal attempt whose recovery announced a
  successor is unreachable (`RecoveryHasSuccessor`).  `stream_runner.go:1038-1045` returns
  without completing the operation when `PrepareRecoveryAttempt` fails; the row stays active
  while its process lives.  The Windows probe takes any positive pid to be alive, so
  there `OrphansSettle` has a premise that never holds.
* Clearing the circuit's deadline on a success (`provider_coordinator.go:579-581`) never
  has an effect: a success that may do it is from after the deadline.
* A start that is given up before its launch wakes no queue, and neither does a `turn/queue` whose answer cannot be written:
  the queued turn waits for the next request.  `QueueStaysAwake` names these two beside the lost kick of `forgotten`.  The drain of the
  results loses kicks in the same three places (`turn_handlers.go:3276-3277`, `3282-3283`, `3298-3300`).
* A run awaits its workers while their terminal records are unacknowledged, also when
  the results were consumed already; then no result starts the continuation.  With workers or steers, a run may also be left to the kick that was lost
  or to the standoff.  This is why `settles` has neither.
* The barrier before a terminal attempt (`inference_journal.go:251`) finds nothing to flush while the
  flusher has claimed a batch and not yet written it, so an attempt can be terminal in the database before its submission is,
  and stay so after a crash.  `OutcomesAreFinal` and `LedgerMatchesRows` hold although it can.
* The reserve of the coordinator counts foreground leases against the background limit
  (`provider_coordinator.go:525`), so foreground work that takes turns keeps an aged background waiter out; only
  `ForegroundIsServed` is claimed.
* A run can complete while a synthetic turn attached to it runs, because the lease is released before the run is settled.
* An interrupt that arrives after the turn's loop ended well leaves the run to that outcome, and the workers frozen.
* A result can be answered twice: when its answer was stored and its claim was not (a
  crash, a refused claim, failed accounting) and the marker is no longer the last one that
  `agentCompletionMarkerAnswered` looks at, and when it is steered or folded into a turn although it has an answer,
  because `steerAgentCompletion` and `foldFrozenWorkerTree` look at neither the consumer nor the history.
  `excused` names exactly these, and `AnsweredTwiceIsExcused` says that there are no others.
* An announced result can be dropped until the thread is opened anew: `drainQueuedTurns` drops an entry on every
  error but a busy thread, a start that is aborted forgets its entry (`turn_handlers.go:3512`), `startTurnLocked` clears steers of an
  aborted start, a second lifted freeze forgets what the first had folded, a second server learns nothing of the results of a dead one, and the user may delete it.  `dropped` names these.
* A held result can be lost for good, until the thread is opened anew: two servers read the table of held messages, and one replaces it with what it
  read while the other has put a result there in between (`held_user_work.go:57-104`; the mutex is a server's own).  A message whose turn was launched is removed by its id
  afterwards (`turn_handlers.go:653`), also when it was held anew meanwhile.  `overwritten` names these, and
  `AnnouncedIsCarried` says that beside the two sets there is no other way.
* A snapshot of a frozen tree claims its results before the turn that shows them has run; a crash in between
  loses them.  `ClaimMeansAnswered` therefore speaks of automatic delivery only.
* A drain whose first result turns out to be delivered already returns without a new kick
  (`turn_handlers.go:3261-3329`): results behind it wait for the next turn's end.
* A side message loads the conversation and begins its turn in two steps of the store; a reset on another server
  in between erases the file, and the request still carries the erased history (`side_thread_handlers.go:437`).  A reset needs no lease.
* A reset that reads while a rollback moves the file finds nothing and answers that it is done (`store.go:697`): a `Load` takes no lock.
* `interruptSideThread` and `cancelSideThreads` settle whatever turn is running when they come to the file, which may be a later
  one of another server; `RecoverySparesTheLiving` excepts them.
* A reset of a thread's execution is read from the lease and then applied to whatever turn the server has
  (`thread_execution_lease.go:181`), which may be the next one.
* An interrupt puts steers it finds into `held_user_work`, whose ids are unique; a second one that
  holds the same result fails before it cancels anything.

## 7. Proofs

TLAPS checks the theorems of eight modules, for all values of the constants that
satisfy the named assumptions of the modelled modules.

* `InferenceJournalProofs`: `TypeOK /\ JournalInvariant` is inductive
  (`InvariantHolds`).  `RescheduleSafeNeverSent` alone is not: a verdict is given from rows, so one
  needs that the wire and the memory of an execution are backed by rows (`WireMatchesRows`),
  that an execution and its rows agree on the number of attempts (`ExecutionMatchesRows`), that the verdict
  closed the workflow to submissions (`SafeVerdictIsFinal`), and that retention touches
  only what no execution can still touch (`AgedRows`).  From it follow `TypesHold`,
  `JournalInvariantHolds`, `WorkflowOutlivesOperations`, `RecoveryIsAtomic`, `WriteAheadHolds`, `SafeMeansNeverSent`,
  and the action property `LiveOwnerIsLeftAlone`.
* `InferenceJournalRows`: what steps do to rows.  `OutcomesStay`: every step leaves settled
  operations, workflows, attempts and submissions with their outcome or deletes them, and the
  merge keeps the better evidence (`MergeFinal`).  `CountersAreRows`: the counters of a workflow
  that lost no row are the cardinalities of its rows.  Its invariant (`AllCounted`) adds that these sets
  are finite; a step either inserts no row and changes no answer a replay was charged
  for (`NothingNew`), or inserts one row and reserves it in the same transaction.  That an answer
  is settled before the next attempt exists comes from `ExecutionMatchesRows`.
  `LedgersAreRows` is the same for the cost columns, which are sums: `LedgerInv` says that a column is at
  least the sum over the workflow's rows, since a deletion takes rows away and leaves what they booked, and exactly that sum
  while the workflow is whole; a step books the difference of what it changes (`SumDifference`).  From it follow
  `LimitIsNeverBlind` (a column of unknown costs is zero only if no row is unknown, `SumOfNaturals`), `BooksNeverUnderflow`
  and `UnknownStaysWithinLimit` (a merge never makes a cost unknown, `MergeKeepsKnowledge`).  The last two justify what the model
  leaves out of `applyWorkflowCostDeltaTx`: its underflow error, and its limit check for writes other than a new submission, which
  `AdmitsSubmission` has.  Sums over a finite set are reached without an induction rule
  over an operator: the partial sums of all subsets are one function (`PartialSums`), and a least set for which
  a claim fails gives the contradiction (`LeastSet`).  This needs the operations to be finitely many
  (`OperationAssumption`): an operation id is a prefix and 12 random bytes (`newInferenceID`).
* `InferenceJournalRefinement`: initial states map to initial states and every step of the
  journal is a step of `RequestRecovery` or a stutter (`JournalKeepsContract`).
* `ProviderCoordinatorProofs`: the invariant (`CoordinatorInvariant`) adds to the checked ones
  where each caller is and that the in-flight count is the number of leases, that a
  lease's generation is not newer than the circuit's, that the gate is never before the
  silence asked for (`silence` is history), that the recovery pace runs, and that a
  timer is armed or about to run whenever a waiter could be admitted.  `NoSlotLeaks`, `ReserveHolds`, `WakeupsAreNotLost`,
  `SilenceHolds`, `LateSuccessIgnored`, `RecoveryPaced`, `CoordinatorTypes` follow.
* `ExecutionRunsProofs`: the invariant (`RunsInvariant`) is `TypeOK`, `HandlerInv` (the run a request is at is
  its server's, fresh while it starts and asked for while it is interrupted), `TurnInv` (a turn lives in a
  process, its run exists, and is terminal before it is detached), `LeaseInv` (one owner
  per lease, seen from each server), `RunInv` (one active run; a run that was only
  timed out says so in its tracker), `NameInv`, and the checked `ActiveRunIsHeld` and
  `TimeoutIsReported`.  `ActiveRunIsHeld` needs `TurnInv`: a tail that detaches must find its run
  terminal, or it would drop an active one.  `RunsTypes`, `ActiveRunsAreHeld`,
  `TimeoutsAreReported`, `LeasesAreOwned` follow; `QueueSleepsInThreeWays` is an action property that needs, beyond it, that an
  unborn server has no queue and that a server's step leaves the wakers of the others alone.  It does not say that the
  queue never sleeps, which is false (`forgotten`), but which three steps put it to sleep.
* `RemoteLinkProofs`: the invariant is built in layers, each of which needs the one before it.
  `LinkInvariant` is `TypeOK` and that the spool holds the last lines of the session, all of them from its base on
  unless it is broken (`Retained`).  That `append`, `ackTo` and `replayFrom` keep it is proved first, about sequences;
  `LinkTypes` and `ReplaysAreComplete` follow.
  `LinkTalks` is about the frames under way, which are the ones in the two queues and the one in the relay's hand
  (`Flight`, `ToHost`, `ToPhone`): a socket the relay serves is the registered one of its device
  (`Registered`); no handshake, attach or answer to one is under way twice (`Once`); and what a frame says agrees
  with what the ends know (`Talk`): a frame's kind tells its direction (`Kinds`), nothing names a handshake, a session or a line there has not been
  (`Bounds`), two ends that are attached on one channel share the session (`Ends`), the stages of a handshake follow each other, from the
  first message (`Opened`) over the attach (`Attaching`) to its answer (`Answered`), a frame its receiver would take is for the receiver's
  session and no ack quotes a line not applied (`Addressed`), and the spool still has what the phone lacks (`Unreceived`).
  None of these is inductive without the others: an ack names no session, so that it is harmless follows only from the channel
  it comes on.  `SpoolsKeepUnreceived` and the action property `FramesReachSessions` follow.
  `LinesComeInOrder` adds that what the relay has in hand for the phone goes to the phone's own socket when the channel is still shared
  (`Sockets`), and `Order`: each line under way on the phone's channel has the lines before it ahead of it or applied, and while the two ends share
  that channel every line the session emitted is under way or applied.  `QuietLinksAreDelivered` and the refinement `LinkDelivers`
  follow.  A lemma says for each action which change it makes to the frames under way, and there are only a few
  (`Cuts`, `Takes`, `PassesOn`, `TakesIn`, `PutsIn`, `Strays`); that each of these keeps `Talk` and `Order` is proved once.
  `FirstHandshakesAttach` rests on `First`, about a link that is still `Calm`: each device has dialed at most once, the relay serves it, and
  there was at most one handshake.  A step never makes a link calm again (`CalmBefore`).  In a calm link nobody hears or will hear that
  the other has left (`Heard`, `Said`), a device alone has no handshake and without one there are no frames (`Alone`), and the one
  handshake is at one of five stages (`Stage`): one of its four messages is under way to an end that will take it, or both ends are attached.
  Two handshakes that cross are beyond this; section 6 says what they can do.
  All is for any spool limit and any number of sockets, handshakes, sessions, lines and restarts.
* `ResultDeliveryProofs`: the invariant (`DeliveryInvariant`) adds to the five checked invariants where a
  result can be: whatever passes a result on has seen its entry (`Entered`), only the server with the lease has a turn
  (`Leased`), what is down holds nothing (`Living`), a drain takes one entry at a time (`Single`), what a turn holds
  at each stage (`Staged`), that answers are counted (`Counted`), and that an unclaimed result with
  an answer is excused, but for the turn that has just answered it (`Excusable`); without the last,
  `AnsweredTwiceIsExcused` is not inductive.  For the table of held messages it adds what a request and an edit can have in hand (`Edited`) and that a
  message which is still to be removed, because its turn was started, is consumed, let go of or with the server that started it (`StartedIsCarried`); without the two, `AnnouncedIsCarried` is not inductive.  There is a lemma per action, each with a step per part of the
  invariant.  `DeliveryTypes`, `RecordsAreKept`, `ClaimsAreAnswered`, `ResultsAreOwned`, `SecondAnswersAreExcused`,
  `AnnouncedStays` and the action property `ClaimsStay` follow: every property of the run `delivery` is proved for any
  number of servers and results.  The type invariant is left to the proof and is not in the run.
* `SideThreadsProofs`: the invariant (`SideInvariant`) adds to `DeletionStopsWork` that there is one file
  (`Whole`), that a lease has one holder (`Exclusive`), what is held at each place of a request and by each turn (`Held`), what a send and a
  commit have seen of the row (`Seen`), that only a running record has a reply that streams (`Written`), and that this reply is that of the one active turn, whose own
  entry is open, erased or interrupted (`Owned`).  `DeletionStopsWork` alone is not inductive: it needs the leases of
  every place at which a deletion can be.  The action properties follow from one lemma that says what a step can do to the record
  (`RecordSteps`): erase, commit, settle, begin or finish.  `DeletionIsSafe`, `RepliesStay`, `HistoryStays`, `LivingIsSpared`
  and `SideTypes` are the result: every safety property of the run `side`, for any number of servers and turns.

Only model-checked: the liveness properties `OrphansSettle`, `ForegroundIsServed`, `EveryRunSettles` and
`InterruptReachesOwner`, since liveness under fairness and ENABLED are beyond the prover.  Every safety property of a
passing run is a theorem.  Induction rules that take an operator, and RECURSIVE operators, are
beyond it too; no module here declares a RECURSIVE operator, and where an induction over finite sets
or numbers is needed the proofs take a least counterexample.

## 8. Not modelled

`PROJECT.json` lists every component.  Text processing, protocol adapters, file and shell
tools, user interfaces and configuration have no state that interleavings or crashes could break, or are I/O against programs that
are not in this repository.  Execution resets, spawn slots and nested workers, goals, automation, the
in-memory budget, the agent loop, managed processes and channels have, and are
on the plan of section 2.
