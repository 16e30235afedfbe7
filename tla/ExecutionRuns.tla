--------------------------- MODULE ExecutionRuns ---------------------------
(***************************************************************************)
(* Execution runs over the turns of one thread, as the app-server keeps    *)
(* them (internal/appserver/run_handlers.go, turn_handlers.go and          *)
(* internal/execution/store.go).                                           *)
(*                                                                         *)
(* A run is a durable row.  It is driven by a chain of turns: the one that *)
(* run/start admits, the ones that worker results wake up, and the ones    *)
(* that retry a structured output.  Each turn owns the thread's execution  *)
(* lease from its admission to its release, and settles the run only after *)
(* the release, so a turn's tail overlaps the next turn.  Beside the row,  *)
(* the server keeps a tracker for the run and the run's name under         *)
(* activeRunByThread; a queued user turn waits for that name to go.        *)
(*                                                                         *)
(* One thread is modelled.  A server is one app-server process; it boots   *)
(* once.  A slot is a goroutine that carries a turn from admission through *)
(* its tail; slots are reused.  A worker is spawned at most once.          *)
(***************************************************************************)
EXTENDS Naturals

CONSTANTS
    Server,       \* app-server processes over the life of the store
    Run,          \* runs that can be created
    Slot,         \* turn goroutines a server can have at once
    Worker,       \* anonymous workers the turns can spawn
    User,         \* a prompt a user queued or steered
    NoRun,        \* no execution run
    NoSlot,       \* no current turn
    Nobody,       \* no holder of the thread's execution lease
    MaxRetries,   \* structuredoutput.MaxRetries
    Requests,     \* requests that clients send beside run/start
    Faults        \* what may fail

ASSUME NamesAssumption ==
    /\ NoRun \notin Run
    /\ NoSlot \notin Slot
    /\ Nobody \notin Server
    /\ User \notin Worker

ASSUME BoundsAssumption ==
    /\ MaxRetries \in Nat
    /\ Requests \subseteq {"turn", "queue", "steer", "turn/interrupt", "run/interrupt"}
    /\ Faults \subseteq {"crash", "admission", "attach", "response", "settle", "drain"}

VARIABLES
    proc,      \* [Server -> Process]
    row,       \* [Run -> [status, server]]: table execution_runs
    tracker,   \* [Run -> Mark]: Server.runs, with runTracker.interruptStatus
    retries,   \* [Run -> 0..MaxRetries]: runTracker.retries
    activeBy,  \* [Server -> Run \cup {NoRun}]: activeRunByThread of the thread
    lease,     \* Server \cup {Nobody}: the thread's execution lease
    cur,       \* [Server -> Slot \cup {NoSlot}]: threadState.currentTurn
    turn,      \* [Server -> [Slot -> Turn]]
    handler,   \* [Server -> Handler]: the request the server is serving
    worker,    \* [Server -> [Worker -> WorkerState]]
    steers,    \* [Server -> SUBSET Entry]: threadState.pendingSteers
    queued,    \* [Server -> SUBSET Entry]: pendingQueuedTurns of the thread
    results,   \* [Server -> SUBSET Worker]: pendingAgentCompletionTurns
    drainQ,    \* [Server -> Drain]: drainingQueuedTurns and where its drain is
    drainR,    \* [Server -> Drain]: drainingAgentCompletionTurns and its drain
    timers,    \* [Server -> SUBSET Queue]: lease retries that are scheduled
    frozen,    \* [Server -> BOOLEAN]: threadState.workerTreeFrozen
    asked      \* [Run -> SUBSET Reason]: history, what run/interrupt asked for

vars == <<proc, row, tracker, retries, activeBy, lease, cur, turn, handler,
          worker, steers, queued, results, drainQ, drainR, timers, frozen, asked>>

store   == <<row, retries>>
threads == <<lease, cur, turn>>
queues  == <<steers, queued, results, drainQ, drainR, timers>>

Process     == {"none", "up", "closing", "closed", "gone", "stale"}
Active      == {"accepted", "running"}
Reason      == {"interrupted", "timed_out"}
Terminal    == {"completed", "failed", "cancelled"} \cup Reason
Mark        == {"none", "plain"} \cup Reason
Kind        == {"run", "user", "queued", "auto", "retry"}
Outcome     == {"ok", "failed", "cancelled"}
WorkerState == {"none", "running", "reported", "done"}
Drain       == {"idle", "drain", "look", "take", "start", "again", "stop", "yield"}
Queue       == {"turns", "results"}
Entry       == Worker \cup {User}

Row  == [status: {"none"} \cup Active \cup Terminal, server: Server \cup {Nobody}]
Turn == [pc: {"free", "admitted", "started", "running", "released", "detach", "kick",
              "retry", "failing", "dropped"},
         kind: Kind, run: Run \cup {NoRun}, cancelled: BOOLEAN,
         outcome: Outcome]
Handler == [at: {"idle", "created", "starting", "queued", "marked", "between", "detach"},
            run: Run \cup {NoRun}, reason: Reason]

FreeTurn == [pc |-> "free", kind |-> "user", run |-> NoRun, cancelled |-> FALSE,
             outcome |-> "ok"]
Idle     == [at |-> "idle", run |-> NoRun, reason |-> "interrupted"]

Init ==
    /\ proc = [s \in Server |-> "none"]
    /\ row = [r \in Run |-> [status |-> "none", server |-> Nobody]]
    /\ tracker = [r \in Run |-> "none"]
    /\ retries = [r \in Run |-> 0]
    /\ activeBy = [s \in Server |-> NoRun]
    /\ lease = Nobody
    /\ cur = [s \in Server |-> NoSlot]
    /\ turn = [s \in Server |-> [k \in Slot |-> FreeTurn]]
    /\ handler = [s \in Server |-> Idle]
    /\ worker = [s \in Server |-> [w \in Worker |-> "none"]]
    /\ steers = [s \in Server |-> {}]
    /\ queued = [s \in Server |-> {}]
    /\ results = [s \in Server |-> {}]
    /\ drainQ = [s \in Server |-> "idle"]
    /\ drainR = [s \in Server |-> "idle"]
    /\ timers = [s \in Server |-> {}]
    /\ frozen = [s \in Server |-> FALSE]
    /\ asked = [r \in Run |-> {}]

-----------------------------------------------------------------------------
(* Shared pieces. *)

\* A process whose memory still exists.
Alive(s) == proc[s] \in {"up", "closing", "closed"}

IsActive(r) == row[r].status \in Active

\* threadState.running: a turn has started and has not been released.
Running(s) == cur[s] # NoSlot

\* The durable and the local admission reservation are both free.
Admissible(s) == lease = Nobody /\ ~Running(s)

\* Agent work the root still waits for: live workers and terminal records that
\* are not acknowledged yet.
Outstanding(s) == \E w \in Worker : worker[s][w] \in {"running", "reported"}

\* The store's update: it refuses a row that is terminal.
Finished(r, status) == IF IsActive(r) THEN [row EXCEPT ![r].status = status] ELSE row

\* Mutant of DetachRun: the thread's name goes, whichever run it names.
DetachAnyName(s, r) ==
    /\ tracker' = [tracker EXCEPT ![r] = "none"]
    /\ activeBy' = [activeBy EXCEPT ![s] = NoRun]

\* detachExecutionRun: the thread's name goes only if it is still this run's.
DetachRun(s, r) ==
    /\ tracker' = [tracker EXCEPT ![r] = "none"]
    /\ activeBy' = IF tracker[r] # "none" /\ activeBy[s] = r
                   THEN [activeBy EXCEPT ![s] = NoRun] ELSE activeBy

\* kickQueuedTurnDrain: a drain whose flag is up is left alone, wherever it is.
QueueDrain(s, flag, active, queue) ==
    IF proc[s] = "up" /\ active = NoRun /\ queue # {} /\ flag = "idle" THEN "drain" ELSE flag

\* kickAgentCompletionDrain.
ResultDrain(s, flag, pending) ==
    IF proc[s] = "up" /\ pending # {} /\ flag = "idle" THEN "drain" ELSE flag

\* hasQueuedUserWork
QueuedUserWork(s) == queued[s] # {} \/ drainQ[s] # "idle"

\* A turn takes the lease: startThreadUserTurnWithAdmission up to its hooks.
Admit(s, k, kind, r) ==
    /\ turn[s][k].pc = "free"
    /\ Admissible(s)
    /\ lease' = s
    /\ turn' = [turn EXCEPT ![s][k] =
                   [FreeTurn EXCEPT !.pc = "admitted", !.kind = kind, !.run = r]]

\* The goroutine of a turn that no longer owns the thread, with what it still needs.
TailAt(pc, r) == [FreeTurn EXCEPT !.pc = pc, !.run = r]

\* Mutant of ReleaseLease: the turn is dropped and its lease stays.
ForgetTurnOnly(s, k) ==
    IF cur[s] = k THEN UNCHANGED lease /\ cur' = [cur EXCEPT ![s] = NoSlot]
                  ELSE UNCHANGED <<lease, cur>>

\* The lease goes back, if the turn of this slot still owns it.
ReleaseLease(s, k) ==
    IF cur[s] = k THEN lease' = Nobody /\ cur' = [cur EXCEPT ![s] = NoSlot]
                  ELSE UNCHANGED <<lease, cur>>

-----------------------------------------------------------------------------
(* run/start and turn/start. *)

\* handleRunStart inserts the row; the store allows one active run per thread.
CreateRun(s, r) ==
    /\ proc[s] = "up" /\ handler[s] = Idle
    /\ row[r].status = "none"
    /\ \A q \in Run : ~IsActive(q)
    /\ row' = [row EXCEPT ![r] = [status |-> "accepted", server |-> s]]
    /\ handler' = [handler EXCEPT ![s] = [Idle EXCEPT !.at = "created", !.run = r]]
    /\ UNCHANGED <<proc, tracker, retries, activeBy, threads, worker, queues, frozen, asked>>

\* foldFrozenWorkerTree: the user's turn lifts the freeze, takes the results held
\* by it and acknowledges the terminal records it left.
FoldFrozen(s) ==
    /\ frozen' = [frozen EXCEPT ![s] = FALSE]
    /\ results' = IF frozen[s] THEN [results EXCEPT ![s] = {}] ELSE results
    /\ worker' = IF frozen[s]
                 THEN [worker EXCEPT ![s] = [w \in Worker |->
                          IF @[w] = "reported" THEN "done" ELSE @[w]]]
                 ELSE worker

AdmitRun(s, k) ==
    /\ proc[s] = "up" /\ handler[s].at = "created"
    /\ Admit(s, k, "run", handler[s].run)
    /\ FoldFrozen(s)
    /\ handler' = [handler EXCEPT ![s].at = "starting"]
    /\ UNCHANGED <<proc, store, tracker, activeBy, cur, steers, queued, drainQ, drainR, timers, asked>>

\* The thread is busy.
RefuseRun(s) ==
    /\ proc[s] = "up" /\ handler[s].at = "created"
    /\ ~Admissible(s)
    /\ row' = Finished(handler[s].run, "cancelled")
    /\ handler' = [handler EXCEPT ![s] = Idle]
    /\ UNCHANGED <<proc, tracker, retries, activeBy, threads, worker, queues, frozen, asked>>

\* handleTurnStart: a user's turn outside any run.
UserTurn(s, k) ==
    /\ "turn" \in Requests
    /\ proc[s] = "up" /\ handler[s] = Idle
    /\ Admit(s, k, "user", NoRun)
    /\ FoldFrozen(s)
    /\ handler' = [handler EXCEPT ![s].at = "starting"]
    /\ UNCHANGED <<proc, store, tracker, activeBy, cur, steers, queued, drainQ, drainR, timers, asked>>

-----------------------------------------------------------------------------
(* From admission to launch, for every kind of turn. *)

\* What the starter does once its turn is launched or given up: a handler answers, and
\* a drain of a server that is still up goes on to clear its flag.
StarterDone(s, k) ==
    /\ handler' = IF turn[s][k].kind \in {"run", "user"}
                  THEN [handler EXCEPT ![s] = Idle] ELSE handler
    /\ drainQ' = IF turn[s][k].kind = "queued" /\ proc[s] = "up"
                 THEN [drainQ EXCEPT ![s] = "again"] ELSE drainQ
    /\ drainR' = IF turn[s][k].kind = "auto" /\ proc[s] = "up"
                 THEN [drainR EXCEPT ![s] = "stop"] ELSE drainR

\* A retry fails its run before its goroutine ends.
GivenUp(t) == IF t.kind = "retry" THEN TailAt("failing", t.run) ELSE FreeTurn

\* The second half of the admission: the turn becomes the current one.
StartTurn(s, k) ==
    /\ proc[s] = "up" /\ turn[s][k].pc = "admitted"
    /\ cur' = [cur EXCEPT ![s] = k]
    /\ turn' = [turn EXCEPT ![s][k].pc = "started"]
    /\ steers' = [steers EXCEPT ![s] = {}]
    /\ UNCHANGED <<proc, store, tracker, activeBy, lease, handler, worker, queued,
                   results, drainQ, drainR, timers, frozen, asked>>

\* abortAdmission: a hook failed or the server closed.  A refused run is cancelled, a
\* refused retry fails its run next, an entry of a drain is dropped.
AbortAdmission(s, k) ==
    /\ Alive(s) /\ turn[s][k].pc = "admitted"
    /\ proc[s] # "up" \/ "admission" \in Faults
    /\ lease' = IF lease = s THEN Nobody ELSE lease
    /\ row' = IF turn[s][k].kind = "run" THEN Finished(turn[s][k].run, "cancelled") ELSE row
    /\ turn' = [turn EXCEPT ![s][k] = GivenUp(@)]
    /\ StarterDone(s, k)
    /\ UNCHANGED <<proc, tracker, retries, activeBy, cur, worker, steers, queued,
                   results, timers, frozen, asked>>

\* The turn has no run, or its row takes it (AttachTurn), and its goroutine
\* starts.  Only run/start registers the run.
Launch(s, k) ==
    LET r == turn[s][k].run IN
    /\ proc[s] = "up" /\ turn[s][k].pc = "started"
    /\ r # NoRun => IsActive(r)
    /\ row' = IF r = NoRun THEN row ELSE [row EXCEPT ![r].status = "running"]
    /\ IF turn[s][k].kind = "run"
       THEN /\ tracker' = [tracker EXCEPT ![r] = "plain"]
            /\ activeBy' = [activeBy EXCEPT ![s] = r]
       ELSE UNCHANGED <<tracker, activeBy>>
    /\ turn' = [turn EXCEPT ![s][k].pc = "running"]
    /\ StarterDone(s, k)
    /\ UNCHANGED <<proc, retries, lease, cur, worker, steers, queued, results, timers, frozen, asked>>

\* Why a started turn is given up: AttachTurn finds the run terminal, or the
\* store fails; the server closed; the client cannot be answered.
GiveUp(s, k) ==
    LET r == turn[s][k].run
        kind == turn[s][k].kind
    IN  {cause \in {"refused", "attach", "closed", "response"} :
            CASE cause = "refused"  -> r # NoRun /\ ~IsActive(r)
              [] cause = "attach"   -> r # NoRun /\ "attach" \in Faults
              [] cause = "closed"   -> proc[s] # "up"
              [] cause = "response" -> kind # "auto" /\ "response" \in Faults}

\* abortStartedThreadTurnDurably; run/start also settles its run.
AbortLaunch(s, k) ==
    /\ Alive(s) /\ turn[s][k].pc = "started"
    /\ \E cause \in GiveUp(s, k) :
          row' = IF turn[s][k].kind = "run"
                 THEN Finished(turn[s][k].run,
                               IF cause = "response" THEN "interrupted" ELSE "failed")
                 ELSE row
    /\ ReleaseLease(s, k)
    /\ turn' = [turn EXCEPT ![s][k] = GivenUp(@)]
    /\ StarterDone(s, k)
    /\ UNCHANGED <<proc, tracker, retries, activeBy, worker, steers, queued, results,
                   timers, frozen, asked>>

-----------------------------------------------------------------------------
(* The turn, and the tail that settles its run. *)

\* The turn's agent loop spawns a worker.
SpawnWorker(s, w) ==
    /\ proc[s] = "up" /\ Running(s)
    /\ turn[s][cur[s]].pc = "running" /\ ~turn[s][cur[s]].cancelled
    /\ worker[s][w] = "none"
    /\ worker' = [worker EXCEPT ![s][w] = "running"]
    /\ UNCHANGED <<proc, store, tracker, activeBy, threads, handler, queues, frozen, asked>>

\* The agent loop takes the pending steers at its next step.
ConsumeSteers(s) ==
    /\ Alive(s) /\ Running(s) /\ turn[s][cur[s]].pc = "running"
    /\ steers[s] # {}
    /\ steers' = [steers EXCEPT ![s] = {}]
    /\ UNCHANGED <<proc, store, tracker, activeBy, threads, handler, worker, queued,
                   results, drainQ, drainR, timers, frozen, asked>>

\* finalizeAgentTerminal: the worker's result steers a running turn, and is queued
\* for a turn of its own otherwise.  A closed server keeps it for the next one.
WorkerEnds(s, w) ==
    /\ Alive(s) /\ worker[s][w] = "running"
    /\ worker' = [worker EXCEPT ![s][w] = "reported"]
    /\ IF proc[s] = "up" /\ Running(s)
       THEN /\ steers' = [steers EXCEPT ![s] = @ \cup {w}]
            /\ UNCHANGED <<results, drainR>>
       ELSE /\ UNCHANGED steers
            /\ IF proc[s] = "up"
               THEN /\ results' = [results EXCEPT ![s] = @ \cup {w}]
                    /\ drainR' = [drainR EXCEPT ![s] = ResultDrain(s, @, results'[s])]
               ELSE UNCHANGED <<results, drainR>>
    /\ UNCHANGED <<proc, store, tracker, activeBy, threads, handler, queued, drainQ,
                   timers, frozen, asked>>

\* The terminal record is acknowledged after its finalizers have run.
WorkerAcked(s, w) ==
    /\ Alive(s) /\ worker[s][w] = "reported"
    /\ worker' = [worker EXCEPT ![s][w] = "done"]
    /\ UNCHANGED <<proc, store, tracker, activeBy, threads, handler, queues, frozen, asked>>

\* runTurn after its loop: the outcome is fixed, steers nobody consumed become
\* queued user turns, and the lease is released.
EndTurn(s, k) ==
    /\ Alive(s) /\ turn[s][k].pc = "running" /\ cur[s] = k
    /\ \E outcome \in Outcome :
          /\ outcome = "cancelled" => turn[s][k].cancelled
          /\ turn' = [turn EXCEPT ![s][k] =
                         IF @.run = NoRun
                         THEN TailAt("kick", NoRun)
                         ELSE [TailAt("released", @.run) EXCEPT !.outcome = outcome]]
    /\ queued' = IF proc[s] = "up" THEN [queued EXCEPT ![s] = @ \cup steers[s]] ELSE queued
    /\ steers' = [steers EXCEPT ![s] = {}]
    /\ lease' = Nobody
    /\ cur' = [cur EXCEPT ![s] = NoSlot]
    /\ UNCHANGED <<proc, store, tracker, activeBy, handler, worker, results, drainQ,
                   drainR, timers, frozen, asked>>

\* A turn whose lease was taken away by a timed-out shutdown just returns.
EndAbandoned(s, k) ==
    /\ Alive(s) /\ turn[s][k].pc = "running" /\ cur[s] # k
    /\ turn' = [turn EXCEPT ![s][k] = FreeTurn]
    /\ UNCHANGED <<proc, store, tracker, activeBy, lease, cur, handler, worker, queues,
                   frozen, asked>>

\* executionRunInterruptStatus
InterruptStatus(r) == IF tracker[r] \in Reason THEN tracker[r] ELSE "interrupted"

\* settleExecutionRunTurn writes the run's terminal row, unless another writer was
\* first (then it reports an error) or the store fails.
SettleAs(s, k, status) ==
    LET r == turn[s][k].run IN
        \/ /\ IsActive(r)
           /\ row' = Finished(r, status) /\ turn' = [turn EXCEPT ![s][k] = TailAt("detach", r)]
        \/ /\ ~IsActive(r) \/ "settle" \in Faults
           /\ UNCHANGED row /\ turn' = [turn EXCEPT ![s][k] = TailAt("kick", NoRun)]

\* The turn failed: the run ends with it.
SettleFailed(s, k) ==
    /\ Alive(s) /\ turn[s][k].pc = "released" /\ turn[s][k].outcome # "ok"
    /\ SettleAs(s, k, IF turn[s][k].outcome = "cancelled"
                      THEN InterruptStatus(turn[s][k].run) ELSE "failed")
    /\ UNCHANGED <<proc, tracker, retries, activeBy, lease, cur, handler, worker, queues,
                   frozen, asked>>

\* The turn succeeded and agent work is outstanding: the run goes on.
AwaitContinuation(s, k) ==
    /\ Alive(s) /\ turn[s][k].pc = "released" /\ turn[s][k].outcome = "ok"
    /\ Outstanding(s)
    /\ turn' = [turn EXCEPT ![s][k] = TailAt("kick", NoRun)]
    /\ UNCHANGED <<proc, store, tracker, activeBy, lease, cur, handler, worker, queues,
                   frozen, asked>>

\* executionRunSchemaOutcome: whether an invalid answer is retried once more.
RetriesLeft(r) == retries[r] < MaxRetries

\* The turn succeeded and nothing is outstanding: a valid answer completes the run,
\* an invalid one is retried while retries are left.  A detached run has no
\* validator.
SettleAnswered(s, k) ==
    LET r == turn[s][k].run IN
    /\ Alive(s) /\ turn[s][k].pc = "released" /\ turn[s][k].outcome = "ok"
    /\ ~Outstanding(s)
    /\ \/ SettleAs(s, k, "completed") /\ UNCHANGED retries
       \/ /\ tracker[r] # "none" /\ RetriesLeft(r)
          /\ retries' = [retries EXCEPT ![r] = @ + 1]
          /\ turn' = [turn EXCEPT ![s][k] = TailAt("retry", r)]
          /\ UNCHANGED row
       \/ /\ tracker[r] # "none" /\ ~RetriesLeft(r)
          /\ SettleAs(s, k, "failed") /\ UNCHANGED retries
    /\ UNCHANGED <<proc, tracker, activeBy, lease, cur, handler, worker, queues, frozen,
                   asked>>

Detach(s, k) ==
    /\ Alive(s) /\ turn[s][k].pc = "detach"
    /\ DetachRun(s, turn[s][k].run)
    /\ turn' = [turn EXCEPT ![s][k] = TailAt("kick", NoRun)]
    /\ UNCHANGED <<proc, store, lease, cur, handler, worker, queues, frozen, asked>>

\* Mutant of Kick: the tail wakes the results only.
KickResultsOnly(s, k) ==
    /\ Alive(s) /\ turn[s][k].pc = "kick"
    /\ turn' = [turn EXCEPT ![s][k] = FreeTurn]
    /\ drainR' = [drainR EXCEPT ![s] = ResultDrain(s, drainR[s], results[s])]
    /\ UNCHANGED <<proc, store, tracker, activeBy, lease, cur, handler, worker, steers,
                   queued, results, drainQ, timers, frozen, asked>>

\* The tail's last step wakes both drains.
Kick(s, k) ==
    /\ Alive(s) /\ turn[s][k].pc = "kick"
    /\ turn' = [turn EXCEPT ![s][k] = FreeTurn]
    /\ drainR' = [drainR EXCEPT ![s] = ResultDrain(s, drainR[s], results[s])]
    /\ drainQ' = [drainQ EXCEPT ![s] = QueueDrain(s, drainQ[s], activeBy[s], queued[s])]
    /\ UNCHANGED <<proc, store, tracker, activeBy, lease, cur, handler, worker, steers,
                   queued, results, timers, frozen, asked>>

\* startExecutionSchemaRetry from the tail: the same goroutine admits the retry turn.
AdmitRetry(s, k) ==
    /\ proc[s] = "up" /\ turn[s][k].pc = "retry"
    /\ Admissible(s)
    /\ lease' = s
    /\ turn' = [turn EXCEPT ![s][k] = [FreeTurn EXCEPT !.pc = "admitted", !.kind = "retry",
                                                       !.run = turn[s][k].run]]
    /\ UNCHANGED <<proc, store, tracker, activeBy, cur, handler, worker, queues, frozen, asked>>

\* Mutant of RefuseRetry: the retry is given up and the run is not failed.
RefuseRetryQuietly(s, k) ==
    /\ Alive(s)
    /\ \/ turn[s][k].pc = "failing"
       \/ turn[s][k].pc = "retry" /\ (proc[s] # "up" \/ ~Admissible(s))
    /\ turn' = [turn EXCEPT ![s][k].pc = "dropped"]
    /\ UNCHANGED <<proc, store, tracker, activeBy, lease, cur, handler, worker, queues,
                   frozen, asked>>

\* The thread is busy, the server closed or the admission failed: so does the run.
RefuseRetry(s, k) ==
    /\ Alive(s)
    /\ \/ turn[s][k].pc = "failing"
       \/ turn[s][k].pc = "retry" /\ (proc[s] # "up" \/ ~Admissible(s))
    /\ row' = Finished(turn[s][k].run, "failed")
    /\ turn' = [turn EXCEPT ![s][k].pc = "dropped"]
    /\ UNCHANGED <<proc, tracker, retries, activeBy, lease, cur, handler, worker, queues,
                   frozen, asked>>

\* failAndDetachExecutionRun after its write: detach, then wake the queue.
DetachDropped(s, k) ==
    /\ Alive(s) /\ turn[s][k].pc = "dropped"
    /\ DetachRun(s, turn[s][k].run)
    /\ drainQ' = [drainQ EXCEPT ![s] = QueueDrain(s, drainQ[s], activeBy'[s], queued[s])]
    /\ turn' = [turn EXCEPT ![s][k] = FreeTurn]
    /\ UNCHANGED <<proc, store, lease, cur, handler, worker, steers, queued, results,
                   drainR, timers, frozen, asked>>

-----------------------------------------------------------------------------
(* Queued user turns and worker results. *)

\* handleTurnQueue up to its answer.  While an interrupt is being carried out the entry
\* is held instead.
QueueUser(s) ==
    /\ "queue" \in Requests
    /\ proc[s] = "up" /\ handler[s] = Idle /\ User \notin queued[s]
    /\ Running(s) => ~turn[s][cur[s]].cancelled
    /\ queued' = [queued EXCEPT ![s] = @ \cup {User}]
    /\ handler' = [handler EXCEPT ![s].at = "queued"]
    /\ UNCHANGED <<proc, store, tracker, activeBy, threads, worker, steers, results, drainQ,
                   drainR, timers, frozen, asked>>

\* The queue is kicked once the client is answered; an answer that cannot be written
\* ends the request before that.
AnswerQueued(s) ==
    /\ proc[s] = "up" /\ handler[s].at = "queued"
    /\ \/ drainQ' = [drainQ EXCEPT ![s] = QueueDrain(s, @, activeBy[s], queued[s])]
       \/ "response" \in Faults /\ UNCHANGED drainQ
    /\ handler' = [handler EXCEPT ![s] = Idle]
    /\ UNCHANGED <<proc, store, tracker, activeBy, threads, worker, steers, queued, results,
                   drainR, timers, frozen, asked>>

\* handleTurnSteer into the running turn.
SteerUser(s) ==
    /\ "steer" \in Requests
    /\ proc[s] = "up" /\ handler[s] = Idle /\ Running(s)
    /\ steers' = [steers EXCEPT ![s] = @ \cup {User}]
    /\ queued' = [queued EXCEPT ![s] = @ \ {User}]
    /\ UNCHANGED <<proc, store, tracker, activeBy, threads, handler, worker,
                   results, drainQ, drainR, timers, frozen, asked>>

\* One step of drainQueuedTurns.  Its flag is up from the kick until it is cleared.
QueueStep(s, from, to) ==
    /\ proc[s] = "up" /\ drainQ[s] = from
    /\ drainQ' = [drainQ EXCEPT ![s] = to]
    /\ UNCHANGED <<proc, store, tracker, activeBy, threads, handler, worker, steers, queued,
                   results, drainR, timers, frozen, asked>>

\* A turn that runs wakes the queue when it ends, so the drain stops.
CheckQueue(s) == QueueStep(s, "drain", IF Running(s) THEN "stop" ELSE "take")

\* There is nothing to start, or a turn has started since the check: the entry is put
\* back and the drain begins again.
TakeNothing(s) == queued[s] = {} /\ QueueStep(s, "take", "stop")
PutBack(s)     == queued[s] # {} /\ Running(s) /\ QueueStep(s, "take", "again")

\* The next entry's turn is admitted, for no run.
StartQueued(s, k) ==
    /\ proc[s] = "up" /\ drainQ[s] = "take"
    /\ \E e \in queued[s] :
          /\ Admit(s, k, "queued", NoRun)
          /\ queued' = [queued EXCEPT ![s] = @ \ {e}]
    /\ drainQ' = [drainQ EXCEPT ![s] = "start"]
    /\ UNCHANGED <<proc, store, tracker, activeBy, cur, handler, worker, steers, results,
                   drainR, timers, frozen, asked>>

\* The lease is taken: the entry is put back, the flag cleared and a retry scheduled.
AwaitLease(s) ==
    /\ proc[s] = "up" /\ drainQ[s] = "take"
    /\ queued[s] # {} /\ ~Running(s) /\ ~Admissible(s)
    /\ drainQ' = [drainQ EXCEPT ![s] = "idle"]
    /\ timers' = [timers EXCEPT ![s] = @ \cup {"turns"}]
    /\ UNCHANGED <<proc, store, tracker, activeBy, threads, handler, worker, steers, queued,
                   results, drainR, frozen, asked>>

\* The flag is cleared, and nothing else: the decision to stop is older.
StopQueue(s) == QueueStep(s, "stop", "idle")

\* After a start or an entry put back, the flag is cleared and the queue kicked again; a
\* kick that comes between the two starts the same drain.
DrainAgain(s) == QueueStep(s, "again", QueueDrain(s, "idle", activeBy[s], queued[s]))

\* The retry timer of the queue fires; timers that are pending together count as one.
RetryQueue(s) ==
    /\ proc[s] = "up" /\ "turns" \in timers[s]
    /\ timers' = [timers EXCEPT ![s] = @ \ {"turns"}]
    /\ drainQ' = [drainQ EXCEPT ![s] = QueueDrain(s, @, activeBy[s], queued[s])]
    /\ UNCHANGED <<proc, store, tracker, activeBy, threads, handler, worker, steers, queued,
                   results, drainR, frozen, asked>>

\* One step of drainAgentCompletionTurns.
ResultStep(s, from, to) ==
    /\ proc[s] = "up" /\ drainR[s] = from
    /\ drainR' = [drainR EXCEPT ![s] = to]
    /\ UNCHANGED <<proc, store, tracker, activeBy, threads, handler, worker, steers, queued,
                   results, drainQ, timers, frozen, asked>>

CheckResults(s) == ResultStep(s, "drain", IF Running(s) THEN "stop" ELSE "look")

\* The user's queued work comes first; a frozen tree holds its results.
LookAround(s) ==
    ResultStep(s, "look", CASE QueuedUserWork(s)               -> "yield"
                            [] ~QueuedUserWork(s) /\ frozen[s] -> "stop"
                            [] OTHER                           -> "take")

TakeNoResult(s)  == results[s] = {} /\ ResultStep(s, "take", "stop")
PutResultBack(s) == results[s] # {} /\ Running(s) /\ ResultStep(s, "take", "again")

\* A synthetic turn is admitted for one result.  The run of the turn is the thread's
\* active run as it is named before the admission.
StartResult(s, k) ==
    /\ proc[s] = "up" /\ drainR[s] = "take"
    /\ \E w \in results[s] :
          /\ Admit(s, k, "auto", activeBy[s])
          /\ results' = [results EXCEPT ![s] = @ \ {w}]
    /\ drainR' = [drainR EXCEPT ![s] = "start"]
    /\ UNCHANGED <<proc, store, tracker, activeBy, cur, handler, worker, steers, queued,
                   drainQ, timers, frozen, asked>>

AwaitLeaseForResult(s) ==
    /\ proc[s] = "up" /\ drainR[s] = "take"
    /\ results[s] # {} /\ ~Running(s) /\ ~Admissible(s)
    /\ drainR' = [drainR EXCEPT ![s] = "idle"]
    /\ timers' = [timers EXCEPT ![s] = @ \cup {"results"}]
    /\ UNCHANGED <<proc, store, tracker, activeBy, threads, handler, worker, steers, queued,
                   results, drainQ, frozen, asked>>

StopResults(s)       == ResultStep(s, "stop", "idle")
DrainResultsAgain(s) == ResultStep(s, "again", ResultDrain(s, "idle", results[s]))

\* The flag is cleared, and the queue that comes first is kicked.
YieldToQueue(s) ==
    /\ proc[s] = "up" /\ drainR[s] = "yield"
    /\ drainR' = [drainR EXCEPT ![s] = "idle"]
    /\ drainQ' = [drainQ EXCEPT ![s] = QueueDrain(s, @, activeBy[s], queued[s])]
    /\ UNCHANGED <<proc, store, tracker, activeBy, threads, handler, worker, steers, queued,
                   results, timers, frozen, asked>>

RetryResults(s) ==
    /\ proc[s] = "up" /\ "results" \in timers[s]
    /\ timers' = [timers EXCEPT ![s] = @ \ {"results"}]
    /\ drainR' = [drainR EXCEPT ![s] = ResultDrain(s, @, results[s])]
    /\ UNCHANGED <<proc, store, tracker, activeBy, threads, handler, worker, steers, queued,
                   results, drainQ, frozen, asked>>

-----------------------------------------------------------------------------
(* run/interrupt and turn/interrupt. *)

\* Mutant of MarkReason: the reason is not recorded before the interrupt.
MarkNothing(s, r, reason) ==
    /\ "run/interrupt" \in Requests
    /\ proc[s] = "up" /\ handler[s] = Idle
    /\ IsActive(r) /\ row[r].server = s /\ tracker[r] # "none"
    /\ asked' = [asked EXCEPT ![r] = @ \cup {reason}]
    /\ handler' = [handler EXCEPT ![s] = [at |-> "marked", run |-> r, reason |-> reason]]
    /\ UNCHANGED <<proc, store, tracker, activeBy, threads, worker, queues, frozen>>

\* handleRunInterrupt first records the caller's reason with the attached run.
MarkReason(s, r, reason) ==
    /\ "run/interrupt" \in Requests
    /\ proc[s] = "up" /\ handler[s] = Idle
    /\ IsActive(r) /\ row[r].server = s /\ tracker[r] # "none"
    /\ tracker' = [tracker EXCEPT ![r] = reason]
    /\ asked' = [asked EXCEPT ![r] = @ \cup {reason}]
    /\ handler' = [handler EXCEPT ![s] = [at |-> "marked", run |-> r, reason |-> reason]]
    /\ UNCHANGED <<proc, store, activeBy, threads, worker, queues, frozen>>

\* turn/interrupt names no run.
TurnInterrupt(s) ==
    /\ "turn/interrupt" \in Requests
    /\ proc[s] = "up" /\ handler[s] = Idle
    /\ Running(s) \/ (Outstanding(s) /\ ~frozen[s])
    /\ handler' = [handler EXCEPT ![s] = [Idle EXCEPT !.at = "marked"]]
    /\ UNCHANGED <<proc, store, tracker, activeBy, threads, worker, queues, frozen, asked>>

\* interruptThreadExecution with a current turn: it is cancelled, the tree is frozen
\* and the user's waiting work is held, unless the turn belongs to another run.
InterruptTurn(s) ==
    LET r == handler[s].run
        ours == r = NoRun \/ turn[s][cur[s]].run = r
    IN
    /\ proc[s] = "up" /\ handler[s].at = "marked" /\ Running(s)
    /\ handler' = [handler EXCEPT ![s] = Idle]
    /\ IF ours
       THEN /\ turn' = [turn EXCEPT ![s][cur[s]].cancelled = TRUE]
            /\ frozen' = [frozen EXCEPT ![s] = TRUE]
            /\ queued' = [queued EXCEPT ![s] = {}]
            /\ steers' = [steers EXCEPT ![s] = {}]
       ELSE UNCHANGED <<turn, frozen, queued, steers>>
    /\ UNCHANGED <<proc, store, tracker, activeBy, lease, cur, worker, results, drainQ,
                   drainR, timers, asked>>

\* Without one: workers that are outstanding are frozen, and run/interrupt settles
\* the run itself.
InterruptBetween(s) ==
    /\ proc[s] = "up" /\ handler[s].at = "marked" /\ ~Running(s)
    /\ frozen' = [frozen EXCEPT ![s] = @ \/ Outstanding(s)]
    /\ handler' = [handler EXCEPT ![s] =
                      IF @.run = NoRun THEN Idle ELSE [@ EXCEPT !.at = "between"]]
    /\ UNCHANGED <<proc, store, tracker, activeBy, threads, worker, queues, asked>>

FailBetween(s) ==
    /\ proc[s] = "up" /\ handler[s].at = "between"
    /\ row' = Finished(handler[s].run, handler[s].reason)
    /\ handler' = [handler EXCEPT ![s].at = "detach"]
    /\ UNCHANGED <<proc, tracker, retries, activeBy, threads, worker, queues, frozen, asked>>

DetachBetween(s) ==
    /\ proc[s] = "up" /\ handler[s].at = "detach"
    /\ DetachRun(s, handler[s].run)
    /\ drainQ' = [drainQ EXCEPT ![s] = QueueDrain(s, drainQ[s], activeBy'[s], queued[s])]
    /\ handler' = [handler EXCEPT ![s] = Idle]
    /\ UNCHANGED <<proc, store, threads, worker, steers, queued, results, drainR, timers, frozen,
                   asked>>

-----------------------------------------------------------------------------
(* Processes. *)

\* NewWithCredentialStore: the first server present settles what dead ones left.
Boot(s) ==
    /\ proc[s] = "none"
    /\ proc' = [proc EXCEPT ![s] = "up"]
    /\ row' = IF \A t \in Server : proc[t] \notin {"up", "closing"}
              THEN [r \in Run |->
                      IF IsActive(r) /\ proc[row[r].server] = "stale"
                      THEN [row[r] EXCEPT !.status = "interrupted"] ELSE row[r]]
              ELSE row
    /\ UNCHANGED <<tracker, retries, activeBy, threads, handler, worker, queues, frozen,
                   asked>>

\* The process's memory is lost; the operating system takes its lease back.
Forget(s) ==
    /\ tracker' = [r \in Run |-> IF row[r].server = s THEN "none" ELSE tracker[r]]
    /\ activeBy' = [activeBy EXCEPT ![s] = NoRun]
    /\ lease' = IF lease = s THEN Nobody ELSE lease
    /\ cur' = [cur EXCEPT ![s] = NoSlot]
    /\ turn' = [turn EXCEPT ![s] = [k \in Slot |-> FreeTurn]]
    /\ handler' = [handler EXCEPT ![s] = Idle]
    /\ worker' = [worker EXCEPT ![s] = [w \in Worker |-> "none"]]
    /\ steers' = [steers EXCEPT ![s] = {}]
    /\ queued' = [queued EXCEPT ![s] = {}]
    /\ results' = [results EXCEPT ![s] = {}]
    /\ drainQ' = [drainQ EXCEPT ![s] = "idle"]
    /\ drainR' = [drainR EXCEPT ![s] = "idle"]
    /\ timers' = [timers EXCEPT ![s] = {}]
    /\ frozen' = [frozen EXCEPT ![s] = FALSE]
    /\ UNCHANGED <<store, asked>>

Crash(s) ==
    /\ "crash" \in Faults
    /\ proc[s] \in {"up", "closing"}
    /\ proc' = [proc EXCEPT ![s] = "gone"]
    /\ Forget(s)

\* The heartbeat of a dead process passes the recovery interval.
Lapse(s) ==
    /\ proc[s] = "gone"
    /\ proc' = [proc EXCEPT ![s] = "stale"]
    /\ UNCHANGED <<store, tracker, activeBy, threads, handler, worker, queues, frozen, asked>>

\* Server.Close up to its drain: the current turn is cancelled, the queues go.  It is
\* called by the goroutine that serves the requests.
BeginClose(s) ==
    /\ proc[s] = "up" /\ handler[s] = Idle
    /\ proc' = [proc EXCEPT ![s] = "closing"]
    /\ turn' = [turn EXCEPT ![s] = [k \in Slot |->
                   IF k = cur[s] THEN [@[k] EXCEPT !.cancelled = TRUE] ELSE @[k]]]
    /\ queued' = [queued EXCEPT ![s] = {}]
    /\ results' = [results EXCEPT ![s] = {}]
    /\ drainQ' = [drainQ EXCEPT ![s] = "idle"]
    /\ drainR' = [drainR EXCEPT ![s] = "idle"]
    /\ timers' = [timers EXCEPT ![s] = {}]
    /\ UNCHANGED <<store, tracker, activeBy, lease, cur, handler, worker, steers, frozen, asked>>

\* waitForOwnedShutdown, which a timed-out drain ends by taking the lease away, and
\* interruptAttachedRunsOnClose.
FinishClose(s) ==
    /\ proc[s] = "closing"
    /\ \/ \A k \in Slot : turn[s][k].pc = "free"
       \/ "drain" \in Faults
    /\ proc' = [proc EXCEPT ![s] = "closed"]
    /\ lease' = IF lease = s THEN Nobody ELSE lease
    /\ cur' = [cur EXCEPT ![s] = NoSlot]
    /\ row' = [r \in Run |->
                 IF IsActive(r) /\ row[r].server = s /\ tracker[r] # "none"
                 THEN [row[r] EXCEPT !.status = "interrupted"] ELSE row[r]]
    /\ tracker' = [r \in Run |-> IF row[r].server = s THEN "none" ELSE tracker[r]]
    /\ activeBy' = [activeBy EXCEPT ![s] = NoRun]
    /\ UNCHANGED <<retries, turn, handler, worker, queues, frozen, asked>>

\* The host closes its runtime and goes.
Exit(s) ==
    /\ proc[s] = "closed"
    /\ proc' = [proc EXCEPT ![s] = "stale"]
    /\ Forget(s)

-----------------------------------------------------------------------------
Request(s) ==
    \/ QueueUser(s) \/ SteerUser(s) \/ TurnInterrupt(s)
    \/ \E r \in Run : CreateRun(s, r)
    \/ \E r \in Run, reason \in Reason : MarkReason(s, r, reason)
    \/ \E k \in Slot : UserTurn(s, k)

Handle(s) ==
    \/ \E k \in Slot : AdmitRun(s, k)
    \/ RefuseRun(s) \/ AnswerQueued(s)
    \/ InterruptTurn(s) \/ InterruptBetween(s)
    \/ FailBetween(s) \/ DetachBetween(s)

Admission(s, k) == StartTurn(s, k) \/ AbortAdmission(s, k) \/ Launch(s, k) \/ AbortLaunch(s, k)

Tail(s, k) ==
    \/ EndTurn(s, k) \/ EndAbandoned(s, k)
    \/ SettleFailed(s, k) \/ AwaitContinuation(s, k) \/ SettleAnswered(s, k)
    \/ Detach(s, k) \/ Kick(s, k)
    \/ AdmitRetry(s, k) \/ RefuseRetry(s, k) \/ DetachDropped(s, k)

DrainQueue(s) ==
    \/ CheckQueue(s) \/ TakeNothing(s) \/ PutBack(s) \/ AwaitLease(s)
    \/ StopQueue(s) \/ DrainAgain(s) \/ RetryQueue(s)

DrainResults(s) ==
    \/ CheckResults(s) \/ LookAround(s) \/ TakeNoResult(s) \/ PutResultBack(s)
    \/ AwaitLeaseForResult(s) \/ StopResults(s) \/ DrainResultsAgain(s)
    \/ YieldToQueue(s) \/ RetryResults(s)

Drains(s) ==
    \/ DrainQueue(s) \/ DrainResults(s)
    \/ \E k \in Slot : StartQueued(s, k) \/ StartResult(s, k)

Workers(s, w) == SpawnWorker(s, w) \/ WorkerEnds(s, w) \/ WorkerAcked(s, w)

Life(s) == Boot(s) \/ Crash(s) \/ Lapse(s) \/ BeginClose(s) \/ FinishClose(s) \/ Exit(s)

Next ==
    \E s \in Server :
        \/ Request(s) \/ Handle(s) \/ ConsumeSteers(s) \/ Drains(s) \/ Life(s)
        \/ \E k \in Slot : Admission(s, k) \/ Tail(s, k)
        \/ \E w \in Worker : Workers(s, w)

Spec == Init /\ [][Next]_vars

\* Goroutines run, turns and workers end, terminal records are acknowledged, timers
\* fire.  No client must ask for anything, no agent must take a steer or spawn a
\* worker, and no process must stop.
Progress(s) ==
    /\ WF_vars(Handle(s)) /\ WF_vars(Drains(s)) /\ WF_vars(FinishClose(s))
    /\ \A k \in Slot : WF_vars(Admission(s, k)) /\ WF_vars(Tail(s, k))
    /\ \A w \in Worker : WF_vars(WorkerEnds(s, w) \/ WorkerAcked(s, w))

FairSpec == Spec /\ \A s \in Server : Progress(s)

-----------------------------------------------------------------------------
TypeOK ==
    /\ proc \in [Server -> Process]
    /\ row \in [Run -> Row]
    /\ tracker \in [Run -> Mark]
    /\ retries \in [Run -> 0..MaxRetries]
    /\ activeBy \in [Server -> Run \cup {NoRun}]
    /\ lease \in Server \cup {Nobody}
    /\ cur \in [Server -> Slot \cup {NoSlot}]
    /\ turn \in [Server -> [Slot -> Turn]]
    /\ handler \in [Server -> Handler]
    /\ worker \in [Server -> [Worker -> WorkerState]]
    /\ steers \in [Server -> SUBSET Entry]
    /\ queued \in [Server -> SUBSET Entry]
    /\ results \in [Server -> SUBSET Worker]
    /\ drainQ \in [Server -> Drain]
    /\ drainR \in [Server -> Drain]
    /\ timers \in [Server -> SUBSET Queue]
    /\ frozen \in [Server -> BOOLEAN]
    /\ asked \in [Run -> SUBSET Reason]

\* An active run of a process that still runs is in its starter's hands, or it is
\* attached under the thread's name, where run/interrupt, a turn's end and the
\* shutdown find it.  A run that drops out of both would hold the thread's only
\* active row until the process dies (run_handlers.go:283-289, 446-485).
ActiveRunIsHeld == \A r \in Run :
    LET s == row[r].server IN
    IsActive(r) /\ Alive(s) =>
        \/ handler[s].run = r /\ handler[s].at \in {"created", "starting"}
        \/ proc[s] # "closed" /\ tracker[r] # "none" /\ activeBy[s] = r

\* The turn that will give the lease back.
Owner(s, k) == IF cur[s] = NoSlot THEN turn[s][k].pc = "admitted"
                                  ELSE cur[s] = k /\ turn[s][k].pc \in {"started", "running"}

\* A turn is current only under the thread's lease, and a lease that is taken has one
\* turn of a process that has not closed to give it back, through every way a start
\* can be given up (turn_execution_lease.go:21-50, 161-235; model.go:348-366).
LeaseIsOwned ==
    /\ \A s \in Server : cur[s] # NoSlot => lease = s
    /\ lease # Nobody =>
          /\ proc[lease] \in {"up", "closing"}
          /\ \E k \in Slot : Owner(lease, k) /\ \A j \in Slot : Owner(lease, j) => j = k

\* A run that its client timed out, and never interrupted otherwise, is not reported
\* as interrupted by a server that stays up (run_handlers.go:194-197).
TimeoutIsReported == \A r \in Run :
    asked[r] = {"timed_out"} /\ row[r].status = "interrupted" => proc[row[r].server] # "up"

\* What will look at the queue again: a turn under way or its tail, a drain that has not
\* decided to stop, a retry timer, and a handler that ends a run or has just queued.
QueueWaker(s) ==
    \/ \E k \in Slot : turn[s][k].pc # "free"
    \/ drainQ[s] \notin {"idle", "stop"}
    \/ "turns" \in timers[s]
    \/ handler[s].at \in {"queued", "detach"}

\* A queued user turn of a thread without a run is not left asleep: something will
\* look at the queue again.
QueueAwake(s) ==
    proc[s] = "up" /\ queued[s] # {} /\ activeBy[s] = NoRun => QueueWaker(s)

\* How the code can lose the last one that would look at the queue: its kick comes between
\* a drain's decision to stop and the clearing of its flag; a start other than the queue's
\* own is given up before its launch; the client that queued the turn cannot be answered.
KickIsLost(s)    == drainQ[s] = "stop"
StartIsGivenUp(s) == \E k \in Slot :
    /\ turn[s][k].pc \in {"admitted", "started"} /\ turn'[s][k].pc = "free"
    /\ turn[s][k].kind # "queued"
AnswerIsLost(s)  == handler[s].at = "queued" /\ "response" \in Faults

\* No step puts a waiting user turn to sleep, but in these three ways: every end, abort,
\* detachment, drain, timer and request that lets go of the queue wakes it
\* (turn_handlers.go:488-494, 2330-2352, 2661-2740; run_handlers.go:446-473).
QueueStaysAwake == [][\A s \in Server :
    QueueAwake(s) /\ ~QueueAwake(s)' => KickIsLost(s) \/ StartIsGivenUp(s) \/ AnswerIsLost(s)]_vars

\* A queued turn of an idle thread is started: when no drain holds the flag, something
\* else will look at the queue.  The tests wait for such a turn to start
\* (turn_execution_lease_test.go:325-327, server_test.go:5581-5596).
QueuedTurnsAreStarted == \A s \in Server :
    proc[s] = "up" /\ queued[s] # {} /\ activeBy[s] = NoRun /\ drainQ[s] = "idle"
        => QueueWaker(s)

\* A worker's result that steps back for a user's queued turn is not forgotten: until
\* the user's turn runs, something will start it (turn_handlers.go:3280-3285).
YieldedResultsWait == \A s \in Server :
    proc[s] = "up" /\ results[s] # {} /\ drainR[s] = "idle" /\ ~frozen[s] /\ queued[s] # {}
        /\ activeBy[s] # NoRun /\ drainQ[s] = "idle"
        => QueueWaker(s)

\* A run that is started reaches a terminal state (run_handlers.go:343-378, 446-485).
EveryRunSettles == \A r \in Run : IsActive(r) ~> row[r].status \in Terminal
=============================================================================
