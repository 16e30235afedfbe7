------------------------- MODULE ExecutionRunsProofs -------------------------
(* Proofs about ExecutionRuns for any servers, runs, slots and workers, any *)
(* requests and any faults.                                                *)
EXTENDS ExecutionRuns, TLAPS

Starting == {"admitted", "started"}
Owning   == {"started", "running"}

(* A turn that a request is starting.                                      *)
Requested(t) == t.pc \in Starting /\ t.kind \in {"run", "user"}

(* The request h that server s is at belongs to a run of that server, which is    *)
(* fresh while it starts and has been asked for once it is interrupted.    *)
HandlerFits(s, h) ==
    /\ h # Idle => proc[s] = "up" /\ h.at # "idle"
    /\ h.at \in {"created", "between", "detach"} => h.run # NoRun
    /\ h.run # NoRun =>
          /\ row[h.run].server = s /\ row[h.run].status # "none"
          /\ h.at \in {"created", "starting"} => asked[h.run] = {} /\ tracker[h.run] = "none"
          /\ h.at \in {"marked", "between"} => h.reason \in asked[h.run]
          /\ h.at = "detach" => row[h.run].status \in Terminal

HandlerInv == \A s \in Server : HandlerFits(s, handler[s])

(* The turn t of server s: it lives in a process, and its run exists; a    *)
(* turn that a request starts is the request's; a run is terminal before   *)
(* it is detached.                                                         *)
TurnFits(s, t) ==
    /\ t.pc # "free" => Alive(s)
    /\ t.pc \in {"released", "detach", "retry", "failing", "dropped"} => t.run # NoRun
    /\ t.run # NoRun => row[t.run].status # "none"
    /\ t.pc \in {"detach", "dropped"} => row[t.run].status \in Terminal
    /\ Requested(t) => handler[s].at = "starting" /\ handler[s].run = t.run
    /\ t.pc \in Starting /\ t.kind \in {"run", "retry"} => t.run # NoRun
    /\ t.pc \in Starting /\ t.kind = "user" => t.run = NoRun

TurnInv == \A s \in Server, k \in Slot : TurnFits(s, turn[s][k])

(* Who has the lease, as seen from one server.                             *)
LeaseFits(s) ==
    /\ cur[s] # NoSlot => lease = s /\ turn[s][cur[s]].pc \in Owning
    /\ lease = s => proc[s] \in {"up", "closing"} /\ \E k \in Slot : Owner(s, k)
    /\ proc[s] \in {"up", "closing"} => \A k \in Slot :
          /\ turn[s][k].pc = "admitted" =>
                /\ lease = s /\ cur[s] = NoSlot
                /\ \A j \in Slot : turn[s][j].pc = "admitted" => j = k
          /\ turn[s][k].pc \in Owning => cur[s] = k

LeaseInv == \A s \in Server : LeaseFits(s)

RunInv == \A r \in Run :
    /\ row[r].status = "none" => asked[r] = {} /\ tracker[r] = "none"
    /\ row[r].status # "none" => row[r].server \in Server /\ proc[row[r].server] # "none"
    /\ \A q \in Run : IsActive(q) /\ IsActive(r) => q = r
    /\ IsActive(r) /\ proc[row[r].server] = "up" /\ asked[r] = {"timed_out"} =>
          tracker[r] = "timed_out"

NameInv == \A s \in Server : activeBy[s] # NoRun => row[activeBy[s]].status # "none"

Inv == /\ TypeOK /\ HandlerInv /\ TurnInv /\ LeaseInv /\ RunInv /\ NameInv
       /\ ActiveRunIsHeld /\ TimeoutIsReported

(* One row changes at most, from active to running or terminal, and never  *)
(* to interrupted when its client asked for a timeout.                     *)
RowStep == \A r \in Run :
    \/ row'[r] = row[r]
    \/ /\ IsActive(r) /\ row'[r].server = row[r].server
       /\ row'[r].status \in {"running"} \cup Terminal
       /\ row'[r].status = "interrupted" =>
             asked[r] # {"timed_out"} \/ proc[row[r].server] # "up"

(* Only runs that are terminal are detached.                               *)
DetachStep ==
    /\ \A r \in Run :
          \/ tracker'[r] = tracker[r]
          \/ tracker'[r] = "none" /\ row'[r].status \in Terminal
    /\ \A s \in Server :
          \/ activeBy'[s] = activeBy[s]
          \/ /\ activeBy'[s] = NoRun /\ activeBy[s] # NoRun
             /\ row'[activeBy[s]].status \in Terminal

(* A request that ends does not leave an active run behind.                *)
AnswerStep == \A s \in Server :
    \/ handler'[s] = handler[s]
    \/ /\ handler'[s] = Idle
       /\ \/ handler[s].run = NoRun
          \/ handler[s].at \notin {"created", "starting"}
          \/ row'[handler[s].run].status \in Terminal

(* The slots other than k of server s keep their turns.                    *)
OnlyTurn(s, k) == \A x \in Server, y \in Slot :
    x # s \/ y # k => turn'[x][y] = turn[x][y]

(* What changes when one turn changes.                                     *)
LEMMA TurnSet ==
  ASSUME TypeOK, NEW s \in Server, NEW k \in Slot, NEW t \in Turn,
         turn' = [turn EXCEPT ![s][k] = t]
  PROVE  /\ turn' \in [Server -> [Slot -> Turn]]
         /\ \A x \in Server, y \in Slot :
               turn'[x][y] = IF x = s /\ y = k THEN t ELSE turn[x][y]
  BY DEF TypeOK

(* One turn changes and the others stay.                                    *)
LEMMA TurnMoved ==
  ASSUME TypeOK, NEW s \in Server, NEW k \in Slot, NEW t \in Turn,
         turn' = [turn EXCEPT ![s][k] = t]
  PROVE  turn' \in [Server -> [Slot -> Turn]] /\ turn'[s][k] = t /\ OnlyTurn(s, k)
  BY TurnSet DEF OnlyTurn

(* The turns of a tail are turns.                                           *)
LEMMA TailTyped ==
  ASSUME NEW pc \in {"free", "released", "detach", "kick", "retry", "failing", "dropped"},
         NEW r \in Run \cup {NoRun}
  PROVE  /\ TailAt(pc, r) \in Turn /\ FreeTurn \in Turn
         /\ TailAt(pc, r).pc = pc /\ TailAt(pc, r).run = r /\ FreeTurn.pc = "free"
         /\ FreeTurn.run = NoRun
  BY DEF TailAt, FreeTurn, Turn, Kind, Outcome

(* Steps of the queues, the drains, the workers and the freeze.            *)
LEMMA CoreUntouched ==
  ASSUME Inv, TypeOK',
         UNCHANGED <<proc, row, tracker, activeBy, lease, cur, turn, handler, asked>>
  PROVE  Inv'
  <1>1. HandlerInv'
    BY DEF Inv, HandlerInv, HandlerFits
  <1>2. TurnInv'
    BY DEF Inv, TurnInv, TurnFits, Alive
  <1>3. LeaseInv'
    BY DEF Inv, LeaseInv, LeaseFits, Owner
  <1>4. RunInv'
    BY DEF Inv, RunInv, IsActive
  <1>5. NameInv'
    BY DEF Inv, NameInv
  <1>6. ActiveRunIsHeld' /\ TimeoutIsReported'
    BY DEF Inv, ActiveRunIsHeld, TimeoutIsReported, IsActive, Alive
  <1> QED
    BY <1>1, <1>2, <1>3, <1>4, <1>5, <1>6 DEF Inv

(* What a step of the queues keeps typed.                                   *)
QueuesTyped ==
    /\ worker' \in [Server -> [Worker -> WorkerState]] /\ frozen' \in [Server -> BOOLEAN]
    /\ steers' \in [Server -> SUBSET Entry] /\ queued' \in [Server -> SUBSET Entry]
    /\ results' \in [Server -> SUBSET Worker] /\ retries' = retries
    /\ drainQ' \in [Server -> Drain] /\ drainR' \in [Server -> Drain]
    /\ timers' \in [Server -> SUBSET Queue]

(* The types that they start from.                                          *)
LEMMA QueuesWereTyped ==
  ASSUME Inv
  PROVE  /\ worker \in [Server -> [Worker -> WorkerState]] /\ frozen \in [Server -> BOOLEAN]
         /\ steers \in [Server -> SUBSET Entry] /\ queued \in [Server -> SUBSET Entry]
         /\ results \in [Server -> SUBSET Worker]
         /\ drainQ \in [Server -> Drain] /\ drainR \in [Server -> Drain]
         /\ timers \in [Server -> SUBSET Queue]
  BY DEF Inv, TypeOK

(* A kick leaves a flag that is one.                                        *)
LEMMA KickTyped ==
  ASSUME NEW s, NEW flag \in Drain, NEW active, NEW queue
  PROVE  QueueDrain(s, flag, active, queue) \in Drain /\ ResultDrain(s, flag, queue) \in Drain
  BY DEF QueueDrain, ResultDrain, Drain

(* A step of the queue's drain that starts nothing.                         *)
LEMMA DrainQueueTyped ==
  ASSUME Inv, NEW s \in Server, DrainQueue(s)
  PROVE  QueuesTyped /\ UNCHANGED <<proc, row, tracker, activeBy, lease, cur, turn, handler, asked>>
  <1> USE QueuesWereTyped DEF QueuesTyped, store, threads
  <1>1. ASSUME NEW from, NEW to \in Drain, QueueStep(s, from, to)
        PROVE  /\ QueuesTyped
               /\ UNCHANGED <<proc, row, tracker, activeBy, lease, cur, turn, handler, asked>>
    BY <1>1 DEF QueueStep
  <1>2. CASE CheckQueue(s) \/ TakeNothing(s) \/ PutBack(s) \/ StopQueue(s)
    BY <1>1, <1>2 DEF CheckQueue, TakeNothing, PutBack, StopQueue, Drain
  <1>3. CASE DrainAgain(s)
    <2>1. QueueDrain(s, "idle", activeBy[s], queued[s]) \in Drain
      BY KickTyped DEF Drain
    <2> QED
      BY <1>1, <1>3, <2>1 DEF DrainAgain
  <1>4. CASE AwaitLease(s)
    BY <1>4 DEF AwaitLease, Drain, Queue
  <1>5. CASE RetryQueue(s)
    <2>1. QueueDrain(s, drainQ[s], activeBy[s], queued[s]) \in Drain
      BY KickTyped
    <2> QED
      BY <1>5, <2>1 DEF RetryQueue
  <1> QED
    BY <1>2, <1>3, <1>4, <1>5 DEF DrainQueue

(* A step of the results' drain that starts nothing.                        *)
LEMMA DrainResultsTyped ==
  ASSUME Inv, NEW s \in Server, DrainResults(s)
  PROVE  QueuesTyped /\ UNCHANGED <<proc, row, tracker, activeBy, lease, cur, turn, handler, asked>>
  <1> USE QueuesWereTyped DEF QueuesTyped, store, threads
  <1>1. ASSUME NEW from, NEW to \in Drain, ResultStep(s, from, to)
        PROVE  /\ QueuesTyped
               /\ UNCHANGED <<proc, row, tracker, activeBy, lease, cur, turn, handler, asked>>
    BY <1>1 DEF ResultStep
  <1>2. CASE CheckResults(s) \/ TakeNoResult(s) \/ PutResultBack(s) \/ StopResults(s)
    BY <1>1, <1>2 DEF CheckResults, TakeNoResult, PutResultBack, StopResults, Drain
  <1>3. CASE LookAround(s)
    <2>1. CASE QueuedUserWork(s)
      BY <1>1, <1>3, <2>1 DEF LookAround, Drain
    <2>2. CASE ~QueuedUserWork(s) /\ frozen[s]
      BY <1>1, <1>3, <2>2 DEF LookAround, Drain
    <2>3. CASE ~QueuedUserWork(s) /\ ~frozen[s]
      BY <1>1, <1>3, <2>3 DEF LookAround, Drain
    <2> QED
      BY <2>1, <2>2, <2>3
  <1>4. CASE DrainResultsAgain(s)
    <2>1. ResultDrain(s, "idle", results[s]) \in Drain
      BY KickTyped DEF Drain
    <2> QED
      BY <1>1, <1>4, <2>1 DEF DrainResultsAgain
  <1>5. CASE AwaitLeaseForResult(s)
    BY <1>5 DEF AwaitLeaseForResult, Drain, Queue
  <1>6. CASE YieldToQueue(s)
    <2>1. QueueDrain(s, drainQ[s], activeBy[s], queued[s]) \in Drain
      BY KickTyped
    <2> QED
      BY <1>6, <2>1 DEF YieldToQueue, Drain
  <1>7. CASE RetryResults(s)
    <2>1. ResultDrain(s, drainR[s], results[s]) \in Drain
      BY KickTyped
    <2> QED
      BY <1>7, <2>1 DEF RetryResults
  <1> QED
    BY <1>2, <1>3, <1>4, <1>5, <1>6, <1>7 DEF DrainResults

(* Steps of the queues, the drains and the workers.                         *)
LEMMA QueueStepsKept ==
  ASSUME Inv, NEW s \in Server,
         \/ ConsumeSteers(s) \/ SteerUser(s) \/ DrainQueue(s) \/ DrainResults(s)
         \/ \E w \in Worker : Workers(s, w)
  PROVE  Inv'
  <1> USE QueuesWereTyped
  <1>1. /\ QueuesTyped
        /\ UNCHANGED <<proc, row, tracker, activeBy, lease, cur, turn, handler, asked>>
    <2>1. CASE ConsumeSteers(s)
      BY <2>1 DEF ConsumeSteers, QueuesTyped, store, threads
    <2>2. CASE SteerUser(s)
      BY <2>2 DEF SteerUser, Entry, QueuesTyped, store, threads
    <2>3. CASE DrainQueue(s) \/ DrainResults(s)
      BY <2>3, DrainQueueTyped, DrainResultsTyped
    <2>6. CASE \E w \in Worker : Workers(s, w)
      <3> PICK w \in Worker : Workers(s, w)
        BY <2>6
      <3> USE DEF store, threads, queues, QueuesTyped
      <3>1. CASE SpawnWorker(s, w)
        BY <3>1 DEF SpawnWorker, WorkerState
      <3>2. CASE WorkerAcked(s, w)
        BY <3>2 DEF WorkerAcked, WorkerState
      <3>3. CASE WorkerEnds(s, w)
        <4>1. worker' \in [Server -> [Worker -> WorkerState]]
          BY <3>3 DEF WorkerEnds, WorkerState
        <4>2. steers' = steers \/ steers' = [steers EXCEPT ![s] = steers[s] \cup {w}]
          BY <3>3 DEF WorkerEnds
        <4>3. results' = results \/ results' = [results EXCEPT ![s] = results[s] \cup {w}]
          BY <3>3 DEF WorkerEnds
        <4>4. \/ drainR' = drainR
              \/ drainR' = [drainR EXCEPT ![s] = ResultDrain(s, drainR[s], results'[s])]
          BY <3>3 DEF WorkerEnds
        <4>5. /\ UNCHANGED <<queued, drainQ, timers, frozen, retries>>
              /\ UNCHANGED <<proc, row, tracker, activeBy, lease, cur, turn, handler, asked>>
          BY <3>3 DEF WorkerEnds
        <4>6. steers' \in [Server -> SUBSET Entry]
          BY <4>2 DEF Entry
        <4>7. results' \in [Server -> SUBSET Worker]
          BY <4>3
        <4>8. drainR' \in [Server -> Drain]
          <5>1. ResultDrain(s, drainR[s], results'[s]) \in Drain
            BY KickTyped
          <5> QED
            BY <4>4, <5>1
        <4> QED
          BY <4>1, <4>5, <4>6, <4>7, <4>8
      <3> QED
        BY <3>1, <3>2, <3>3 DEF Workers
    <2> QED
      BY <2>1, <2>2, <2>3, <2>6
  <1>2. TypeOK'
    BY <1>1 DEF QueuesTyped, Inv, TypeOK
  <1> QED
    BY <1>1, <1>2, CoreUntouched


(* Frames: what a step of one turn has to show.                            *)
(* What a step on the rows keeps.                                          *)
RowsKept == \A r \in Run :
    /\ row'[r].server = row[r].server
    /\ row'[r].status = "none" <=> row[r].status = "none"
    /\ row[r].status \in Terminal => row'[r] = row[r]
    /\ IsActive(r)' => IsActive(r)

(* A step on the rows keeps what the invariant says of runs alone.          *)
LEMMA RowsFrame ==
  ASSUME Inv, TypeOK', UNCHANGED <<proc, asked>>, RowStep, DetachStep
  PROVE  /\ RunInv' /\ NameInv' /\ TimeoutIsReported'
         /\ RowsKept
  <1>1. RowsKept
    BY DEF RowsKept, RowStep, IsActive, Active, Terminal, Reason
  <1>2. RunInv'
    <2> SUFFICES ASSUME NEW r \in Run
                 PROVE  /\ row'[r].status = "none" => asked'[r] = {} /\ tracker'[r] = "none"
                        /\ row'[r].status # "none" =>
                              row'[r].server \in Server /\ proc'[row'[r].server] # "none"
                        /\ \A q \in Run : IsActive(q)' /\ IsActive(r)' => q = r
                        /\ IsActive(r)' /\ proc'[row'[r].server] = "up"
                              /\ asked'[r] = {"timed_out"} => tracker'[r] = "timed_out"
      BY DEF RunInv
    <2>1. IsActive(r)' => tracker'[r] = tracker[r]
      BY DEF DetachStep, IsActive, Active, Terminal, Reason
    <2> QED
      BY <1>1, <2>1 DEF RowsKept, Inv, RunInv, DetachStep
  <1>3. NameInv'
    <2> SUFFICES ASSUME NEW s \in Server, activeBy'[s] # NoRun
                 PROVE  row'[activeBy'[s]].status # "none"
      BY DEF NameInv
    <2>1. activeBy'[s] = activeBy[s] /\ activeBy[s] \in Run /\ row[activeBy[s]].status # "none"
      BY DEF DetachStep, Inv, NameInv, TypeOK
    <2> QED
      BY <2>1, <1>1 DEF RowsKept
  <1>4. TimeoutIsReported'
    BY <1>1 DEF RowsKept, Inv, TimeoutIsReported, RowStep
  <1> QED
    BY <1>1, <1>2, <1>3, <1>4

(* A run stays held when no request that starts one ends before its run.   *)
LEMMA HeldFrame ==
  ASSUME Inv, TypeOK', UNCHANGED <<proc, asked>>, RowStep, DetachStep,
         \A x \in Server : \/ handler'[x] = handler[x]
                          \/ handler[x].run = NoRun
                          \/ handler[x].at \notin {"created", "starting"}
                          \/ row'[handler[x].run].status \in Terminal
  PROVE  ActiveRunIsHeld'
  <1> SUFFICES ASSUME NEW r \in Run, IsActive(r)', Alive(row[r].server)'
               PROVE  LET s == row'[r].server IN
                      \/ handler'[s].run = r /\ handler'[s].at \in {"created", "starting"}
                      \/ proc'[s] # "closed" /\ tracker'[r] # "none" /\ activeBy'[s] = r
    BY DEF ActiveRunIsHeld
  <1> DEFINE s == row[r].server
  <1>0. RowsKept
    BY RowsFrame
  <1>1. s \in Server /\ row'[r].server = s /\ row'[r].status \notin Terminal /\ IsActive(r) /\ Alive(s)
    BY <1>0 DEF RowsKept, Inv, RunInv, IsActive, Active, Terminal, Reason, Alive
  <1>2. CASE handler[s].run = r /\ handler[s].at \in {"created", "starting"}
    BY <1>1, <1>2, NamesAssumption
  <1>3. CASE proc[s] # "closed" /\ tracker[r] # "none" /\ activeBy[s] = r
    BY <1>1, <1>3 DEF DetachStep
  <1> QED
    BY <1>1, <1>2, <1>3 DEF Inv, ActiveRunIsHeld

(* A request that ends.                                                    *)
LEMMA RunsFrame ==
  ASSUME Inv, TypeOK', UNCHANGED <<proc, asked>>, RowStep, DetachStep, AnswerStep
  PROVE  /\ HandlerInv' /\ RunInv' /\ NameInv'
         /\ ActiveRunIsHeld' /\ TimeoutIsReported'
  <1>0. RowsKept
    BY RowsFrame
  <1>1. HandlerInv'
    <2> SUFFICES ASSUME NEW s \in Server PROVE HandlerFits(s, handler[s])'
      BY DEF HandlerInv
    <2>1. HandlerFits(s, handler[s]) /\ handler[s].run \in Run \cup {NoRun}
          /\ handler'[s].run \in Run \cup {NoRun}
      BY DEF Inv, HandlerInv, TypeOK, Handler
    <2>2. CASE handler'[s] = Idle
      BY <2>2 DEF HandlerFits, Idle
    <2>3. CASE handler'[s] = handler[s]
      BY <2>1, <2>3, <1>0 DEF RowsKept, HandlerFits, DetachStep
    <2> QED
      BY <2>2, <2>3 DEF AnswerStep
  <1>2. ActiveRunIsHeld'
    BY HeldFrame DEF AnswerStep
  <1> QED
    BY <1>1, <1>2, RowsFrame

(* A request that goes on, once its run is past its start.                 *)
LEMMA HandlerFrame ==
  ASSUME Inv, TypeOK', UNCHANGED <<proc, asked>>, RowStep, DetachStep,
         NEW s \in Server, handler[s].at \notin {"created", "starting"},
         \A x \in Server : x # s => handler'[x] = handler[x],
         HandlerFits(s, handler[s])'
  PROVE  /\ HandlerInv' /\ RunInv' /\ NameInv'
         /\ ActiveRunIsHeld' /\ TimeoutIsReported'
  <1>0. RowsKept
    BY RowsFrame
  <1>1. HandlerInv'
    <2> SUFFICES ASSUME NEW x \in Server, x # s PROVE HandlerFits(x, handler[x])'
      BY DEF HandlerInv
    <2>1. HandlerFits(x, handler[x]) /\ handler[x].run \in Run \cup {NoRun}
      BY DEF Inv, HandlerInv, TypeOK, Handler
    <2> QED
      BY <2>1, <1>0 DEF RowsKept, HandlerFits, DetachStep
  <1>2. ActiveRunIsHeld'
    BY HeldFrame
  <1> QED
    BY <1>1, <1>2, RowsFrame

(* One turn moves to a turn that fits, and the requests that change have    *)
(* no other turn.                                                           *)
LEMMA TurnFrame ==
  ASSUME Inv, NEW s \in Server, NEW k \in Slot, OnlyTurn(s, k),
         \A r \in Run : /\ row[r].status # "none" => row'[r].status # "none"
                        /\ row[r].status \in Terminal => row'[r].status \in Terminal,
         \A x \in Server : Alive(x) => Alive(x)',
         \A x \in Server : handler'[x] = handler[x] \/
            \A y \in Slot : Requested(turn[x][y]) => x = s /\ y = k,
         TurnFits(s, turn[s][k])'
  PROVE  TurnInv'
  <1> SUFFICES ASSUME NEW x \in Server, NEW y \in Slot PROVE TurnFits(x, turn[x][y])'
    BY DEF TurnInv
  <1>1. CASE x = s /\ y = k
    BY <1>1
  <1>2. CASE ~(x = s /\ y = k)
    <2>1. TurnFits(x, turn[x][y]) /\ turn'[x][y] = turn[x][y] /\ turn[x][y].run \in Run \cup {NoRun}
      BY <1>2 DEF Inv, TurnInv, OnlyTurn, TypeOK, Turn
    <2> QED
      BY <1>2, <2>1 DEF TurnFits, Requested
  <1> QED
    BY <1>1, <1>2

(* The lease does not move while no turn starts to own it or stops.        *)
LEMMA LeaseFrame ==
  ASSUME Inv, UNCHANGED <<proc, lease, cur>>,
         \A x \in Server, y \in Slot :
            /\ turn'[x][y].pc = "admitted" <=> turn[x][y].pc = "admitted"
            /\ turn'[x][y].pc \in Owning <=> turn[x][y].pc \in Owning
  PROVE  LeaseInv'
  <1> SUFFICES ASSUME NEW x \in Server PROVE LeaseFits(x)'
    BY DEF LeaseInv
  <1>1. LeaseFits(x) /\ cur[x] \in Slot \cup {NoSlot}
    BY DEF Inv, LeaseInv, TypeOK
  <1>2. \A y \in Slot : Owner(x, y)' <=> Owner(x, y)
    BY DEF Owner, Owning
  <1> QED
    BY <1>1, <1>2 DEF LeaseFits

(* A turn takes the lease when it is free, and is its only owner.           *)
LEMMA LeaseTaken ==
  ASSUME Inv, NEW s \in Server, NEW k \in Slot, OnlyTurn(s, k),
         proc[s] = "up", Admissible(s), UNCHANGED <<proc, cur>>, lease' = s,
         turn'[s][k].pc = "admitted"
  PROVE  LeaseInv'
  <1> SUFFICES ASSUME NEW x \in Server PROVE LeaseFits(x)'
    BY DEF LeaseInv
  <1>1. LeaseFits(x) /\ LeaseFits(s) /\ lease = Nobody /\ cur[s] = NoSlot
    BY DEF Inv, LeaseInv, Admissible, Running
  <1>2. CASE x = s
    <2>1. \A j \in Slot : turn[s][j].pc # "admitted" /\ turn[s][j].pc \notin Owning
      BY <1>1, NamesAssumption DEF LeaseFits
    <2>2. \A j \in Slot : j # k => turn'[s][j].pc # "admitted" /\ turn'[s][j].pc \notin Owning
      BY <2>1 DEF OnlyTurn
    <2>3. Owner(s, k)'
      BY <1>1 DEF Owner
    <2> QED
      BY <1>1, <1>2, <2>2, <2>3 DEF LeaseFits, Owning
  <1>3. CASE x # s
    <2>1. cur[x] = NoSlot /\ lease' # x
      BY <1>1, <1>3, NamesAssumption DEF LeaseFits
    <2>2. \A j \in Slot : turn'[x][j] = turn[x][j]
      BY <1>3 DEF OnlyTurn
    <2> QED
      BY <1>1, <2>1, <2>2, NamesAssumption DEF LeaseFits
  <1> QED
    BY <1>2, <1>3

(* A turn goes, with the lease if it owned it.                             *)
LEMMA LeaseGiven ==
  ASSUME Inv, NEW s \in Server, NEW k \in Slot, OnlyTurn(s, k), UNCHANGED proc,
         \/ /\ turn[s][k].pc = "admitted" /\ UNCHANGED cur
            /\ lease' = IF lease = s THEN Nobody ELSE lease
         \/ turn[s][k].pc \in Owning /\ ReleaseLease(s, k),
         turn'[s][k].pc \notin Owning \cup {"admitted"}
  PROVE  LeaseInv'
  <1> SUFFICES ASSUME NEW x \in Server PROVE LeaseFits(x)'
    BY DEF LeaseInv
  <1>1. LeaseFits(x) /\ LeaseFits(s) /\ x # Nobody /\ k # NoSlot
    BY NamesAssumption DEF Inv, LeaseInv
  <1>2. CASE x = s
    <2>1. lease' # s /\ cur'[s] = NoSlot
      <3>1. CASE turn[s][k].pc = "admitted"
        <4>1. cur[s] = NoSlot
          BY <1>1, <3>1, NamesAssumption DEF LeaseFits, Owner
        <4> QED
          BY <3>1, <4>1, <1>1, <1>2 DEF Owning
      <3>2. CASE turn[s][k].pc \in Owning /\ cur[s] = k
        BY <3>2, <1>1, <1>2 DEF ReleaseLease, Owning, Inv, TypeOK
      <3>3. CASE turn[s][k].pc \in Owning /\ cur[s] # k
        <4>1. proc[s] \notin {"up", "closing"}
          BY <3>3, <1>1 DEF LeaseFits
        <4> QED
          BY <3>3, <4>1, <1>1 DEF LeaseFits, ReleaseLease, Owning
      <3> QED
        BY <3>1, <3>2, <3>3
    <2>2. proc[s] \in {"up", "closing"} =>
             \A j \in Slot : j # k => turn[s][j].pc # "admitted" /\ turn[s][j].pc \notin Owning
      BY <1>1, NamesAssumption DEF LeaseFits, Owning
    <2> QED
      BY <1>2, <2>1, <2>2 DEF LeaseFits, OnlyTurn
  <1>3. CASE x # s
    <2>1. cur'[x] = cur[x] /\ (lease' = x <=> lease = x) /\ (lease = x => lease' = lease)
      <3>1. CASE cur[s] = k /\ ReleaseLease(s, k)
        BY <3>1, <1>1, <1>3 DEF ReleaseLease, LeaseFits, Inv, TypeOK
      <3> QED
        BY <3>1, <1>1, <1>3 DEF ReleaseLease, Inv, TypeOK
    <2>2. \A j \in Slot : turn'[x][j] = turn[x][j] /\ (Owner(x, j)' <=> Owner(x, j))
      BY <1>3, <2>1 DEF OnlyTurn, Owner
    <2>3. cur[x] # NoSlot => turn'[x][cur[x]] = turn[x][cur[x]] /\ lease' = lease
      BY <1>1, <2>1, <2>2 DEF LeaseFits, Inv, TypeOK
    <2> QED
      BY <1>1, <2>1, <2>2, <2>3 DEF LeaseFits
  <1> QED
    BY <1>2, <1>3

(* A row that exists stays, and a terminal row stays terminal.              *)
LEMMA RowGrows ==
  ASSUME Inv, RowStep
  PROVE  \A r \in Run : /\ row[r].status # "none" => row'[r].status # "none"
                        /\ row[r].status \in Terminal => row'[r].status \in Terminal
  BY DEF RowStep, IsActive, Active, Terminal, Reason

(* The store's update ends one row, and leaves a terminal one alone.        *)
LEMMA FinishedFacts ==
  ASSUME Inv, NEW r \in Run, NEW status \in Terminal
  PROVE  /\ Finished(r, status) \in [Run -> Row]
         /\ \A q \in Run :
               \/ Finished(r, status)[q] = row[q]
               \/ /\ q = r /\ IsActive(r)
                  /\ Finished(r, status)[q].server = row[q].server
                  /\ Finished(r, status)[q].status = status
         /\ row[r].status # "none" => Finished(r, status)[r].status \in Terminal
  <1>1. row \in [Run -> Row]
    BY DEF Inv, TypeOK
  <1> QED
    BY <1>1 DEF Finished, IsActive, Row, Active, Terminal, Reason

(* One turn at most is between its admission and its launch.               *)
LEMMA OneStarter ==
  ASSUME Inv, NEW s \in Server, NEW j \in Slot, NEW k \in Slot, proc[s] \in {"up", "closing"},
         turn[s][j].pc \in Starting, turn[s][k].pc \in Starting
  PROVE  j = k
  <1>1. LeaseFits(s)
    BY DEF Inv, LeaseInv
  <1> QED
    BY <1>1, NamesAssumption DEF LeaseFits, Starting, Owning

(* Only the request that started the turn is answered.                      *)
LEMMA StarterDoneFacts ==
  ASSUME Inv, NEW s \in Server, NEW k \in Slot, StarterDone(s, k), turn[s][k].pc \in Starting
  PROVE  /\ handler' \in [Server -> Handler]
         /\ drainQ' \in [Server -> Drain] /\ drainR' \in [Server -> Drain]
         /\ \A x \in Server :
               \/ handler'[x] = handler[x]
               \/ /\ handler'[x] = Idle /\ x = s
                  /\ turn[s][k].kind \in {"run", "user"} /\ handler[x].run = turn[s][k].run
         /\ \A x \in Server : handler'[x] = handler[x] \/
               \A y \in Slot : Requested(turn[x][y]) => x = s /\ y = k
  <1>1. /\ handler \in [Server -> Handler]
        /\ drainQ \in [Server -> Drain] /\ drainR \in [Server -> Drain]
        /\ HandlerFits(s, handler[s]) /\ TurnFits(s, turn[s][k]) /\ Idle \in Handler
    BY DEF Inv, TypeOK, HandlerInv, TurnInv, Idle, Handler, Reason
  <1>2. /\ handler' \in [Server -> Handler]
        /\ drainQ' \in [Server -> Drain] /\ drainR' \in [Server -> Drain]
    BY <1>1 DEF StarterDone, Drain
  <1>3. \A x \in Server : \/ handler'[x] = handler[x]
                          \/ /\ handler'[x] = Idle /\ x = s
                             /\ turn[s][k].kind \in {"run", "user"}
    BY <1>1 DEF StarterDone
  <1>4. turn[s][k].kind \in {"run", "user"} =>
           handler[s].run = turn[s][k].run /\ proc[s] = "up"
    BY <1>1 DEF TurnFits, Requested, HandlerFits, Idle
  <1>5. ASSUME NEW x \in Server, handler'[x] # handler[x], NEW y \in Slot,
               Requested(turn[x][y])
        PROVE  x = s /\ y = k
    <2>1. x = s /\ proc[s] = "up"
      BY <1>3, <1>4, <1>5
    <2> QED
      BY <2>1, <1>5, OneStarter DEF Requested
  <1> QED
    BY <1>2, <1>3, <1>4, <1>5

(* StartTurn: the admitted turn becomes the current one.                    *)
LEMMA StartTurnKept ==
  ASSUME Inv, NEW s \in Server, NEW k \in Slot, StartTurn(s, k)
  PROVE  Inv'
  <1> DEFINE t == [turn[s][k] EXCEPT !.pc = "started"]
  <1>1. turn[s][k] \in Turn /\ turn[s][k].pc = "admitted"
    BY DEF Inv, TypeOK, StartTurn
  <1>2. /\ t \in Turn /\ t.pc = "started" /\ t.kind = turn[s][k].kind /\ t.run = turn[s][k].run
    BY <1>1 DEF Turn
  <1>3. turn' \in [Server -> [Slot -> Turn]] /\ turn'[s][k] = t /\ OnlyTurn(s, k)
    BY <1>2, TurnSet DEF StartTurn, Inv, OnlyTurn
  <1>4. /\ UNCHANGED <<proc, row, retries, tracker, activeBy, lease, handler, asked>>
        /\ cur' = [cur EXCEPT ![s] = k] /\ proc[s] = "up"
    BY DEF StartTurn, store
  <1>5. TypeOK'
    BY <1>3, <1>4 DEF StartTurn, Inv, TypeOK, store
  <1>6. RowStep /\ DetachStep /\ AnswerStep
    BY <1>4 DEF RowStep, DetachStep, AnswerStep
  <1>7. TurnInv'
    <2>1. TurnFits(s, turn[s][k])
      BY DEF Inv, TurnInv
    <2>2. TurnFits(s, turn[s][k])'
      BY <2>1, <1>1, <1>2, <1>3, <1>4 DEF TurnFits, Requested, Alive, Starting
    <2> QED
      BY <2>2, <1>3, <1>4, TurnFrame DEF Alive
  <1>8. LeaseInv'
    <2> SUFFICES ASSUME NEW x \in Server PROVE LeaseFits(x)'
      BY DEF LeaseInv
    <2>1. LeaseFits(x) /\ LeaseFits(s) /\ k # NoSlot
      BY NamesAssumption DEF Inv, LeaseInv
    <2>2. lease = s /\ cur[s] = NoSlot
      BY <1>1, <1>4, <2>1 DEF LeaseFits
    <2>3. CASE x = s
      <3>1. \A j \in Slot : j # k => turn'[s][j] = turn[s][j] /\ turn[s][j].pc # "admitted"
        BY <1>1, <1>3, <1>4, <2>1 DEF LeaseFits, OnlyTurn
      <3>2. \A j \in Slot : turn[s][j].pc \notin Owning
        BY <2>1, <2>2, <1>4, NamesAssumption DEF LeaseFits
      <3>3. cur'[s] = k /\ Owner(s, k)'
        BY <1>2, <1>3, <1>4, <2>1 DEF Owner, Inv, TypeOK
      <3> QED
        BY ZenonT(40), <3>1, <3>2, <3>3, <2>2, <2>3, <1>2, <1>3, <1>4 DEF LeaseFits, Owning
    <2>4. CASE x # s
      BY <2>1, <2>2, <2>4, <1>3, <1>4, NamesAssumption DEF LeaseFits, OnlyTurn, Inv, TypeOK
    <2> QED
      BY <2>3, <2>4
  <1> QED
    BY <1>4, <1>5, <1>6, <1>7, <1>8, RunsFrame DEF Inv

(* AbortAdmission: the reservation is released and the run ends with it.    *)
LEMMA AbortAdmissionKept ==
  ASSUME Inv, NEW s \in Server, NEW k \in Slot, AbortAdmission(s, k)
  PROVE  Inv'
  <1> DEFINE t == turn[s][k]
  <1>1. t \in Turn /\ t.pc = "admitted" /\ TurnFits(s, t) /\ t.run \in Run \cup {NoRun}
    BY DEF Inv, TypeOK, TurnInv, AbortAdmission, Turn
  <1>2. /\ GivenUp(t) \in Turn /\ GivenUp(t).pc \in {"free", "failing"}
        /\ GivenUp(t).pc = "free" => GivenUp(t).run = NoRun
        /\ GivenUp(t).pc = "failing" => GivenUp(t).run = t.run /\ t.kind = "retry"
    BY <1>1, TailTyped DEF GivenUp
  <1>3. turn' \in [Server -> [Slot -> Turn]] /\ turn'[s][k] = GivenUp(t) /\ OnlyTurn(s, k)
    <2>1. turn' = [turn EXCEPT ![s][k] = GivenUp(t)]
      BY DEF AbortAdmission
    <2> QED
      BY <1>2, <2>1, TurnSet DEF Inv, OnlyTurn
  <1>4. /\ UNCHANGED <<proc, tracker, retries, activeBy, cur, worker, steers, queued, results,
                       timers, frozen, asked>>
        /\ lease' = IF lease = s THEN Nobody ELSE lease
        /\ row' = IF t.kind = "run" THEN Finished(t.run, "cancelled") ELSE row
        /\ StarterDone(s, k)
    BY DEF AbortAdmission
  <1>5. t.kind = "run" => t.run \in Run /\ row[t.run].status # "none"
    BY <1>1 DEF TurnFits, Requested, Starting
  <1>6. row' \in [Run -> Row] /\ RowStep /\ (t.kind = "run" => row'[t.run].status \in Terminal)
    BY <1>4, <1>5, FinishedFacts DEF RowStep, Inv, TypeOK, Terminal
  <1>7. TypeOK'
    BY <1>1, <1>3, <1>4, <1>6, StarterDoneFacts DEF Inv, TypeOK, Starting
  <1>8. DetachStep /\ AnswerStep
    <2>1. t.kind = "user" => t.run = NoRun
      BY <1>1 DEF TurnFits, Requested, Starting
    <2> QED
      BY <2>1, <1>1, <1>4, <1>6, StarterDoneFacts DEF DetachStep, AnswerStep, Starting
  <1>9. TurnInv'
    <2>1. TurnFits(s, turn[s][k])'
      BY <1>1, <1>2, <1>3, <1>4, <1>6, RowGrows DEF TurnFits, Requested, Alive, Starting
    <2> QED
      BY <2>1, <1>1, <1>3, <1>4, <1>6, RowGrows, StarterDoneFacts, TurnFrame DEF Alive, Starting
  <1>10. LeaseInv'
    BY <1>1, <1>2, <1>3, <1>4, LeaseGiven DEF Owning
  <1> QED
    BY <1>4, <1>6, <1>7, <1>8, <1>9, <1>10, RunsFrame DEF Inv

(* Launch: the run of a request is attached as its request ends.            *)
LEMMA LaunchKept ==
  ASSUME Inv, NEW s \in Server, NEW k \in Slot, Launch(s, k)
  PROVE  Inv'
  <1> DEFINE t == turn[s][k]
             r == t.run
             u == [t EXCEPT !.pc = "running"]
  <1>1. t \in Turn /\ t.pc = "started" /\ TurnFits(s, t) /\ r \in Run \cup {NoRun} /\ proc[s] = "up"
    BY DEF Inv, TypeOK, TurnInv, Launch, Turn
  <1>2. u \in Turn /\ u.pc = "running" /\ u.run = r
    BY <1>1 DEF Turn
  <1>3. turn' \in [Server -> [Slot -> Turn]] /\ turn'[s][k] = u /\ OnlyTurn(s, k)
    <2>1. turn' = [turn EXCEPT ![s][k] = u]
      BY DEF Launch
    <2> QED
      BY <1>2, <2>1, TurnSet DEF Inv, OnlyTurn
  <1>4. /\ UNCHANGED <<proc, retries, lease, cur, worker, steers, queued, results, timers, frozen,
                       asked>>
        /\ r # NoRun => IsActive(r)
        /\ row' = IF r = NoRun THEN row ELSE [row EXCEPT ![r].status = "running"]
        /\ StarterDone(s, k)
    BY DEF Launch
  <1>5. row' \in [Run -> Row] /\ RowStep /\ (r # NoRun => row'[r].status = "running")
    <2>1. row \in [Run -> Row]
      BY DEF Inv, TypeOK
    <2> QED
      BY <1>1, <1>4, <2>1 DEF RowStep, Row, Active
  <1>6. t.kind = "run" => /\ r \in Run /\ handler[s].at = "starting" /\ handler[s].run = r
                          /\ row[r].server = s /\ asked[r] = {} /\ handler[s] # Idle
    <2>1. HandlerFits(s, handler[s])
      BY DEF Inv, HandlerInv
    <2> QED
      BY <1>1, <2>1 DEF TurnFits, Requested, Starting, HandlerFits, Idle
  <1>7. TypeOK'
    <2>1. tracker' \in [Run -> Mark] /\ activeBy' \in [Server -> Run \cup {NoRun}]
      BY <1>6 DEF Launch, Inv, TypeOK, Mark
    <2> QED
      BY <1>1, <1>3, <1>4, <1>5, <2>1, StarterDoneFacts DEF Inv, TypeOK, Starting
  <1>8. TurnInv'
    <2>1. TurnFits(s, turn[s][k])'
      BY <1>1, <1>2, <1>3, <1>4, <1>5 DEF TurnFits, Requested, Alive, Starting
    <2> QED
      BY <2>1, <1>1, <1>3, <1>4, <1>5, RowGrows, StarterDoneFacts, TurnFrame DEF Alive, Starting
  <1>9. LeaseInv'
    BY <1>1, <1>2, <1>3, <1>4, LeaseFrame DEF Owning, OnlyTurn
  <1>10. HandlerInv' /\ RunInv' /\ NameInv' /\ ActiveRunIsHeld' /\ TimeoutIsReported'
    <2>1. CASE t.kind # "run"
      <3>1. DetachStep
        BY <2>1 DEF Launch, DetachStep
      <3>2. t.kind = "user" => r = NoRun
        BY <1>1 DEF TurnFits, Requested, Starting
      <3>3. AnswerStep
        BY <2>1, <3>2, <1>1, <1>4, StarterDoneFacts DEF AnswerStep, Starting
      <3> QED
        BY <3>1, <3>3, <1>4, <1>5, <1>7, RunsFrame
    <2>2. CASE t.kind = "run"
      <3>1. /\ tracker' = [tracker EXCEPT ![r] = "plain"]
            /\ activeBy' = [activeBy EXCEPT ![s] = r]
            /\ handler' = [handler EXCEPT ![s] = Idle]
        BY <2>2 DEF Launch, StarterDone
      <3>2. r \in Run /\ r # NoRun /\ IsActive(r) /\ (\A q \in Run : IsActive(q) => q = r)
        BY <2>2, <1>4, <1>6, NamesAssumption DEF Inv, RunInv
      <3>3. /\ row'[r].status = "running" /\ row'[r].server = s /\ tracker'[r] = "plain"
            /\ activeBy'[s] = r /\ proc'[s] = "up" /\ asked'[r] = {}
            /\ \A q \in Run : q # r => row'[q] = row[q] /\ tracker'[q] = tracker[q]
        BY <2>2, <3>1, <3>2, <1>1, <1>4, <1>5, <1>6 DEF Inv, TypeOK, RowStep
      <3>4. HandlerInv'
        <4> SUFFICES ASSUME NEW x \in Server PROVE HandlerFits(x, handler[x])'
          BY DEF HandlerInv
        <4>1. HandlerFits(x, handler[x]) /\ handler[x].run \in Run \cup {NoRun}
          BY DEF Inv, HandlerInv, TypeOK, Handler
        <4>2. CASE x = s
          BY <3>1, <4>2 DEF HandlerFits, Idle, Inv, TypeOK
        <4>3. CASE x # s
          <5>1. handler'[x] = handler[x] /\ handler[x].run # r
            BY <2>2, <3>1, <3>2, <4>1, <4>3, <1>6 DEF HandlerFits, Inv, TypeOK
          <5> QED
            BY <5>1, <4>1, <3>3, <1>4 DEF HandlerFits
        <4> QED
          BY <4>2, <4>3
      <3>5. RunInv'
        BY <3>2, <3>3, <1>1, <1>4 DEF Inv, RunInv, IsActive, Active
      <3>6. NameInv'
        <4>1. \A x \in Server : activeBy'[x] = IF x = s THEN r ELSE activeBy[x]
          BY <3>1 DEF Inv, TypeOK
        <4> QED
          BY <4>1, <3>3, <1>5, RowGrows DEF Inv, NameInv, TypeOK
      <3>7. ActiveRunIsHeld'
        BY <3>2, <3>3 DEF ActiveRunIsHeld, IsActive
      <3>8. TimeoutIsReported'
        BY <3>3, <1>4 DEF Inv, TimeoutIsReported
      <3> QED
        BY <3>4, <3>5, <3>6, <3>7, <3>8
    <2> QED
      BY <2>1, <2>2
  <1> QED
    BY <1>7, <1>8, <1>9, <1>10 DEF Inv

(* AbortLaunch: the started turn is released and the run ends with it.      *)
LEMMA AbortLaunchKept ==
  ASSUME Inv, NEW s \in Server, NEW k \in Slot, AbortLaunch(s, k)
  PROVE  Inv'
  <1> DEFINE t == turn[s][k]
  <1>1. t \in Turn /\ t.pc = "started" /\ TurnFits(s, t) /\ t.run \in Run \cup {NoRun}
    BY DEF Inv, TypeOK, TurnInv, AbortLaunch, Turn
  <1>2. /\ GivenUp(t) \in Turn /\ GivenUp(t).pc \in {"free", "failing"}
        /\ GivenUp(t).pc = "free" => GivenUp(t).run = NoRun
        /\ GivenUp(t).pc = "failing" => GivenUp(t).run = t.run /\ t.kind = "retry"
    BY <1>1, TailTyped DEF GivenUp
  <1>3. turn' \in [Server -> [Slot -> Turn]] /\ turn'[s][k] = GivenUp(t) /\ OnlyTurn(s, k)
    <2>1. turn' = [turn EXCEPT ![s][k] = GivenUp(t)]
      BY DEF AbortLaunch
    <2> QED
      BY <1>2, <2>1, TurnSet DEF Inv, OnlyTurn
  <1>4. /\ UNCHANGED <<proc, tracker, retries, activeBy, worker, steers, queued, results,
                       timers, frozen, asked>>
        /\ t.kind # "run" => row' = row
        /\ t.kind = "run" =>
              \E status \in {"interrupted", "failed"} : row' = Finished(t.run, status)
        /\ ReleaseLease(s, k) /\ StarterDone(s, k)
    BY DEF AbortLaunch
  <1>5. t.kind = "run" => t.run \in Run /\ row[t.run].status # "none" /\ asked[t.run] = {}
    <2>1. HandlerFits(s, handler[s])
      BY DEF Inv, HandlerInv
    <2> QED
      BY <2>1, <1>1 DEF TurnFits, Requested, Starting, HandlerFits
  <1>6. row' \in [Run -> Row] /\ RowStep /\ (t.kind = "run" => row'[t.run].status \in Terminal)
    <2>1. CASE t.kind # "run"
      BY <2>1, <1>4 DEF RowStep, Inv, TypeOK
    <2>2. CASE t.kind = "run"
      <3>1. PICK status \in {"interrupted", "failed"} : row' = Finished(t.run, status)
        BY <2>2, <1>4
      <3>2. status \in Terminal
        BY DEF Terminal, Reason
      <3> QED
        BY <2>2, <3>1, <3>2, <1>5, FinishedFacts DEF RowStep
    <2> QED
      BY <2>1, <2>2
  <1>7. TypeOK'
    <2>1. lease' \in Server \cup {Nobody} /\ cur' \in [Server -> Slot \cup {NoSlot}]
      BY <1>4 DEF ReleaseLease, Inv, TypeOK
    <2> QED
      BY <2>1, <1>1, <1>3, <1>4, <1>6, StarterDoneFacts DEF Inv, TypeOK, Starting
  <1>8. DetachStep /\ AnswerStep
    <2>1. t.kind = "user" => t.run = NoRun
      BY <1>1 DEF TurnFits, Requested, Starting
    <2> QED
      BY <2>1, <1>1, <1>4, <1>6, StarterDoneFacts DEF DetachStep, AnswerStep, Starting
  <1>9. TurnInv'
    <2>1. TurnFits(s, turn[s][k])'
      BY <1>1, <1>2, <1>3, <1>4, <1>6, RowGrows DEF TurnFits, Requested, Alive, Starting
    <2> QED
      BY <2>1, <1>1, <1>3, <1>4, <1>6, RowGrows, StarterDoneFacts, TurnFrame DEF Alive, Starting
  <1>10. LeaseInv'
    BY <1>1, <1>2, <1>3, <1>4, LeaseGiven DEF Owning
  <1> QED
    BY <1>4, <1>6, <1>7, <1>8, <1>9, <1>10, RunsFrame DEF Inv

(* A turn leaves its settlement as t.                                      *)
Settled(s, k, t) ==
    /\ turn' = [turn EXCEPT ![s][k] = t]
    /\ row' \in [Run -> Row] /\ RowStep
    /\ t.pc \in {"kick", "detach", "retry"}
    /\ t.pc = "kick" => t.run = NoRun
    /\ t.pc # "kick" => t.run = turn[s][k].run
    /\ t.pc = "detach" => row'[t.run].status \in Terminal

(* Steps of the tail of a turn, which owns nothing any more.               *)
LEMMA TailKept ==
  ASSUME Inv, NEW s \in Server, NEW k \in Slot, NEW t \in Turn,
         turn' = [turn EXCEPT ![s][k] = t],
         UNCHANGED <<proc, lease, cur, handler, asked, worker, steers, queued, results, timers,
                     frozen>>,
         turn[s][k].pc \notin Owning \cup {"admitted"}, t.pc \notin Owning \cup {"admitted"},
         row' \in [Run -> Row], tracker' \in [Run -> Mark], retries' \in [Run -> 0..MaxRetries],
         activeBy' \in [Server -> Run \cup {NoRun}],
         drainQ' \in [Server -> Drain], drainR' \in [Server -> Drain],
         RowStep, DetachStep, TurnFits(s, t)'
  PROVE  Inv'
  <1>1. turn' \in [Server -> [Slot -> Turn]] /\ turn'[s][k] = t /\ OnlyTurn(s, k)
    <2>1. TypeOK
      BY DEF Inv
    <2> QED
      BY <2>1, TurnMoved
  <1>2. TypeOK'
    BY <1>1 DEF Inv, TypeOK
  <1>3. TurnInv'
    BY <1>1, RowGrows, TurnFrame DEF Alive
  <1>4. LeaseInv'
    BY <1>1, LeaseFrame DEF OnlyTurn
  <1>5. AnswerStep
    BY DEF AnswerStep
  <1> QED
    BY <1>2, <1>3, <1>4, <1>5, RunsFrame DEF Inv

(* What settling a run leaves: the run is terminal, or its row is as it     *)
(* was.                                                                     *)
LEMMA SettleAsFacts ==
  ASSUME Inv, NEW s \in Server, NEW k \in Slot, NEW status \in Terminal, SettleAs(s, k, status),
         turn[s][k].run \in Run, row[turn[s][k].run].status # "none",
         status = "interrupted" => \/ asked[turn[s][k].run] # {"timed_out"}
                                   \/ proc[row[turn[s][k].run].server] # "up"
  PROVE  \E t \in Turn : Settled(s, k, t)
  <1> DEFINE r == turn[s][k].run
  <1>1. CASE /\ IsActive(r) /\ row' = Finished(r, status)
             /\ turn' = [turn EXCEPT ![s][k] = TailAt("detach", r)]
    <2>1. row' \in [Run -> Row] /\ RowStep /\ row'[r].status \in Terminal
      BY <1>1, FinishedFacts DEF RowStep
    <2> DEFINE t == TailAt("detach", r)
    <2>2. t \in Turn /\ t.pc = "detach" /\ t.run = r
      BY TailTyped
    <2>3. Settled(s, k, t)
      BY <1>1, <2>1, <2>2 DEF Settled
    <2> QED
      BY <2>2, <2>3
  <1>2. CASE UNCHANGED row /\ turn' = [turn EXCEPT ![s][k] = TailAt("kick", NoRun)]
    <2> DEFINE t == TailAt("kick", NoRun)
    <2>1. row' \in [Run -> Row] /\ RowStep
      BY <1>2 DEF RowStep, Inv, TypeOK
    <2>2. t \in Turn /\ t.pc = "kick" /\ t.run = NoRun
      BY TailTyped
    <2>3. Settled(s, k, t)
      BY <1>2, <2>1, <2>2 DEF Settled
    <2> QED
      BY <2>2, <2>3
  <1> QED
    BY <1>1, <1>2 DEF SettleAs

(* The pointwise facts of a slot that a tail step begins with.             *)
LEMMA TailFacts ==
  ASSUME Inv, NEW s \in Server, NEW k \in Slot
  PROVE  /\ turn[s][k] \in Turn /\ TurnFits(s, turn[s][k])
         /\ turn[s][k].run \in Run \cup {NoRun}
         /\ turn[s][k].pc \in {"released", "detach", "retry", "failing", "dropped"} =>
               turn[s][k].run \in Run /\ row[turn[s][k].run].status # "none"
  BY DEF Inv, TypeOK, TurnInv, TurnFits, Turn

(* The turn that settling leaves fits its run.                              *)
LEMMA SettledFits ==
  ASSUME Inv, NEW s \in Server, NEW k \in Slot, NEW t \in Turn, Settled(s, k, t),
         Alive(s), UNCHANGED proc, turn[s][k].run \in Run, row[turn[s][k].run].status # "none"
  PROVE  TurnFits(s, t)'
  <1>1. RowStep /\ (t.pc # "kick" => t.run = turn[s][k].run) /\ (t.pc = "kick" => t.run = NoRun)
        /\ t.pc \in {"kick", "detach", "retry"}
        /\ (t.pc = "detach" => row'[t.run].status \in Terminal)
    BY DEF Settled
  <1>2. row'[turn[s][k].run].status # "none"
    BY <1>1, RowGrows
  <1>3. Alive(s)'
    BY DEF Alive
  <1> QED
    BY <1>1, <1>2, <1>3, NamesAssumption DEF TurnFits, Requested, Starting

(* SettleFailed: a timed-out run keeps its reason.                          *)
LEMMA SettleFailedKept ==
  ASSUME Inv, NEW s \in Server, NEW k \in Slot, SettleFailed(s, k)
  PROVE  Inv'
  <1> DEFINE r == turn[s][k].run
             status == IF turn[s][k].outcome = "cancelled" THEN InterruptStatus(r) ELSE "failed"
  <1>1. /\ Alive(s) /\ turn[s][k].pc = "released" /\ SettleAs(s, k, status)
        /\ UNCHANGED <<proc, tracker, retries, activeBy, lease, cur, handler, worker, steers,
                       queued, results, drainQ, drainR, timers, frozen, asked>>
    BY DEF SettleFailed, queues
  <1>2. r \in Run /\ row[r].status # "none" /\ tracker[r] \in Mark
    BY <1>1, TailFacts DEF Inv, TypeOK
  <1>3. status \in Terminal
    BY <1>2 DEF InterruptStatus, Terminal, Reason
  <1>4. \E t \in Turn : Settled(s, k, t)
    <2>1. CASE IsActive(r)
      <3>1. status = "interrupted" => asked[r] # {"timed_out"} \/ proc[row[r].server] # "up"
        BY <1>2, <2>1 DEF InterruptStatus, Reason, Inv, RunInv
      <3> QED
        BY <1>1, <1>2, <1>3, <3>1, SettleAsFacts
    <2>2. CASE ~IsActive(r)
      <3>1. UNCHANGED row /\ turn' = [turn EXCEPT ![s][k] = TailAt("kick", NoRun)]
        BY <1>1, <2>2 DEF SettleAs
      <3>2. row' \in [Run -> Row] /\ RowStep
        BY <3>1 DEF RowStep, Inv, TypeOK
      <3>3. TailAt("kick", NoRun) \in Turn /\ Settled(s, k, TailAt("kick", NoRun))
        BY <3>1, <3>2, TailTyped DEF Settled
      <3> QED
        BY <3>3
    <2> QED
      BY <2>1, <2>2
  <1>5. PICK t \in Turn : Settled(s, k, t)
    BY <1>4
  <1>6. DetachStep
    BY <1>1 DEF DetachStep
  <1>7. TurnFits(s, t)'
    BY <1>1, <1>2, <1>5, SettledFits
  <1>8. /\ tracker' \in [Run -> Mark] /\ retries' \in [Run -> 0..MaxRetries]
        /\ activeBy' \in [Server -> Run \cup {NoRun}]
        /\ drainQ' \in [Server -> Drain] /\ drainR' \in [Server -> Drain]
    BY <1>1 DEF Inv, TypeOK
  <1> QED
    BY <1>1, <1>5, <1>6, <1>7, <1>8, TailKept DEF Settled, Owning

(* SettleAnswered: retries stay within their bound.                         *)
LEMMA SettleAnsweredKept ==
  ASSUME Inv, NEW s \in Server, NEW k \in Slot, SettleAnswered(s, k)
  PROVE  Inv'
  <1> DEFINE r == turn[s][k].run
  <1>1. /\ Alive(s) /\ turn[s][k].pc = "released"
        /\ UNCHANGED <<proc, tracker, activeBy, lease, cur, handler, worker, steers, queued,
                       results, drainQ, drainR, timers, frozen, asked>>
    BY DEF SettleAnswered, queues
  <1>2. r \in Run /\ row[r].status # "none" /\ retries[r] \in 0..MaxRetries
    BY <1>1, TailFacts DEF Inv, TypeOK
  <1>3. (\E t \in Turn : Settled(s, k, t)) /\ retries' \in [Run -> 0..MaxRetries]
    <2>1. ASSUME NEW status \in {"completed", "failed"}, SettleAs(s, k, status), UNCHANGED retries
          PROVE  (\E t \in Turn : Settled(s, k, t)) /\ retries' \in [Run -> 0..MaxRetries]
      <3>1. status \in Terminal /\ status # "interrupted" /\ retries' \in [Run -> 0..MaxRetries]
        BY <2>1 DEF Terminal, Inv, TypeOK
      <3> QED
        BY <2>1, <3>1, <1>2, SettleAsFacts
    <2>2. CASE /\ RetriesLeft(r) /\ retries' = [retries EXCEPT ![r] = @ + 1]
               /\ turn' = [turn EXCEPT ![s][k] = TailAt("retry", r)] /\ UNCHANGED row
      <3>1. retries' \in [Run -> 0..MaxRetries]
        BY <1>2, <2>2, BoundsAssumption DEF RetriesLeft, Inv, TypeOK
      <3>2. row' \in [Run -> Row] /\ RowStep
        BY <2>2 DEF RowStep, Inv, TypeOK
      <3>3. TailAt("retry", r) \in Turn /\ TailAt("retry", r).pc = "retry" /\ TailAt("retry", r).run = r
        BY <1>2, TailTyped
      <3>4. Settled(s, k, TailAt("retry", r))
        BY <2>2, <3>2, <3>3 DEF Settled
      <3> QED
        BY <3>1, <3>3, <3>4
    <2> QED
      BY <2>1, <2>2 DEF SettleAnswered
  <1>4. PICK t \in Turn : Settled(s, k, t)
    BY <1>3
  <1>5. DetachStep
    BY <1>1 DEF DetachStep
  <1>6. TurnFits(s, t)'
    BY <1>1, <1>2, <1>4, SettledFits
  <1>7. /\ tracker' \in [Run -> Mark] /\ activeBy' \in [Server -> Run \cup {NoRun}]
        /\ drainQ' \in [Server -> Drain] /\ drainR' \in [Server -> Drain]
    BY <1>1 DEF Inv, TypeOK
  <1> QED
    BY <1>1, <1>3, <1>4, <1>5, <1>6, <1>7, TailKept DEF Settled, Owning

(* A terminal run is detached, and the name of another run stays.           *)
LEMMA DetachRunFacts ==
  ASSUME Inv, NEW s \in Server, NEW r \in Run, DetachRun(s, r), UNCHANGED row,
         row[r].status \in Terminal
  PROVE  /\ DetachStep /\ tracker' \in [Run -> Mark] /\ activeBy' \in [Server -> Run \cup {NoRun}]
  <1>1. /\ tracker \in [Run -> Mark] /\ activeBy \in [Server -> Run \cup {NoRun}]
        /\ r # NoRun
    BY NamesAssumption DEF Inv, TypeOK
  <1>2. /\ tracker' = [tracker EXCEPT ![r] = "none"]
        /\ \/ activeBy' = activeBy
           \/ activeBy[s] = r /\ activeBy' = [activeBy EXCEPT ![s] = NoRun]
    BY DEF DetachRun
  <1>3. tracker' \in [Run -> Mark] /\ activeBy' \in [Server -> Run \cup {NoRun}]
    BY <1>1, <1>2 DEF Mark
  <1>4. \A q \in Run : tracker'[q] = tracker[q] \/ (tracker'[q] = "none" /\ row'[q].status \in Terminal)
    BY <1>1, <1>2
  <1>5. \A x \in Server : \/ activeBy'[x] = activeBy[x]
                          \/ /\ activeBy'[x] = NoRun /\ activeBy[x] # NoRun
                             /\ row'[activeBy[x]].status \in Terminal
    <2>1. CASE activeBy' = activeBy
      BY <2>1
    <2>2. CASE activeBy[s] = r /\ activeBy' = [activeBy EXCEPT ![s] = NoRun]
      BY <1>1, <2>2
    <2> QED
      BY <1>2, <2>1, <2>2
  <1> QED
    BY <1>3, <1>4, <1>5 DEF DetachStep

(* AwaitContinuation and Kick change no run.                                *)
LEMMA AwaitContinuationKept ==
  ASSUME Inv, NEW s \in Server, NEW k \in Slot, AwaitContinuation(s, k) \/ Kick(s, k)
  PROVE  Inv'
  <1>1. PICK t \in {FreeTurn, TailAt("kick", NoRun)} : turn' = [turn EXCEPT ![s][k] = t]
    BY DEF AwaitContinuation, Kick
  <1>2. t \in Turn /\ t.run = NoRun /\ t.pc \in {"free", "kick"}
    BY <1>1, TailTyped
  <1>3. /\ Alive(s) /\ turn[s][k].pc \in {"released", "kick"}
        /\ UNCHANGED <<proc, row, retries, tracker, activeBy, lease, cur, handler, worker, steers,
                       queued, results, timers, frozen, asked>>
    BY DEF AwaitContinuation, Kick, store, queues
  <1>4. drainQ' \in [Server -> Drain] /\ drainR' \in [Server -> Drain]
    BY DEF AwaitContinuation, Kick, queues, QueueDrain, ResultDrain, Drain, Inv, TypeOK
  <1>5. RowStep /\ DetachStep
    BY <1>3 DEF RowStep, DetachStep
  <1>6. TurnFits(s, t)'
    BY <1>2, <1>3 DEF TurnFits, Requested, Starting, Alive
  <1>7. /\ row' \in [Run -> Row] /\ tracker' \in [Run -> Mark]
        /\ retries' \in [Run -> 0..MaxRetries] /\ activeBy' \in [Server -> Run \cup {NoRun}]
    BY <1>3 DEF Inv, TypeOK
  <1> QED
    BY <1>1, <1>2, <1>3, <1>4, <1>5, <1>6, <1>7, TailKept DEF Owning

(* Detach and DetachDropped detach a terminal run.                          *)
LEMMA DetachKept ==
  ASSUME Inv, NEW s \in Server, NEW k \in Slot, Detach(s, k) \/ DetachDropped(s, k)
  PROVE  Inv'
  <1> DEFINE r == turn[s][k].run
  <1>1. PICK t \in {FreeTurn, TailAt("kick", NoRun)} : turn' = [turn EXCEPT ![s][k] = t]
    BY DEF Detach, DetachDropped
  <1>2. t \in Turn /\ t.run = NoRun /\ t.pc \in {"free", "kick"}
    BY <1>1, TailTyped
  <1>3. /\ Alive(s) /\ turn[s][k].pc \in {"detach", "dropped"} /\ DetachRun(s, r)
        /\ UNCHANGED <<proc, row, retries, lease, cur, handler, worker, steers,
                       queued, results, timers, frozen, asked>>
    BY DEF Detach, DetachDropped, store, queues
  <1>4. drainQ' \in [Server -> Drain] /\ drainR' \in [Server -> Drain]
    BY DEF Detach, DetachDropped, queues, QueueDrain, Drain, Inv, TypeOK
  <1>5. r \in Run /\ row[r].status \in Terminal
    BY <1>3, TailFacts DEF TurnFits
  <1>6. /\ DetachStep /\ tracker' \in [Run -> Mark] /\ activeBy' \in [Server -> Run \cup {NoRun}]
    BY <1>3, <1>5, DetachRunFacts
  <1>7. RowStep /\ TurnFits(s, t)'
    BY <1>2, <1>3 DEF RowStep, TurnFits, Requested, Starting, Alive
  <1>8. row' \in [Run -> Row] /\ retries' \in [Run -> 0..MaxRetries]
    BY <1>3 DEF Inv, TypeOK
  <1> QED
    BY <1>1, <1>2, <1>3, <1>4, <1>6, <1>7, <1>8, TailKept DEF Owning

(* RefuseRetry fails the run before it is detached.                         *)
LEMMA RefuseRetryKept ==
  ASSUME Inv, NEW s \in Server, NEW k \in Slot, RefuseRetry(s, k)
  PROVE  Inv'
  <1> DEFINE r == turn[s][k].run
  <1>1. /\ Alive(s) /\ turn[s][k].pc \in {"failing", "retry"} /\ row' = Finished(r, "failed")
        /\ turn' = [turn EXCEPT ![s][k].pc = "dropped"]
        /\ UNCHANGED <<proc, tracker, retries, activeBy, lease, cur, handler, worker, steers,
                       queued, results, drainQ, drainR, timers, frozen, asked>>
    BY DEF RefuseRetry, queues
  <1>2. turn[s][k] \in Turn /\ r \in Run /\ row[r].status # "none"
    BY <1>1, TailFacts
  <1>3. PICK t \in Turn : /\ t.pc = "dropped" /\ t.run = r
                          /\ turn' = [turn EXCEPT ![s][k] = t]
    <2> DEFINE u == [turn[s][k] EXCEPT !.pc = "dropped"]
    <2>1. u \in Turn /\ u.pc = "dropped" /\ u.run = r
      BY <1>2 DEF Turn
    <2> QED
      BY <1>1, <2>1
  <1>4. row' \in [Run -> Row] /\ RowStep /\ row'[r].status \in Terminal
    BY <1>1, <1>2, FinishedFacts DEF RowStep, Terminal
  <1>5. DetachStep
    BY <1>1 DEF DetachStep
  <1>6. TurnFits(s, t)'
    BY <1>1, <1>3, <1>4, <1>2, RowGrows, NamesAssumption DEF TurnFits, Requested, Starting, Alive
  <1>7. /\ tracker' \in [Run -> Mark] /\ retries' \in [Run -> 0..MaxRetries]
        /\ activeBy' \in [Server -> Run \cup {NoRun}]
        /\ drainQ' \in [Server -> Drain] /\ drainR' \in [Server -> Drain]
    BY <1>1 DEF Inv, TypeOK
  <1> QED
    BY <1>1, <1>3, <1>4, <1>5, <1>6, <1>7, TailKept DEF Owning

(* The end of a turn's loop.                                               *)
LEMMA EndTurnKept ==
  ASSUME Inv, NEW s \in Server, NEW k \in Slot, EndTurn(s, k) \/ EndAbandoned(s, k)
  PROVE  Inv'
  <1> DEFINE r == turn[s][k].run
  <1>1. /\ Alive(s) /\ turn[s][k].pc = "running"
        /\ UNCHANGED <<proc, row, retries, tracker, activeBy, handler, worker, results, drainQ,
                       drainR, timers, frozen, asked>>
    BY DEF EndTurn, EndAbandoned, store, queues
  <1>2. turn[s][k] \in Turn /\ TurnFits(s, turn[s][k]) /\ r \in Run \cup {NoRun}
    BY TailFacts
  <1>3. \E t \in Turn : /\ turn' = [turn EXCEPT ![s][k] = t]
                        /\ t.pc \in {"free", "kick", "released"}
                        /\ t.pc = "released" => t.run = r /\ r # NoRun
                        /\ t.pc # "released" => t.run = NoRun
    <2>1. CASE EndAbandoned(s, k)
      BY <2>1, TailTyped DEF EndAbandoned
    <2>2. CASE EndTurn(s, k) /\ r = NoRun
      <3> DEFINE t == TailAt("kick", NoRun)
      <3>1. turn' = [turn EXCEPT ![s][k] = t]
        BY <2>2 DEF EndTurn
      <3>2. t \in Turn /\ t.pc = "kick" /\ t.run = NoRun
        BY TailTyped
      <3> QED
        BY <3>1, <3>2
    <2>3. CASE EndTurn(s, k) /\ r # NoRun
      <3>1. PICK outcome \in Outcome :
               turn' = [turn EXCEPT ![s][k] = [TailAt("released", r) EXCEPT !.outcome = outcome]]
        BY <2>3 DEF EndTurn
      <3> DEFINE t == [TailAt("released", r) EXCEPT !.outcome = outcome]
      <3>2. t \in Turn /\ t.pc = "released" /\ t.run = r
        BY <1>2, TailTyped DEF Turn
      <3> QED
        BY <2>3, <3>1, <3>2
    <2> QED
      BY <2>1, <2>2, <2>3
  <1>4. PICK t \in Turn : /\ turn' = [turn EXCEPT ![s][k] = t]
                          /\ t.pc \in {"free", "kick", "released"}
                          /\ t.pc = "released" => t.run = r /\ r # NoRun
                          /\ t.pc # "released" => t.run = NoRun
    BY <1>3
  <1>5. turn' \in [Server -> [Slot -> Turn]] /\ turn'[s][k] = t /\ OnlyTurn(s, k)
    BY <1>4, TurnMoved DEF Inv
  <1>6. ReleaseLease(s, k)
    BY DEF EndTurn, EndAbandoned, ReleaseLease
  <1>7. TypeOK'
    <2>1. lease' \in Server \cup {Nobody} /\ cur' \in [Server -> Slot \cup {NoSlot}]
      BY <1>6 DEF ReleaseLease, Inv, TypeOK
    <2>2. steers' \in [Server -> SUBSET Entry] /\ queued' \in [Server -> SUBSET Entry]
      <3>1. steers \in [Server -> SUBSET Entry] /\ queued \in [Server -> SUBSET Entry]
        BY DEF Inv, TypeOK
      <3>2. CASE EndTurn(s, k)
        BY <3>1, <3>2 DEF EndTurn
      <3>3. CASE EndAbandoned(s, k)
        BY <3>1, <3>3 DEF EndAbandoned, queues
      <3> QED
        BY <3>2, <3>3
    <2> QED
      BY <1>1, <1>5, <2>1, <2>2 DEF Inv, TypeOK
  <1>8. RowStep /\ DetachStep /\ AnswerStep
    BY <1>1 DEF RowStep, DetachStep, AnswerStep
  <1>9. TurnFits(s, turn[s][k])'
    BY <1>1, <1>2, <1>4, <1>5 DEF TurnFits, Requested, Starting, Alive
  <1>10. TurnInv'
    BY <1>1, <1>5, <1>9, TurnFrame DEF Alive
  <1>11. LeaseInv'
    BY <1>1, <1>4, <1>5, <1>6, LeaseGiven DEF Owning
  <1> QED
    BY <1>1, <1>7, <1>8, <1>10, <1>11, RunsFrame DEF Inv

(* A turn takes the free lease of a server that is up.                     *)
LEMMA AdmittedFacts ==
  ASSUME Inv, NEW s \in Server, NEW k \in Slot, NEW kind \in Kind, NEW r \in Run \cup {NoRun},
         proc[s] = "up", Admissible(s), UNCHANGED <<proc, cur>>, lease' = s,
         turn' = [turn EXCEPT ![s][k] =
                     [FreeTurn EXCEPT !.pc = "admitted", !.kind = kind, !.run = r]]
  PROVE  /\ turn' \in [Server -> [Slot -> Turn]] /\ lease' \in Server \cup {Nobody}
         /\ turn'[s][k].pc = "admitted" /\ turn'[s][k].kind = kind /\ turn'[s][k].run = r
         /\ OnlyTurn(s, k) /\ LeaseInv'
  <1> DEFINE t == [FreeTurn EXCEPT !.pc = "admitted", !.kind = kind, !.run = r]
  <1>1. t \in Turn /\ t.pc = "admitted" /\ t.kind = kind /\ t.run = r
    BY DEF FreeTurn, Turn, Outcome
  <1>2. turn' \in [Server -> [Slot -> Turn]] /\ turn'[s][k] = t /\ OnlyTurn(s, k)
    BY <1>1, TurnMoved DEF Inv
  <1>3. LeaseInv'
    BY <1>1, <1>2, LeaseTaken
  <1> QED
    BY <1>1, <1>2, <1>3

(* The drains and a tail admit turns for the thread's run or for no run.   *)
LEMMA AdmittedKept ==
  ASSUME Inv, NEW s \in Server, NEW k \in Slot, NEW kind \in {"queued", "auto", "retry"},
         NEW r \in Run \cup {NoRun}, r # NoRun => row[r].status # "none",
         kind = "retry" => r # NoRun,
         proc[s] = "up", Admissible(s), lease' = s,
         turn' = [turn EXCEPT ![s][k] =
                     [FreeTurn EXCEPT !.pc = "admitted", !.kind = kind, !.run = r]],
         UNCHANGED <<proc, row, retries, tracker, activeBy, cur, handler, worker, steers,
                     timers, frozen, asked>>,
         queued' \in [Server -> SUBSET Entry], results' \in [Server -> SUBSET Worker],
         drainQ' \in [Server -> Drain], drainR' \in [Server -> Drain]
  PROVE  Inv'
  <1>1. /\ turn' \in [Server -> [Slot -> Turn]] /\ lease' \in Server \cup {Nobody}
        /\ turn'[s][k].pc = "admitted" /\ turn'[s][k].kind = kind /\ turn'[s][k].run = r
        /\ OnlyTurn(s, k) /\ LeaseInv'
    <2>1. kind \in Kind
      BY DEF Kind
    <2> QED
      BY <2>1, AdmittedFacts
  <1>2. TypeOK'
    BY <1>1 DEF Inv, TypeOK
  <1>3. RowStep /\ DetachStep /\ AnswerStep
    BY DEF RowStep, DetachStep, AnswerStep
  <1>4. TurnFits(s, turn[s][k])'
    BY <1>1 DEF TurnFits, Requested, Starting, Alive
  <1>5. TurnInv'
    BY <1>1, <1>3, <1>4, RowGrows, TurnFrame DEF Alive
  <1> QED
    BY <1>1, <1>2, <1>3, <1>5, RunsFrame DEF Inv

(* StartQueued starts a turn for no run.                                    *)
LEMMA StartQueuedKept ==
  ASSUME Inv, NEW s \in Server, NEW k \in Slot, StartQueued(s, k)
  PROVE  Inv'
  <1>1. /\ queued' \in [Server -> SUBSET Entry] /\ results' \in [Server -> SUBSET Worker]
        /\ drainQ' \in [Server -> Drain] /\ drainR' \in [Server -> Drain]
    BY DEF StartQueued, Drain, Inv, TypeOK
  <1> QED
    BY <1>1, AdmittedKept DEF StartQueued, Admit, store

(* StartResult starts a turn for the run under the thread's name.           *)
LEMMA StartResultKept ==
  ASSUME Inv, NEW s \in Server, NEW k \in Slot, StartResult(s, k)
  PROVE  Inv'
  <1>1. /\ queued' \in [Server -> SUBSET Entry] /\ results' \in [Server -> SUBSET Worker]
        /\ drainQ' \in [Server -> Drain] /\ drainR' \in [Server -> Drain]
    BY DEF StartResult, Drain, Inv, TypeOK
  <1>2. activeBy[s] \in Run \cup {NoRun} /\ (activeBy[s] # NoRun => row[activeBy[s]].status # "none")
    BY DEF Inv, TypeOK, NameInv
  <1> QED
    BY <1>1, <1>2, AdmittedKept DEF StartResult, Admit, store

(* AdmitRetry starts the next turn of the same run.                         *)
LEMMA AdmitRetryKept ==
  ASSUME Inv, NEW s \in Server, NEW k \in Slot, AdmitRetry(s, k)
  PROVE  Inv'
  <1>1. turn[s][k].run \in Run /\ row[turn[s][k].run].status # "none"
    BY TailFacts DEF AdmitRetry
  <1>2. /\ queued' \in [Server -> SUBSET Entry] /\ results' \in [Server -> SUBSET Worker]
        /\ drainQ' \in [Server -> Drain] /\ drainR' \in [Server -> Drain]
    BY DEF AdmitRetry, queues, Inv, TypeOK
  <1> QED
    BY <1>1, <1>2, AdmittedKept, NamesAssumption DEF AdmitRetry, store, queues

(* A request that starts a turn, for its fresh run or for none.            *)
LEMMA RequestedKept ==
  ASSUME Inv, NEW s \in Server, NEW k \in Slot, NEW kind \in {"run", "user"},
         NEW r \in Run \cup {NoRun}, handler[s].run = r,
         kind = "run" => handler[s].at = "created", kind = "user" => handler[s] = Idle,
         proc[s] = "up", Admissible(s), lease' = s, FoldFrozen(s),
         turn' = [turn EXCEPT ![s][k] =
                     [FreeTurn EXCEPT !.pc = "admitted", !.kind = kind, !.run = r]],
         handler' = [handler EXCEPT ![s].at = "starting"],
         UNCHANGED <<proc, row, retries, tracker, activeBy, cur, steers, queued, drainQ, drainR, timers,
                     asked>>
  PROVE  Inv'
  <1>1. handler \in [Server -> Handler] /\ HandlerFits(s, handler[s])
    BY DEF Inv, TypeOK, HandlerInv
  <1>3. /\ turn' \in [Server -> [Slot -> Turn]] /\ lease' \in Server \cup {Nobody}
        /\ turn'[s][k].pc = "admitted" /\ turn'[s][k].kind = kind /\ turn'[s][k].run = r
        /\ OnlyTurn(s, k) /\ LeaseInv'
    <2> DEFINE t == [FreeTurn EXCEPT !.pc = "admitted", !.kind = kind, !.run = r]
    <2>1. t \in Turn /\ t.pc = "admitted" /\ t.kind = kind /\ t.run = r
      BY DEF FreeTurn, Turn, Outcome, Kind
    <2>2. turn' = [turn EXCEPT ![s][k] = t]
      OBVIOUS
    <2> HIDE DEF t
    <2>3. turn' \in [Server -> [Slot -> Turn]] /\ turn'[s][k] = t /\ OnlyTurn(s, k)
      BY <2>1, <2>2, TurnMoved DEF Inv
    <2>4. LeaseInv'
      BY <2>1, <2>3, LeaseTaken
    <2> QED
      BY <2>1, <2>3, <2>4
  <1>4. /\ kind = "run" => r # NoRun /\ row[r].status # "none"
        /\ kind = "user" => r = NoRun
    BY <1>1 DEF HandlerFits, Idle
  <1>5. /\ \A x \in Server : x # s => handler'[x] = handler[x]
        /\ handler'[s].at = "starting" /\ handler'[s].run = r
        /\ handler'[s] \in Handler /\ handler' \in [Server -> Handler]
    BY <1>1 DEF Handler
  <1>6. TypeOK'
    <2>1. /\ worker \in [Server -> [Worker -> WorkerState]] /\ frozen \in [Server -> BOOLEAN]
          /\ results \in [Server -> SUBSET Worker]
      BY DEF Inv, TypeOK
    <2>2. worker' \in [Server -> [Worker -> WorkerState]]
      BY <2>1 DEF FoldFrozen, WorkerState
    <2>3. frozen' \in [Server -> BOOLEAN] /\ results' \in [Server -> SUBSET Worker]
      BY <2>1 DEF FoldFrozen
    <2> QED
      BY <1>1, <1>3, <1>5, <2>2, <2>3 DEF Inv, TypeOK
  <1>7. HandlerInv'
    <2> SUFFICES ASSUME NEW x \in Server PROVE HandlerFits(x, handler[x])'
      BY DEF HandlerInv
    <2>1. CASE x # s
      BY <1>1, <1>5, <2>1 DEF Inv, HandlerInv, HandlerFits
    <2>2. CASE x = s
      BY <1>1, <1>4, <1>5, <2>2 DEF HandlerFits, Idle
    <2> QED
      BY <2>1, <2>2
  <1>8. TurnInv'
    <2>1. TurnFits(s, turn[s][k])'
      BY <1>1, <1>3, <1>4, <1>5 DEF TurnFits, Requested, Starting, Alive
    <2>2. \A y \in Slot : ~Requested(turn[s][y])
      BY DEF Inv, TurnInv, TurnFits, Idle
    <2>3. \A x \in Server : handler'[x] = handler[x] \/
             \A y \in Slot : Requested(turn[x][y]) => x = s /\ y = k
      BY <1>5, <2>2
    <2> QED
      BY <2>1, <2>3, <1>1, <1>3, TurnFrame DEF Alive
  <1>9. ActiveRunIsHeld'
    <2> SUFFICES ASSUME NEW q \in Run, IsActive(q), Alive(row[q].server)
                 PROVE  LET x == row[q].server IN
                        \/ handler'[x].run = q /\ handler'[x].at \in {"created", "starting"}
                        \/ proc[x] # "closed" /\ tracker[q] # "none" /\ activeBy[x] = q
      BY <1>1 DEF ActiveRunIsHeld, IsActive, Alive
    <2> DEFINE x == row[q].server
    <2>1. x \in Server
      BY DEF Inv, RunInv, IsActive, Active
    <2>2. CASE handler[x].run = q /\ handler[x].at \in {"created", "starting"}
      BY <1>5, <2>1, <2>2
    <2>3. CASE proc[x] # "closed" /\ tracker[q] # "none" /\ activeBy[x] = q
      BY <2>3
    <2> QED
      BY <2>2, <2>3 DEF Inv, ActiveRunIsHeld
  <1>10. RunInv' /\ NameInv' /\ TimeoutIsReported'
    BY <1>1 DEF Inv, RunInv, NameInv, TimeoutIsReported, IsActive
  <1> QED
    BY <1>3, <1>6, <1>7, <1>8, <1>9, <1>10 DEF Inv

(* AdmitRun: the request goes on with its turn.                             *)
LEMMA AdmitRunKept ==
  ASSUME Inv, NEW s \in Server, NEW k \in Slot, AdmitRun(s, k)
  PROVE  Inv'
  <1>1. handler[s].run \in Run \cup {NoRun}
    BY DEF Inv, TypeOK, Handler
  <1> QED
    BY <1>1, RequestedKept DEF AdmitRun, Admit, store

(* UserTurn: a request starts a turn for no run.                            *)
LEMMA UserTurnKept ==
  ASSUME Inv, NEW s \in Server, NEW k \in Slot, UserTurn(s, k)
  PROVE  Inv'
  <1>1. handler[s].run = NoRun
    BY DEF UserTurn, Idle
  <1> QED
    BY <1>1, RequestedKept DEF UserTurn, Admit, store

(* Nothing of the turns and the lease moves but the mark of a cancellation,  *)
(* and no request that starts a turn ends.                                 *)
LEMMA TurnsStay ==
  ASSUME Inv, UNCHANGED <<lease, cur>>,
         \A x \in Server, y \in Slot :
            /\ turn'[x][y].pc = turn[x][y].pc /\ turn'[x][y].kind = turn[x][y].kind
            /\ turn'[x][y].run = turn[x][y].run,
         \A r \in Run : /\ row[r].status # "none" => row'[r].status # "none"
                        /\ row[r].status \in Terminal => row'[r].status \in Terminal,
         \A x \in Server : /\ Alive(x) => Alive(x)'
                           /\ proc'[x] \in {"up", "closing"} <=> proc[x] \in {"up", "closing"},
         \A x \in Server : handler'[x] = handler[x] \/ handler[x].at # "starting"
  PROVE  TurnInv' /\ LeaseInv'
  <1>1. TurnInv'
    <2> SUFFICES ASSUME NEW x \in Server, NEW y \in Slot PROVE TurnFits(x, turn[x][y])'
      BY DEF TurnInv
    <2>1. TurnFits(x, turn[x][y]) /\ turn[x][y].run \in Run \cup {NoRun}
      BY DEF Inv, TurnInv, TypeOK, Turn
    <2> QED
      BY <2>1 DEF TurnFits, Requested
  <1>2. LeaseInv'
    <2> SUFFICES ASSUME NEW x \in Server PROVE LeaseFits(x)'
      BY DEF LeaseInv
    <2>1. LeaseFits(x) /\ cur[x] \in Slot \cup {NoSlot}
      BY DEF Inv, LeaseInv, TypeOK
    <2>2. \A y \in Slot : Owner(x, y)' <=> Owner(x, y)
      BY DEF Owner
    <2> QED
      BY <2>1, <2>2 DEF LeaseFits, Owning
  <1> QED
    BY <1>1, <1>2

(* CreateRun: the new run is in the hands of its request.                   *)
LEMMA CreateRunKept ==
  ASSUME Inv, NEW s \in Server, NEW r \in Run, CreateRun(s, r)
  PROVE  Inv'
  <1>1. /\ proc[s] = "up" /\ handler[s] = Idle /\ row[r].status = "none"
        /\ (\A q \in Run : ~IsActive(q)) /\ row \in [Run -> Row] /\ handler \in [Server -> Handler]
        /\ asked[r] = {} /\ tracker[r] = "none" /\ r # NoRun
        /\ UNCHANGED <<proc, tracker, retries, activeBy, lease, cur, turn, worker, steers, queued,
                       results, drainQ, drainR, timers, frozen, asked>>
    BY NamesAssumption DEF CreateRun, threads, queues, Inv, TypeOK, RunInv
  <1>2. /\ row' \in [Run -> Row] /\ row'[r].status = "accepted" /\ row'[r].server = s
        /\ \A q \in Run : q # r => row'[q] = row[q]
    BY <1>1 DEF CreateRun, Row, Active
  <1>3. /\ handler' \in [Server -> Handler] /\ handler'[s].at = "created" /\ handler'[s].run = r
        /\ \A x \in Server : x # s => handler'[x] = handler[x]
    BY <1>1 DEF CreateRun, Idle, Handler, Reason
  <1>4. TypeOK'
    BY <1>1, <1>2, <1>3 DEF Inv, TypeOK
  <1>5. HandlerInv'
    <2> SUFFICES ASSUME NEW x \in Server PROVE HandlerFits(x, handler[x])'
      BY DEF HandlerInv
    <2>1. CASE x = s
      BY <1>1, <1>2, <1>3, <2>1 DEF HandlerFits, Idle
    <2>2. CASE x # s
      <3>1. HandlerFits(x, handler[x]) /\ handler[x].run \in Run \cup {NoRun}
        BY DEF Inv, HandlerInv, TypeOK, Handler
      <3>2. handler'[x] = handler[x] /\ handler[x].run # r
        BY <1>1, <1>3, <2>2, <3>1 DEF HandlerFits
      <3> QED
        BY <1>1, <1>2, <3>1, <3>2 DEF HandlerFits
    <2> QED
      BY <2>1, <2>2
  <1>6. TurnInv' /\ LeaseInv'
    BY <1>1, <1>2, <1>3, TurnsStay DEF Alive, Idle, Terminal, Reason
  <1>7. RunInv' /\ NameInv'
    <2>1. \A q \in Run : IsActive(q)' => q = r
      BY <1>1, <1>2 DEF IsActive
    <2>2. NameInv'
      <3> SUFFICES ASSUME NEW x \in Server, activeBy[x] # NoRun
                   PROVE  row'[activeBy[x]].status # "none"
        BY <1>1 DEF NameInv
      <3>1. activeBy[x] \in Run /\ row[activeBy[x]].status # "none"
        BY DEF Inv, NameInv, TypeOK
      <3> QED
        BY <1>1, <1>2, <3>1
    <2>3. RunInv'
      <3> SUFFICES ASSUME NEW q \in Run
                   PROVE  /\ row'[q].status = "none" => asked[q] = {} /\ tracker[q] = "none"
                          /\ row'[q].status # "none" =>
                                row'[q].server \in Server /\ proc[row'[q].server] # "none"
                          /\ \A p \in Run : IsActive(p)' /\ IsActive(q)' => p = q
                          /\ IsActive(q)' /\ proc[row'[q].server] = "up"
                                /\ asked[q] = {"timed_out"} => tracker[q] = "timed_out"
        BY <1>1 DEF RunInv
      <3>1. CASE q = r
        BY <1>1, <1>2, <2>1, <3>1
      <3>2. CASE q # r
        BY <1>1, <1>2, <2>1, <3>2 DEF Inv, RunInv
      <3> QED
        BY <3>1, <3>2
    <2> QED
      BY <2>2, <2>3
  <1>8. ActiveRunIsHeld'
    <2>1. \A q \in Run : IsActive(q)' => q = r
      BY <1>1, <1>2 DEF IsActive
    <2> QED
      BY <2>1, <1>2, <1>3 DEF ActiveRunIsHeld
  <1>9. TimeoutIsReported'
    BY <1>1, <1>2 DEF Inv, TimeoutIsReported
  <1> QED
    BY <1>4, <1>5, <1>6, <1>7, <1>8, <1>9 DEF Inv

(* RefuseRun: the run ends with its request.                                *)
LEMMA RefuseRunKept ==
  ASSUME Inv, NEW s \in Server, RefuseRun(s)
  PROVE  Inv'
  <1> DEFINE r == handler[s].run
  <1>1. /\ handler[s].at = "created" /\ row' = Finished(r, "cancelled")
        /\ handler' = [handler EXCEPT ![s] = Idle]
        /\ UNCHANGED <<proc, tracker, retries, activeBy, lease, cur, turn, worker, steers, queued,
                       results, drainQ, drainR, timers, frozen, asked>>
    BY DEF RefuseRun, threads, queues
  <1>2. handler \in [Server -> Handler] /\ r \in Run /\ row[r].status # "none"
    BY <1>1 DEF Inv, HandlerInv, HandlerFits, TypeOK, Handler
  <1>3. row' \in [Run -> Row] /\ RowStep /\ row'[r].status \in Terminal
    BY <1>1, <1>2, FinishedFacts DEF RowStep, Terminal
  <1>4. /\ handler' \in [Server -> Handler]
        /\ \A x \in Server : handler'[x] = IF x = s THEN Idle ELSE handler[x]
    BY <1>1, <1>2 DEF Idle, Handler, Reason
  <1>5. TypeOK'
    BY <1>1, <1>3, <1>4 DEF Inv, TypeOK
  <1>6. DetachStep /\ AnswerStep
    BY <1>1, <1>3, <1>4 DEF DetachStep, AnswerStep
  <1>7. TurnInv' /\ LeaseInv'
    BY <1>1, <1>3, <1>4, RowGrows, TurnsStay DEF Alive
  <1> QED
    BY <1>1, <1>3, <1>5, <1>6, <1>7, RunsFrame DEF Inv

(* MarkReason: the reason asked for is the reason recorded.                 *)
LEMMA MarkReasonKept ==
  ASSUME Inv, NEW s \in Server, NEW r \in Run, NEW reason \in Reason, MarkReason(s, r, reason)
  PROVE  Inv'
  <1>1. /\ proc[s] = "up" /\ handler[s] = Idle /\ IsActive(r) /\ row[r].server = s
        /\ tracker[r] # "none" /\ r # NoRun
        /\ UNCHANGED <<proc, row, retries, activeBy, lease, cur, turn, worker, steers, queued,
                       results, drainQ, drainR, timers, frozen>>
    BY NamesAssumption DEF MarkReason, store, threads, queues
  <1>2. /\ tracker' \in [Run -> Mark] /\ asked' \in [Run -> SUBSET Reason]
        /\ tracker'[r] = reason /\ asked'[r] = asked[r] \cup {reason}
        /\ \A q \in Run : q # r => tracker'[q] = tracker[q] /\ asked'[q] = asked[q]
    BY DEF MarkReason, Mark, Inv, TypeOK
  <1>3. /\ handler' \in [Server -> Handler] /\ handler'[s].at = "marked" /\ handler'[s].run = r
        /\ handler'[s].reason = reason
        /\ \A x \in Server : x # s => handler'[x] = handler[x]
    BY DEF MarkReason, Handler, Inv, TypeOK
  <1>4. TypeOK'
    BY <1>1, <1>2, <1>3 DEF Inv, TypeOK
  <1>5. HandlerInv'
    <2> SUFFICES ASSUME NEW x \in Server PROVE HandlerFits(x, handler[x])'
      BY DEF HandlerInv
    <2>1. CASE x = s
      BY <1>1, <1>2, <1>3, <2>1 DEF HandlerFits, IsActive, Active
    <2>2. CASE x # s
      <3>1. HandlerFits(x, handler[x]) /\ handler[x].run \in Run \cup {NoRun}
        BY DEF Inv, HandlerInv, TypeOK, Handler
      <3>2. handler'[x] = handler[x] /\ handler[x].run # r
        BY <1>1, <1>3, <2>2, <3>1 DEF HandlerFits
      <3> QED
        BY <1>1, <1>2, <3>1, <3>2 DEF HandlerFits
    <2> QED
      BY <2>1, <2>2
  <1>6. TurnInv' /\ LeaseInv'
    BY <1>1, <1>3, TurnsStay DEF Alive, Idle
  <1>7. RunInv' /\ NameInv'
    <2>1. NameInv'
      BY <1>1 DEF Inv, NameInv
    <2>2. asked'[r] = {"timed_out"} => reason = "timed_out"
      BY <1>2
    <2>3. \A q \in Run : IsActive(q)' <=> IsActive(q)
      BY <1>1 DEF IsActive
    <2>4. row[r].status # "none"
      BY <1>1 DEF IsActive, Active
    <2> QED
      BY <1>1, <1>2, <2>1, <2>2, <2>3, <2>4 DEF Inv, RunInv
  <1>8. ActiveRunIsHeld'
    <2> SUFFICES ASSUME NEW q \in Run, IsActive(q), Alive(row[q].server)
                 PROVE  LET x == row[q].server IN
                        \/ handler'[x].run = q /\ handler'[x].at \in {"created", "starting"}
                        \/ proc[x] # "closed" /\ tracker'[q] # "none" /\ activeBy[x] = q
      BY <1>1 DEF ActiveRunIsHeld, IsActive, Alive
    <2> DEFINE x == row[q].server
    <2>1. x \in Server
      BY DEF Inv, RunInv, IsActive, Active
    <2>2. CASE handler[x].run = q /\ handler[x].at \in {"created", "starting"}
      BY <1>1, <1>3, <2>1, <2>2 DEF Idle
    <2>3. CASE proc[x] # "closed" /\ tracker[q] # "none" /\ activeBy[x] = q
      BY <1>2, <2>3, NamesAssumption DEF Reason
    <2> QED
      BY <2>2, <2>3 DEF Inv, ActiveRunIsHeld
  <1>9. TimeoutIsReported'
    BY <1>1, <1>2 DEF Inv, TimeoutIsReported, IsActive, Active
  <1> QED
    BY <1>4, <1>5, <1>6, <1>7, <1>8, <1>9 DEF Inv

(* A request that goes on or ends without a turn of its own.               *)
LEMMA MarkedKept ==
  ASSUME Inv, NEW s \in Server,
         handler[s].at \in {"idle", "queued", "marked", "between", "detach"},
         handler' = [handler EXCEPT ![s] = handler'[s]], handler'[s] \in Handler,
         HandlerFits(s, handler[s])', RowStep, DetachStep,
         UNCHANGED <<proc, retries, lease, cur, worker, results, drainR, timers, asked>>,
         row' \in [Run -> Row], tracker' \in [Run -> Mark],
         activeBy' \in [Server -> Run \cup {NoRun}], turn' \in [Server -> [Slot -> Turn]],
         steers' \in [Server -> SUBSET Entry], queued' \in [Server -> SUBSET Entry],
         drainQ' \in [Server -> Drain], frozen' \in [Server -> BOOLEAN],
         \A x \in Server, y \in Slot :
            /\ turn'[x][y].pc = turn[x][y].pc /\ turn'[x][y].kind = turn[x][y].kind
            /\ turn'[x][y].run = turn[x][y].run
  PROVE  Inv'
  <1>1. handler' \in [Server -> Handler] /\ \A x \in Server : x # s => handler'[x] = handler[x]
    BY DEF Inv, TypeOK
  <1>2. TypeOK'
    BY <1>1 DEF Inv, TypeOK
  <1>3. HandlerInv' /\ RunInv' /\ NameInv' /\ ActiveRunIsHeld' /\ TimeoutIsReported'
    BY <1>1, <1>2, HandlerFrame
  <1>4. TurnInv' /\ LeaseInv'
    BY <1>1, RowGrows, TurnsStay DEF Alive
  <1> QED
    BY <1>2, <1>3, <1>4 DEF Inv

(* TurnInterrupt names no run.                                              *)
LEMMA TurnInterruptKept ==
  ASSUME Inv, NEW s \in Server, TurnInterrupt(s)
  PROVE  Inv'
  <1>1. /\ proc[s] = "up" /\ handler[s] = Idle
        /\ UNCHANGED <<proc, row, retries, tracker, activeBy, lease, cur, turn, worker, steers,
                       queued, results, drainQ, drainR, timers, frozen, asked>>
    BY DEF TurnInterrupt, store, threads, queues
  <1>2. /\ handler' = [handler EXCEPT ![s] = handler'[s]] /\ handler'[s] \in Handler
        /\ handler'[s].at = "marked" /\ handler'[s].run = NoRun
    BY DEF TurnInterrupt, Idle, Handler, Reason, Inv, TypeOK
  <1>3. RowStep /\ DetachStep /\ HandlerFits(s, handler[s])'
    BY <1>1, <1>2 DEF RowStep, DetachStep, HandlerFits
  <1>4. handler[s].at = "idle"
    BY <1>1 DEF Idle
  <1> QED
    BY <1>1, <1>2, <1>3, <1>4, MarkedKept DEF Inv, TypeOK

(* QueueUser goes on with a request that names no run.                      *)
LEMMA QueueUserKept ==
  ASSUME Inv, NEW s \in Server, QueueUser(s)
  PROVE  Inv'
  <1>1. /\ proc[s] = "up" /\ handler[s] = Idle
        /\ queued' = [queued EXCEPT ![s] = @ \cup {User}]
        /\ UNCHANGED <<proc, row, retries, tracker, activeBy, lease, cur, turn, worker, steers,
                       results, drainQ, drainR, timers, frozen, asked>>
    BY DEF QueueUser, store, threads
  <1>2. /\ handler' = [handler EXCEPT ![s] = handler'[s]] /\ handler'[s] \in Handler
        /\ handler'[s].at = "queued" /\ handler'[s].run = NoRun
    BY <1>1 DEF QueueUser, Idle, Handler, Reason, Inv, TypeOK
  <1>3. RowStep /\ DetachStep /\ HandlerFits(s, handler[s])'
    BY <1>1, <1>2 DEF RowStep, DetachStep, HandlerFits
  <1>4. handler[s].at = "idle" /\ queued' \in [Server -> SUBSET Entry]
    BY <1>1 DEF Idle, Entry, Inv, TypeOK
  <1> QED
    BY <1>1, <1>2, <1>3, <1>4, MarkedKept DEF Inv, TypeOK

(* AnswerQueued ends it.                                                    *)
LEMMA AnswerQueuedKept ==
  ASSUME Inv, NEW s \in Server, AnswerQueued(s)
  PROVE  Inv'
  <1>1. /\ proc[s] = "up" /\ handler[s].at = "queued"
        /\ UNCHANGED <<proc, row, retries, tracker, activeBy, lease, cur, turn, worker, steers,
                       queued, results, drainR, timers, frozen, asked>>
    BY DEF AnswerQueued, store, threads
  <1>2. /\ handler' = [handler EXCEPT ![s] = handler'[s]] /\ handler'[s] \in Handler
        /\ handler'[s] = Idle
    BY <1>1 DEF AnswerQueued, Idle, Handler, Reason, Inv, TypeOK
  <1>3. RowStep /\ DetachStep /\ HandlerFits(s, handler[s])'
    BY <1>1, <1>2 DEF RowStep, DetachStep, HandlerFits, Idle
  <1>4. drainQ' \in [Server -> Drain]
    <2>1. QueueDrain(s, drainQ[s], activeBy[s], queued[s]) \in Drain
      BY QueuesWereTyped, KickTyped
    <2> QED
      BY <2>1, QueuesWereTyped DEF AnswerQueued
  <1> QED
    BY <1>1, <1>2, <1>3, <1>4, MarkedKept DEF Inv, TypeOK

(* InterruptTurn marks the current turn only.                               *)
LEMMA InterruptTurnKept ==
  ASSUME Inv, NEW s \in Server, InterruptTurn(s)
  PROVE  Inv'
  <1>1. /\ proc[s] = "up" /\ handler[s].at = "marked" /\ cur[s] # NoSlot
        /\ UNCHANGED <<proc, row, retries, tracker, activeBy, lease, cur, worker, results, drainQ,
                       drainR, timers, asked>>
    BY DEF InterruptTurn, Running, store
  <1>2. /\ handler' = [handler EXCEPT ![s] = handler'[s]] /\ handler'[s] \in Handler
        /\ handler'[s] = Idle
    BY DEF InterruptTurn, Idle, Handler, Reason, Inv, TypeOK
  <1>3. RowStep /\ DetachStep /\ HandlerFits(s, handler[s])'
    BY <1>1, <1>2 DEF RowStep, DetachStep, HandlerFits, Idle
  <1>4. /\ steers \in [Server -> SUBSET Entry] /\ queued \in [Server -> SUBSET Entry]
        /\ frozen \in [Server -> BOOLEAN] /\ turn \in [Server -> [Slot -> Turn]]
        /\ cur[s] \in Slot
    BY <1>1 DEF Inv, TypeOK
  <1>5. /\ steers' \in [Server -> SUBSET Entry] /\ queued' \in [Server -> SUBSET Entry]
        /\ frozen' \in [Server -> BOOLEAN]
    BY <1>4 DEF InterruptTurn
  <1>6. /\ turn' \in [Server -> [Slot -> Turn]]
        /\ \A x \in Server, y \in Slot :
              /\ turn'[x][y].pc = turn[x][y].pc /\ turn'[x][y].kind = turn[x][y].kind
              /\ turn'[x][y].run = turn[x][y].run
    <2>1. CASE turn' = turn
      BY <1>4, <2>1
    <2>2. CASE turn' = [turn EXCEPT ![s][cur[s]].cancelled = TRUE]
      <3> DEFINE k == cur[s]
                 t == [turn[s][k] EXCEPT !.cancelled = TRUE]
      <3>1. turn[s][k] \in Turn
        BY <1>4
      <3>2. /\ t \in Turn /\ t.pc = turn[s][k].pc /\ t.kind = turn[s][k].kind
            /\ t.run = turn[s][k].run
        BY <3>1 DEF Turn
      <3>3. turn' = [turn EXCEPT ![s][k] = t]
        BY <2>2
      <3> HIDE DEF t
      <3>4. turn' \in [Server -> [Slot -> Turn]] /\ turn'[s][k] = t /\ OnlyTurn(s, k)
        BY <1>4, <3>2, <3>3, TurnMoved DEF Inv
      <3> QED
        BY <3>2, <3>4 DEF OnlyTurn
    <2> QED
      BY <2>1, <2>2 DEF InterruptTurn
  <1> QED
    BY <1>1, <1>2, <1>3, <1>5, <1>6, MarkedKept DEF Inv, TypeOK

(* InterruptBetween: a request that names a run goes on to settle it.       *)
LEMMA InterruptBetweenKept ==
  ASSUME Inv, NEW s \in Server, InterruptBetween(s)
  PROVE  Inv'
  <1>1. /\ proc[s] = "up" /\ handler[s].at = "marked"
        /\ UNCHANGED <<proc, row, retries, tracker, activeBy, lease, cur, turn, worker, steers,
                       queued, results, drainQ, drainR, timers, asked>>
    BY DEF InterruptBetween, store, threads, queues
  <1>2. handler[s] \in Handler /\ HandlerFits(s, handler[s]) /\ handler \in [Server -> Handler]
    BY DEF Inv, TypeOK, HandlerInv
  <1>3. handler' = [handler EXCEPT ![s] = handler'[s]] /\ handler'[s] \in Handler
    BY <1>2 DEF InterruptBetween, Idle, Handler, Reason
  <1>4. HandlerFits(s, handler[s])'
    <2>1. CASE handler[s].run = NoRun
      <3>1. handler'[s] = Idle
        BY <1>2, <2>1 DEF InterruptBetween
      <3> QED
        BY <3>1 DEF HandlerFits, Idle
    <2>2. CASE handler[s].run # NoRun
      <3>1. /\ handler'[s].at = "between" /\ handler'[s].run = handler[s].run
            /\ handler'[s].reason = handler[s].reason
        BY <1>2, <2>2 DEF InterruptBetween, Handler
      <3> QED
        BY <1>1, <1>2, <2>2, <3>1 DEF HandlerFits
    <2> QED
      BY <2>1, <2>2
  <1>5. RowStep /\ DetachStep
    BY <1>1 DEF RowStep, DetachStep
  <1>6. frozen' \in [Server -> BOOLEAN]
    BY DEF InterruptBetween, Inv, TypeOK
  <1> QED
    BY <1>1, <1>3, <1>4, <1>5, <1>6, MarkedKept DEF Inv, TypeOK

(* FailBetween ends the run with the reason that was asked for.             *)
LEMMA FailBetweenKept ==
  ASSUME Inv, NEW s \in Server, FailBetween(s)
  PROVE  Inv'
  <1> DEFINE r == handler[s].run
  <1>1. /\ proc[s] = "up" /\ handler[s].at = "between" /\ row' = Finished(r, handler[s].reason)
        /\ handler' = [handler EXCEPT ![s].at = "detach"]
        /\ UNCHANGED <<proc, retries, tracker, activeBy, lease, cur, turn, worker, steers,
                       queued, results, drainQ, drainR, timers, frozen, asked>>
    BY DEF FailBetween, threads, queues
  <1>2. /\ handler[s] \in Handler /\ HandlerFits(s, handler[s]) /\ handler \in [Server -> Handler]
        /\ r \in Run /\ row[r].status # "none" /\ handler[s].reason \in asked[r]
        /\ handler[s].reason \in Terminal /\ row[r].server = s
    BY <1>1 DEF Inv, TypeOK, HandlerInv, HandlerFits, Handler, Terminal
  <1>3. row' \in [Run -> Row] /\ row'[r].status \in Terminal
    BY <1>1, <1>2, FinishedFacts
  <1>4. RowStep
    <2>1. handler[s].reason = "interrupted" => asked[r] # {"timed_out"}
      BY <1>2
    <2> QED
      BY <1>1, <1>2, <2>1, FinishedFacts DEF RowStep
  <1>5. /\ handler' = [handler EXCEPT ![s] = handler'[s]] /\ handler'[s] \in Handler
        /\ handler'[s].at = "detach" /\ handler'[s].run = r
    BY <1>1, <1>2 DEF Handler
  <1>6. HandlerFits(s, handler[s])'
    <2>1. row'[r].server = s /\ row'[r].status # "none"
      BY <1>2, <1>3, <1>4 DEF RowStep, Terminal, Reason
    <2> QED
      BY <1>1, <1>2, <1>3, <1>5, <2>1 DEF HandlerFits
  <1>7. DetachStep
    BY <1>1 DEF DetachStep
  <1> QED
    BY <1>1, <1>3, <1>4, <1>5, <1>6, <1>7, MarkedKept DEF Inv, TypeOK

(* DetachBetween detaches the run that the request has ended.               *)
LEMMA DetachBetweenKept ==
  ASSUME Inv, NEW s \in Server, DetachBetween(s)
  PROVE  Inv'
  <1> DEFINE r == handler[s].run
  <1>1. /\ handler[s].at = "detach" /\ DetachRun(s, r)
        /\ handler' = [handler EXCEPT ![s] = Idle]
        /\ UNCHANGED <<proc, row, retries, lease, cur, turn, worker, steers, queued, results,
                       drainR, timers, frozen, asked>>
    BY DEF DetachBetween, store, threads
  <1>2. /\ HandlerFits(s, handler[s]) /\ handler \in [Server -> Handler]
        /\ r \in Run /\ row[r].status \in Terminal
    BY <1>1 DEF Inv, TypeOK, HandlerInv, HandlerFits, Handler
  <1>3. /\ DetachStep /\ tracker' \in [Run -> Mark] /\ activeBy' \in [Server -> Run \cup {NoRun}]
    BY <1>1, <1>2, DetachRunFacts
  <1>4. /\ handler' = [handler EXCEPT ![s] = handler'[s]] /\ handler'[s] \in Handler
        /\ HandlerFits(s, handler[s])'
    BY <1>1, <1>2 DEF Idle, Handler, Reason, HandlerFits
  <1>5. drainQ' \in [Server -> Drain] /\ RowStep
    BY <1>1 DEF DetachBetween, QueueDrain, Drain, RowStep, Inv, TypeOK
  <1> QED
    BY <1>1, <1>3, <1>4, <1>5, MarkedKept DEF Inv, TypeOK

(* A server that a step leaves alone keeps its view of the lease.          *)
LEMMA OtherLease ==
  ASSUME Inv, NEW x \in Server, proc'[x] = proc[x], cur'[x] = cur[x], turn'[x] = turn[x],
         lease = x => lease' = lease, lease' = x => lease = x
  PROVE  LeaseFits(x)'
  <1>1. LeaseFits(x)
    BY DEF Inv, LeaseInv
  <1>2. \A y \in Slot : Owner(x, y)' <=> Owner(x, y)
    BY DEF Owner
  <1> QED
    BY <1>1, <1>2 DEF LeaseFits

(* Lapse: a dead process is forgotten.                                      *)
LEMMA LapseKept ==
  ASSUME Inv, NEW s \in Server, Lapse(s)
  PROVE  Inv'
  <1>1. /\ proc[s] = "gone" /\ proc \in [Server -> Process] /\ proc' = [proc EXCEPT ![s] = "stale"]
        /\ UNCHANGED <<row, retries, tracker, activeBy, lease, cur, turn, handler, worker, steers,
                       queued, results, drainQ, drainR, timers, frozen, asked>>
    BY DEF Lapse, store, threads, queues, Inv, TypeOK
  <1>2. proc' \in [Server -> Process] /\ \A x \in Server : proc'[x] = IF x = s THEN "stale" ELSE proc[x]
    BY <1>1 DEF Process
  <1>3. TypeOK'
    BY <1>1, <1>2 DEF Inv, TypeOK
  <1>4. TurnInv' /\ LeaseInv'
    BY <1>1, <1>2, TurnsStay DEF Alive
  <1>5. HandlerInv'
    BY <1>1, <1>2 DEF Inv, HandlerInv, HandlerFits
  <1>6. RunInv' /\ NameInv'
    BY <1>1, <1>2 DEF Inv, RunInv, NameInv, IsActive
  <1>7. ActiveRunIsHeld'
    <2> SUFFICES ASSUME NEW q \in Run, IsActive(q), Alive(row[q].server)'
                 PROVE  LET x == row[q].server IN
                        \/ handler[x].run = q /\ handler[x].at \in {"created", "starting"}
                        \/ proc'[x] # "closed" /\ tracker[q] # "none" /\ activeBy[x] = q
      BY <1>1 DEF ActiveRunIsHeld, IsActive, Alive
    <2>1. row[q].server \in Server
      BY DEF Inv, RunInv, IsActive, Active
    <2>2. Alive(row[q].server) /\ proc'[row[q].server] = proc[row[q].server]
      BY <1>1, <1>2, <2>1 DEF Alive
    <2> QED
      BY <2>2 DEF Inv, ActiveRunIsHeld
  <1>8. TimeoutIsReported'
    <2>1. \A q \in Run : row[q].status = "interrupted" => row[q].server \in Server
      BY DEF Inv, RunInv
    <2> QED
      BY <1>1, <1>2, <2>1 DEF Inv, TimeoutIsReported
  <1> QED
    BY <1>3, <1>4, <1>5, <1>6, <1>7, <1>8 DEF Inv

(* The memory of a server goes with its process.                           *)
LEMMA ForgetKept ==
  ASSUME Inv, NEW s \in Server, proc[s] \in {"up", "closing", "closed"},
         NEW p \in {"gone", "stale"}, proc' = [proc EXCEPT ![s] = p], Forget(s)
  PROVE  Inv'
  <1>1. /\ proc' \in [Server -> Process] /\ \A x \in Server : proc'[x] = IF x = s THEN p ELSE proc[x]
    BY DEF Process, Inv, TypeOK
  <1>2. /\ tracker' \in [Run -> Mark]
        /\ \A r \in Run : tracker'[r] = IF row[r].server = s THEN "none" ELSE tracker[r]
    BY DEF Forget, Mark, Inv, TypeOK
  <1>3. /\ activeBy' \in [Server -> Run \cup {NoRun}]
        /\ \A x \in Server : activeBy'[x] = IF x = s THEN NoRun ELSE activeBy[x]
    BY DEF Forget, Inv, TypeOK
  <1>4. /\ cur' \in [Server -> Slot \cup {NoSlot}]
        /\ \A x \in Server : cur'[x] = IF x = s THEN NoSlot ELSE cur[x]
    BY DEF Forget, Inv, TypeOK
  <1>5. /\ turn' \in [Server -> [Slot -> Turn]]
        /\ \A x \in Server : turn'[x] = IF x = s THEN [k \in Slot |-> FreeTurn] ELSE turn[x]
    <2>1. [k \in Slot |-> FreeTurn] \in [Slot -> Turn] /\ turn \in [Server -> [Slot -> Turn]]
      BY DEF FreeTurn, Turn, Kind, Outcome, Inv, TypeOK
    <2> QED
      BY <2>1 DEF Forget
  <1>6. /\ handler' \in [Server -> Handler]
        /\ \A x \in Server : handler'[x] = IF x = s THEN Idle ELSE handler[x]
    BY DEF Forget, Idle, Handler, Reason, Inv, TypeOK
  <1>7. UNCHANGED <<row, retries, asked>> /\ lease' = IF lease = s THEN Nobody ELSE lease
    BY DEF Forget, store
  <1>8. TypeOK'
    <2>1. /\ worker' \in [Server -> [Worker -> WorkerState]] /\ steers' \in [Server -> SUBSET Entry]
          /\ queued' \in [Server -> SUBSET Entry] /\ results' \in [Server -> SUBSET Worker]
      BY DEF Forget, WorkerState, Inv, TypeOK
    <2>2. /\ drainQ' \in [Server -> Drain] /\ drainR' \in [Server -> Drain]
          /\ timers' \in [Server -> SUBSET Queue] /\ frozen' \in [Server -> BOOLEAN]
      BY DEF Forget, Drain, Inv, TypeOK
    <2> QED
      BY <1>1, <1>2, <1>3, <1>4, <1>5, <1>6, <1>7, <2>1, <2>2 DEF Inv, TypeOK
  <1>9. HandlerInv'
    <2> SUFFICES ASSUME NEW x \in Server PROVE HandlerFits(x, handler[x])'
      BY DEF HandlerInv
    <2>1. CASE x = s
      BY <1>6, <2>1 DEF HandlerFits, Idle
    <2>2. CASE x # s
      <3>1. HandlerFits(x, handler[x]) /\ handler[x].run \in Run \cup {NoRun}
        BY DEF Inv, HandlerInv, TypeOK, Handler
      <3> QED
        BY <1>1, <1>2, <1>6, <1>7, <2>2, <3>1 DEF HandlerFits
    <2> QED
      BY <2>1, <2>2
  <1>10. TurnInv'
    <2> SUFFICES ASSUME NEW x \in Server, NEW y \in Slot PROVE TurnFits(x, turn[x][y])'
      BY DEF TurnInv
    <2>1. CASE x = s
      <3>1. turn'[x][y] = FreeTurn
        BY <1>5, <2>1
      <3> QED
        BY <3>1 DEF TurnFits, Requested, Starting, FreeTurn
    <2>2. CASE x # s
      <3>1. TurnFits(x, turn[x][y]) /\ turn'[x][y] = turn[x][y]
        BY <1>5, <2>2 DEF Inv, TurnInv
      <3> QED
        BY <1>1, <1>6, <1>7, <2>2, <3>1 DEF TurnFits, Requested, Alive
    <2> QED
      BY <2>1, <2>2
  <1>11. LeaseInv'
    <2> SUFFICES ASSUME NEW x \in Server PROVE LeaseFits(x)'
      BY DEF LeaseInv
    <2>1. CASE x = s
      BY <1>1, <1>4, <1>7, <2>1, NamesAssumption DEF LeaseFits
    <2>2. CASE x # s
      BY <1>1, <1>4, <1>5, <1>7, <2>2, NamesAssumption, OtherLease
    <2> QED
      BY <2>1, <2>2
  <1>12. RunInv' /\ NameInv'
    <2>1. \A r \in Run : IsActive(r)' <=> IsActive(r)
      BY <1>7 DEF IsActive
    <2>2. RunInv'
      BY <1>1, <1>2, <1>7, <2>1 DEF Inv, RunInv
    <2>3. NameInv'
      BY <1>3, <1>7 DEF Inv, NameInv
    <2> QED
      BY <2>2, <2>3
  <1>13. ActiveRunIsHeld'
    <2> SUFFICES ASSUME NEW q \in Run, IsActive(q), Alive(row[q].server)'
                 PROVE  LET x == row[q].server IN
                        \/ handler'[x].run = q /\ handler'[x].at \in {"created", "starting"}
                        \/ proc'[x] # "closed" /\ tracker'[q] # "none" /\ activeBy'[x] = q
      BY <1>7 DEF ActiveRunIsHeld, IsActive, Alive
    <2>1. row[q].server \in Server
      BY DEF Inv, RunInv, IsActive, Active
    <2>2. row[q].server # s /\ Alive(row[q].server)
      BY <1>1, <1>7, <2>1 DEF Alive
    <2> QED
      BY <1>1, <1>2, <1>3, <1>6, <2>1, <2>2 DEF Inv, ActiveRunIsHeld
  <1>14. TimeoutIsReported'
    <2>1. \A q \in Run : row[q].status = "interrupted" => row[q].server \in Server
      BY DEF Inv, RunInv
    <2> QED
      BY <1>1, <1>7, <2>1 DEF Inv, TimeoutIsReported
  <1> QED
    BY <1>8, <1>9, <1>10, <1>11, <1>12, <1>13, <1>14 DEF Inv

(* Boot: runs of dead processes end, runs of live ones stay.                *)
LEMMA BootKept ==
  ASSUME Inv, NEW s \in Server, Boot(s)
  PROVE  Inv'
  <1>1. /\ proc[s] = "none" /\ proc' = [proc EXCEPT ![s] = "up"] /\ proc \in [Server -> Process]
        /\ UNCHANGED <<retries, tracker, activeBy, lease, cur, turn, handler, worker, steers,
                       queued, results, drainQ, drainR, timers, frozen, asked>>
    BY DEF Boot, threads, queues, Inv, TypeOK
  <1>2. /\ proc' \in [Server -> Process]
        /\ \A x \in Server : proc'[x] = IF x = s THEN "up" ELSE proc[x]
    BY <1>1 DEF Process
  <1>3. /\ row' \in [Run -> Row]
        /\ \A r \in Run : /\ row'[r].server = row[r].server
                          /\ \/ row'[r] = row[r]
                             \/ /\ IsActive(r) /\ proc[row[r].server] = "stale"
                                /\ row'[r].status = "interrupted"
    BY DEF Boot, IsActive, Row, Terminal, Reason, Inv, TypeOK
  <1>4. \A r \in Run : row[r].status # "none" => row[r].server \in Server /\ row[r].server # s
    BY <1>1 DEF Inv, RunInv
  <1>5. \A r \in Run : /\ row[r].status # "none" => row'[r].status # "none"
                       /\ row[r].status \in Terminal => row'[r] = row[r]
                       /\ row[r].status = "none" => row'[r] = row[r]
                       /\ IsActive(r)' => row'[r] = row[r] /\ IsActive(r)
    BY <1>3 DEF IsActive, Active, Terminal, Reason
  <1>6. TypeOK'
    BY <1>1, <1>2, <1>3 DEF Inv, TypeOK
  <1>7. HandlerInv'
    <2> SUFFICES ASSUME NEW x \in Server PROVE HandlerFits(x, handler[x])'
      BY DEF HandlerInv
    <2>1. HandlerFits(x, handler[x]) /\ handler[x].run \in Run \cup {NoRun}
      BY DEF Inv, HandlerInv, TypeOK, Handler
    <2> QED
      BY <1>1, <1>2, <1>3, <1>5, <2>1 DEF HandlerFits
  <1>8. TurnInv'
    <2> SUFFICES ASSUME NEW x \in Server, NEW y \in Slot PROVE TurnFits(x, turn[x][y])'
      BY DEF TurnInv
    <2>1. TurnFits(x, turn[x][y]) /\ turn[x][y].run \in Run \cup {NoRun}
      BY DEF Inv, TurnInv, TypeOK, Turn
    <2> QED
      BY <1>1, <1>2, <1>5, <2>1 DEF TurnFits, Requested, Alive
  <1>9. LeaseInv'
    <2> SUFFICES ASSUME NEW x \in Server PROVE LeaseFits(x)'
      BY DEF LeaseInv
    <2>1. CASE x = s
      <3>1. LeaseFits(s) /\ \A y \in Slot : turn[s][y].pc = "free"
        BY <1>1 DEF Inv, LeaseInv, TurnInv, TurnFits, Alive
      <3>2. lease # s /\ cur[s] = NoSlot
        BY <1>1, <3>1 DEF LeaseFits
      <3> QED
        BY <1>1, <1>2, <2>1, <3>1, <3>2 DEF LeaseFits, Owning
    <2>2. CASE x # s
      BY <1>1, <1>2, <2>2, OtherLease
    <2> QED
      BY <2>1, <2>2
  <1>10. RunInv'
    <2> SUFFICES ASSUME NEW r \in Run
                 PROVE  /\ row'[r].status = "none" => asked[r] = {} /\ tracker[r] = "none"
                        /\ row'[r].status # "none" =>
                              row'[r].server \in Server /\ proc'[row'[r].server] # "none"
                        /\ \A q \in Run : IsActive(q)' /\ IsActive(r)' => q = r
                        /\ IsActive(r)' /\ proc'[row'[r].server] = "up"
                              /\ asked[r] = {"timed_out"} => tracker[r] = "timed_out"
      BY <1>1 DEF RunInv
    <2>1. row'[r].status = "none" <=> row[r].status = "none"
      BY <1>5
    <2>2. row[r].status # "none" => proc'[row[r].server] = proc[row[r].server]
      BY <1>2, <1>4
    <2>3. IsActive(r) => row[r].status # "none"
      BY DEF IsActive, Active
    <2> QED
      BY <1>3, <1>4, <1>5, <2>1, <2>2, <2>3 DEF Inv, RunInv
  <1>11. NameInv'
    BY <1>1, <1>5 DEF Inv, NameInv, TypeOK
  <1>12. ActiveRunIsHeld'
    <2> SUFFICES ASSUME NEW q \in Run, IsActive(q)', Alive(row[q].server)'
                 PROVE  LET x == row'[q].server IN
                        \/ handler[x].run = q /\ handler[x].at \in {"created", "starting"}
                        \/ proc'[x] # "closed" /\ tracker[q] # "none" /\ activeBy[x] = q
      BY <1>1 DEF ActiveRunIsHeld
    <2>1. IsActive(q) /\ row'[q] = row[q] /\ row[q].server \in Server /\ row[q].server # s
      BY <1>4, <1>5 DEF IsActive, Active
    <2>2. Alive(row[q].server) /\ proc'[row[q].server] = proc[row[q].server]
      BY <1>2, <2>1 DEF Alive
    <2> QED
      BY <2>1, <2>2 DEF Inv, ActiveRunIsHeld
  <1>13. TimeoutIsReported'
    <2> SUFFICES ASSUME NEW r \in Run, asked[r] = {"timed_out"}, row'[r].status = "interrupted"
                 PROVE  proc'[row'[r].server] # "up"
      BY <1>1 DEF TimeoutIsReported
    <2>1. row[r].server \in Server /\ row[r].server # s /\ row'[r].server = row[r].server
      BY <1>3, <1>4, <1>5
    <2> QED
      BY <1>2, <1>3, <2>1 DEF Inv, TimeoutIsReported
  <1> QED
    BY <1>6, <1>7, <1>8, <1>9, <1>10, <1>11, <1>12, <1>13 DEF Inv

(* BeginClose: runs stay attached and the lease stays with its turn.        *)
LEMMA BeginCloseKept ==
  ASSUME Inv, NEW s \in Server, BeginClose(s)
  PROVE  Inv'
  <1>1. /\ proc[s] = "up" /\ proc' = [proc EXCEPT ![s] = "closing"] /\ proc \in [Server -> Process]
        /\ UNCHANGED <<row, retries, tracker, activeBy, lease, cur, handler, worker, steers,
                       frozen, asked>>
        /\ handler[s] = Idle
    BY DEF BeginClose, store, Inv, TypeOK
  <1>2. /\ proc' \in [Server -> Process]
        /\ \A x \in Server : proc'[x] = IF x = s THEN "closing" ELSE proc[x]
    BY <1>1 DEF Process
  <1>3. /\ turn' \in [Server -> [Slot -> Turn]]
        /\ \A x \in Server, y \in Slot :
              /\ turn'[x][y].pc = turn[x][y].pc /\ turn'[x][y].kind = turn[x][y].kind
              /\ turn'[x][y].run = turn[x][y].run
    <2> DEFINE f == [k \in Slot |-> IF k = cur[s] THEN [turn[s][k] EXCEPT !.cancelled = TRUE]
                                                  ELSE turn[s][k]]
    <2>1. turn \in [Server -> [Slot -> Turn]]
      BY DEF Inv, TypeOK
    <2>2. turn' = [turn EXCEPT ![s] = f]
      BY DEF BeginClose
    <2>3. \A k \in Slot : /\ f[k] \in Turn /\ f[k].pc = turn[s][k].pc
                          /\ f[k].kind = turn[s][k].kind /\ f[k].run = turn[s][k].run
      <3> TAKE k \in Slot
      <3>1. turn[s][k] \in Turn
        BY <2>1
      <3>2. CASE k = cur[s]
        <4>1. f[k] = [turn[s][k] EXCEPT !.cancelled = TRUE]
          BY <3>2
        <4> HIDE DEF f
        <4> QED
          BY <3>1, <4>1 DEF Turn
      <3>3. CASE k # cur[s]
        <4>1. f[k] = turn[s][k]
          BY <3>3
        <4> QED
          BY <3>1, <4>1
      <3> QED
        BY <3>2, <3>3
    <2>4. f \in [Slot -> Turn]
      BY <2>3
    <2> HIDE DEF f
    <2>5. \A x \in Server : turn'[x] = IF x = s THEN f ELSE turn[x]
      BY <2>1, <2>2
    <2>6. turn' \in [Server -> [Slot -> Turn]]
      BY <2>1, <2>2, <2>4
    <2> QED
      BY <2>3, <2>5, <2>6
  <1>4. TypeOK'
    <2>1. /\ queued' \in [Server -> SUBSET Entry] /\ results' \in [Server -> SUBSET Worker]
          /\ drainQ' \in [Server -> Drain] /\ drainR' \in [Server -> Drain]
          /\ timers' \in [Server -> SUBSET Queue]
      BY DEF BeginClose, Drain, Inv, TypeOK
    <2> QED
      BY <1>1, <1>2, <1>3, <2>1 DEF Inv, TypeOK
  <1>5. TurnInv' /\ LeaseInv'
    BY <1>1, <1>2, <1>3, TurnsStay DEF Alive
  <1>6. HandlerInv'
    BY <1>1, <1>2 DEF Inv, HandlerInv, HandlerFits, Idle
  <1>7. RunInv' /\ NameInv'
    BY <1>1, <1>2 DEF Inv, RunInv, NameInv, IsActive
  <1>8. ActiveRunIsHeld'
    <2> SUFFICES ASSUME NEW q \in Run, IsActive(q), Alive(row[q].server)'
                 PROVE  LET x == row[q].server IN
                        \/ handler[x].run = q /\ handler[x].at \in {"created", "starting"}
                        \/ proc'[x] # "closed" /\ tracker[q] # "none" /\ activeBy[x] = q
      BY <1>1 DEF ActiveRunIsHeld, IsActive, Alive
    <2>1. row[q].server \in Server
      BY DEF Inv, RunInv, IsActive, Active
    <2>2. Alive(row[q].server) /\ (proc'[row[q].server] = "closed" => proc[row[q].server] = "closed")
      BY <1>1, <1>2, <2>1 DEF Alive
    <2> QED
      BY <2>2 DEF Inv, ActiveRunIsHeld
  <1>9. TimeoutIsReported'
    <2>1. \A q \in Run : row[q].status = "interrupted" => row[q].server \in Server
      BY DEF Inv, RunInv
    <2> QED
      BY <1>1, <1>2, <2>1 DEF Inv, TimeoutIsReported
  <1> QED
    BY <1>4, <1>5, <1>6, <1>7, <1>8, <1>9 DEF Inv

(* FinishClose: every attached run ends, and no other is active.            *)
LEMMA FinishCloseKept ==
  ASSUME Inv, NEW s \in Server, FinishClose(s)
  PROVE  Inv'
  <1>1. /\ proc[s] = "closing" /\ proc' = [proc EXCEPT ![s] = "closed"]
        /\ lease' = IF lease = s THEN Nobody ELSE lease
        /\ UNCHANGED <<retries, turn, handler, worker, steers, queued, results, drainQ, drainR, timers,
                       frozen, asked>>
    BY DEF FinishClose, queues
  <1>2. /\ proc' \in [Server -> Process]
        /\ \A x \in Server : proc'[x] = IF x = s THEN "closed" ELSE proc[x]
    BY <1>1 DEF Process, Inv, TypeOK
  <1>3. /\ row' \in [Run -> Row]
        /\ \A r \in Run :
              /\ row'[r].server = row[r].server
              /\ row'[r] = row[r] \/ (IsActive(r) /\ row'[r].status = "interrupted" /\ row[r].server = s)
              /\ IsActive(r) /\ row[r].server = s /\ tracker[r] # "none" =>
                    row'[r].status = "interrupted"
    <2>1. row \in [Run -> Row]
      BY DEF Inv, TypeOK
    <2>2. row' = [r \in Run |-> IF IsActive(r) /\ row[r].server = s /\ tracker[r] # "none"
                               THEN [row[r] EXCEPT !.status = "interrupted"] ELSE row[r]]
      BY DEF FinishClose
    <2> QED
      BY <2>1, <2>2 DEF Row, Terminal, Reason
  <1>4. /\ tracker' \in [Run -> Mark]
        /\ \A r \in Run : tracker'[r] = IF row[r].server = s THEN "none" ELSE tracker[r]
    BY DEF FinishClose, Mark, Inv, TypeOK
  <1>5. /\ activeBy' \in [Server -> Run \cup {NoRun}] /\ cur' \in [Server -> Slot \cup {NoSlot}]
        /\ \A x \in Server : /\ activeBy'[x] = IF x = s THEN NoRun ELSE activeBy[x]
                             /\ cur'[x] = IF x = s THEN NoSlot ELSE cur[x]
    BY DEF FinishClose, Inv, TypeOK
  <1>6. TypeOK'
    BY <1>1, <1>2, <1>3, <1>4, <1>5 DEF Inv, TypeOK
  <1>7. \A r \in Run : /\ row[r].status # "none" <=> row'[r].status # "none"
                       /\ row[r].status \in Terminal => row'[r] = row[r]
                       /\ IsActive(r)' => IsActive(r) /\ row'[r] = row[r]
    BY <1>3 DEF IsActive, Active, Terminal, Reason
  <1>8. handler[s] = Idle
    BY <1>1 DEF Inv, HandlerInv, HandlerFits
  <1>9. HandlerInv'
    <2> SUFFICES ASSUME NEW x \in Server PROVE HandlerFits(x, handler[x])'
      BY DEF HandlerInv
    <2>1. HandlerFits(x, handler[x]) /\ handler[x].run \in Run \cup {NoRun}
      BY DEF Inv, HandlerInv, TypeOK, Handler
    <2>2. CASE x = s
      BY <1>1, <1>8, <2>2 DEF HandlerFits, Idle
    <2>3. CASE x # s
      BY <1>1, <1>2, <1>3, <1>4, <1>7, <2>1, <2>3 DEF HandlerFits
    <2> QED
      BY <2>2, <2>3
  <1>10. TurnInv'
    <2> SUFFICES ASSUME NEW x \in Server, NEW y \in Slot PROVE TurnFits(x, turn[x][y])'
      BY DEF TurnInv
    <2>1. TurnFits(x, turn[x][y]) /\ turn[x][y].run \in Run \cup {NoRun}
      BY DEF Inv, TurnInv, TypeOK, Turn
    <2> QED
      BY <1>1, <1>2, <1>7, <2>1 DEF TurnFits, Requested, Alive
  <1>11. LeaseInv'
    <2> SUFFICES ASSUME NEW x \in Server PROVE LeaseFits(x)'
      BY DEF LeaseInv
    <2>1. CASE x = s
      BY <1>1, <1>2, <1>5, <2>1, NamesAssumption DEF LeaseFits
    <2>2. CASE x # s
      BY <1>1, <1>2, <1>5, <2>2, NamesAssumption, OtherLease
    <2> QED
      BY <2>1, <2>2
  <1>12. RunInv' /\ NameInv'
    <2>1. NameInv'
      BY <1>5, <1>7 DEF Inv, NameInv, TypeOK
    <2>2. RunInv'
      <3> SUFFICES ASSUME NEW r \in Run
                   PROVE  /\ row'[r].status = "none" => asked[r] = {} /\ tracker'[r] = "none"
                          /\ row'[r].status # "none" =>
                                row'[r].server \in Server /\ proc'[row'[r].server] # "none"
                          /\ \A q \in Run : IsActive(q)' /\ IsActive(r)' => q = r
                          /\ IsActive(r)' /\ proc'[row'[r].server] = "up"
                                /\ asked[r] = {"timed_out"} => tracker'[r] = "timed_out"
        BY <1>1 DEF RunInv
      <3>1. IsActive(r) => row[r].status # "none"
        BY DEF IsActive, Active
      <3> QED
        BY <1>2, <1>3, <1>4, <1>7, <3>1 DEF Inv, RunInv
    <2> QED
      BY <2>1, <2>2
  <1>13. ActiveRunIsHeld'
    <2> SUFFICES ASSUME NEW q \in Run, IsActive(q)', Alive(row[q].server)'
                 PROVE  LET x == row'[q].server IN
                        \/ handler[x].run = q /\ handler[x].at \in {"created", "starting"}
                        \/ proc'[x] # "closed" /\ tracker'[q] # "none" /\ activeBy'[x] = q
      BY <1>1 DEF ActiveRunIsHeld
    <2>1. /\ IsActive(q) /\ row'[q] = row[q] /\ row[q].server \in Server
          /\ row'[q].status # "interrupted"
      BY <1>7 DEF Inv, RunInv, IsActive, Active
    <2>2. Alive(row[q].server)
      BY <1>1, <1>2, <2>1 DEF Alive
    <2>3. row[q].server # s
      <3>1. row[q].server = s => tracker[q] = "none"
        BY <1>3, <2>1
      <3>2. row[q].server = s => handler[s].run # q
        BY <1>8, NamesAssumption DEF Idle
      <3> QED
        BY <2>1, <2>2, <3>1, <3>2 DEF Inv, ActiveRunIsHeld
    <2> QED
      BY <1>2, <1>4, <1>5, <2>1, <2>2, <2>3 DEF Inv, ActiveRunIsHeld
  <1>14. TimeoutIsReported'
    <2> SUFFICES ASSUME NEW r \in Run, asked[r] = {"timed_out"}, row'[r].status = "interrupted"
                 PROVE  proc'[row'[r].server] # "up"
      BY <1>1 DEF TimeoutIsReported
    <2>1. row[r].server \in Server
      BY <1>7 DEF Inv, RunInv
    <2> QED
      BY <1>2, <1>3, <2>1 DEF Inv, TimeoutIsReported
  <1> QED
    BY <1>6, <1>9, <1>10, <1>11, <1>12, <1>13, <1>14 DEF Inv

(* The initial states satisfy the invariant.                                *)
LEMMA InitialInv == Init => Inv
  <1> SUFFICES ASSUME Init PROVE Inv
    OBVIOUS
  <1>1. TypeOK
    <2>1. FreeTurn \in Turn /\ Idle \in Handler
      BY DEF FreeTurn, Turn, Kind, Outcome, Idle, Handler, Reason
    <2> QED
      BY <2>1, BoundsAssumption DEF Init, TypeOK, Process, Row, Mark, WorkerState, Drain, Queue
  <1>2. HandlerInv
    BY DEF Init, HandlerInv, HandlerFits, Idle
  <1>3. TurnInv
    BY DEF Init, TurnInv, TurnFits, Requested, Starting, FreeTurn
  <1>4. LeaseInv
    BY NamesAssumption DEF Init, LeaseInv, LeaseFits
  <1>5. RunInv /\ NameInv
    BY DEF Init, RunInv, NameInv, IsActive, Active
  <1>6. ActiveRunIsHeld /\ TimeoutIsReported
    BY DEF Init, ActiveRunIsHeld, TimeoutIsReported, IsActive, Active
  <1> QED
    BY <1>1, <1>2, <1>3, <1>4, <1>5, <1>6 DEF Inv

(* Every step keeps the invariant.                                          *)
LEMMA StepKept == Inv /\ [Next]_vars => Inv'
  <1> SUFFICES ASSUME Inv, [Next]_vars PROVE Inv'
    OBVIOUS
  <1>1. CASE UNCHANGED vars
    <2>1. TypeOK'
      BY <1>1 DEF vars, Inv, TypeOK
    <2> QED
      BY <1>1, <2>1, CoreUntouched DEF vars
  <1>2. ASSUME NEW s \in Server, Request(s) PROVE Inv'
    BY <1>2, QueueStepsKept, QueueUserKept, TurnInterruptKept, CreateRunKept, MarkReasonKept, UserTurnKept
       DEF Request
  <1>3. ASSUME NEW s \in Server, Handle(s) PROVE Inv'
    BY <1>3, AdmitRunKept, RefuseRunKept, AnswerQueuedKept, InterruptTurnKept, InterruptBetweenKept,
       FailBetweenKept, DetachBetweenKept DEF Handle
  <1>4. ASSUME NEW s \in Server, ConsumeSteers(s) \/ \E w \in Worker : Workers(s, w) PROVE Inv'
    BY <1>4, QueueStepsKept
  <1>5. ASSUME NEW s \in Server, Drains(s) PROVE Inv'
    BY <1>5, QueueStepsKept, StartQueuedKept, StartResultKept DEF Drains
  <1>6. ASSUME NEW s \in Server, Life(s) PROVE Inv'
    <2>1. CASE Boot(s) \/ Lapse(s) \/ BeginClose(s) \/ FinishClose(s)
      BY <2>1, BootKept, LapseKept, BeginCloseKept, FinishCloseKept
    <2>2. CASE Crash(s) \/ Exit(s)
      BY <2>2, ForgetKept DEF Crash, Exit
    <2> QED
      BY <1>6, <2>1, <2>2 DEF Life
  <1>7. ASSUME NEW s \in Server, NEW k \in Slot, Admission(s, k) PROVE Inv'
    BY <1>7, StartTurnKept, AbortAdmissionKept, LaunchKept, AbortLaunchKept DEF Admission
  <1>8. ASSUME NEW s \in Server, NEW k \in Slot, Tail(s, k) PROVE Inv'
    BY <1>8, EndTurnKept, SettleFailedKept, AwaitContinuationKept, SettleAnsweredKept, DetachKept,
       AdmitRetryKept, RefuseRetryKept DEF Tail
  <1> QED
    BY <1>1, <1>2, <1>3, <1>4, <1>5, <1>6, <1>7, <1>8 DEF Next

(* Every state satisfies the inductive invariant.                          *)
THEOREM RunsInvariant == Spec => []Inv
  BY InitialInv, StepKept, PTL DEF Spec

(* Every variable has its type, in particular no run is retried more than  *)
(* MaxRetries times (run_handlers.go:303-316).                             *)
THEOREM RunsTypes == Spec => []TypeOK
  <1>1. Inv => TypeOK
    BY DEF Inv
  <1> QED
    BY <1>1, RunsInvariant, PTL

(* An active run of a live process is with its starter or attached under   *)
(* the thread's name (run_handlers.go:283-289, 446-485).                   *)
THEOREM ActiveRunsAreHeld == Spec => []ActiveRunIsHeld
  <1>1. Inv => ActiveRunIsHeld
    BY DEF Inv
  <1> QED
    BY <1>1, RunsInvariant, PTL

(* A timed-out run is not reported as interrupted while its server is up   *)
(* (run_handlers.go:194-197).                                              *)
THEOREM TimeoutsAreReported == Spec => []TimeoutIsReported
  <1>1. Inv => TimeoutIsReported
    BY DEF Inv
  <1> QED
    BY <1>1, RunsInvariant, PTL

(* The thread's lease has exactly one turn to give it back                 *)
(* (turn_execution_lease.go:21-50, 161-235).                               *)
THEOREM LeasesAreOwned == Spec => []LeaseIsOwned
  <1>1. Inv => LeaseIsOwned
    <2> SUFFICES ASSUME Inv PROVE LeaseIsOwned
      OBVIOUS
    <2>1. \A s \in Server : LeaseFits(s)
      BY DEF Inv, LeaseInv
    <2>2. lease # Nobody => lease \in Server
      BY DEF Inv, TypeOK
    <2>3. ASSUME NEW s \in Server, lease = s, NEW j \in Slot, NEW k \in Slot,
                 Owner(s, j), Owner(s, k)
          PROVE  j = k
      BY <2>1, <2>3 DEF LeaseFits, Owner
    <2> QED
      BY <2>1, <2>2, <2>3 DEF LeaseIsOwned, LeaseFits
  <1> QED
    BY <1>1, RunsInvariant, PTL

-----------------------------------------------------------------------------
(* The user's queue stays awake.                                           *)

(* Nothing is queued before a server boots.                                *)
FreshInv == \A s \in Server : proc[s] = "none" => queued[s] = {}

(* What the queue of server s is woken by does not change.                 *)
Untouched(s) ==
    /\ proc'[s] = proc[s] /\ queued'[s] = queued[s] /\ activeBy'[s] = activeBy[s]
    /\ turn'[s] = turn[s] /\ drainQ'[s] = drainQ[s] /\ handler'[s] = handler[s]
    /\ timers'[s] = timers[s]

(* One of the three ways to lose what would look at the queue.              *)
Lost(s) == KickIsLost(s) \/ StartIsGivenUp(s) \/ AnswerIsLost(s)

(* A step of server s as an action of one of the kinds of Next.            *)
StepOf(s) ==
    \/ Request(s) \/ Handle(s) \/ ConsumeSteers(s) \/ Drains(s) \/ Life(s)
    \/ \E k \in Slot : Admission(s, k) \/ Tail(s, k)
    \/ \E w \in Worker : Workers(s, w)

(* The types that the leaves below use.                                    *)
LEMMA QueueTypes ==
  ASSUME Inv
  PROVE  /\ proc \in [Server -> Process] /\ queued \in [Server -> SUBSET Entry]
         /\ activeBy \in [Server -> Run \cup {NoRun}] /\ turn \in [Server -> [Slot -> Turn]]
         /\ drainQ \in [Server -> Drain] /\ handler \in [Server -> Handler]
         /\ cur \in [Server -> Slot \cup {NoSlot}] /\ timers \in [Server -> SUBSET Queue]
         /\ NoSlot \notin Slot
         /\ \A x \in Server : cur[x] # NoSlot => turn[x][cur[x]].pc # "free"
  BY NamesAssumption DEF Inv, TypeOK, LeaseInv, LeaseFits, Owning

(* A step of another server leaves the queue of s alone.                   *)
LEMMA OtherUntouched ==
  ASSUME Inv, NEW x \in Server, NEW s \in Server, x # s, StepOf(x)
  PROVE  Untouched(s)
  <1> USE QueueTypes DEF Untouched
  <1>1. CASE Request(x)
    <2>1. CASE QueueUser(x) \/ SteerUser(x) \/ TurnInterrupt(x)
      BY <2>1 DEF QueueUser, SteerUser, TurnInterrupt, store, threads, queues
    <2>2. CASE \E r \in Run : CreateRun(x, r)
      BY <2>2 DEF CreateRun, threads, queues
    <2>3. CASE \E r \in Run, reason \in Reason : MarkReason(x, r, reason)
      BY <2>3 DEF MarkReason, threads, queues
    <2>4. CASE \E k \in Slot : UserTurn(x, k)
      BY <2>4 DEF UserTurn, Admit, Admissible, store
    <2> QED
      BY <1>1, <2>1, <2>2, <2>3, <2>4 DEF Request
  <1>2. CASE Handle(x)
    <2>1. CASE \E k \in Slot : AdmitRun(x, k)
      BY <2>1 DEF AdmitRun, Admit, Admissible, store
    <2>2. CASE RefuseRun(x) \/ FailBetween(x) \/ AnswerQueued(x)
      BY <2>2 DEF RefuseRun, FailBetween, AnswerQueued, threads, queues
    <2>3. CASE InterruptTurn(x)
      BY <2>3 DEF InterruptTurn, store
    <2>4. CASE InterruptBetween(x)
      BY <2>4 DEF InterruptBetween, threads, queues
    <2>5. CASE DetachBetween(x)
      BY <2>5 DEF DetachBetween, DetachRun, threads
    <2> QED
      BY <1>2, <2>1, <2>2, <2>3, <2>4, <2>5 DEF Handle
  <1>3. CASE ConsumeSteers(x) \/ \E w \in Worker : Workers(x, w)
    BY <1>3 DEF ConsumeSteers, Workers, SpawnWorker, WorkerEnds, WorkerAcked, store, threads, queues
  <1>4. CASE Drains(x)
    <2>1. CASE \E k \in Slot : StartQueued(x, k) \/ StartResult(x, k)
      BY <2>1 DEF StartQueued, StartResult, Admit
    <2>2. CASE DrainQueue(x)
      BY <2>2 DEF DrainQueue, CheckQueue, TakeNothing, PutBack, AwaitLease, StopQueue, DrainAgain,
                  RetryQueue, QueueStep, threads
    <2>3. CASE DrainResults(x)
      BY <2>3 DEF DrainResults, CheckResults, LookAround, TakeNoResult, PutResultBack,
                  AwaitLeaseForResult, StopResults, DrainResultsAgain, YieldToQueue,
                  RetryResults, ResultStep, threads
    <2> QED
      BY <1>4, <2>1, <2>2, <2>3 DEF Drains
  <1>5. CASE Life(x)
    <2>1. CASE Boot(x) \/ Lapse(x)
      BY <2>1 DEF Boot, Lapse, threads, queues
    <2>2. CASE Crash(x) \/ Exit(x)
      BY <2>2 DEF Crash, Exit, Forget
    <2>3. CASE BeginClose(x) \/ FinishClose(x)
      BY <2>3 DEF BeginClose, FinishClose, queues
    <2> QED
      BY <1>5, <2>1, <2>2, <2>3 DEF Life
  <1>6. ASSUME NEW k \in Slot, Admission(x, k) PROVE Untouched(s)
    <2>1. CASE StartTurn(x, k)
      BY <2>1 DEF StartTurn
    <2>2. CASE AbortAdmission(x, k)
      BY <2>2 DEF AbortAdmission, StarterDone
    <2>3. CASE Launch(x, k)
      BY <2>3 DEF Launch, StarterDone
    <2>4. CASE AbortLaunch(x, k)
      BY <2>4 DEF AbortLaunch, StarterDone, ReleaseLease
    <2> QED
      BY <1>6, <2>1, <2>2, <2>3, <2>4 DEF Admission
  <1>7. ASSUME NEW k \in Slot, Tail(x, k) PROVE Untouched(s)
    <2>1. CASE EndTurn(x, k)
      BY <2>1 DEF EndTurn
    <2>2. CASE EndAbandoned(x, k) \/ AwaitContinuation(x, k)
      BY <2>2 DEF EndAbandoned, AwaitContinuation, queues
    <2>3. CASE SettleFailed(x, k)
      BY <2>3 DEF SettleFailed, SettleAs, queues
    <2>4. CASE SettleAnswered(x, k)
      BY <2>4 DEF SettleAnswered, SettleAs, queues
    <2>5. CASE Detach(x, k) \/ DetachDropped(x, k)
      BY <2>5 DEF Detach, DetachDropped, DetachRun, queues
    <2>6. CASE Kick(x, k) \/ RefuseRetry(x, k)
      BY <2>6 DEF Kick, RefuseRetry, queues
    <2>7. CASE AdmitRetry(x, k)
      BY <2>7 DEF AdmitRetry, Admissible, queues
    <2> QED
      BY <1>7, <2>1, <2>2, <2>3, <2>4, <2>5, <2>6, <2>7 DEF Tail
  <1> QED
    BY <1>1, <1>2, <1>3, <1>4, <1>5, <1>6, <1>7 DEF StepOf

(* A step that takes no waker of the queue away.                           *)
LEMMA WakersStay ==
  ASSUME NEW s \in Server, QueueAwake(s), proc'[s] = proc[s], activeBy'[s] = activeBy[s],
         queued'[s] # {} => queued[s] # {},
         \A k \in Slot : turn'[s][k].pc = "free" => turn[s][k].pc = "free",
         drainQ'[s] \in {"idle", "stop"} => drainQ[s] \in {"idle", "stop"},
         "turns" \in timers[s] => "turns" \in timers'[s],
         handler[s].at \in {"queued", "detach"} => handler'[s].at \in {"queued", "detach"}
  PROVE  QueueAwake(s)'
  BY DEF QueueAwake, QueueWaker

(* A turn that has not ended, a busy drain, a timer, a request or an active *)
(* run keeps it awake.                                                      *)
LEMMA WakersThere ==
  ASSUME NEW s \in Server,
         \/ proc'[s] # "up" \/ queued'[s] = {} \/ activeBy'[s] # NoRun
         \/ (\E k \in Slot : turn'[s][k].pc # "free")
         \/ drainQ'[s] \notin {"idle", "stop"} \/ "turns" \in timers'[s]
         \/ handler'[s].at \in {"queued", "detach"}
  PROVE  QueueAwake(s)'
  BY DEF QueueAwake, QueueWaker

(* A kick keeps it awake, unless it meets a drain that has decided to stop. *)
LEMMA KickWakes ==
  ASSUME Inv, NEW s \in Server, proc'[s] = proc[s],
         drainQ' = [drainQ EXCEPT ![s] = QueueDrain(s, drainQ[s], activeBy'[s], queued'[s])],
         ~KickIsLost(s)
  PROVE  QueueAwake(s)'
  BY QueueTypes, WakersThere DEF QueueDrain, KickIsLost, QueueAwake

(* A request does not put its server's queue to sleep.                      *)
LEMMA OwnRequest ==
  ASSUME Inv, NEW s \in Server, Request(s), QueueAwake(s)
  PROVE  QueueAwake(s)'
  <1> USE QueueTypes
  <1>1. CASE QueueUser(s)
    <2>1. handler'[s].at = "queued"
      BY <1>1 DEF QueueUser, Handler
    <2> QED
      BY <2>1, WakersThere
  <1>2. CASE SteerUser(s)
    <2>1. turn'[s][cur[s]].pc # "free" /\ cur[s] \in Slot
      BY <1>2 DEF SteerUser, Running, threads
    <2> QED
      BY <2>1, WakersThere
  <1>3. CASE TurnInterrupt(s)
    BY <1>3, WakersStay DEF TurnInterrupt, threads, queues, Idle
  <1>4. CASE \E r \in Run : CreateRun(s, r)
    BY <1>4, WakersStay DEF CreateRun, threads, queues, Idle
  <1>5. CASE \E r \in Run, reason \in Reason : MarkReason(s, r, reason)
    BY <1>5, WakersStay DEF MarkReason, threads, queues, Idle
  <1>6. CASE \E k \in Slot : UserTurn(s, k)
    <2>1. \E k \in Slot : turn'[s][k].pc # "free"
      BY <1>6 DEF UserTurn, Admit, FreeTurn
    <2> QED
      BY <2>1, WakersThere
  <1> QED
    BY <1>1, <1>2, <1>3, <1>4, <1>5, <1>6 DEF Request

(* Neither does the rest of a request, unless its kick or its answer is lost. *)
LEMMA OwnHandle ==
  ASSUME Inv, NEW s \in Server, Handle(s), QueueAwake(s), ~Lost(s)
  PROVE  QueueAwake(s)'
  <1> USE QueueTypes
  <1>1. CASE \E k \in Slot : AdmitRun(s, k)
    <2>1. \E k \in Slot : turn'[s][k].pc # "free"
      BY <1>1 DEF AdmitRun, Admit, FreeTurn
    <2> QED
      BY <2>1, WakersThere
  <1>2. CASE RefuseRun(s)
    BY <1>2, WakersStay DEF RefuseRun, threads, queues
  <1>3. CASE InterruptTurn(s)
    <2>1. CASE queued'[s] = {}
      BY <2>1, WakersThere
    <2>2. CASE queued'[s] # {}
      <3>1. turn'[s][cur[s]].pc # "free" /\ cur[s] \in Slot
        BY <1>3, <2>2 DEF InterruptTurn, Running
      <3> QED
        BY <3>1, WakersThere
    <2> QED
      BY <2>1, <2>2
  <1>4. CASE InterruptBetween(s)
    BY <1>4, WakersStay DEF InterruptBetween, threads, queues
  <1>5. CASE FailBetween(s)
    BY <1>5, WakersThere DEF FailBetween, Handler
  <1>6. CASE DetachBetween(s)
    BY <1>6, KickWakes DEF DetachBetween, Lost
  <1>7. CASE AnswerQueued(s)
    <2>1. drainQ' = [drainQ EXCEPT ![s] = QueueDrain(s, drainQ[s], activeBy[s], queued[s])]
      BY <1>7 DEF AnswerQueued, Lost, AnswerIsLost
    <2> QED
      BY <1>7, <2>1, KickWakes DEF AnswerQueued, Lost
  <1> QED
    BY <1>1, <1>2, <1>3, <1>4, <1>5, <1>6, <1>7 DEF Handle

(* The queue's drain keeps it awake, unless its kick is lost: it stops only *)
(* for a turn that runs or a queue that is empty.                           *)
LEMMA OwnDrainQueue ==
  ASSUME Inv, NEW s \in Server, DrainQueue(s), QueueAwake(s), ~Lost(s)
  PROVE  QueueAwake(s)'
  <1> USE QueueTypes
  <1>1. CASE CheckQueue(s)
    <2>1. CASE Running(s)
      <3>1. turn'[s][cur[s]].pc # "free" /\ cur[s] \in Slot
        BY <1>1, <2>1 DEF CheckQueue, QueueStep, Running, threads
      <3> QED
        BY <3>1, WakersThere
    <2>2. CASE ~Running(s)
      BY <1>1, <2>2, WakersThere DEF CheckQueue, QueueStep
    <2> QED
      BY <2>1, <2>2
  <1>2. CASE TakeNothing(s)
    BY <1>2, WakersThere DEF TakeNothing, QueueStep
  <1>3. CASE PutBack(s)
    BY <1>3, WakersThere DEF PutBack, QueueStep
  <1>4. CASE AwaitLease(s)
    BY <1>4, WakersThere DEF AwaitLease
  <1>5. CASE StopQueue(s)
    BY <1>5 DEF StopQueue, QueueStep, Lost, KickIsLost
  <1>6. CASE DrainAgain(s)
    BY <1>6 DEF DrainAgain, QueueStep, QueueDrain, QueueAwake, QueueWaker
  <1>7. CASE RetryQueue(s)
    BY <1>7, KickWakes DEF RetryQueue, Lost
  <1> QED
    BY <1>1, <1>2, <1>3, <1>4, <1>5, <1>6, <1>7 DEF DrainQueue

(* The results' drain takes no waker of the queue away.                     *)
LEMMA OwnDrainResults ==
  ASSUME Inv, NEW s \in Server, DrainResults(s), QueueAwake(s)
  PROVE  QueueAwake(s)'
  <1> USE QueueTypes
  <1>1. CASE YieldToQueue(s)
    <2>1. drainQ'[s] \in {"idle", "stop"} => drainQ[s] \in {"idle", "stop"}
      BY <1>1 DEF YieldToQueue, QueueDrain
    <2> QED
      BY <1>1, <2>1, WakersStay DEF YieldToQueue, threads
  <1>2. CASE AwaitLeaseForResult(s)
    BY <1>2, WakersStay DEF AwaitLeaseForResult, threads
  <1>3. CASE RetryResults(s)
    BY <1>3, WakersStay DEF RetryResults, threads
  <1>4. CASE \/ CheckResults(s) \/ LookAround(s) \/ TakeNoResult(s) \/ PutResultBack(s)
             \/ StopResults(s) \/ DrainResultsAgain(s)
    <2>1. UNCHANGED <<proc, activeBy, queued, turn, drainQ, timers, handler>>
      BY <1>4 DEF CheckResults, LookAround, TakeNoResult, PutResultBack, StopResults,
                  DrainResultsAgain, ResultStep, threads
    <2> QED
      BY <2>1, WakersStay
  <1> QED
    BY <1>1, <1>2, <1>3, <1>4 DEF DrainResults

(* Neither does a drain, an agent or a worker.                              *)
LEMMA OwnDrains ==
  ASSUME Inv, NEW s \in Server, QueueAwake(s), ~Lost(s),
         Drains(s) \/ ConsumeSteers(s) \/ \E w \in Worker : Workers(s, w)
  PROVE  QueueAwake(s)'
  <1> USE QueueTypes
  <1>1. CASE ConsumeSteers(s) \/ \E w \in Worker : Workers(s, w)
    <2>1. UNCHANGED <<proc, activeBy, queued, turn, drainQ, timers, handler>>
      BY <1>1 DEF ConsumeSteers, Workers, SpawnWorker, WorkerEnds, WorkerAcked, store, threads,
                  queues
    <2> QED
      BY <2>1, WakersStay
  <1>2. CASE \E k \in Slot : StartQueued(s, k) \/ StartResult(s, k)
    <2>1. PICK k \in Slot : StartQueued(s, k) \/ StartResult(s, k)
      BY <1>2
    <2>2. turn'[s][k].pc = "admitted"
      <3>1. CASE StartQueued(s, k)
        BY <3>1 DEF StartQueued, Admit, FreeTurn
      <3>2. CASE StartResult(s, k)
        BY <3>2 DEF StartResult, Admit, FreeTurn
      <3> QED
        BY <2>1, <3>1, <3>2
    <2> QED
      BY <2>2, WakersThere
  <1> QED
    BY <1>1, <1>2, OwnDrainQueue, OwnDrainResults DEF Drains

(* Neither does a server that boots or stops.                               *)
LEMMA OwnLife ==
  ASSUME Inv, FreshInv, NEW s \in Server, Life(s), QueueAwake(s)
  PROVE  QueueAwake(s)'
  <1> USE QueueTypes
  <1>1. CASE Boot(s)
    <2>1. queued'[s] = {}
      BY <1>1 DEF Boot, queues, FreshInv
    <2> QED
      BY <2>1, WakersThere
  <1>2. CASE Crash(s) \/ Exit(s) \/ Lapse(s) \/ BeginClose(s) \/ FinishClose(s)
    <2>1. proc'[s] # "up"
      BY <1>2 DEF Crash, Exit, Lapse, BeginClose, FinishClose
    <2> QED
      BY <2>1, WakersThere
  <1> QED
    BY <1>1, <1>2 DEF Life

(* A turn on its way to its launch keeps the queue awake, unless it is      *)
(* given up; the queue's own turn then kicks it again.                      *)
LEMMA OwnAdmission ==
  ASSUME Inv, NEW s \in Server, NEW k \in Slot, Admission(s, k), QueueAwake(s), ~Lost(s)
  PROVE  QueueAwake(s)'
  <1> USE QueueTypes
  <1>1. CASE StartTurn(s, k) \/ Launch(s, k)
    <2>1. turn'[s][k].pc # "free"
      BY <1>1 DEF StartTurn, Launch, Turn
    <2> QED
      BY <2>1, WakersThere
  <1>2. CASE AbortAdmission(s, k) \/ AbortLaunch(s, k)
    <2>1. /\ turn[s][k].pc \in {"admitted", "started"} /\ StarterDone(s, k)
          /\ proc'[s] = proc[s]
      BY <1>2 DEF AbortAdmission, AbortLaunch
    <2>2. CASE proc[s] # "up"
      BY <2>1, <2>2, WakersThere
    <2>3. CASE proc[s] = "up" /\ turn[s][k].kind = "queued"
      BY <2>1, <2>3, WakersThere DEF StarterDone
    <2>4. CASE turn[s][k].kind # "queued"
      <3>1. turn'[s][k].pc # "free"
        BY <2>1, <2>4 DEF Lost, StartIsGivenUp
      <3> QED
        BY <3>1, WakersThere
    <2> QED
      BY <2>2, <2>3, <2>4
  <1> QED
    BY <1>1, <1>2 DEF Admission

(* A tail keeps the queue awake until its last step wakes it.               *)
LEMMA OwnTail ==
  ASSUME Inv, NEW s \in Server, NEW k \in Slot, Tail(s, k), QueueAwake(s), ~Lost(s)
  PROVE  QueueAwake(s)'
  <1> USE QueueTypes
  <1>0. turn[s][k] \in Turn /\ turn[s][k].run \in Run \cup {NoRun}
    BY DEF Turn
  <1>1. CASE EndAbandoned(s, k)
    <2>1. proc[s] # "up"
      BY <1>1 DEF EndAbandoned, Inv, LeaseInv, LeaseFits, Owning
    <2>2. proc'[s] # "up"
      BY <1>1, <2>1 DEF EndAbandoned
    <2> QED
      BY <2>2, WakersThere
  <1>2. CASE Kick(s, k)
    BY <1>2, KickWakes DEF Kick, Lost
  <1>3. CASE DetachDropped(s, k)
    BY <1>3, KickWakes DEF DetachDropped, Lost
  <1>4. CASE \/ EndTurn(s, k) \/ SettleFailed(s, k) \/ AwaitContinuation(s, k)
             \/ SettleAnswered(s, k) \/ Detach(s, k) \/ AdmitRetry(s, k) \/ RefuseRetry(s, k)
    <2>1. turn'[s][k].pc # "free"
      <3>1. CASE EndTurn(s, k)
        BY <1>0, <3>1 DEF EndTurn, TailAt, FreeTurn
      <3>2. CASE SettleFailed(s, k)
        BY <1>0, <3>2, TailTyped DEF SettleFailed, SettleAs
      <3>3. CASE SettleAnswered(s, k)
        BY <1>0, <3>3, TailTyped DEF SettleAnswered, SettleAs
      <3>4. CASE AwaitContinuation(s, k) \/ Detach(s, k)
        BY <1>0, <3>4, TailTyped DEF AwaitContinuation, Detach
      <3>5. CASE AdmitRetry(s, k)
        BY <3>5 DEF AdmitRetry, FreeTurn
      <3>6. CASE RefuseRetry(s, k)
        BY <1>0, <3>6 DEF RefuseRetry, Turn
      <3> QED
        BY <1>4, <3>1, <3>2, <3>3, <3>4, <3>5, <3>6
    <2> QED
      BY <2>1, WakersThere
  <1> QED
    BY <1>1, <1>2, <1>3, <1>4 DEF Tail

(* A server that takes a step has booted.                                  *)
LEMMA OwnProcess ==
  ASSUME Inv, NEW s \in Server, StepOf(s)
  PROVE  proc'[s] # "none"
  <1> USE QueueTypes
  <1>1. CASE Life(s)
    BY <1>1 DEF Life, Boot, Crash, Lapse, BeginClose, FinishClose, Exit
  <1>2. CASE Request(s)
    BY <1>2 DEF Request, QueueUser, SteerUser, TurnInterrupt, CreateRun, MarkReason, UserTurn
  <1>3. CASE Handle(s)
    BY <1>3 DEF Handle, AdmitRun, RefuseRun, InterruptTurn, InterruptBetween, FailBetween,
       DetachBetween, AnswerQueued
  <1>4. CASE ConsumeSteers(s) \/ Drains(s)
    <2>1. proc[s] # "none"
      BY <1>4 DEF ConsumeSteers, Drains, StartQueued, StartResult, DrainQueue, CheckQueue,
         TakeNothing, PutBack, AwaitLease, StopQueue, DrainAgain, RetryQueue, QueueStep,
         DrainResults, CheckResults, LookAround, TakeNoResult, PutResultBack,
         AwaitLeaseForResult, StopResults, DrainResultsAgain, YieldToQueue, RetryResults,
         ResultStep, Alive
    <2>2. proc' = proc
      BY <1>4, DrainQueueTyped, DrainResultsTyped DEF ConsumeSteers, Drains, StartQueued,
         StartResult
    <2> QED
      BY <2>1, <2>2
  <1>5. CASE \E w \in Worker : Workers(s, w)
    BY <1>5 DEF Workers, SpawnWorker, WorkerEnds, WorkerAcked, Alive
  <1>6. ASSUME NEW k \in Slot, Admission(s, k) PROVE proc'[s] # "none"
    BY <1>6 DEF Admission, StartTurn, AbortAdmission, Launch, AbortLaunch, Alive
  <1>7. ASSUME NEW k \in Slot, Tail(s, k) PROVE proc'[s] # "none"
    BY <1>7 DEF Tail, EndTurn, EndAbandoned, SettleFailed, AwaitContinuation, SettleAnswered,
       Detach, Kick, AdmitRetry, RefuseRetry, DetachDropped, Alive
  <1> QED
    BY <1>1, <1>2, <1>3, <1>4, <1>5, <1>6, <1>7 DEF StepOf

(* A server that has not booted has nothing queued.                         *)
LEMMA FreshStep == Inv /\ FreshInv /\ [Next]_vars => FreshInv'
  <1> SUFFICES ASSUME Inv, FreshInv, [Next]_vars, NEW s \in Server, proc'[s] = "none"
               PROVE  queued'[s] = {}
    BY DEF FreshInv
  <1> USE QueueTypes
  <1>1. CASE UNCHANGED vars
    BY <1>1 DEF vars, FreshInv
  <1>2. ASSUME NEW x \in Server, StepOf(x) PROVE queued'[s] = {}
    <2>1. CASE x # s
      BY <1>2, <2>1, OtherUntouched DEF Untouched, FreshInv
    <2>2. CASE x = s
      BY <1>2, <2>2, OwnProcess
    <2> QED
      BY <2>1, <2>2
  <1> QED
    BY <1>1, <1>2 DEF Next, StepOf

(* The user's queue is put to sleep in three ways only: a kick that meets a *)
(* drain between its decision to stop and the clearing of its flag, a start *)
(* given up before its launch, and a request that cannot be answered        *)
(* (turn_handlers.go:488-494, 2330-2352, 2661-2740).                        *)
THEOREM QueueSleepsInThreeWays == Spec => QueueStaysAwake
  <1>1. Init => FreshInv
    BY DEF Init, FreshInv
  <1>2. Inv /\ FreshInv /\ [Next]_vars =>
           [\A s \in Server : QueueAwake(s) /\ ~QueueAwake(s)' =>
               KickIsLost(s) \/ StartIsGivenUp(s) \/ AnswerIsLost(s)]_vars
    <2> SUFFICES ASSUME Inv, FreshInv, Next, NEW s \in Server, QueueAwake(s), ~QueueAwake(s)',
                        ~Lost(s)
                 PROVE  FALSE
      BY DEF Lost
    <2>1. PICK x \in Server : StepOf(x)
      BY DEF Next, StepOf
    <2>2. CASE x # s
      <3>1. Untouched(s)
        BY <2>1, <2>2, OtherUntouched
      <3> QED
        BY <3>1, WakersStay DEF Untouched
    <2>3. CASE x = s
      BY <2>1, <2>3, OwnRequest, OwnHandle, OwnDrains, OwnLife, OwnAdmission, OwnTail DEF StepOf
    <2> QED
      BY <2>2, <2>3
  <1>3. Inv /\ FreshInv /\ [Next]_vars => FreshInv'
    BY FreshStep
  <1>4. Spec => [](Inv /\ FreshInv)
    BY <1>1, <1>3, InitialInv, StepKept, PTL DEF Spec
  <1> QED
    BY <1>2, <1>4, PTL DEF Spec, QueueStaysAwake
=============================================================================
