------------------------- MODULE ProviderCoordinator -------------------------
(***************************************************************************)
(* Admission of provider requests                                          *)
(* (internal/providers/provider_coordinator.go): every request of one      *)
(* account (a scope) takes a lease before it goes out.  At most            *)
(* MaxInFlight leases are out, Reserved of them for foreground work only;  *)
(* a rate limit silences the scope for a while, repeated failures open a   *)
(* circuit, and after either the waiters are let in one by one.            *)
(*                                                                         *)
(* Each critical section of the coordinator's mutex is one action.  What a *)
(* caller does outside of it (the select of Acquire, a cancelled context,  *)
(* the goroutine of a timer) interleaves freely.  Scopes share nothing but *)
(* the mutex, so one scope is modelled.                                    *)
(*                                                                         *)
(* A deadline is kept as the number of ticks until it: 0 has passed,       *)
(* Unset is Go's zero time.                                                *)
(***************************************************************************)
EXTENDS Integers, FiniteSets

CONSTANTS
  Caller,            \* goroutines that call Acquire, again and again
  Priority,          \* 1 best effort, 2 background, 3 interactive, 4 critical
  MaxInFlight,       \* slots of the scope
  Reserved,          \* slots that only foreground work may fill
  Threshold,         \* failures in a row that open the circuit
  CircuitOpen,       \* ticks it stays open
  Delays,            \* cool-downs that rate limits ask for, already capped
  AgingInterval,     \* ticks of waiting that raise a priority by one
  RecoveryInterval,  \* ticks between two admissions while recovering
  MaxLate,           \* bound: timer functions waiting for the mutex
  MaxGeneration      \* bound: times the circuit opens

(* normalizeProviderCoordinatorConfig.                                     *)
ASSUME CallerAssumption == IsFiniteSet(Caller) /\ Priority \in [Caller -> 1 .. 4]
ASSUME SlotAssumption == MaxInFlight \in Nat \ {0} /\ Reserved \in 0 .. MaxInFlight - 1
ASSUME IntervalAssumption ==
  /\ Threshold \in Nat \ {0} /\ CircuitOpen \in Nat \ {0} /\ Delays \subseteq Nat \ {0}
  /\ AgingInterval \in Nat \ {0} /\ RecoveryInterval \in Nat \ {0}
ASSUME BoundAssumption == MaxLate \in Nat \ {0} /\ MaxGeneration \in Nat

Foreground == {r \in Caller : Priority[r] >= 3}
LowCapacity == MaxInFlight - Reserved
Unset == -1

VARIABLES
  sc,         \* providerScopeState
  late,       \* timer functions that will run and are not behind sc.timer
  pc,         \* where each caller is
  cancelled,  \* callers whose context is done
  granted,    \* callers with a lease in their ready channel
  leaseGen,   \* ProviderLease.generation
  waited,     \* ticks since waiter.enqueued
  ahead,      \* callers that queued with a smaller waiter.id
  quiet,      \* history: ticks of silence the failures so far asked for
  tripped,    \* history: leases that were out when the circuit opened
  since       \* history: ticks since the last admission

callerVars == <<pc, cancelled, waited, ahead>>
vars == <<sc, late, callerVars, granted, leaseGen, quiet, tripped, since>>

Smaller(a, b) == IF a < b THEN a ELSE b
Larger(a, b) == IF a > b THEN a ELSE b

Leases == granted \cup {r \in Caller : pc[r] \in {"holding", "returning"}}

Init ==
  /\ sc = [inFlight |-> 0, failures |-> 0, cooldown |-> Unset, circuit |-> Unset,
           generation |-> 0, recovering |-> FALSE, next |-> 0, queue |-> {},
           timer |-> Unset, ticking |-> FALSE]
  /\ late = 0
  /\ pc = [r \in Caller |-> "idle"]
  /\ cancelled = {} /\ granted = {} /\ tripped = {}
  /\ leaseGen = [r \in Caller |-> 0]
  /\ waited = [r \in Caller |-> 0]
  /\ ahead = [r \in Caller |-> {}]
  /\ quiet = 0 /\ since = 0

-----------------------------------------------------------------------------
(* The timer of the scope.                                                 *)

(* armTimerLocked.  Stop has no effect on a function that already runs.    *)
Arm(s, when) ==
  IF s.timer # Unset /\ when >= s.timer THEN s
  ELSE [s EXCEPT !.timer = when, !.ticking = TRUE]

Disarm(s) == [s EXCEPT !.timer = Unset, !.ticking = FALSE]

-----------------------------------------------------------------------------
(* scheduleLocked.                                                         *)

Gate(s) == Larger(s.cooldown, s.circuit)

(* A gate that passed is cleared; those who waited for it are let in one   *)
(* by one.                                                                 *)
Opened(s) ==
  LET burst == (s.cooldown # Unset \/ s.circuit # Unset) /\ s.queue # {} IN
  [s EXCEPT !.cooldown = Unset, !.circuit = Unset,
            !.recovering = @ \/ burst, !.next = IF burst THEN 0 ELSE @]

EffectivePriority(r) == Smaller(4, Priority[r] + waited[r] \div AgingInterval)

(* The wait after which the priority of r does not rise any more.          *)
Aged(r) == (4 - Priority[r]) * AgingInterval

(* Mutant: the last one to queue comes first.                              *)
Younger(v, w) == w \in ahead[v] \/ (w \in sc.queue /\ v \notin sc.queue)

(* v has the smaller waiter.id; a caller that queues now has the largest.  *)
Older(v, w) == v \in ahead[w] \/ (v \in sc.queue /\ w \notin sc.queue)

(* The order of the queue.                                                 *)
Before(v, w) ==
  \/ EffectivePriority(v) > EffectivePriority(w)
  \/ EffectivePriority(v) = EffectivePriority(w) /\ Older(v, w)

(* A is the first n of S, or all of it.                                    *)
Takes(A, S, n) ==
  /\ Cardinality(A) = Smaller(n, Cardinality(S))
  /\ \A v \in A, w \in S \ A : Before(v, w)

(* Mutant: a waiter that aged enough counts as foreground.                 *)
AdmissibleAged(s) ==
  IF s.inFlight < LowCapacity THEN s.queue
  ELSE {r \in s.queue : EffectivePriority(r) >= 3}

(* nextAdmissibleWaiter: who may take one more slot.                       *)
Admissible(s) == IF s.inFlight < LowCapacity THEN s.queue ELSE s.queue \cap Foreground

(* Mutant: recovery admits whatever fits.                                  *)
AdmissionLimitAll(s) == MaxInFlight - s.inFlight

AdmissionLimit(s) ==
  IF s.recovering THEN Smaller(1, MaxInFlight - s.inFlight) ELSE MaxInFlight - s.inFlight

(* The loop admits the first waiters while any may take a slot, and then   *)
(* the first of those that may take a reserved one.                        *)
Admits(s, A, B) ==
  LET limit == AdmissionLimit(s)
      rest == {r \in s.queue \ A : r \in Admissible([s EXCEPT !.inFlight = LowCapacity])}
  IN /\ Takes(A, s.queue, Smaller(limit, Larger(0, LowCapacity - s.inFlight)))
     /\ B \subseteq rest
     /\ Takes(B, rest, limit - Cardinality(A))

(* What is left after the admission of G: while recovering, the next one   *)
(* has to wait for its turn.                                               *)
After(s, G) ==
  LET u == Disarm([s EXCEPT !.queue = @ \ G, !.inFlight = @ + Cardinality(G)]) IN
  IF ~s.recovering THEN u
  ELSE IF G # {} /\ Admissible(u) # {}
       THEN Arm([u EXCEPT !.next = RecoveryInterval], RecoveryInterval)
       ELSE [u EXCEPT !.recovering = FALSE, !.next = 0]

Grant(s, G) ==
  /\ sc' = After(s, G)
  /\ granted' = granted \cup G
  /\ since' = IF G = {} THEN since ELSE 0

Postpone(s, when) ==
  /\ sc' = Arm(s, when)
  /\ UNCHANGED <<granted, since>>

(* s is the scope as the rest of the critical section left it.             *)
Schedule(s) ==
  LET open == Opened(s)
      live == [open EXCEPT !.queue = @ \ cancelled]
  IN
  \/ Gate(s) > 0 /\ Postpone(s, Gate(s))
  \/ Gate(s) <= 0 /\ open.recovering /\ open.next > 0 /\ Postpone(open, open.next)
  \/ /\ Gate(s) <= 0 /\ ~(open.recovering /\ open.next > 0)
     /\ \E A \in SUBSET live.queue : \E B \in SUBSET (live.queue \ A) :
          Admits(live, A, B) /\ Grant(live, A \cup B)

(* The waiters and the leases after a critical section that scheduled: age *)
(* and order are those of a waiter, the generation is that of a lease, and *)
(* they are forgotten with it.                                             *)
Keep(age, order) ==
  /\ waited' = [r \in Caller |-> IF r \in sc'.queue THEN age[r] ELSE 0]
  /\ ahead' = [r \in Caller |-> IF r \in sc'.queue THEN order[r] \cap sc'.queue ELSE {}]
  /\ leaseGen' = [r \in Caller |-> IF r \in granted' \ granted THEN sc'.generation
                                   ELSE IF r \in Leases' THEN leaseGen[r] ELSE 0]

-----------------------------------------------------------------------------
(* Acquire.                                                                *)

Enqueue(r) ==
  /\ pc[r] = "idle"
  /\ pc' = [pc EXCEPT ![r] = "waiting"]
  /\ Schedule([sc EXCEPT !.queue = @ \cup {r}])
  /\ Keep([waited EXCEPT ![r] = 0], [ahead EXCEPT ![r] = sc.queue])
  /\ UNCHANGED <<late, cancelled, quiet, tripped>>

(* The caller's context is done, before or while it waits.                 *)
Cancel(r) ==
  /\ pc[r] \in {"idle", "waiting"} /\ r \notin cancelled
  /\ cancelled' = cancelled \cup {r}
  /\ UNCHANGED <<sc, late, pc, waited, ahead, granted, leaseGen, quiet, tripped, since>>

(* The select takes the ready channel; a caller whose context is done too  *)
(* gives the lease back.                                                   *)
Receive(r) ==
  /\ pc[r] = "waiting" /\ r \in granted
  /\ granted' = granted \ {r}
  /\ pc' = [pc EXCEPT ![r] = IF r \in cancelled THEN "returning" ELSE "holding"]
  /\ UNCHANGED <<sc, late, cancelled, waited, ahead, leaseGen, quiet, tripped, since>>

(* The select takes ctx.Done and cancelWaiter finds the waiter.            *)
Withdraw(r) ==
  /\ pc[r] = "waiting" /\ r \in cancelled /\ r \in sc.queue
  /\ pc' = [pc EXCEPT ![r] = "idle"]
  /\ Schedule([sc EXCEPT !.queue = @ \ {r}])
  /\ Keep(waited, ahead)
  /\ cancelled' = cancelled \ {r}
  /\ UNCHANGED <<late, quiet, tripped>>

(* Mutant: a lease granted in the meantime is forgotten.                   *)
DrainNothing(r) == [pc EXCEPT ![r] = "idle"]

Drain(r) == [pc EXCEPT ![r] = IF r \in granted THEN "returning" ELSE "idle"]

(* The select takes ctx.Done, but scheduleLocked was first: it granted a   *)
(* lease, which is drained and given back, or dropped the dead waiter.     *)
WithdrawLate(r) ==
  /\ pc[r] = "waiting" /\ r \in cancelled /\ r \notin sc.queue
  /\ pc' = Drain(r)
  /\ granted' = granted \ {r}
  /\ cancelled' = IF pc'[r] = "idle" THEN cancelled \ {r} ELSE cancelled
  /\ UNCHANGED <<sc, late, waited, ahead, leaseGen, quiet, tripped, since>>

-----------------------------------------------------------------------------
(* ProviderLease.finish, once per lease, and complete.                     *)

Complete(r, s) ==
  /\ pc[r] \in {"holding", "returning"}
  /\ pc' = [pc EXCEPT ![r] = "idle"]
  /\ Schedule([s EXCEPT !.inFlight = IF @ > 0 THEN @ - 1 ELSE @])
  /\ Keep(waited, ahead)
  /\ cancelled' = cancelled \ {r}
  /\ UNCHANGED late

(* Release, FallbackError, and failures that say nothing about the scope.  *)
Release(r) == Complete(r, sc) /\ tripped' = tripped \ {r} /\ UNCHANGED quiet

(* Mutant: any success closes the circuit's count.                         *)
SucceededAny(r) == [sc EXCEPT !.failures = 0]

(* A success counts when no circuit opened since the lease was granted.    *)
Succeeded(r) ==
  IF leaseGen[r] = sc.generation /\ sc.circuit <= 0
  THEN [sc EXCEPT !.failures = 0, !.circuit = Unset] ELSE sc

Succeed(r) ==
  /\ pc[r] = "holding"
  /\ Complete(r, Succeeded(r)) /\ tripped' = tripped \ {r} /\ UNCHANGED quiet

(* Mutant: the last rate limit wins.                                       *)
CooledLast(delay) == [sc EXCEPT !.cooldown = delay, !.recovering = FALSE, !.next = 0]

(* observeFailureLocked for a rate limit or an overload.                   *)
Cooled(delay) ==
  [sc EXCEPT !.cooldown = Larger(@, delay), !.recovering = FALSE, !.next = 0]

RateLimited(r, delay) ==
  /\ pc[r] = "holding"
  /\ Complete(r, Cooled(delay))
  /\ tripped' = tripped \ {r} /\ quiet' = Larger(quiet, delay)

(* observeFailureLocked for a server or network failure.  The count is     *)
(* only compared with the threshold.                                       *)
Trips == sc.failures + 1 >= Threshold

Counted ==
  IF ~Trips THEN [sc EXCEPT !.failures = @ + 1]
  ELSE [sc EXCEPT !.failures = Threshold,
                  !.generation = IF sc.circuit > 0 THEN @ ELSE @ + 1,
                  !.circuit = Larger(@, CircuitOpen), !.recovering = FALSE, !.next = 0]

ServerFailed(r) ==
  /\ pc[r] = "holding"
  /\ Trips => sc.generation < MaxGeneration
  /\ Complete(r, Counted)
  /\ tripped' = (IF Trips THEN Leases ELSE tripped) \ {r}
  /\ quiet' = IF Trips THEN Larger(quiet, CircuitOpen) ELSE quiet

-----------------------------------------------------------------------------
(* Time.                                                                   *)

(* The deadline of time.AfterFunc passed: its goroutine waits for the      *)
(* mutex, while the scope still refers to the timer.                       *)
TimerFires ==
  /\ sc.ticking /\ sc.timer = 0 /\ late < MaxLate
  /\ sc' = [sc EXCEPT !.ticking = FALSE]
  /\ late' = late + 1
  /\ UNCHANGED <<callerVars, granted, leaseGen, quiet, tripped, since>>

(* Mutant: the function leaves the scope's timer set.                      *)
ForgotNothing == sc

Forgotten == Disarm(sc)

(* The function forgets whatever timer the scope has by then; one that is  *)
(* still ticking will run as well, at a time the scope no longer knows.    *)
TimerRuns ==
  /\ late > 0
  /\ late' = late - 1 + (IF sc.ticking THEN 1 ELSE 0)
  /\ Schedule(Forgotten)
  /\ UNCHANGED <<pc, cancelled, quiet, tripped>>
  /\ Keep(waited, ahead)

Closer(t) == IF t > 0 THEN t - 1 ELSE t

Tick ==
  /\ sc' = [sc EXCEPT !.cooldown = Closer(@), !.circuit = Closer(@),
                      !.next = Closer(@), !.timer = Closer(@)]
  /\ waited' = [r \in Caller |-> IF r \in sc.queue
                                 THEN Smaller(waited[r] + 1, Aged(r)) ELSE 0]
  /\ quiet' = Closer(quiet)
  /\ since' = Smaller(since + 1, RecoveryInterval)
  /\ UNCHANGED <<late, pc, cancelled, ahead, granted, leaseGen, tripped>>

-----------------------------------------------------------------------------
CallerStep(r) ==
  \/ Enqueue(r) \/ Cancel(r) \/ Receive(r) \/ Withdraw(r) \/ WithdrawLate(r)
  \/ Release(r) \/ Succeed(r) \/ (\E delay \in Delays : RateLimited(r, delay)) \/ ServerFailed(r)

Next == (\E r \in Caller : CallerStep(r)) \/ TimerFires \/ TimerRuns \/ Tick

Spec == Init /\ [][Next]_vars

(* Time passes and timers run; a caller leaves its select when it can; a   *)
(* request ends (the clients bound how long a stream may stay silent).     *)
(* Nobody has to call Acquire or to cancel.                                *)
Fairness ==
  /\ WF_vars(Tick) /\ WF_vars(TimerFires) /\ WF_vars(TimerRuns)
  /\ \A r \in Caller :
       /\ WF_vars(Receive(r) \/ Withdraw(r) \/ WithdrawLate(r))
       /\ WF_vars(Release(r))

FairSpec == Spec /\ Fairness

-----------------------------------------------------------------------------
(* Properties.                                                             *)

Deadline == Nat \cup {Unset}
Scope == [inFlight : 0 .. MaxInFlight, failures : 0 .. Threshold, cooldown : Deadline, circuit : Deadline,
          generation : Nat, recovering : BOOLEAN, next : Nat, queue : SUBSET Caller,
          timer : Deadline, ticking : BOOLEAN]

(* Every variable has its type.                                            *)
TypeOK ==
  /\ sc \in Scope
  /\ late \in Nat /\ quiet \in Nat /\ since \in Nat
  /\ pc \in [Caller -> {"idle", "waiting", "holding", "returning"}]
  /\ cancelled \subseteq Caller /\ granted \subseteq Caller /\ tripped \subseteq Caller
  /\ leaseGen \in [Caller -> Nat]
  /\ waited \in [Caller -> Nat]
  /\ ahead \in [Caller -> SUBSET Caller]

(* A slot is in use exactly while a lease is out: in a caller's hands, on  *)
(* its way through a ready channel, or on its way back from a caller that  *)
(* was cancelled in the meantime.  (Acquire, cancelWaiter, complete)       *)
SlotsAreLeased == sc.inFlight = Cardinality(Leases)

(* The scope never has more leases out than slots, and background work     *)
(* never fills the slots kept for the foreground, however long it waited.  *)
(* (nextAdmissibleWaiter, TestProviderCoordinatorReservesForegroundCapacity)*)
ForegroundKeepsItsSlots ==
  Cardinality(Leases) <= MaxInFlight /\ Cardinality(Leases \ Foreground) <= LowCapacity

(* A waiter that could be admitted is never left without a timer that will *)
(* run for it, whatever late timer functions and cancellations do.         *)
(* (armTimerLocked)                                                        *)
NoLostWakeup ==
  sc.inFlight < MaxInFlight /\ Admissible(sc) \ cancelled # {} => sc.ticking \/ late > 0

(* No request is admitted before every rate limit and every open circuit   *)
(* has had its silence, not even by the failure that extends it.           *)
(* (scheduleLocked, observeFailureLocked)                                  *)
SilenceIsKept == [][Leases' \ Leases # {} => quiet' = 0]_vars

(* Only the success of a request that was admitted after the circuit last  *)
(* opened clears the count of failures.  (complete,                        *)
(* TestProviderCoordinatorLateSuccessDoesNotCloseNewCircuit)               *)
LateSuccessIsIgnored ==
  [][sc'.failures < sc.failures => \E r \in Leases \ Leases' : r \notin tripped]_vars

(* When a silence ends, and while the scope recovers from it, requests are *)
(* admitted one at a time, an interval apart.                              *)
(* (TestProviderCoordinatorPacesRecoveryAdmissions)                        *)
RecoveryIsPaced ==
  [][Leases' \ Leases # {} /\ (sc.recovering \/ Gate(sc) = 0) =>
       /\ Cardinality(Leases' \ Leases) = 1
       /\ sc.recovering => since >= RecoveryInterval]_vars

(* Foreground work is served or gives up, whatever fails and whoever comes *)
(* after it.  (effectivePriority, scheduleLocked)                          *)
ForegroundIsServed ==
  \A r \in Caller : r \in Foreground => (pc[r] = "waiting" ~> pc[r] # "waiting")

=============================================================================
