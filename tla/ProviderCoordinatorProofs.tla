---------------------- MODULE ProviderCoordinatorProofs ----------------------
(* Proofs about ProviderCoordinator for any number of callers, any         *)
(* priorities, slots, thresholds and intervals.                            *)
EXTENDS ProviderCoordinator, FiniteSetTheorems, TLAPS

Holders == {r \in Caller : pc[r] \in {"holding", "returning"}}

(* Who is in the queue, in a ready channel or in the circuit's history.    *)
Places ==
  /\ sc.queue \cap granted = {}
  /\ \A r \in sc.queue \cup granted : pc[r] = "waiting"
  /\ tripped \subseteq Leases

(* A lease that was out when the circuit opened has an older generation.   *)
Generation(s, L) ==
  \A r \in L : leaseGen[r] <= s.generation /\ (s.circuit # Unset => leaseGen[r] < s.generation)

Pace(s, elapsed) == s.recovering => elapsed + s.next >= RecoveryInterval

Calm(s) == s.recovering => s.cooldown = Unset /\ s.circuit = Unset

Armed(s, n) == s.timer # Unset => s.ticking \/ n > 0

Awake(s, dead) ==
  s.inFlight < MaxInFlight /\ Admissible(s) \ dead # {} => s.timer # Unset

Inv ==
  /\ TypeOK /\ SlotsAreLeased /\ ForegroundKeepsItsSlots /\ Places
  /\ Generation(sc, Leases) /\ (\A r \in tripped : leaseGen[r] < sc.generation)
  /\ quiet > 0 => quiet <= Gate(sc)
  /\ Pace(sc, since) /\ Calm(sc) /\ Armed(sc, late) /\ Awake(sc, cancelled)

(* The scope s and the leases L that are out when scheduleLocked begins.   *)
Ready(s, L) ==
  /\ s \in Scope /\ L \subseteq Leases /\ granted \subseteq L /\ L \cap s.queue = {}
  /\ Cardinality(L) = s.inFlight
  /\ Generation(s, L)
  /\ quiet' \in Nat /\ (quiet' > 0 => quiet' <= Gate(s))
  /\ Pace(s, since) /\ Calm(s)
  /\ Gate(s) > 0 \/ (s.recovering = sc.recovering /\ s.next = sc.next /\ Gate(s) = Gate(sc))

(* What scheduleLocked makes of the scope s when it admits G.              *)
Outcome(s, G) ==
  /\ G \subseteq s.queue /\ granted' = granted \cup G
  /\ sc' \in Scope /\ since' \in Nat
  /\ sc'.queue \subseteq s.queue \ G
  /\ sc'.inFlight = s.inFlight + Cardinality(G)
  /\ G \ Foreground # {} => s.inFlight + Cardinality(G \ Foreground) <= LowCapacity
  /\ sc'.failures = s.failures /\ sc'.generation = s.generation
  /\ sc'.circuit # Unset => sc'.circuit = s.circuit /\ G = {}
  /\ Gate(s) > 0 => G = {} /\ Gate(sc') = Gate(s)
  /\ G # {} /\ (s.recovering \/ Gate(s) = 0) => Cardinality(G) = 1
  /\ G # {} /\ s.recovering /\ Gate(s) < 0 => s.next = 0
  /\ Pace(s, since) => Pace(sc', since')
  /\ Calm(sc') \/ (sc'.recovering = s.recovering /\ sc'.cooldown = s.cooldown /\ sc'.circuit = s.circuit)
  /\ sc'.timer # Unset => sc'.ticking \/ (s.timer # Unset /\ ~s.ticking)
  /\ Awake(sc', {})

(* What every step keeps.                                                  *)
Kept ==
  /\ Inv'
  /\ Leases' \ Leases # {} => quiet' = 0
  /\ Leases' \ Leases # {} /\ (sc.recovering \/ Gate(sc) = 0) =>
       Cardinality(Leases' \ Leases) = 1 /\ (sc.recovering => since >= RecoveryInterval)
  /\ sc'.failures < sc.failures => \E r \in Leases \ Leases' : r \notin tripped

(* What a critical section that ends in scheduleLocked keeps: L are the    *)
(* leases that it did not take back.                                       *)
Rescheduled(L) ==
  /\ SlotsAreLeased' /\ ForegroundKeepsItsSlots'
  /\ sc' \in Scope /\ since' \in Nat
  /\ waited' \in [Caller -> Nat] /\ ahead' \in [Caller -> SUBSET Caller]
  /\ leaseGen' \in [Caller -> Nat]
  /\ \A r \in L : leaseGen'[r] = leaseGen[r]
  /\ Generation(sc, Leases)'
  /\ quiet' > 0 => quiet' <= Gate(sc')
  /\ Pace(sc', since') /\ Calm(sc') /\ Awake(sc', cancelled')
  /\ Leases' \ Leases # {} => quiet' = 0
  /\ Leases' \ Leases # {} /\ (sc.recovering \/ Gate(sc) = 0) =>
       Cardinality(Leases' \ Leases) = 1 /\ (sc.recovering => since >= RecoveryInterval)

(* What the configuration guarantees, in the form the proofs use.          *)
LEMMA Constant ==
  /\ IsFiniteSet(Caller) /\ Foreground \subseteq Caller
  /\ MaxInFlight \in Nat /\ LowCapacity \in Nat /\ LowCapacity >= 1 /\ LowCapacity <= MaxInFlight
  /\ Threshold \in Nat /\ CircuitOpen \in Nat /\ CircuitOpen > 0 /\ Threshold > 0
  /\ \A delay \in Delays : delay \in Nat /\ delay > 0
  /\ RecoveryInterval \in Nat /\ RecoveryInterval > 0 /\ AgingInterval \in Nat
  BY CallerAssumption, SlotAssumption, IntervalAssumption DEF Foreground, LowCapacity

(* Sets of callers are finite.                                             *)
LEMMA Finite ==
  ASSUME NEW S, S \subseteq Caller
  PROVE  IsFiniteSet(S) /\ Cardinality(S) \in Nat /\ (Cardinality(S) = 0 <=> S = {})
  BY Constant, FS_Subset, FS_CardinalityType, FS_EmptySet

(* The callers of two disjoint sets add up.                                *)
LEMMA Disjoint ==
  ASSUME NEW S, S \subseteq Caller, NEW T, T \subseteq Caller, S \cap T = {}
  PROVE  Cardinality(S \cup T) = Cardinality(S) + Cardinality(T)
  <1>1. Cardinality(S \cup T) = Cardinality(S) + Cardinality(T) - Cardinality(S \cap T)
    BY Finite, FS_Union
  <1>2. Cardinality(S \cap T) = 0
    BY FS_EmptySet
  <1>3. Cardinality(S) \in Nat /\ Cardinality(T) \in Nat
    BY Finite
  <1> QED
    BY <1>1, <1>2, <1>3

(* A subset has no more callers.                                           *)
LEMMA Monotone ==
  ASSUME NEW S, S \subseteq Caller, NEW T, T \subseteq S
  PROVE  Cardinality(T) <= Cardinality(S)
  BY Finite, FS_Subset

(* The order in which slots are filled: first those that anybody may have, *)
(* then the reserved ones, by foreground waiters only.                     *)
LEMMA AdmissionFits ==
  ASSUME NEW s \in Scope, NEW A, NEW B, A \subseteq s.queue, B \subseteq s.queue \ A,
         Admits(s, A, B)
  PROVE  /\ B \subseteq Foreground
         /\ A # {} => s.inFlight + Cardinality(A) <= LowCapacity
         /\ Cardinality(A \cup B) = Cardinality(A) + Cardinality(B)
         /\ Cardinality(A \cup B) <= AdmissionLimit(s)
         /\ Cardinality(A \cup B) < AdmissionLimit(s) =>
              Admissible([s EXCEPT !.queue = @ \ (A \cup B),
                                   !.inFlight = @ + Cardinality(A \cup B)]) = {}
  <1> DEFINE limit == AdmissionLimit(s)
             rest == (s.queue \ A) \cap Foreground
  <1>1. /\ s.inFlight \in Nat /\ s.inFlight <= MaxInFlight /\ s.queue \subseteq Caller
        /\ s.recovering \in BOOLEAN /\ s.timer \in Int
    BY Constant DEF Scope, Deadline, Unset
  <1>2. limit \in Nat /\ limit <= MaxInFlight - s.inFlight
    BY <1>1, Constant DEF AdmissionLimit, Smaller
  <1>3. {r \in s.queue \ A : r \in Admissible([s EXCEPT !.inFlight = LowCapacity])} = rest
    <2>1. [s EXCEPT !.inFlight = LowCapacity].inFlight = LowCapacity
          /\ [s EXCEPT !.inFlight = LowCapacity].queue = s.queue
      BY DEF Scope
    <2>2. Admissible([s EXCEPT !.inFlight = LowCapacity]) = s.queue \cap Foreground
      BY <2>1, Constant DEF Admissible
    <2> QED
      BY <2>2
  <1>4. /\ Cardinality(A) = Smaller(Smaller(limit, Larger(0, LowCapacity - s.inFlight)),
                                    Cardinality(s.queue))
        /\ B \subseteq rest
        /\ Cardinality(B) = Smaller(limit - Cardinality(A), Cardinality(rest))
    BY <1>3 DEF Admits, Takes
  <1>5. /\ Cardinality(s.queue) \in Nat /\ Cardinality(A) \in Nat /\ Cardinality(B) \in Nat
        /\ Cardinality(rest) \in Nat
        /\ (Cardinality(A) = 0 <=> A = {})
    BY <1>1, <1>4, Finite
  <1>6. Cardinality(A \cup B) = Cardinality(A) + Cardinality(B)
    BY <1>1, Disjoint
  <1>7. Cardinality(A) + Cardinality(B) <= limit
    BY <1>2, <1>4, <1>5, Constant DEF Smaller, Larger
  <1>8. A # {} => s.inFlight + Cardinality(A) <= LowCapacity
    BY <1>1, <1>2, <1>4, <1>5, Constant DEF Smaller, Larger
  <1>9. ASSUME Cardinality(A) + Cardinality(B) < limit
        PROVE  \/ A = s.queue
               \/ s.inFlight + Cardinality(A) >= LowCapacity /\ rest \ B = {}
    <2>1. Cardinality(A) = Cardinality(s.queue) => A = s.queue
      BY <1>1, Finite, FS_Subset
    <2>2. Cardinality(B) = Cardinality(rest) => B = rest
      BY <1>1, <1>4, Finite, FS_Subset
    <2>3. Cardinality(B) = Cardinality(rest)
      BY <1>9, <1>2, <1>4, <1>5 DEF Smaller
    <2>4. \/ Cardinality(A) = Cardinality(s.queue)
          \/ s.inFlight + Cardinality(A) >= LowCapacity
      BY <1>9, <1>1, <1>2, <1>4, <1>5, Constant DEF Smaller, Larger
    <2> QED
      BY <2>1, <2>2, <2>3, <2>4
  <1>10. ASSUME Cardinality(A \cup B) < limit
         PROVE  Admissible([s EXCEPT !.queue = @ \ (A \cup B),
                                     !.inFlight = @ + Cardinality(A \cup B)]) = {}
    <2> DEFINE u == [s EXCEPT !.queue = @ \ (A \cup B), !.inFlight = @ + Cardinality(A \cup B)]
    <2>1. u.queue = s.queue \ (A \cup B) /\ u.inFlight = s.inFlight + Cardinality(A \cup B)
      BY DEF Scope
    <2>2. CASE A = s.queue
      BY <2>1, <2>2 DEF Admissible
    <2>3. CASE s.inFlight + Cardinality(A) >= LowCapacity /\ rest \ B = {}
      <3>1. ~(u.inFlight < LowCapacity)
        BY <2>1, <2>3, <1>1, <1>5, <1>6, Constant
      <3>2. u.queue \cap Foreground = {}
        BY <2>1, <2>3
      <3> QED
        BY <3>1, <3>2 DEF Admissible
    <2> QED
      BY <2>2, <2>3, <1>9, <1>10, <1>6
  <1> QED
    BY <1>4, <1>6, <1>7, <1>8, <1>10

(* armTimerLocked changes nothing but the timer, and leaves one set.       *)
LEMMA ArmFacts ==
  ASSUME NEW s \in Scope, NEW when \in Nat
  PROVE  /\ Arm(s, when) \in Scope
         /\ Arm(s, when).timer # Unset
         /\ Arm(s, when).ticking \/ (s.timer # Unset /\ ~s.ticking)
         /\ Arm(s, when).inFlight = s.inFlight /\ Arm(s, when).failures = s.failures
         /\ Arm(s, when).cooldown = s.cooldown /\ Arm(s, when).circuit = s.circuit
         /\ Arm(s, when).generation = s.generation /\ Arm(s, when).recovering = s.recovering
         /\ Arm(s, when).next = s.next /\ Arm(s, when).queue = s.queue
  <1>1. CASE s.timer # Unset /\ when >= s.timer
    BY <1>1 DEF Arm, Scope
  <1>2. CASE ~(s.timer # Unset /\ when >= s.timer)
    <2>1. Arm(s, when) = [s EXCEPT !.timer = when, !.ticking = TRUE]
      BY <1>2 DEF Arm
    <2>2. [s EXCEPT !.timer = when, !.ticking = TRUE] \in Scope
      BY DEF Scope, Deadline
    <2>3. /\ Arm(s, when).timer = when /\ Arm(s, when).ticking = TRUE
          /\ Arm(s, when).inFlight = s.inFlight /\ Arm(s, when).failures = s.failures
          /\ Arm(s, when).cooldown = s.cooldown /\ Arm(s, when).circuit = s.circuit
          /\ Arm(s, when).generation = s.generation /\ Arm(s, when).recovering = s.recovering
          /\ Arm(s, when).next = s.next /\ Arm(s, when).queue = s.queue
      BY <2>1 DEF Scope
    <2> QED
      BY <2>1, <2>2, <2>3 DEF Unset
  <1> QED
    BY <1>1, <1>2

(* A postponed schedule admits nobody and has a timer.                     *)
LEMMA PostponeOutcome ==
  ASSUME NEW s \in Scope, NEW when \in Nat, sc' = Arm(s, when), since' = since, granted' = granted,
         since \in Nat
  PROVE  Outcome(s, {})
  <1>1. /\ sc' \in Scope /\ sc'.timer # Unset
        /\ sc'.ticking \/ (s.timer # Unset /\ ~s.ticking)
        /\ sc'.inFlight = s.inFlight /\ sc'.failures = s.failures /\ sc'.cooldown = s.cooldown
        /\ sc'.circuit = s.circuit /\ sc'.generation = s.generation
        /\ sc'.recovering = s.recovering /\ sc'.next = s.next /\ sc'.queue = s.queue
    BY ArmFacts
  <1>2. Cardinality({}) = 0 /\ s.inFlight \in Nat
    BY FS_EmptySet, Constant DEF Scope
  <1>3. Gate(sc') = Gate(s)
    BY <1>1 DEF Gate
  <1>4. Pace(s, since) => Pace(sc', since')
    BY <1>1 DEF Pace
  <1>5. Awake(sc', {})
    BY <1>1 DEF Awake
  <1> QED
    BY <1>1, <1>2, <1>3, <1>4, <1>5 DEF Outcome

(* A gate is unset, passed or some ticks away.                             *)
LEMMA GateFacts ==
  ASSUME NEW s \in Scope
  PROVE  /\ Gate(s) \in Int
         /\ Gate(s) = Unset <=> s.cooldown = Unset /\ s.circuit = Unset
         /\ Gate(s) >= Unset
  BY DEF Gate, Larger, Scope, Deadline, Unset

(* A passed gate is cleared, and turns into recovery when somebody waits.  *)
LEMMA OpenedFacts ==
  ASSUME NEW s \in Scope, Gate(s) <= 0
  PROVE  /\ Opened(s) \in Scope
         /\ Opened(s).inFlight = s.inFlight /\ Opened(s).failures = s.failures
         /\ Opened(s).cooldown = Unset /\ Opened(s).circuit = Unset
         /\ Opened(s).generation = s.generation /\ Opened(s).queue = s.queue
         /\ Opened(s).timer = s.timer /\ Opened(s).ticking = s.ticking
         /\ s.recovering => Opened(s).recovering
         /\ Gate(s) = 0 /\ s.queue # {} => Opened(s).recovering
         /\ Opened(s).recovering => s.recovering \/ Opened(s).next = 0
         /\ Opened(s).next = s.next \/ (Opened(s).next = 0 /\ Gate(s) = 0)
  <1>1. Gate(s) = 0 <=> s.cooldown # Unset \/ s.circuit # Unset
    BY GateFacts DEF Gate, Larger, Scope, Deadline, Unset
  <1>2. CASE (s.cooldown # Unset \/ s.circuit # Unset) /\ s.queue # {}
    <2>1. Opened(s) = [s EXCEPT !.cooldown = Unset, !.circuit = Unset,
                                !.recovering = TRUE, !.next = 0]
      BY <1>2 DEF Opened, Scope
    <2>2. Opened(s) \in Scope
      <3>1. [s EXCEPT !.cooldown = Unset, !.circuit = Unset] \in Scope
        BY DEF Scope, Deadline
      <3>2. \A u \in Scope : [u EXCEPT !.recovering = TRUE, !.next = 0] \in Scope
        BY DEF Scope
      <3> QED
        BY <2>1, <3>1, <3>2
    <2>3. /\ Opened(s).inFlight = s.inFlight /\ Opened(s).failures = s.failures
          /\ Opened(s).cooldown = Unset /\ Opened(s).circuit = Unset
          /\ Opened(s).generation = s.generation /\ Opened(s).queue = s.queue
          /\ Opened(s).timer = s.timer /\ Opened(s).ticking = s.ticking
          /\ Opened(s).recovering /\ Opened(s).next = 0
      BY <2>1 DEF Scope
    <2> QED
      BY <1>1, <1>2, <2>2, <2>3
  <1>3. CASE ~((s.cooldown # Unset \/ s.circuit # Unset) /\ s.queue # {})
    <2>1. Opened(s) = [s EXCEPT !.cooldown = Unset, !.circuit = Unset]
      BY <1>3 DEF Opened, Scope
    <2>2. Opened(s) \in Scope
      BY <2>1 DEF Scope, Deadline
    <2>3. /\ Opened(s).inFlight = s.inFlight /\ Opened(s).failures = s.failures
          /\ Opened(s).cooldown = Unset /\ Opened(s).circuit = Unset
          /\ Opened(s).generation = s.generation /\ Opened(s).queue = s.queue
          /\ Opened(s).timer = s.timer /\ Opened(s).ticking = s.ticking
          /\ Opened(s).recovering = s.recovering /\ Opened(s).next = s.next
      BY <2>1 DEF Scope
    <2> QED
      BY <1>1, <1>3, <2>2, <2>3
  <1> QED
    BY <1>2, <1>3

(* The scope after the admission of G.                                     *)
Filled(s, G) == [s EXCEPT !.queue = @ \ G, !.inFlight = @ + Cardinality(G)]

(* s is the scope that admits, after the gate was cleared and the dead     *)
(* waiters were dropped.                                                   *)
LEMMA AfterFacts ==
  ASSUME NEW s \in Scope, s.cooldown = Unset, s.circuit = Unset, NEW G \in SUBSET s.queue,
         s.inFlight + Cardinality(G) <= MaxInFlight
  PROVE  /\ After(s, G) \in Scope
         /\ After(s, G).queue = s.queue \ G
         /\ After(s, G).inFlight = s.inFlight + Cardinality(G)
         /\ After(s, G).failures = s.failures /\ After(s, G).generation = s.generation
         /\ After(s, G).cooldown = Unset /\ After(s, G).circuit = Unset
         /\ After(s, G).recovering =>
              G # {} /\ After(s, G).next = RecoveryInterval /\ After(s, G).timer # Unset
         /\ After(s, G).timer # Unset => After(s, G).ticking
         /\ s.recovering /\ G # {} /\ Admissible(Filled(s, G)) # {} => After(s, G).timer # Unset
         /\ Admissible(After(s, G)) = Admissible(Filled(s, G))
  <1> DEFINE v == Disarm(Filled(s, G))
  <1>1. Filled(s, G) \in Scope
    <2>1. Cardinality(G) \in Nat /\ s.inFlight \in Nat
      BY Finite, Constant DEF Scope
    <2>2. s.inFlight + Cardinality(G) \in 0 .. MaxInFlight
      BY <2>1, Constant
    <2> QED
      BY <2>2 DEF Scope, Filled
  <1>2. /\ Filled(s, G).queue = s.queue \ G
        /\ Filled(s, G).inFlight = s.inFlight + Cardinality(G)
        /\ Filled(s, G).failures = s.failures /\ Filled(s, G).generation = s.generation
        /\ Filled(s, G).recovering = s.recovering
        /\ Filled(s, G).cooldown = Unset /\ Filled(s, G).circuit = Unset
    BY DEF Scope, Filled
  <1>3. v = [Filled(s, G) EXCEPT !.timer = Unset, !.ticking = FALSE]
    BY DEF Disarm
  <1>4. v \in Scope
    BY <1>1, <1>3 DEF Scope, Deadline
  <1>5. /\ v.queue = Filled(s, G).queue /\ v.inFlight = Filled(s, G).inFlight
        /\ v.failures = Filled(s, G).failures /\ v.generation = Filled(s, G).generation /\ v.recovering = Filled(s, G).recovering
        /\ v.cooldown = Unset /\ v.circuit = Unset /\ v.timer = Unset /\ v.ticking = FALSE
    BY <1>1, <1>2, <1>3 DEF Scope
  <1>6. Admissible(v) = Admissible(Filled(s, G))
    BY <1>5 DEF Admissible
  <1>7. After(s, G) = IF ~s.recovering THEN v
                      ELSE IF G # {} /\ Admissible(v) # {}
                           THEN Arm([v EXCEPT !.next = RecoveryInterval], RecoveryInterval)
                           ELSE [v EXCEPT !.recovering = FALSE, !.next = 0]
    BY DEF After, Filled
  <1> HIDE DEF v
  <1>8. CASE ~s.recovering
    BY <1>2, <1>4, <1>5, <1>6, <1>7, <1>8
  <1>9. CASE s.recovering /\ G # {} /\ Admissible(v) # {}
    <2> DEFINE w == [v EXCEPT !.next = RecoveryInterval]
    <2>1. w \in Scope
      BY <1>4, Constant DEF Scope
    <2>2. /\ w.queue = v.queue /\ w.inFlight = v.inFlight /\ w.failures = v.failures
          /\ w.generation = v.generation /\ w.cooldown = Unset /\ w.circuit = Unset
          /\ w.timer = Unset /\ w.next = RecoveryInterval
      BY <1>4, <1>5 DEF Scope
    <2> HIDE DEF w
    <2>3. After(s, G) = Arm(w, RecoveryInterval)
      BY <1>7, <1>9 DEF w
    <2>4. /\ After(s, G) \in Scope
          /\ After(s, G).queue = s.queue \ G
          /\ After(s, G).inFlight = s.inFlight + Cardinality(G)
          /\ After(s, G).failures = s.failures /\ After(s, G).generation = s.generation
          /\ After(s, G).cooldown = Unset /\ After(s, G).circuit = Unset
          /\ After(s, G).next = RecoveryInterval /\ After(s, G).timer # Unset
          /\ After(s, G).ticking
      BY <2>1, <2>2, <2>3, <1>2, <1>5, ArmFacts, Constant
    <2>5. Admissible(After(s, G)) = Admissible(Filled(s, G))
      BY <2>4, <1>2 DEF Admissible
    <2> QED
      BY <2>4, <2>5, <1>9
  <1>10. CASE s.recovering /\ ~(G # {} /\ Admissible(v) # {})
    <2> DEFINE w == [v EXCEPT !.recovering = FALSE, !.next = 0]
    <2>1. w \in Scope
      BY <1>4 DEF Scope
    <2>2. /\ w.queue = v.queue /\ w.inFlight = v.inFlight /\ w.failures = v.failures
          /\ w.generation = v.generation /\ w.cooldown = Unset /\ w.circuit = Unset
          /\ w.timer = Unset /\ w.recovering = FALSE
      BY <1>4, <1>5 DEF Scope
    <2> HIDE DEF w
    <2>3. After(s, G) = w
      BY <1>7, <1>10 DEF w
    <2>4. Admissible(After(s, G)) = Admissible(Filled(s, G))
      BY <2>2, <2>3, <1>5 DEF Admissible
    <2> QED
      BY <2>1, <2>2, <2>3, <2>4, <1>2, <1>5, <1>6, <1>10
  <1> QED
    BY <1>8, <1>9, <1>10

(* The admission loop has the outcome that scheduleLocked promises.        *)
LEMMA AdmissionOutcome ==
  ASSUME NEW s \in Scope, Gate(s) <= 0, NEW live \in Scope,
         live.queue \subseteq s.queue, live.inFlight = s.inFlight, live.failures = s.failures,
         live.generation = s.generation, live.cooldown = Unset, live.circuit = Unset,
         s.recovering => live.recovering,
         Gate(s) = 0 /\ s.queue # {} => live.recovering,
         live.recovering => live.next <= 0,
         live.next = s.next \/ Gate(s) = 0,
         NEW A \in SUBSET live.queue, NEW B \in SUBSET (live.queue \ A),
         Admits(live, A, B), Grant(live, A \cup B), since \in Nat
  PROVE  Outcome(s, A \cup B)
  <1> DEFINE G == A \cup B
  <1>1. /\ B \subseteq Foreground
        /\ A # {} => live.inFlight + Cardinality(A) <= LowCapacity
        /\ Cardinality(G) = Cardinality(A) + Cardinality(B)
        /\ Cardinality(G) <= AdmissionLimit(live)
        /\ Cardinality(G) < AdmissionLimit(live) => Admissible(Filled(live, G)) = {}
    BY AdmissionFits DEF Filled
  <1>2. /\ G \subseteq live.queue /\ live.queue \subseteq Caller
        /\ live.inFlight \in Nat /\ live.inFlight <= MaxInFlight
        /\ live.recovering \in BOOLEAN /\ live.next \in Nat
    BY Constant DEF Scope
  <1>3. /\ Cardinality(A) \in Nat /\ Cardinality(B) \in Nat /\ Cardinality(G) \in Nat
        /\ (Cardinality(G) = 0 <=> G = {})
    BY <1>2, Finite
  <1>4. /\ AdmissionLimit(live) \in Nat /\ AdmissionLimit(live) <= MaxInFlight - live.inFlight
        /\ live.recovering => AdmissionLimit(live) <= 1
        /\ live.recovering /\ live.inFlight < MaxInFlight => AdmissionLimit(live) = 1
        /\ ~live.recovering => AdmissionLimit(live) = MaxInFlight - live.inFlight
    BY <1>2, Constant DEF AdmissionLimit, Smaller
  <1>5. live.inFlight + Cardinality(G) <= MaxInFlight
    BY <1>1, <1>2, <1>3, <1>4, Constant
  <1> HIDE DEF G
  <1>6. /\ sc' = After(live, G) /\ granted' = granted \cup G
        /\ since' = IF G = {} THEN since ELSE 0
    BY DEF Grant, G
  <1>7. /\ sc' \in Scope
        /\ sc'.queue = live.queue \ G
        /\ sc'.inFlight = live.inFlight + Cardinality(G)
        /\ sc'.failures = live.failures /\ sc'.generation = live.generation
        /\ sc'.cooldown = Unset /\ sc'.circuit = Unset
        /\ sc'.recovering => G # {} /\ sc'.next = RecoveryInterval /\ sc'.timer # Unset
        /\ sc'.timer # Unset => sc'.ticking
        /\ live.recovering /\ G # {} /\ Admissible(Filled(live, G)) # {} => sc'.timer # Unset
        /\ Admissible(sc') = Admissible(Filled(live, G))
    BY <1>2, <1>5, <1>6, AfterFacts
  <1>8. G \ Foreground # {} => s.inFlight + Cardinality(G \ Foreground) <= LowCapacity
    <2> SUFFICES ASSUME G \ Foreground # {}
                 PROVE  s.inFlight + Cardinality(G \ Foreground) <= LowCapacity
      OBVIOUS
    <2>1. G \ Foreground \subseteq A
      BY <1>1 DEF G
    <2>2. Cardinality(G \ Foreground) <= Cardinality(A) /\ Cardinality(G \ Foreground) \in Nat
      BY <2>1, <1>2, Monotone, Finite DEF G
    <2> QED
      BY <2>1, <2>2, <1>1, <1>2, <1>3, Constant
  <1>9. G # {} /\ (s.recovering \/ Gate(s) = 0) => Cardinality(G) = 1
    BY <1>1, <1>2, <1>3, <1>4
  <1>10. Pace(sc', since')
    BY <1>6, <1>7, Constant DEF Pace
  <1>11. Awake(sc', {})
    <2> SUFFICES ASSUME sc'.inFlight < MaxInFlight, Admissible(sc') # {}
                 PROVE  sc'.timer # Unset
      BY DEF Awake
    <2>1. ~(Cardinality(G) < AdmissionLimit(live))
      BY <1>1, <1>7
    <2>2. live.inFlight < MaxInFlight
      BY <1>2, <1>3, <1>7, Constant
    <2>3. live.recovering
      BY <2>1, <1>1, <1>2, <1>3, <1>4, <1>7, Constant
    <2>4. G # {}
      BY <2>1, <2>2, <2>3, <1>3, <1>4
    <2> QED
      BY <2>3, <2>4, <1>7
  <1>12. since' \in Nat
    BY <1>6
  <1>13. G # {} /\ s.recovering /\ Gate(s) < 0 => s.next = 0
    BY <1>2
  <1> QED
    <2>1. Gate(s) \in Int /\ ~(Gate(s) > 0)
      BY GateFacts
    <2>2. Calm(sc')
      BY <1>7 DEF Calm
    <2>3. /\ G \subseteq s.queue /\ sc'.queue \subseteq s.queue \ G
          /\ sc'.inFlight = s.inFlight + Cardinality(G)
      BY <1>2, <1>7
    <2>4. Outcome(s, G)
      BY <2>1, <2>2, <2>3, <1>6, <1>7, <1>8, <1>9, <1>10, <1>11, <1>12, <1>13 DEF Outcome
    <2> QED
      BY <2>4 DEF G

(* So has scheduleLocked, whichever way it returns.                        *)
LEMMA ScheduleOutcome ==
  ASSUME NEW s \in Scope, Schedule(s), since \in Nat
  PROVE  \E G : Outcome(s, G)
  <1> DEFINE open == Opened(s)
             live == [open EXCEPT !.queue = @ \ cancelled]
  <1>1. CASE Gate(s) > 0 /\ Postpone(s, Gate(s))
    <2>1. Gate(s) \in Nat
      BY <1>1, GateFacts
    <2> QED
      BY <1>1, <2>1, PostponeOutcome DEF Postpone
  <1>2. CASE Gate(s) <= 0 /\ open.recovering /\ open.next > 0 /\ Postpone(open, open.next)
    <2>1. open \in Scope /\ open.next \in Nat
      BY <1>2, OpenedFacts DEF Scope
    <2>2. Outcome(open, {})
      BY <1>2, <2>1, PostponeOutcome DEF Postpone
    <2>3. /\ open.inFlight = s.inFlight /\ open.failures = s.failures /\ open.circuit = Unset
          /\ open.cooldown = Unset /\ open.generation = s.generation /\ open.queue = s.queue
          /\ open.timer = s.timer /\ open.ticking = s.ticking
          /\ open.recovering => s.recovering \/ open.next = 0
          /\ open.next = s.next \/ open.next = 0
      BY <1>2, OpenedFacts
    <2>4. Pace(s, since) => Pace(open, since)
      BY <1>2, <2>1, <2>3 DEF Pace
    <2>5. Gate(s) \in Int /\ ~(Gate(s) > 0)
      BY <1>2, GateFacts
    <2>6. Calm(sc')
      BY <2>2, <2>3 DEF Outcome, Calm
    <2>7. Outcome(s, {})
      BY <2>2, <2>3, <2>4, <2>5, <2>6 DEF Outcome
    <2> QED
      BY <2>7
  <1>3. CASE /\ Gate(s) <= 0 /\ ~(open.recovering /\ open.next > 0)
             /\ \E A \in SUBSET live.queue : \E B \in SUBSET (live.queue \ A) :
                  Admits(live, A, B) /\ Grant(live, A \cup B)
    <2>1. open \in Scope
      BY <1>3, OpenedFacts
    <2>2. live \in Scope
      BY <2>1 DEF Scope
    <2>3. /\ live.queue = open.queue \ cancelled /\ live.inFlight = open.inFlight
          /\ live.failures = open.failures /\ live.generation = open.generation
          /\ live.cooldown = open.cooldown /\ live.circuit = open.circuit
          /\ live.recovering = open.recovering /\ live.next = open.next
      BY <2>1 DEF Scope
    <2> HIDE DEF live
    <2>4. PICK A \in SUBSET live.queue : \E B \in SUBSET (live.queue \ A) :
            Admits(live, A, B) /\ Grant(live, A \cup B)
      BY <1>3
    <2>. PICK B \in SUBSET (live.queue \ A) : Admits(live, A, B) /\ Grant(live, A \cup B)
      BY <2>4
    <2>5. live.next \in Nat
      BY <2>2 DEF Scope
    <2>6. Outcome(s, A \cup B)
      BY <1>3, <2>2, <2>3, <2>4, <2>5, OpenedFacts, AdmissionOutcome
    <2> QED
      BY <2>6
  <1> QED
    BY <1>1, <1>2, <1>3 DEF Schedule

(* ... and it keeps that whatever it did before.                           *)
LEMMA Scheduled ==
  ASSUME Inv, NEW s, NEW L, Ready(s, L), NEW G, Outcome(s, G), Leases' = L \cup G,
         NEW age \in [Caller -> Nat], NEW order \in [Caller -> SUBSET Caller], Keep(age, order),
         granted \cap s.queue = {}
  PROVE  Rescheduled(L)
  <1>1. /\ s \in Scope /\ L \subseteq Leases /\ granted \subseteq L /\ L \cap s.queue = {}
        /\ Cardinality(L) = s.inFlight /\ Leases \subseteq Caller /\ s.queue \subseteq Caller
        /\ s.generation \in Nat
        /\ s.inFlight \in Nat /\ since \in Nat /\ leaseGen \in [Caller -> Nat]
    BY Constant DEF Ready, Inv, TypeOK, Scope, Leases
  <1>2. /\ G \subseteq s.queue /\ granted' = granted \cup G /\ sc' \in Scope /\ since' \in Nat
        /\ sc'.inFlight = s.inFlight + Cardinality(G) /\ sc'.generation = s.generation
    BY DEF Outcome
  <1>3. L \cap G = {} /\ G \subseteq Caller /\ L \subseteq Caller
    BY <1>1, <1>2
  <1>4. Cardinality(L \cup G) = Cardinality(L) + Cardinality(G)
    BY <1>3, Disjoint
  <1>5. SlotsAreLeased'
    BY <1>1, <1>2, <1>4 DEF SlotsAreLeased
  <1>6. Cardinality(Leases') <= MaxInFlight
    BY <1>1, <1>2, <1>4 DEF Scope
  <1>7. Cardinality(Leases' \ Foreground) <= LowCapacity
    <2>1. CASE G \ Foreground = {}
      <3>1. Leases' \ Foreground \subseteq Leases \ Foreground
        BY <2>1, <1>1
      <3>2. Cardinality(Leases' \ Foreground) <= Cardinality(Leases \ Foreground)
            /\ Cardinality(Leases \ Foreground) \in Nat
            /\ Cardinality(Leases' \ Foreground) \in Nat
        BY <3>1, <1>1, Monotone, Finite
      <3> QED
        BY <3>2, Constant DEF Inv, ForegroundKeepsItsSlots
    <2>2. CASE G \ Foreground # {}
      <3>1. s.inFlight + Cardinality(G \ Foreground) <= LowCapacity
        BY <2>2 DEF Outcome
      <3>2. Leases' \ Foreground \subseteq L \cup (G \ Foreground)
        OBVIOUS
      <3>3. Cardinality(Leases' \ Foreground) <= Cardinality(L \cup (G \ Foreground))
        BY <3>2, <1>3, Monotone
      <3>4. Cardinality(L \cup (G \ Foreground)) = Cardinality(L) + Cardinality(G \ Foreground)
        BY <1>3, Disjoint
      <3>5. Cardinality(Leases' \ Foreground) \in Nat /\ Cardinality(G \ Foreground) \in Nat
        BY <1>3, Finite
      <3> QED
        BY <3>1, <3>3, <3>4, <3>5, <1>1, Constant
    <2> QED
      BY <2>1, <2>2
  <1>8. /\ waited' \in [Caller -> Nat] /\ ahead' \in [Caller -> SUBSET Caller]
        /\ leaseGen' \in [Caller -> Nat]
    BY <1>1, <1>2 DEF Keep
  <1>9. \A r \in L : leaseGen'[r] = leaseGen[r]
    BY <1>1, <1>2, <1>3 DEF Keep
  <1>10. Generation(sc, Leases)'
    <2> SUFFICES ASSUME NEW r \in Leases'
                 PROVE  /\ leaseGen'[r] <= sc'.generation
                        /\ sc'.circuit # Unset => leaseGen'[r] < sc'.generation
      BY DEF Generation
    <2>1. CASE r \in L
      BY <2>1, <1>2, <1>9 DEF Ready, Outcome, Generation
    <2>2. CASE r \in G
      <3>1. leaseGen'[r] = sc'.generation /\ sc'.circuit = Unset
        BY <2>2, <1>2, <1>3 DEF Keep, Outcome
      <3> QED
        BY <3>1, <1>1, <1>2
    <2> QED
      BY <2>1, <2>2
  <1>11. Gate(s) \in Int /\ Gate(sc') \in Int /\ quiet' \in Nat
    BY <1>1, <1>2, GateFacts DEF Ready
  <1>12. quiet' > 0 => quiet' <= Gate(sc')
    BY <1>11 DEF Ready, Outcome
  <1>13. Pace(sc', since') /\ Calm(sc')
    BY DEF Ready, Outcome, Calm
  <1>14. Awake(sc', cancelled')
    BY DEF Outcome, Awake
  <1>15. Leases' \ Leases \subseteq G
    BY <1>1
  <1>16. Leases' \ Leases # {} => quiet' = 0
    BY <1>11, <1>15 DEF Ready, Outcome
  <1>17. ASSUME Leases' \ Leases # {}, sc.recovering \/ Gate(sc) = 0
         PROVE  Cardinality(Leases' \ Leases) = 1 /\ (sc.recovering => since >= RecoveryInterval)
    <2>1. /\ G # {} /\ ~(Gate(s) > 0) /\ s.recovering = sc.recovering /\ s.next = sc.next
          /\ Gate(s) = Gate(sc)
      BY <1>15, <1>17 DEF Ready, Outcome
    <2>2. Cardinality(G) = 1
      BY <2>1, <1>17 DEF Outcome
    <2>3. Leases' \ Leases = G
      <3>1. IsFiniteSet(G) /\ IsFiniteSet(Leases' \ Leases)
        BY <1>3, <1>15, Finite
      <3>2. PICK x : G = {x}
        BY <2>2, <3>1, FS_Singleton
      <3> QED
        BY <3>2, <1>15, <1>17
    <2>4. sc.recovering => since >= RecoveryInterval
      <3> SUFFICES ASSUME sc.recovering PROVE since >= RecoveryInterval
        OBVIOUS
      <3>1. s.cooldown = Unset /\ s.circuit = Unset
        BY <2>1 DEF Ready, Calm
      <3>2. Gate(s) = Unset
        BY <3>1, <1>1, GateFacts
      <3>3. Gate(s) < 0
        BY <3>2 DEF Unset
      <3>4. s.next = 0
        BY <3>3, <2>1 DEF Outcome
      <3> QED
        BY <3>4, <2>1, <1>1, Constant DEF Ready, Pace
    <2> QED
      BY <2>2, <2>3, <2>4
  <1> QED
    BY <1>2, <1>5, <1>6, <1>7, <1>8, <1>9, <1>10, <1>12, <1>13, <1>14, <1>16, <1>17
       DEF ForegroundKeepsItsSlots, Rescheduled

(* Nobody in the queue has a lease; the counters have their types.         *)
LEMMA QueueHasNoLease ==
  ASSUME Inv
  PROVE  /\ Leases \cap sc.queue = {} /\ Leases \subseteq Caller /\ sc.queue \subseteq Caller
         /\ sc \in Scope /\ since \in Nat /\ late \in Nat /\ quiet \in Nat
         /\ Cardinality(Leases) = sc.inFlight
         /\ Ready(sc, Leases) \/ quiet' # quiet
  <1>1. Leases \cap sc.queue = {} /\ Leases \subseteq Caller
    BY DEF Inv, Places, Leases, TypeOK
  <1>2. /\ sc \in Scope /\ since \in Nat /\ late \in Nat /\ quiet \in Nat
        /\ sc.queue \subseteq Caller
    BY DEF Inv, TypeOK, Scope
  <1>3. Ready(sc, Leases) \/ quiet' # quiet
    BY <1>1, <1>2 DEF Inv, Ready, SlotsAreLeased, Leases
  <1> QED
    BY <1>1, <1>2, <1>3 DEF Inv, SlotsAreLeased

(* Acquire keeps the invariant and the step properties.                    *)
LEMMA EnqueueKept ==
  ASSUME Inv, NEW r \in Caller, Enqueue(r)
  PROVE  Kept
  <1> DEFINE s == [sc EXCEPT !.queue = @ \cup {r}]
  <1>1. /\ pc \in [Caller -> {"idle", "waiting", "holding", "returning"}]
        /\ cancelled \subseteq Caller /\ granted \subseteq Caller /\ tripped \subseteq Caller
        /\ waited \in [Caller -> Nat] /\ ahead \in [Caller -> SUBSET Caller]
    BY DEF Inv, TypeOK
  <1>2. s \in Scope
    BY QueueHasNoLease DEF Scope
  <1>3. /\ s.queue = sc.queue \cup {r} /\ s.inFlight = sc.inFlight /\ s.failures = sc.failures
        /\ s.cooldown = sc.cooldown /\ s.circuit = sc.circuit /\ s.generation = sc.generation
        /\ s.recovering = sc.recovering /\ s.next = sc.next /\ s.timer = sc.timer
        /\ s.ticking = sc.ticking
    BY QueueHasNoLease DEF Scope
  <1>4. /\ pc[r] = "idle" /\ pc' = [pc EXCEPT ![r] = "waiting"]
        /\ Schedule(s) /\ Keep([waited EXCEPT ![r] = 0], [ahead EXCEPT ![r] = sc.queue])
        /\ late' = late /\ cancelled' = cancelled /\ quiet' = quiet /\ tripped' = tripped
    BY DEF Enqueue
  <1> HIDE DEF s
  <1>5. r \notin Leases /\ r \notin granted
    BY <1>4 DEF Leases, Inv, Places
  <1>6. Gate(s) = Gate(sc)
    BY <1>3 DEF Gate
  <1>7. Ready(s, Leases)
    BY <1>2, <1>3, <1>4, <1>5, <1>6, QueueHasNoLease
       DEF Ready, Leases, Inv, Generation, Pace, Calm
  <1>8. PICK G : Outcome(s, G)
    BY <1>2, <1>4, QueueHasNoLease, ScheduleOutcome
  <1>9. Leases' = Leases \cup G
    BY <1>1, <1>4, <1>5, <1>8 DEF Leases, Outcome
  <1>10. /\ [waited EXCEPT ![r] = 0] \in [Caller -> Nat]
         /\ [ahead EXCEPT ![r] = sc.queue] \in [Caller -> SUBSET Caller]
         /\ granted \cap s.queue = {}
    BY <1>1, <1>3, <1>5, QueueHasNoLease DEF Leases
  <1>11. Rescheduled(Leases)
    BY <1>4, <1>7, <1>8, <1>9, <1>10, Scheduled
  <1>12. TypeOK'
    BY <1>1, <1>3, <1>4, <1>8, <1>11, QueueHasNoLease DEF TypeOK, Outcome, Rescheduled
  <1>13. Places'
    BY <1>1, <1>3, <1>4, <1>5, <1>8, <1>9 DEF Places, Outcome, Inv
  <1>14. \A x \in tripped' : leaseGen'[x] < sc'.generation
    BY <1>3, <1>4, <1>8, <1>11 DEF Inv, Places, Outcome, Rescheduled
  <1>15. Armed(sc', late')
    BY <1>3, <1>4, <1>8 DEF Inv, Armed, Outcome
  <1>16. sc'.failures = sc.failures
    BY <1>3, <1>8 DEF Outcome
  <1> QED
    BY <1>11, <1>12, <1>13, <1>14, <1>15, <1>16, QueueHasNoLease
       DEF Kept, Inv, Scope, Rescheduled

(* So does a cancelled waiter that leaves the queue.                       *)
LEMMA WithdrawKept ==
  ASSUME Inv, NEW r \in Caller, Withdraw(r)
  PROVE  Kept
  <1> DEFINE s == [sc EXCEPT !.queue = @ \ {r}]
  <1>1. /\ pc \in [Caller -> {"idle", "waiting", "holding", "returning"}]
        /\ cancelled \subseteq Caller /\ granted \subseteq Caller /\ tripped \subseteq Caller
        /\ waited \in [Caller -> Nat] /\ ahead \in [Caller -> SUBSET Caller]
    BY DEF Inv, TypeOK
  <1>2. s \in Scope
    BY QueueHasNoLease DEF Scope
  <1>3. /\ s.queue = sc.queue \ {r} /\ s.inFlight = sc.inFlight /\ s.failures = sc.failures
        /\ s.cooldown = sc.cooldown /\ s.circuit = sc.circuit /\ s.generation = sc.generation
        /\ s.recovering = sc.recovering /\ s.next = sc.next /\ s.timer = sc.timer
        /\ s.ticking = sc.ticking
    BY QueueHasNoLease DEF Scope
  <1>4. /\ r \in sc.queue /\ pc' = [pc EXCEPT ![r] = "idle"]
        /\ Schedule(s) /\ Keep(waited, ahead)
        /\ late' = late /\ cancelled' = cancelled \ {r} /\ quiet' = quiet /\ tripped' = tripped
    BY DEF Withdraw
  <1> HIDE DEF s
  <1>5. r \notin Leases /\ r \notin granted
    BY <1>4, QueueHasNoLease DEF Leases
  <1>6. Gate(s) = Gate(sc)
    BY <1>3 DEF Gate
  <1>7. Ready(s, Leases)
    BY <1>2, <1>3, <1>4, <1>5, <1>6, QueueHasNoLease
       DEF Ready, Leases, Inv, Generation, Pace, Calm
  <1>8. PICK G : Outcome(s, G)
    BY <1>2, <1>4, QueueHasNoLease, ScheduleOutcome
  <1>9. Leases' = Leases \cup G
    BY <1>1, <1>4, <1>5, <1>8 DEF Leases, Outcome
  <1>10. granted \cap s.queue = {}
    BY <1>3, QueueHasNoLease DEF Leases
  <1>11. Rescheduled(Leases)
    BY <1>1, <1>4, <1>7, <1>8, <1>9, <1>10, Scheduled
  <1>12. TypeOK'
    BY <1>1, <1>3, <1>4, <1>8, <1>11, QueueHasNoLease DEF TypeOK, Outcome, Rescheduled
  <1>13. Places'
    BY <1>1, <1>3, <1>4, <1>5, <1>8, <1>9 DEF Places, Outcome, Inv
  <1>14. \A x \in tripped' : leaseGen'[x] < sc'.generation
    BY <1>3, <1>4, <1>8, <1>11 DEF Inv, Places, Outcome, Rescheduled
  <1>15. Armed(sc', late')
    BY <1>3, <1>4, <1>8 DEF Inv, Armed, Outcome
  <1>16. sc'.failures = sc.failures
    BY <1>3, <1>8 DEF Outcome
  <1> QED
    BY <1>11, <1>12, <1>13, <1>14, <1>15, <1>16, QueueHasNoLease
       DEF Kept, Inv, Scope, Rescheduled

(* So does a timer function, timely or late.                               *)
LEMMA TimerRunsKept ==
  ASSUME Inv, TimerRuns
  PROVE  Kept
  <1> DEFINE s == Disarm(sc)
  <1>1. /\ pc \in [Caller -> {"idle", "waiting", "holding", "returning"}]
        /\ cancelled \subseteq Caller /\ granted \subseteq Caller /\ tripped \subseteq Caller
        /\ waited \in [Caller -> Nat] /\ ahead \in [Caller -> SUBSET Caller]
    BY DEF Inv, TypeOK
  <1>2. s \in Scope
    BY QueueHasNoLease DEF Scope, Disarm, Deadline
  <1>3. /\ s.queue = sc.queue /\ s.inFlight = sc.inFlight /\ s.failures = sc.failures
        /\ s.cooldown = sc.cooldown /\ s.circuit = sc.circuit /\ s.generation = sc.generation
        /\ s.recovering = sc.recovering /\ s.next = sc.next /\ s.timer = Unset
    BY QueueHasNoLease DEF Scope, Disarm
  <1>4. /\ pc' = pc /\ Schedule(s) /\ Keep(waited, ahead)
        /\ late > 0 /\ late' = late - 1 + (IF sc.ticking THEN 1 ELSE 0)
        /\ cancelled' = cancelled /\ quiet' = quiet /\ tripped' = tripped
    BY DEF TimerRuns, Forgotten
  <1> HIDE DEF s
  <1>5. late' \in Nat
    BY <1>4, QueueHasNoLease
  <1>6. Gate(s) = Gate(sc)
    BY <1>3 DEF Gate
  <1>7. Ready(s, Leases)
    BY <1>2, <1>3, <1>4, <1>6, QueueHasNoLease
       DEF Ready, Leases, Inv, Generation, Pace, Calm
  <1>8. PICK G : Outcome(s, G)
    BY <1>2, <1>4, QueueHasNoLease, ScheduleOutcome
  <1>9. Leases' = Leases \cup G
    BY <1>1, <1>4, <1>8 DEF Leases, Outcome
  <1>10. granted \cap s.queue = {}
    BY <1>3, QueueHasNoLease DEF Leases
  <1>11. Rescheduled(Leases)
    BY <1>1, <1>4, <1>7, <1>8, <1>9, <1>10, Scheduled
  <1>12. TypeOK'
    BY <1>1, <1>3, <1>4, <1>5, <1>8, <1>11, QueueHasNoLease DEF TypeOK, Outcome, Rescheduled
  <1>13. Places'
    BY <1>1, <1>3, <1>4, <1>8, <1>9 DEF Places, Outcome, Inv
  <1>14. \A x \in tripped' : leaseGen'[x] < sc'.generation
    BY <1>3, <1>4, <1>8, <1>11 DEF Inv, Places, Outcome, Rescheduled
  <1>15. Armed(sc', late')
    BY <1>3, <1>8 DEF Inv, Armed, Outcome
  <1>16. sc'.failures = sc.failures
    BY <1>3, <1>8 DEF Outcome
  <1> QED
    BY <1>11, <1>12, <1>13, <1>14, <1>15, <1>16, QueueHasNoLease
       DEF Kept, Inv, Scope, Rescheduled

(* complete, whatever observeFailureLocked or a success made of the scope. *)
LEMMA CompleteKept ==
  ASSUME Inv, NEW r \in Caller, NEW s \in Scope, Complete(r, s),
         s.queue = sc.queue, s.inFlight = sc.inFlight, s.timer = sc.timer, s.ticking = sc.ticking,
         tripped' \subseteq Leases \ {r}, \A x \in tripped' : leaseGen[x] < s.generation,
         Generation(s, Leases \ {r}), Pace(s, since), Calm(s),
         quiet' \in Nat, quiet' > 0 => quiet' <= Gate(s),
         Gate(s) > 0 \/ (s.recovering = sc.recovering /\ s.next = sc.next /\ Gate(s) = Gate(sc)),
         s.failures >= sc.failures \/ r \notin tripped
  PROVE  Kept
  <1> DEFINE z == [s EXCEPT !.inFlight = IF @ > 0 THEN @ - 1 ELSE @]
             L == Leases \ {r}
  <1>1. /\ pc \in [Caller -> {"idle", "waiting", "holding", "returning"}]
        /\ cancelled \subseteq Caller /\ granted \subseteq Caller /\ tripped \subseteq Caller
        /\ waited \in [Caller -> Nat] /\ ahead \in [Caller -> SUBSET Caller]
    BY DEF Inv, TypeOK
  <1>2. /\ pc[r] \in {"holding", "returning"} /\ pc' = [pc EXCEPT ![r] = "idle"]
        /\ Schedule(z) /\ Keep(waited, ahead) /\ cancelled' = cancelled \ {r} /\ late' = late
    BY DEF Complete
  <1>3. r \in Leases /\ r \notin granted /\ r \notin sc.queue
    BY <1>2 DEF Leases, Inv, Places
  <1>4. Cardinality(L) = sc.inFlight - 1 /\ sc.inFlight > 0
    <2>1. IsFiniteSet(Leases) /\ Cardinality(L) \in Nat
      BY QueueHasNoLease, Finite
    <2>2. Cardinality(L) = Cardinality(Leases) - 1
      BY <2>1, <1>3, FS_RemoveElement
    <2> QED
      BY <2>1, <2>2, QueueHasNoLease DEF Scope
  <1>5. z \in Scope
    <2>1. (IF s.inFlight > 0 THEN s.inFlight - 1 ELSE s.inFlight) \in 0 .. MaxInFlight
      BY Constant DEF Scope
    <2> QED
      BY <2>1 DEF Scope
  <1>6. /\ z.queue = sc.queue /\ z.inFlight = sc.inFlight - 1 /\ z.failures = s.failures
        /\ z.cooldown = s.cooldown /\ z.circuit = s.circuit /\ z.generation = s.generation
        /\ z.recovering = s.recovering /\ z.next = s.next /\ z.timer = sc.timer
        /\ z.ticking = sc.ticking
    BY <1>4 DEF Scope
  <1> HIDE DEF z
  <1>7. Gate(z) = Gate(s)
    BY <1>6 DEF Gate
  <1>8. Ready(z, L)
    BY <1>3, <1>4, <1>5, <1>6, <1>7, QueueHasNoLease DEF Ready, Leases, Generation, Pace, Calm
  <1>9. PICK G : Outcome(z, G)
    BY <1>2, <1>5, QueueHasNoLease, ScheduleOutcome
  <1>10. Leases' = L \cup G /\ r \notin G
    BY <1>1, <1>2, <1>3, <1>6, <1>9 DEF Leases, Outcome
  <1>11. granted \cap z.queue = {}
    BY <1>6, QueueHasNoLease DEF Leases
  <1>12. Rescheduled(L)
    BY <1>1, <1>2, <1>8, <1>9, <1>10, <1>11, Scheduled
  <1>13. TypeOK'
    BY <1>1, <1>2, <1>6, <1>9, <1>12, QueueHasNoLease DEF TypeOK, Outcome, Rescheduled
  <1>14. Places'
    BY <1>1, <1>2, <1>3, <1>6, <1>9, <1>10 DEF Places, Outcome, Inv
  <1>15. \A x \in tripped' : leaseGen'[x] < sc'.generation
    BY <1>6, <1>9, <1>12 DEF Outcome, Rescheduled
  <1>16. Armed(sc', late')
    BY <1>2, <1>6, <1>9 DEF Inv, Armed, Outcome
  <1>17. sc'.failures = s.failures /\ sc.failures \in Nat /\ s.failures \in Nat
    BY <1>6, <1>9, QueueHasNoLease, Constant DEF Outcome, Scope
  <1>18. r \in Leases \ Leases'
    BY <1>3, <1>10
  <1> QED
    BY <1>12, <1>13, <1>14, <1>15, <1>16, <1>17, <1>18 DEF Kept, Inv, Rescheduled

(* The parts of the invariant that speak of the leases.                    *)
LEMMA LeaseFacts ==
  ASSUME Inv
  PROVE  /\ tripped \subseteq Leases /\ \A x \in tripped : leaseGen[x] < sc.generation
         /\ \A x \in Leases : leaseGen[x] <= sc.generation /\ leaseGen[x] \in Nat
                             /\ (sc.circuit # Unset => leaseGen[x] < sc.generation)
         /\ Pace(sc, since) /\ Calm(sc) /\ (quiet > 0 => quiet <= Gate(sc))
         /\ sc.generation \in Nat
  BY QueueHasNoLease DEF Inv, Places, Generation, TypeOK, Scope

(* So does a released lease.                                               *)
LEMMA ReleaseKept ==
  ASSUME Inv, NEW r \in Caller, Release(r)
  PROVE  Kept
  <1>1. Complete(r, sc) /\ tripped' = tripped \ {r} /\ quiet' = quiet
    BY DEF Release
  <1>2. sc.failures \in Nat
    BY QueueHasNoLease, Constant DEF Scope
  <1> QED
    BY <1>1, <1>2, LeaseFacts, QueueHasNoLease, CompleteKept DEF Generation

(* So does a success: it only counts for a lease of the current            *)
(* generation, for which no circuit is open.                               *)
LEMMA SucceedKept ==
  ASSUME Inv, NEW r \in Caller, Succeed(r)
  PROVE  Kept
  <1>1. /\ pc[r] = "holding" /\ Complete(r, Succeeded(r))
        /\ tripped' = tripped \ {r} /\ quiet' = quiet
    BY DEF Succeed
  <1>2. r \in Leases
    BY <1>1 DEF Leases
  <1>3. sc.failures \in Nat
    BY QueueHasNoLease, Constant DEF Scope
  <1>4. CASE leaseGen[r] = sc.generation /\ sc.circuit <= 0
    <2> DEFINE s == [sc EXCEPT !.failures = 0, !.circuit = Unset]
    <2>1. s \in Scope
      <3>1. 0 \in 0 .. Threshold /\ Unset \in Deadline /\ sc \in Scope
        BY QueueHasNoLease, Constant DEF Deadline
      <3> QED
        BY <3>1 DEF Scope
    <2>2. sc.circuit = Unset
      BY <1>2, <1>4, LeaseFacts
    <2>3. /\ s.queue = sc.queue /\ s.inFlight = sc.inFlight /\ s.timer = sc.timer
          /\ s.ticking = sc.ticking /\ s.generation = sc.generation /\ s.circuit = sc.circuit
          /\ s.cooldown = sc.cooldown /\ s.recovering = sc.recovering /\ s.next = sc.next
      BY <2>2, QueueHasNoLease DEF Scope
    <2>4. Complete(r, s)
      BY <1>1, <1>4 DEF Succeeded
    <2> HIDE DEF s
    <2>5. Gate(s) = Gate(sc) /\ Pace(s, since) /\ Calm(s) /\ Generation(s, Leases \ {r})
      BY <2>3, LeaseFacts DEF Gate, Pace, Calm, Generation
    <2>6. r \notin tripped
      BY <1>2, <1>4, LeaseFacts
    <2>7. /\ tripped' \subseteq Leases \ {r} /\ \A x \in tripped' : leaseGen[x] < s.generation
          /\ quiet' \in Nat /\ (quiet' > 0 => quiet' <= Gate(s))
      BY <1>1, <2>3, <2>5, LeaseFacts, QueueHasNoLease
    <2> QED
      BY <2>1, <2>3, <2>4, <2>5, <2>6, <2>7, CompleteKept
  <1>5. CASE ~(leaseGen[r] = sc.generation /\ sc.circuit <= 0)
    <2>1. Succeeded(r) = sc
      BY <1>5 DEF Succeeded
    <2> QED
      BY <1>1, <1>3, <2>1, LeaseFacts, QueueHasNoLease, CompleteKept DEF Generation
  <1> QED
    BY <1>4, <1>5

(* So does a rate limit, which silences the scope before anybody is        *)
(* admitted.                                                               *)
LEMMA RateLimitedKept ==
  ASSUME Inv, NEW r \in Caller, NEW delay \in Delays, RateLimited(r, delay)
  PROVE  Kept
  <1> DEFINE until == Larger(sc.cooldown, delay)
             s == [sc EXCEPT !.cooldown = until, !.recovering = FALSE, !.next = 0]
  <1>1. /\ Complete(r, s) /\ tripped' = tripped \ {r} /\ quiet' = Larger(quiet, delay)
    BY DEF RateLimited, Cooled
  <1>2. /\ until \in Deadline /\ until > 0 /\ until >= delay /\ until >= sc.cooldown
        /\ delay \in Nat /\ delay > 0 /\ sc.cooldown \in Int /\ sc.circuit \in Int
        /\ until \in Int /\ sc.failures \in Nat
    BY QueueHasNoLease, Constant DEF Scope, Deadline, Unset, Larger
  <1> HIDE DEF until
  <1>3. s \in Scope
    BY <1>2, QueueHasNoLease DEF Scope
  <1>4. /\ s.queue = sc.queue /\ s.inFlight = sc.inFlight /\ s.timer = sc.timer
        /\ s.ticking = sc.ticking /\ s.generation = sc.generation /\ s.circuit = sc.circuit
        /\ s.cooldown = until /\ s.recovering = FALSE /\ s.failures = sc.failures
    BY QueueHasNoLease DEF Scope
  <1> HIDE DEF s
  <1>5. Gate(s) > 0 /\ Gate(s) >= delay /\ Gate(s) >= Gate(sc) /\ Gate(s) \in Int
    BY <1>2, <1>4 DEF Gate, Larger
  <1>6. Pace(s, since) /\ Calm(s) /\ Generation(s, Leases \ {r})
    BY <1>4, LeaseFacts DEF Pace, Calm, Generation
  <1>7. quiet' \in Nat /\ (quiet' > 0 => quiet' <= Gate(s))
    BY <1>1, <1>2, <1>5, LeaseFacts, QueueHasNoLease, GateFacts DEF Larger
  <1>8. tripped' \subseteq Leases \ {r} /\ \A x \in tripped' : leaseGen[x] < s.generation
    BY <1>1, <1>4, LeaseFacts
  <1> QED
    BY <1>1, <1>2, <1>3, <1>4, <1>5, <1>6, <1>7, <1>8, CompleteKept

(* So does a server failure, below the threshold or opening the circuit.   *)
LEMMA ServerFailedKept ==
  ASSUME Inv, NEW r \in Caller, ServerFailed(r)
  PROVE  Kept
  <1>1. /\ Complete(r, Counted)
        /\ tripped' = (IF Trips THEN Leases ELSE tripped) \ {r}
        /\ quiet' = IF Trips THEN Larger(quiet, CircuitOpen) ELSE quiet
    BY DEF ServerFailed
  <1>2. /\ sc.failures \in Nat /\ sc.failures <= Threshold /\ sc.circuit \in Int
        /\ sc.circuit = Unset \/ sc.circuit >= 0
        /\ sc.cooldown \in Int /\ sc.generation \in Nat
    BY QueueHasNoLease, Constant DEF Scope, Deadline, Unset
  <1>3. CASE ~Trips
    <2> DEFINE s == [sc EXCEPT !.failures = @ + 1]
    <2>1. Complete(r, s)
      BY <1>1, <1>3 DEF Counted
    <2>2. s \in Scope
      <3>1. sc.failures + 1 \in 0 .. Threshold
        BY <1>2, <1>3, Constant DEF Trips
      <3> QED
        BY <3>1, QueueHasNoLease DEF Scope
    <2>3. /\ s.queue = sc.queue /\ s.inFlight = sc.inFlight /\ s.timer = sc.timer
          /\ s.ticking = sc.ticking /\ s.generation = sc.generation /\ s.circuit = sc.circuit
          /\ s.cooldown = sc.cooldown /\ s.recovering = sc.recovering /\ s.next = sc.next
          /\ s.failures = sc.failures + 1
      BY QueueHasNoLease DEF Scope
    <2> HIDE DEF s
    <2>4. Gate(s) = Gate(sc) /\ Pace(s, since) /\ Calm(s) /\ Generation(s, Leases \ {r})
      BY <2>3, LeaseFacts DEF Gate, Pace, Calm, Generation
    <2>5. /\ tripped' \subseteq Leases \ {r} /\ \A x \in tripped' : leaseGen[x] < s.generation
          /\ quiet' \in Nat /\ (quiet' > 0 => quiet' <= Gate(s))
      BY <1>1, <1>3, <2>3, <2>4, LeaseFacts, QueueHasNoLease
    <2> QED
      BY <1>2, <2>1, <2>2, <2>3, <2>4, <2>5, CompleteKept
  <1>4. CASE Trips
    <2> DEFINE gen == IF sc.circuit > 0 THEN sc.generation ELSE sc.generation + 1
               until == Larger(sc.circuit, CircuitOpen)
               s == [sc EXCEPT !.failures = Threshold, !.generation = gen, !.circuit = until,
                               !.recovering = FALSE, !.next = 0]
    <2>1. Complete(r, s)
      BY <1>1, <1>4 DEF Counted
    <2>2. /\ until \in Deadline /\ until > 0 /\ until >= CircuitOpen /\ until >= sc.circuit
          /\ until \in Int /\ gen \in Nat
          /\ sc.circuit <= 0 => gen = sc.generation + 1
          /\ sc.circuit > 0 => gen = sc.generation /\ sc.circuit # Unset
      BY <1>2, Constant DEF Larger, Deadline, Unset
    <2> HIDE DEF until, gen
    <2>3. s \in Scope
      <3>1. Threshold \in 0 .. Threshold /\ sc \in Scope
        BY QueueHasNoLease, Constant
      <3> QED
        BY <3>1, <2>2 DEF Scope
    <2>4. /\ s.queue = sc.queue /\ s.inFlight = sc.inFlight /\ s.timer = sc.timer
          /\ s.ticking = sc.ticking /\ s.generation = gen /\ s.circuit = until
          /\ s.cooldown = sc.cooldown /\ s.recovering = FALSE /\ s.failures = Threshold
      BY QueueHasNoLease DEF Scope
    <2> HIDE DEF s
    <2>5. Gate(s) > 0 /\ Gate(s) >= CircuitOpen /\ Gate(s) >= Gate(sc) /\ Gate(s) \in Int
      BY <1>2, <2>2, <2>4, Constant DEF Gate, Larger
    <2>6. \A x \in Leases : leaseGen[x] < s.generation
      BY <1>2, <2>2, <2>4, LeaseFacts
    <2>7. Pace(s, since) /\ Calm(s) /\ Generation(s, Leases \ {r})
      BY <2>2, <2>4, <2>6, LeaseFacts DEF Pace, Calm, Generation
    <2>8. /\ tripped' \subseteq Leases \ {r} /\ \A x \in tripped' : leaseGen[x] < s.generation
          /\ quiet' \in Nat /\ (quiet' > 0 => quiet' <= Gate(s))
      BY <1>1, <1>4, <2>5, <2>6, LeaseFacts, QueueHasNoLease, GateFacts, Constant DEF Larger
    <2> QED
      BY <1>2, <2>1, <2>3, <2>4, <2>5, <2>7, <2>8, Constant, CompleteKept
  <1> QED
    BY <1>3, <1>4

(* A step that leaves the scope, the leases and the histories alone.       *)
LEMMA ScopeUntouched ==
  ASSUME Inv, UNCHANGED <<sc, late, leaseGen, quiet, tripped, since, waited, ahead>>,
         Leases' = Leases, Places', granted' \subseteq Caller, cancelled' \subseteq Caller,
         pc' \in [Caller -> {"idle", "waiting", "holding", "returning"}],
         Admissible(sc) \ cancelled' # {} => Admissible(sc) \ cancelled # {}
  PROVE  Kept
  <1>1. TypeOK'
    BY DEF Inv, TypeOK
  <1>2. SlotsAreLeased' /\ ForegroundKeepsItsSlots'
    BY DEF Inv, SlotsAreLeased, ForegroundKeepsItsSlots
  <1>3. Generation(sc, Leases)' /\ (\A r \in tripped' : leaseGen'[r] < sc'.generation)
    BY DEF Inv, Generation
  <1>4. /\ Pace(sc', since') /\ Calm(sc') /\ Armed(sc', late') /\ Awake(sc', cancelled')
        /\ quiet' > 0 => quiet' <= Gate(sc')
    BY DEF Inv, Pace, Calm, Armed, Awake
  <1>5. ~(sc.failures < sc.failures)
    BY QueueHasNoLease, Constant DEF Scope
  <1> QED
    BY <1>1, <1>2, <1>3, <1>4, <1>5 DEF Kept, Inv

(* So do the steps of a caller outside the mutex.                          *)
LEMMA CallerStepsKept ==
  ASSUME Inv, NEW r \in Caller, Cancel(r) \/ Receive(r) \/ WithdrawLate(r)
  PROVE  Kept
  <1>1. /\ pc \in [Caller -> {"idle", "waiting", "holding", "returning"}]
        /\ cancelled \subseteq Caller /\ granted \subseteq Caller
        /\ sc.queue \cap granted = {} /\ \A x \in sc.queue \cup granted : pc[x] = "waiting"
        /\ tripped \subseteq Leases
    BY DEF Inv, TypeOK, Places
  <1>2. CASE Cancel(r)
    <2>1. Leases' = Leases /\ Places'
      BY <1>2, <1>1 DEF Cancel, Leases, Places
    <2> QED
      BY <1>1, <1>2, <2>1, ScopeUntouched DEF Cancel
  <1>3. CASE Receive(r)
    <2>1. Leases' = Leases
      BY <1>3, <1>1 DEF Receive, Leases
    <2>2. Places'
      BY <1>3, <1>1, <2>1 DEF Receive, Places
    <2>3. pc' \in [Caller -> {"idle", "waiting", "holding", "returning"}]
      BY <1>3, <1>1 DEF Receive
    <2> QED
      BY <1>1, <1>3, <2>1, <2>2, <2>3, ScopeUntouched DEF Receive
  <1>4. CASE WithdrawLate(r)
    <2>1. pc' \in [Caller -> {"idle", "waiting", "holding", "returning"}]
      BY <1>4, <1>1 DEF WithdrawLate, Drain
    <2>2. Leases' = Leases
      BY <1>4, <1>1 DEF WithdrawLate, Drain, Leases
    <2>3. Places'
      BY <1>4, <1>1, <2>2 DEF WithdrawLate, Drain, Places
    <2>4. Admissible(sc) \ cancelled' # {} => Admissible(sc) \ cancelled # {}
      BY <1>4 DEF WithdrawLate, Admissible
    <2> QED
      BY <1>1, <1>4, <2>1, <2>2, <2>3, <2>4, ScopeUntouched DEF WithdrawLate
  <1> QED
    BY <1>2, <1>3, <1>4

(* So does a timer that fires.                                             *)
LEMMA TimerFiresKept ==
  ASSUME Inv, TimerFires
  PROVE  Kept
  <1>1. /\ sc' = [sc EXCEPT !.ticking = FALSE] /\ late' = late + 1 /\ late' \in Nat /\ late' > 0
        /\ UNCHANGED <<callerVars, granted, leaseGen, quiet, tripped, since>>
    BY QueueHasNoLease DEF TimerFires
  <1>2. sc' \in Scope
    BY <1>1, QueueHasNoLease DEF Scope
  <1>3. /\ sc'.queue = sc.queue /\ sc'.inFlight = sc.inFlight /\ sc'.timer = sc.timer
        /\ sc'.generation = sc.generation /\ sc'.circuit = sc.circuit
        /\ sc'.cooldown = sc.cooldown /\ sc'.recovering = sc.recovering /\ sc'.next = sc.next
        /\ sc'.failures = sc.failures
    BY <1>1, QueueHasNoLease DEF Scope
  <1>4. Leases' = Leases
    BY <1>1 DEF Leases, callerVars
  <1>5. TypeOK' /\ Places'
    BY <1>1, <1>2, <1>3, <1>4 DEF Inv, TypeOK, Places, callerVars
  <1>6. SlotsAreLeased' /\ ForegroundKeepsItsSlots'
    BY <1>3, <1>4 DEF Inv, SlotsAreLeased, ForegroundKeepsItsSlots
  <1>7. Generation(sc, Leases)' /\ (\A r \in tripped' : leaseGen'[r] < sc'.generation)
    BY <1>1, <1>3, <1>4 DEF Inv, Generation
  <1>8. Gate(sc') = Gate(sc) /\ Admissible(sc') = Admissible(sc)
    BY <1>3 DEF Gate, Admissible
  <1>9. /\ Pace(sc', since') /\ Calm(sc') /\ Armed(sc', late') /\ Awake(sc', cancelled')
        /\ quiet' > 0 => quiet' <= Gate(sc')
    BY <1>1, <1>3, <1>8 DEF Inv, Pace, Calm, Armed, Awake, callerVars
  <1>10. ~(sc.failures < sc.failures)
    BY QueueHasNoLease, Constant DEF Scope
  <1> QED
    BY <1>3, <1>4, <1>5, <1>6, <1>7, <1>9, <1>10 DEF Kept, Inv

(* So does time.                                                           *)
LEMMA TickKept ==
  ASSUME Inv, Tick
  PROVE  Kept
  <1>1. /\ sc' = [sc EXCEPT !.cooldown = Closer(@), !.circuit = Closer(@),
                            !.next = Closer(@), !.timer = Closer(@)]
        /\ waited' = [r \in Caller |-> IF r \in sc.queue
                                 THEN Smaller(waited[r] + 1, Aged(r)) ELSE 0]
        /\ quiet' = Closer(quiet) /\ since' = Smaller(since + 1, RecoveryInterval)
        /\ UNCHANGED <<late, pc, cancelled, ahead, granted, leaseGen, tripped>>
    BY DEF Tick
  <1>2. \A d \in Deadline : Closer(d) \in Deadline /\ (Closer(d) = Unset <=> d = Unset)
    BY DEF Closer, Deadline, Unset
  <1>3. \A n \in Nat : Closer(n) \in Nat
    BY DEF Closer
  <1>4. /\ sc.cooldown \in Deadline /\ sc.circuit \in Deadline /\ sc.next \in Nat
        /\ sc.timer \in Deadline
    BY QueueHasNoLease DEF Scope
  <1>5. sc' \in Scope
    <2>1. /\ Closer(sc.cooldown) \in Deadline /\ Closer(sc.circuit) \in Deadline
          /\ Closer(sc.next) \in Nat /\ Closer(sc.timer) \in Deadline
      BY <1>2, <1>3, <1>4
    <2> QED
      BY <1>1, <2>1, QueueHasNoLease DEF Scope
  <1>6. /\ sc'.queue = sc.queue /\ sc'.inFlight = sc.inFlight /\ sc'.timer = Closer(sc.timer)
        /\ sc'.generation = sc.generation /\ sc'.circuit = Closer(sc.circuit)
        /\ sc'.cooldown = Closer(sc.cooldown) /\ sc'.recovering = sc.recovering
        /\ sc'.next = Closer(sc.next) /\ sc'.failures = sc.failures /\ sc'.ticking = sc.ticking
    BY <1>1, QueueHasNoLease DEF Scope
  <1>7. Leases' = Leases
    BY <1>1 DEF Leases
  <1>8. quiet' \in Nat /\ since' \in Nat /\ waited' \in [Caller -> Nat]
    <2>1. quiet' \in Nat /\ since' \in Nat
      BY <1>1, <1>3, QueueHasNoLease, Constant DEF Smaller
    <2>2. \A r \in Caller : Aged(r) \in Nat
      <3> TAKE r \in Caller
      <3>1. Priority[r] \in 1 .. 4 /\ AgingInterval \in Nat
        BY CallerAssumption, Constant
      <3>2. CASE Priority[r] = 1
        BY <3>1, <3>2 DEF Aged
      <3>3. CASE Priority[r] = 2
        BY <3>1, <3>3 DEF Aged
      <3>4. CASE Priority[r] = 3
        BY <3>1, <3>4 DEF Aged
      <3>5. CASE Priority[r] = 4
        BY <3>1, <3>5 DEF Aged
      <3> QED
        BY <3>1, <3>2, <3>3, <3>4, <3>5
    <2>3. \A r \in Caller : Smaller(waited[r] + 1, Aged(r)) \in Nat
      BY <2>2 DEF Inv, TypeOK, Smaller
    <2> QED
      BY <1>1, <2>1, <2>3
  <1>9. TypeOK' /\ Places'
    BY <1>1, <1>5, <1>6, <1>7, <1>8 DEF Inv, TypeOK, Places
  <1>10. SlotsAreLeased' /\ ForegroundKeepsItsSlots'
    BY <1>6, <1>7 DEF Inv, SlotsAreLeased, ForegroundKeepsItsSlots
  <1>11. Generation(sc, Leases)' /\ (\A r \in tripped' : leaseGen'[r] < sc'.generation)
    BY <1>1, <1>2, <1>4, <1>6, <1>7 DEF Inv, Generation
  <1>12. Gate(sc') = Closer(Gate(sc)) /\ Admissible(sc') = Admissible(sc)
    <2>1. Larger(Closer(sc.cooldown), Closer(sc.circuit)) = Closer(Larger(sc.cooldown, sc.circuit))
      BY <1>4 DEF Larger, Closer, Deadline, Unset
    <2> QED
      BY <1>6, <2>1 DEF Gate, Admissible
  <1>13. quiet' > 0 => quiet' <= Gate(sc')
    BY <1>1, <1>12, QueueHasNoLease, LeaseFacts, GateFacts DEF Closer
  <1>14. Pace(sc', since')
    BY <1>1, <1>4, <1>6, QueueHasNoLease, LeaseFacts, Constant DEF Pace, Closer, Smaller
  <1>15. Calm(sc') /\ Armed(sc', late') /\ Awake(sc', cancelled')
    BY <1>1, <1>2, <1>4, <1>6, <1>12 DEF Inv, Calm, Armed, Awake
  <1>16. ~(sc.failures < sc.failures)
    BY QueueHasNoLease, Constant DEF Scope
  <1> QED
    BY <1>6, <1>7, <1>9, <1>10, <1>11, <1>13, <1>14, <1>15, <1>16 DEF Kept, Inv

(* A fresh scope satisfies the invariant.                                  *)
LEMMA InitialInv == Init => Inv
  <1> SUFFICES ASSUME Init PROVE Inv
    OBVIOUS
  <1>1. Leases = {} /\ sc.inFlight = 0 /\ sc.queue = {} /\ tripped = {} /\ granted = {}
    BY DEF Init, Leases
  <1>2. TypeOK
    <2>1. sc \in Scope
      <3>1. 0 \in 0 .. MaxInFlight /\ 0 \in 0 .. Threshold /\ Unset \in Deadline
        BY Constant DEF Deadline
      <3> QED
        BY <3>1 DEF Init, Scope
    <2> QED
      BY <2>1 DEF Init, TypeOK
  <1>3. SlotsAreLeased /\ ForegroundKeepsItsSlots
    <2>1. Cardinality({}) = 0 /\ {} \ Foreground = {}
      BY FS_EmptySet
    <2> QED
      BY <1>1, <2>1, Constant DEF SlotsAreLeased, ForegroundKeepsItsSlots
  <1>4. Places /\ Generation(sc, Leases) /\ \A r \in tripped : leaseGen[r] < sc.generation
    BY <1>1 DEF Places, Generation
  <1>5. Pace(sc, since) /\ Calm(sc) /\ Armed(sc, late) /\ ~(quiet > 0)
    BY DEF Init, Pace, Calm, Armed
  <1>6. Awake(sc, cancelled)
    BY <1>1 DEF Awake, Admissible
  <1> QED
    BY <1>2, <1>3, <1>4, <1>5, <1>6 DEF Inv

(* Every step keeps the invariant and the step properties.                 *)
LEMMA StepKept ==
  ASSUME Inv, [Next]_vars
  PROVE  Kept
  <1>1. ASSUME NEW r \in Caller, CallerStep(r) PROVE Kept
    BY <1>1, EnqueueKept, CallerStepsKept, WithdrawKept, ReleaseKept, SucceedKept,
       RateLimitedKept, ServerFailedKept DEF CallerStep
  <1>2. CASE TimerFires \/ TimerRuns \/ Tick
    BY <1>2, TimerFiresKept, TimerRunsKept, TickKept
  <1>3. CASE UNCHANGED vars
    <2>1. Leases' = Leases /\ Places'
      BY <1>3 DEF vars, callerVars, Leases, Places, Inv
    <2> QED
      BY <1>3, <2>1, ScopeUntouched DEF vars, callerVars, Inv, TypeOK
  <1> QED
    BY <1>1, <1>2, <1>3 DEF Next

(* The inductive invariant holds in every reachable state.                 *)
THEOREM CoordinatorInvariant == Spec => []Inv
  <1>1. Inv /\ [Next]_vars => Inv'
    BY StepKept DEF Kept
  <1> QED
    BY <1>1, InitialInv, PTL DEF Spec

(* Every variable has its type, for any callers and any configuration.     *)
THEOREM CoordinatorTypes == Spec => []TypeOK
  <1>1. Inv => TypeOK
    BY DEF Inv
  <1> QED
    BY <1>1, CoordinatorInvariant, PTL

(* No slot leaks and none is used twice: inFlight counts the leases that   *)
(* are out, through every cancellation race.                               *)
THEOREM NoSlotLeaks == Spec => []SlotsAreLeased
  <1>1. Inv => SlotsAreLeased
    BY DEF Inv
  <1> QED
    BY <1>1, CoordinatorInvariant, PTL

(* Background work never fills the reserved slots.                         *)
THEOREM ReserveHolds == Spec => []ForegroundKeepsItsSlots
  <1>1. Inv => ForegroundKeepsItsSlots
    BY DEF Inv
  <1> QED
    BY <1>1, CoordinatorInvariant, PTL

(* A waiter that fits always has a timer that will run for it.             *)
THEOREM WakeupsAreNotLost == Spec => []NoLostWakeup
  <1>1. Inv => NoLostWakeup
    BY DEF Inv, NoLostWakeup, Awake, Armed
  <1> QED
    BY <1>1, CoordinatorInvariant, PTL

(* No admission during a silence.                                          *)
THEOREM SilenceHolds == Spec => SilenceIsKept
  <1>1. Inv /\ [Next]_vars => [Leases' \ Leases # {} => quiet' = 0]_vars
    BY StepKept DEF Kept
  <1> QED
    BY <1>1, CoordinatorInvariant, PTL DEF Spec, SilenceIsKept

(* A success of a lease from before the circuit opened clears nothing.     *)
THEOREM LateSuccessIgnored == Spec => LateSuccessIsIgnored
  <1>1. Inv /\ [Next]_vars
        => [sc'.failures < sc.failures => \E r \in Leases \ Leases' : r \notin tripped]_vars
    BY StepKept DEF Kept
  <1> QED
    BY <1>1, CoordinatorInvariant, PTL DEF Spec, LateSuccessIsIgnored

(* Recovery admits one request at a time, an interval apart.               *)
THEOREM RecoveryPaced == Spec => RecoveryIsPaced
  <1>1. Inv /\ [Next]_vars
        => [Leases' \ Leases # {} /\ (sc.recovering \/ Gate(sc) = 0) =>
              /\ Cardinality(Leases' \ Leases) = 1
              /\ sc.recovering => since >= RecoveryInterval]_vars
    BY StepKept DEF Kept
  <1> QED
    BY <1>1, CoordinatorInvariant, PTL DEF Spec, RecoveryIsPaced
=============================================================================
