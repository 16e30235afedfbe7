--------------------- MODULE InferenceJournalRefinement ---------------------
(* The journal implements RequestRecovery, for any number of runtimes,     *)
(* workflows and operations.                                               *)
EXTENDS InferenceJournalProofs

(* The contract's standing of an operation, by the status of its row.      *)
LEMMA StandingOf ==
  ASSUME NEW row
  PROVE  /\ row.status = "none" => Standing(row) = "none"
         /\ row.status = "active" => Standing(row) = "running"
         /\ row.status = "pruned" => Standing(row) = "deleted"
         /\ row.status \in Completed => Standing(row) = "ended"
         /\ row.status \in {"interrupted", "blocked", "abandoned"} =>
              Standing(row) = IF row.recovery = "reschedule_safe" THEN "safe" ELSE "unsafe"
  BY DEF Standing, Completed

(* The variables of RequestRecovery.                                       *)
state == [o \in Operation |-> Standing(op[o])]
tries == {s \in SubId : att[s].phase # "none"}

(* Equal rows have equal standing.                                         *)
LEMMA SameStanding ==
  ASSUME \A o \in Operation : Standing(op'[o]) = Standing(op[o]) PROVE state' = state
  BY DEF state

(* Equal rows and executions have equal tries.                             *)
LEMMA SameTries ==
  ASSUME \A s \in SubId : att'[s].phase = "none" <=> att[s].phase = "none" PROVE tries' = tries
  BY DEF tries

(* The contract and the journal agree on which try is the latest.          *)
LEMMA Latest ==
  ASSUME NEW s \in SubId PROVE Contract!IsLatest(s) <=> IsLast(s)
  <1>1. ASSUME Contract!IsLatest(s) PROVE IsLast(s)
    <2>1. s \in tries /\ \A t \in tries : t[1] = s[1] => t[2] <= s[2]
      BY <1>1 DEF Contract!IsLatest, tries
    <2>2. ASSUME NEW n \in Ordinal, n > s[2] PROVE att[<<s[1], n>>].phase = "none"
      <3>1. <<s[1], n>> \in SubId /\ n \in Nat /\ s[2] \in Nat /\ ~(n <= s[2])
        BY <2>2, SubIds
      <3>2. <<s[1], n>> \notin tries
        BY <2>1, <3>1
      <3> QED
        BY <3>1, <3>2 DEF tries
    <2> QED
      BY <2>1, <2>2 DEF IsLast, tries
  <1>2. ASSUME IsLast(s) PROVE Contract!IsLatest(s)
    <2>1. s \in tries
      BY <1>2 DEF IsLast, tries
    <2>2. ASSUME NEW t \in tries, t[1] = s[1] PROVE t[2] <= s[2]
      <3>1. /\ t \in SubId /\ att[t].phase # "none" /\ t = <<s[1], t[2]>>
            /\ t[2] \in Ordinal /\ t[2] \in Nat /\ s[2] \in Nat
        BY <2>2, SubIds DEF tries
      <3>2. ~(t[2] > s[2])
        BY <1>2, <3>1 DEF IsLast
      <3> QED
        BY <3>1, <3>2
    <2> QED
      BY <2>1, <2>2 DEF Contract!IsLatest, tries
  <1> QED
    BY <1>1, <1>2

-----------------------------------------------------------------------------
(* Steps that the contract does not see.                                   *)

(* A step that leaves rows, wire and verdicts alone is a stuttering step   *)
(* of the contract.                                                        *)
LEMMA Unseen ==
  ASSUME \A o \in Operation : Standing(op'[o]) = Standing(op[o]),
         \A s \in SubId : att'[s].phase = "none" <=> att[s].phase = "none",
         wire' = wire
  PROVE  UNCHANGED Contract!vars
  BY SameStanding, SameTries DEF Contract!vars, state, tries

(* The contract does not see servers start, close, beat or lapse.          *)
LEMMA RuntimeUnseen ==
  ASSUME NEW r \in Runtime,
         \/ NewRuntime(r) \/ StartServer(r) \/ CloseServer(r) \/ Heartbeat(r) \/ HeartbeatLapse(r)
         \/ BeginClose(r) \/ FinishClose(r) \/ Crash(r) \/ ReusePid(r)
         \/ FlusherClaim(r) \/ FlusherDrop(r) \/ PruneWorkflows(r)
  PROVE  UNCHANGED Contract!vars
  <1>1. op' = op /\ att' = att /\ wire' = wire
    BY DEF NewRuntime, StartServer, CloseServer, Heartbeat, HeartbeatLapse, BeginClose, FinishClose,
           Crash, ReusePid, FlusherClaim, FlusherDrop, PruneWorkflows, rowVars, memVars
  <1> QED
    BY <1>1, Unseen

(* The contract does not see progress being written.                       *)
LEMMA WriteUnseen ==
  ASSUME Inv, NEW b \in Batches, WriteBatch(b), UNCHANGED <<op, wire>>
  PROVE  UNCHANGED Contract!vars
  BY WriteBatchForward, Unseen DEF SameRow

(* The contract does not see the phases of an attempt.                     *)
LEMMA AttemptUnseen ==
  ASSUME Inv, NEW o \in Operation,
         \/ MarkFirstEvent(o) \/ CompleteAttempt(o)
         \/ \E seed \in Seeds : RecordSubmission(o, seed)
  PROVE  UNCHANGED Contract!vars
  <1> DEFINE s == <<o, exec[o].next>>
  <1>1. s \in SubId /\ att[s] \in AttemptRow /\ exec[o].next \in Ordinal
    BY CurrentAttempt DEF MarkFirstEvent, RecordSubmission, CompleteAttempt, Inv, JournalInvariant,
                          ExecutionMatchesRows
  <1>2. att[s].phase # "none"
    <2>1. exec[o].next <= exec[o].next
      BY <1>1, SubIds
    <2>2. exec[o].pc \in {"ready", "write"} /\ ~Deleted(o)
      BY DEF MarkFirstEvent, RecordSubmission, CompleteAttempt, Present, Deleted
    <2> QED
      BY <1>1, <2>1, <2>2 DEF Inv, JournalInvariant, ExecutionMatchesRows
  <1>3. \E a : att' = [att EXCEPT ![s] = a] /\ a.phase # "none"
    <2>1. CASE MarkFirstEvent(o)
      <3>1. att' = [att EXCEPT ![s] = [att[s] EXCEPT !.phase = "streaming", !.event = TRUE]]
        BY <2>1 DEF MarkFirstEvent
      <3>2. [att[s] EXCEPT !.phase = "streaming", !.event = TRUE].phase # "none"
        BY <1>1 DEF AttemptRow
      <3> QED
        BY <3>1, <3>2
    <2>2. CASE CompleteAttempt(o)
      <3>1. att' = [att EXCEPT ![s] = [att[s] EXCEPT !.phase = "terminal", !.outcome = exec[o].outcome,
                                                     !.network = exec[o].network]]
        BY <2>2 DEF CompleteAttempt
      <3>2. [att[s] EXCEPT !.phase = "terminal", !.outcome = exec[o].outcome,
                           !.network = exec[o].network].phase # "none"
        BY <1>1 DEF AttemptRow
      <3> QED
        BY <3>1, <3>2
    <2>3. CASE \E seed \in Seeds : RecordSubmission(o, seed)
      <3>1. att' = [att EXCEPT ![s] = MarkSent(att[s])]
        BY <2>3 DEF RecordSubmission
      <3>2. MarkSent(att[s]).phase # "none"
        BY <1>1, <1>2 DEF MarkSent, AttemptRow
      <3> QED
        BY <3>1, <3>2
    <2> QED
      BY <2>1, <2>2, <2>3
  <1>4. PICK a : att' = [att EXCEPT ![s] = a] /\ a.phase # "none"
    BY <1>3
  <1>5. \A t \in SubId : att'[t].phase = "none" <=> att[t].phase = "none"
    BY <1>1, <1>2, <1>4 DEF Inv, TypeOK
  <1>6. op' = op /\ wire' = wire
    BY DEF MarkFirstEvent, RecordSubmission, CompleteAttempt
  <1> QED
    BY <1>5, <1>6, Unseen

(* The contract does not see an execution move between calls.              *)
LEMMA ExecutionUnseen ==
  ASSUME NEW o \in Operation,
         \/ \E u \in Updater : UpdateSubmission(o, u) \/ Enqueue(o, u)
         \/ \E outcome \in Completed, network \in BOOLEAN : BeginCompleteAttempt(o, outcome, network)
         \/ \E outcome \in Completed : BeginCompleteOperation(o, outcome)
         \/ BarrierDrop(o) \/ JournalFault(o)
  PROVE  UNCHANGED Contract!vars
  <1>1. op' = op /\ att' = att /\ wire' = wire
    BY DEF UpdateSubmission, Enqueue, BeginCompleteAttempt, BeginCompleteOperation, StartBarrier,
           BarrierDrop, JournalFault, rowVars
  <1> QED
    BY <1>1, Unseen

-----------------------------------------------------------------------------
(* Steps of the contract.                                                  *)

(* Creating an operation is the contract's start.                          *)
LEMMA StartMaps ==
  ASSUME Inv, NEW r \in Runtime, NEW o \in Operation, PrepareOperation(r, o)
  PROVE  Contract!Start(o)
  <1>1. /\ op' = [op EXCEPT ![o] = [status |-> "active", recovery |-> "", rt |-> r]]
        /\ exec[o].pc = "none" /\ att' = att /\ wire' = wire
    BY DEF PrepareOperation
  <1>2. op[o].status = "none"
    BY <1>1 DEF Inv, JournalInvariant, ExecutionMatchesRows
  <1>3. /\ op'[o].status = "active" /\ \A p \in Operation \ {o} : op'[p] = op[p]
    BY <1>1 DEF Inv, TypeOK
  <1>4. state[o] = "none" /\ state' = [state EXCEPT ![o] = "running"]
    BY <1>2, <1>3, StandingOf DEF state
  <1>5. tries' = tries
    BY <1>1, SameTries
  <1> QED
    BY <1>1, <1>4, <1>5 DEF Contract!Start, state, tries

(* Completing an operation is the contract's end.                          *)
LEMMA EndMaps ==
  ASSUME Inv, NEW o \in Operation, CompleteOperation(o) PROVE Contract!End(o)
  <1>1. /\ op' = [op EXCEPT ![o] = [op[o] EXCEPT !.status = exec[o].outcome, !.recovery = ""]]
        /\ op[o].status = "active" /\ exec[o].pc = "write" /\ att' = att /\ wire' = wire
    BY DEF CompleteOperation
  <1>2. exec[o].outcome \in Completed /\ op[o] \in OperationRow
    BY <1>1 DEF Inv, TypeOK, JournalInvariant, ExecutionMatchesRows
  <1>3. /\ op'[o].status = exec[o].outcome /\ \A p \in Operation \ {o} : op'[p] = op[p]
    BY <1>1, <1>2 DEF Inv, TypeOK, OperationRow
  <1>4. state[o] = "running" /\ state' = [state EXCEPT ![o] = "ended"]
    <2>1. Standing(op[o]) = "running" /\ Standing(op'[o]) = "ended"
      BY <1>1, <1>2, <1>3, StandingOf
    <2>2. \A p \in Operation \ {o} : Standing(op'[p]) = Standing(op[p])
      BY <1>3
    <2> QED
      BY <2>1, <2>2 DEF state
  <1>5. tries' = tries
    BY <1>1, SameTries
  <1> QED
    BY <1>1, <1>4, <1>5 DEF Contract!End, state, tries

(* Attempt s[2] of operation s[1] is made, after attempt s[2] - 1.         *)
Tried(s) ==
  /\ op[s[1]].status = "active"
  /\ att[s].phase = "none" /\ att'[s].phase # "none"
  /\ \A t \in SubId : t # s => (att'[t].phase = "none" <=> att[t].phase = "none")
  /\ s[2] = 1 \/ \E m \in Ordinal : s[2] = m + 1 /\ att[<<s[1], m>>].phase # "none"
  /\ \A p \in Operation : Standing(op'[p]) = Standing(op[p])
  /\ wire' = wire

(* A next attempt is the contract's next try.                              *)
LEMMA TryMaps ==
  ASSUME NEW s \in SubId, Tried(s) PROVE Contract!Try(s)
  <1>1. state[s[1]] = "running" /\ state' = state
    BY SubIds, StandingOf, SameStanding DEF state, Tried
  <1>2. s \notin tries
    BY DEF tries, Tried
  <1>3. tries' = tries \cup {s}
    BY DEF tries, Tried
  <1>4. s[2] = 1 \/ <<s[1], s[2] - 1>> \in tries
    <2>1. ASSUME NEW m \in Ordinal, s[2] = m + 1, att[<<s[1], m>>].phase # "none"
          PROVE  <<s[1], s[2] - 1>> \in tries
      <3>1. s[2] - 1 = m
        <4>1. m \in Nat
          BY SubIds
        <4>2. m + 1 - 1 = m
          BY <4>1
        <4> QED
          BY <2>1, <4>1, <4>2
      <3>2. <<s[1], m>> \in tries
        BY <2>1, SubIds DEF tries
      <3> QED
        BY <3>1, <3>2
    <2> QED
      BY <2>1 DEF Tried
  <1>5. wire' = wire
    BY DEF Tried
  <1> QED
    BY <1>1, <1>2, <1>3, <1>4, <1>5 DEF Contract!Try, state, tries

(* Both ways to begin an attempt map to a next try.                        *)
LEMMA AttemptMaps ==
  ASSUME Inv, NEW o \in Operation,
         BeginAttempt(o) \/ \E plan \in Plan : PrepareRecoveryAttempt(o, plan)
  PROVE  \E s \in SubId : Contract!Try(s)
  <1>1. /\ exec[o].pc = "ready" /\ op[o].status = "active" /\ wire' = wire
    BY DEF BeginAttempt, PrepareRecoveryAttempt, PrepareAttemptTx
  <1>2. \A n \in Ordinal : att[<<o, n>>].phase # "none" <=> n <= exec[o].next
    BY <1>1 DEF Inv, JournalInvariant, ExecutionMatchesRows, Deleted
  <1>3. CASE BeginAttempt(o)
    <2>1. 1 \in Ordinal /\ <<o, 1>> \in SubId /\ ~(1 <= 0)
      BY SubIds, AttemptLimitAssumption DEF Ordinal
    <2>2. att' = [att EXCEPT ![<<o, 1>>] = [NoAttempt EXCEPT !.phase = "prepared"]] /\ op' = op
          /\ exec[o].next = 0
      BY <1>3 DEF BeginAttempt
    <2>3. att'[<<o, 1>>].phase # "none" /\ \A s \in SubId : s # <<o, 1>> => att'[s] = att[s]
      BY <2>1, <2>2, PreparedTyped DEF Inv, TypeOK
    <2>4. Tried(<<o, 1>>)
      BY <1>1, <1>2, <2>1, <2>2, <2>3 DEF Tried
    <2> QED
      BY <2>1, <2>4, TryMaps
  <1>4. ASSUME NEW plan \in Plan, PrepareRecoveryAttempt(o, plan)
        PROVE  \E s \in SubId : Contract!Try(s)
    <2> DEFINE n == exec[o].next
    <2>1. n \in Ordinal /\ n + 1 <= AttemptLimit /\ att[<<o, n>>].phase = "terminal"
      BY <1>4 DEF PrepareRecoveryAttempt, PrepareAttemptTx
    <2>2. n + 1 \in Ordinal /\ n + 1 - 1 = n /\ n + 1 # n /\ ~(n + 1 <= n)
      BY <2>1, SubIds, AttemptLimitAssumption DEF Ordinal
    <2>3. <<o, n>> \in SubId /\ <<o, n + 1>> \in SubId /\ <<o, n>> # <<o, n + 1>>
      BY <2>1, <2>2, SubIds
    <2>4. /\ att' = [att EXCEPT ![<<o, n>>] = [att[<<o, n>>] EXCEPT !.recovery = plan.action],
                               ![<<o, n + 1>>] = [NoAttempt EXCEPT !.phase = "prepared"]]
          /\ op' = [op EXCEPT ![o] = [op[o] EXCEPT !.recovery = plan.action]]
      BY <1>4 DEF PrepareRecoveryAttempt, RecoveryWithNext
    <2>5. \A a \in AttemptRow : [a EXCEPT !.recovery = plan.action].phase = a.phase
      BY DEF AttemptRow
    <2>6. /\ att'[<<o, n + 1>>].phase # "none"
          /\ \A s \in SubId : s # <<o, n + 1>> => att'[s].phase = att[s].phase
      BY <2>3, <2>4, <2>5, PreparedTyped DEF Inv, TypeOK
    <2>7. op'[o].status = "active" /\ \A p \in Operation \ {o} : op'[p] = op[p]
      BY <1>1, <2>4 DEF Inv, TypeOK, OperationRow
    <2>8. \A p \in Operation : Standing(op'[p]) = Standing(op[p])
      BY <1>1, <2>7, StandingOf
    <2>9. att[<<o, n + 1>>].phase = "none"
      BY <1>2, <2>2
    <2>10. Tried(<<o, n + 1>>)
      <3> HIDE DEF n
      <3>1. <<o, n + 1>>[1] = o /\ <<o, n + 1>>[2] = n + 1
        OBVIOUS
      <3>2. att[<<o, n>>].phase # "none"
        BY <2>1
      <3>3. \E m \in Ordinal : n + 1 = m + 1 /\ att[<<o, m>>].phase # "none"
        BY <2>1, <3>2
      <3> QED
        BY <1>1, <2>6, <2>8, <2>9, <3>1, <3>3 DEF Tried
    <2> QED
      BY <2>3, <2>10, TryMaps
  <1> QED
    BY <1>3, <1>4

(* Putting the request on the wire is the contract's send.                 *)
LEMMA SendMaps ==
  ASSUME Inv, NEW o \in Operation, Send(o) PROVE \E s \in SubId : Contract!Send(s)
  <1> DEFINE s == <<o, exec[o].next>>
  <1>1. /\ s \in SubId /\ s[1] = o /\ exec[o].next \in Ordinal
    BY CurrentAttempt DEF Send
  <1>2. /\ exec[o].pc = "ready" /\ mem[s] # NoSub /\ s \notin wire
        /\ wire' = wire \cup {s} /\ op' = op /\ att' = att
    BY DEF Send, NoSub, rowVars
  <1>3. /\ op[o].status # "none" /\ op[o].status \notin Completed /\ ~Deleted(o)
    BY <1>2 DEF Inv, JournalInvariant, ExecutionMatchesRows, AgedRows
  <1>4. \A n \in Ordinal : att[<<o, n>>].phase # "none" <=> n <= exec[o].next
    BY <1>2, <1>3 DEF Inv, JournalInvariant, ExecutionMatchesRows
  <1>5. IsLast(s)
    <2>1. exec[o].next <= exec[o].next /\ \A n \in Ordinal : n > exec[o].next => ~(n <= exec[o].next)
      BY <1>1, SubIds
    <2>2. s[2] = exec[o].next
      OBVIOUS
    <2> QED
      BY <1>1, <1>4, <2>1, <2>2 DEF IsLast
  <1>6. Row(s)
    BY <1>1, <1>2, <1>3 DEF Inv, JournalInvariant, WireMatchesRows
  <1>7. op[o].status \in {"active", "interrupted", "blocked", "abandoned"}
    BY <1>3 DEF Inv, TypeOK, OperationRow, RowStatus, Settled, Deleted
  <1>8. op[o].status # "active" => op[o].recovery # "reschedule_safe"
    BY <1>1, <1>5, <1>6, <1>7 DEF Inv, JournalInvariant, SafeVerdictIsFinal, Settled
  <1>9. state[o] \in {"running", "unsafe"}
    BY <1>7, <1>8, StandingOf DEF state
  <1>10. state' = state /\ tries' = tries
    BY <1>2, SameStanding, SameTries
  <1>11. Contract!IsLatest(s)
    BY <1>1, <1>5, Latest
  <1>12. Contract!Send(s)
    BY <1>1, <1>2, <1>9, <1>10, <1>11 DEF Contract!Send, state, tries
  <1> QED
    BY <1>1, <1>12

(* Settling orphans is the contract's recovery, and only of unsent work    *)
(* when it says so.                                                        *)
LEMMA RecoverMaps ==
  ASSUME Inv, NEW r \in Runtime, ReconcileOrphans(r)
  PROVE  \E safe, unsafe \in SUBSET Operation : Contract!Recover(safe, unsafe)
  <1> DEFINE OO == OrphanOperations(r)
             safe == {o \in OO : Verdict(o).recovery = "reschedule_safe"}
             unsafe == OO \ safe
  <1>1. \A o \in OO : o \in Operation /\ op[o].status = "active"
    BY DEF OrphanOperations
  <1>2. \A o \in OO : /\ op'[o].status \in {"interrupted", "blocked", "abandoned"}
                      /\ op'[o].recovery = Verdict(o).recovery
    BY ReconcileRows, VerdictTyped
  <1>3. \A o \in Operation \ OO : op'[o] = op[o]
    BY ReconcileRows
  <1>4. \A o \in OO : state[o] = "running"
    BY <1>1, StandingOf DEF state
  <1>5. \A o \in OO : Standing(op'[o]) = IF o \in safe THEN "safe" ELSE "unsafe"
    BY <1>2, StandingOf
  <1>6. state' = [o \in Operation |-> IF o \in safe THEN "safe"
                                     ELSE IF o \in unsafe THEN "unsafe" ELSE state[o]]
    BY <1>1, <1>3, <1>5 DEF state
  <1>7. tries' = tries /\ wire' = wire
    BY ReconcileRows, SameTries
  <1>8. ASSUME NEW s \in tries, s[1] \in safe, Contract!IsLatest(s) PROVE s \notin wire
    <2>1. s \in SubId /\ IsLast(s)
      BY <1>8, Latest DEF tries
    <2>2. ~Row(s)
      BY <1>8, <2>1, SafeVerdictHolds
    <2>3. ~Deleted(s[1])
      BY <1>1, <1>8 DEF Deleted
    <2> QED
      BY <2>1, <2>2, <2>3 DEF Inv, JournalInvariant, WireMatchesRows
  <1>9. safe \in SUBSET Operation /\ unsafe \in SUBSET Operation /\ safe \cup unsafe = OO
    BY <1>1
  <1> HIDE DEF OO, safe, unsafe
  <1>10. Contract!Recover(safe, unsafe)
    BY <1>4, <1>6, <1>7, <1>8, <1>9 DEF Contract!Recover, state, tries
  <1> QED
    BY <1>9, <1>10

(* Retention is the contract's forgetting.                                 *)
LEMMA DeleteMaps ==
  ASSUME Inv, NEW r \in Runtime, PruneOperations(r)
  PROVE  \E old \in SUBSET Operation : Contract!Delete(old)
  <1> DEFINE old == aged \cap Operation
  <1>1. \A x \in OperationRow : [x EXCEPT !.status = "pruned"].status = "pruned"
    BY DEF OperationRow
  <1>2. /\ \A o \in old : op'[o].status = "pruned"
        /\ \A o \in Operation \ old : op'[o] = op[o]
        /\ \A s \in SubId : s[1] \in aged => att'[s] = NoAttempt
        /\ \A s \in SubId : s[1] \notin aged => att'[s] = att[s]
        /\ wire' = wire
    BY <1>1 DEF PruneOperations, Inv, TypeOK
  <1>3. \A o \in old : op[o].status \in Completed \cup {"interrupted", "blocked", "abandoned", "pruned"}
    BY DEF Inv, JournalInvariant, AgedRows, Settled
  <1>4. ASSUME NEW o \in old PROVE state[o] \in {"ended", "safe", "unsafe", "deleted"}
    <2>1. state[o] = Standing(op[o])
      BY DEF state
    <2> QED
      BY <1>3, <2>1, StandingOf
  <1>5. state' = [o \in Operation |-> IF o \in old THEN "deleted" ELSE state[o]]
    <2>1. \A o \in old : Standing(op'[o]) = "deleted"
      BY <1>2, StandingOf
    <2> QED
      BY <1>2, <2>1 DEF state
  <1>6. tries' = {s \in tries : s[1] \notin old}
    <2>1. \A s \in SubId : s[1] \in old => att'[s].phase = "none"
      BY <1>2, NoAttemptFields
    <2>2. \A s \in SubId : s[1] \notin old => att'[s].phase = att[s].phase
      BY <1>2, SubIds
    <2> QED
      BY <2>1, <2>2 DEF tries
  <1>7. old \in SUBSET Operation
    OBVIOUS
  <1> HIDE DEF old
  <1>8. Contract!Delete(old)
    BY <1>2, <1>4, <1>5, <1>6 DEF Contract!Delete, state, tries
  <1> QED
    BY <1>7, <1>8 DEF Contract!Delete

-----------------------------------------------------------------------------
(* The empty database maps to the contract's initial state.                *)
LEMMA ContractInit == Init => Contract!Init
  <1> SUFFICES ASSUME Init PROVE Contract!Init
    OBVIOUS
  <1>1. state = [o \in Operation |-> "none"]
    BY StandingOf DEF Init, NoOp, state
  <1>2. tries = {}
    BY NoAttemptFields DEF Init, tries
  <1>3. wire = {}
    BY DEF Init
  <1> QED
    BY <1>1, <1>2, <1>3 DEF Contract!Init, state, tries

(* Every step of the journal is a step of the contract or a stutter.       *)
LEMMA ContractStep == Inv /\ [Next]_vars => [Contract!Next]_Contract!vars
  <1> SUFFICES ASSUME Inv, [Next]_vars PROVE Contract!Next \/ UNCHANGED Contract!vars
    OBVIOUS
  <1>1. CASE UNCHANGED vars
    BY <1>1, Unseen DEF vars, rowVars
  <1>2. ASSUME NEW r \in Runtime, RuntimeStep(r) PROVE Contract!Next \/ UNCHANGED Contract!vars
    <2>1. CASE \/ NewRuntime(r) \/ StartServer(r) \/ CloseServer(r) \/ Heartbeat(r) \/ HeartbeatLapse(r)
               \/ BeginClose(r) \/ FinishClose(r) \/ Crash(r) \/ ReusePid(r)
               \/ FlusherClaim(r) \/ FlusherDrop(r) \/ PruneWorkflows(r)
      BY <2>1, RuntimeUnseen
    <2>2. CASE FlusherLand(r)
      <3>1. batch[r] \in Batches /\ WriteBatch(batch[r]) /\ UNCHANGED <<op, wire>>
        BY <2>2 DEF FlusherLand, Inv, TypeOK
      <3> QED
        BY <3>1, WriteUnseen
    <2>3. CASE BootReconcile(r) \/ Maintain(r)
      <3>1. CASE ReconcileOrphans(r)
        BY <3>1, RecoverMaps DEF Contract!Next
      <3>2. CASE UNCHANGED <<rowVars, memVars, aged, wire>>
        BY <3>2, Unseen DEF rowVars
      <3> QED
        BY <2>3, <3>1, <3>2 DEF BootReconcile, Maintain
    <2>4. CASE PruneOperations(r)
      BY <2>4, DeleteMaps DEF Contract!Next
    <2> QED
      BY <1>2, <2>1, <2>2, <2>3, <2>4 DEF RuntimeStep
  <1>3. ASSUME NEW o \in Operation, ExecutionStep(o) PROVE Contract!Next \/ UNCHANGED Contract!vars
    <2>1. CASE \E r \in Runtime : PrepareOperation(r, o)
      BY <2>1, StartMaps DEF Contract!Next
    <2>2. CASE BeginAttempt(o) \/ \E plan \in Plan : PrepareRecoveryAttempt(o, plan)
      BY <2>2, AttemptMaps DEF Contract!Next, Contract!Attempts, SubId, Ordinal
    <2>3. CASE Send(o)
      BY <2>3, SendMaps DEF Contract!Next, Contract!Attempts, SubId, Ordinal
    <2>4. CASE CompleteOperation(o)
      BY <2>4, EndMaps DEF Contract!Next
    <2>5. CASE \/ MarkFirstEvent(o) \/ CompleteAttempt(o)
               \/ \E seed \in Seeds : RecordSubmission(o, seed)
      BY <2>5, AttemptUnseen
    <2>6. CASE BarrierLand(o)
      <3>1. exec[o].claimed \in Batches /\ WriteBatch(exec[o].claimed) /\ UNCHANGED <<op, wire>>
        BY <2>6 DEF BarrierLand, Inv, TypeOK, Execution
      <3> QED
        BY <3>1, WriteUnseen
    <2>7. CASE \/ \E u \in Updater : UpdateSubmission(o, u) \/ Enqueue(o, u)
               \/ \E outcome \in Completed, network \in BOOLEAN : BeginCompleteAttempt(o, outcome, network)
               \/ \E outcome \in Completed : BeginCompleteOperation(o, outcome)
               \/ BarrierDrop(o) \/ JournalFault(o)
      BY <2>7, ExecutionUnseen
    <2> QED
      BY <1>3, <2>1, <2>2, <2>3, <2>4, <2>5, <2>6, <2>7 DEF ExecutionStep
  <1>4. ASSUME NEW w \in Workflow, NEW outcome \in Completed, CompleteWorkflow(w, outcome)
        PROVE  UNCHANGED Contract!vars
    BY <1>4, Unseen DEF CompleteWorkflow
  <1>5. CASE RetentionPasses
    BY <1>5, Unseen DEF RetentionPasses, rowVars
  <1> QED
    BY <1>1, <1>2, <1>3, <1>4, <1>5 DEF Next

(* Every behaviour of the journal, its crashes, late writers, recoverers   *)
(* and retention included, is one that RequestRecovery allows.             *)
(* (all of inference_journal.go)                                           *)
THEOREM JournalKeepsContract == Spec => KeepsRecoveryContract
  <1>1. Init => Contract!Init
    BY ContractInit
  <1>2. Inv /\ [Next]_vars => [Contract!Next]_Contract!vars
    BY ContractStep
  <1> QED
    BY <1>1, <1>2, InvariantHolds, PTL DEF Spec, KeepsRecoveryContract, Contract!Spec

=============================================================================
