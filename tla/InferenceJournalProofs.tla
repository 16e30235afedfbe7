---------------------- MODULE InferenceJournalProofs ----------------------
(* Proofs about InferenceJournal for any number of runtimes, workflows and *)
(* operations, any attempt limit, any budget and any recovery plan.        *)
EXTENDS InferenceJournal, TLAPS

Inv == TypeOK /\ JournalInvariant

(* A step that changes no row, no execution and nothing on the wire.       *)
Quiet == UNCHANGED <<wf, op, att, sub, exec, mem, aged, wire>>

(* The journal invariant does not depend on leases, presence, budgets or   *)
(* coalesced progress.                                                     *)
LEMMA QuietKeepsInvariant == JournalInvariant /\ Quiet => JournalInvariant'
  <1> SUFFICES ASSUME JournalInvariant, Quiet PROVE JournalInvariant'
    OBVIOUS
  <1>1. ActiveOperationHasActiveWorkflow' /\ RecoveryHasSuccessor'
    BY DEF Quiet, JournalInvariant, ActiveOperationHasActiveWorkflow, RecoveryHasSuccessor
  <1>2. AgedRows'
    BY DEF Quiet, JournalInvariant, AgedRows, Deleted
  <1>3. ExecutionMatchesRows'
    BY DEF Quiet, JournalInvariant, ExecutionMatchesRows, Deleted
  <1>4. WireMatchesRows'
    BY DEF Quiet, JournalInvariant, WireMatchesRows, Row, Deleted
  <1>5. SafeVerdictIsFinal'
    BY DEF Quiet, JournalInvariant, SafeVerdictIsFinal, Row, IsLast
  <1> QED
    BY <1>1, <1>2, <1>3, <1>4, <1>5 DEF JournalInvariant

(* Submissions are named by operation and ordinal; a next ordinal exists   *)
(* below the limit.                                                        *)
LEMMA SubIds ==
  /\ \A s \in SubId : s[1] \in Operation /\ s[2] \in Ordinal /\ s = <<s[1], s[2]>>
  /\ \A o \in Operation, n \in Ordinal : <<o, n>> \in SubId
  /\ \A n \in Ordinal : n \in Nat /\ 1 <= n /\ n <= AttemptLimit
  /\ \A n \in Ordinal : n < AttemptLimit => n + 1 \in Ordinal
  BY AttemptLimitAssumption DEF SubId, Ordinal

(* The rows and records that stand for absence have their types.           *)
LEMMA NullsTyped ==
  /\ NoBatch \in Batches
  /\ NoExec \in Execution
  /\ NoAttempt \in AttemptRow
  /\ NoSub \notin Submission
  BY AttemptLimitAssumption
  DEF NoBatch, Batches, NoExec, Execution, NoAttempt, AttemptRow, NoSub, Submission,
      SubOutcome, Pc, Completed, Settled, Phase, Recovery

(* The invariant holds in the empty database.                              *)
THEOREM InitInv == Init => Inv
  <1> SUFFICES ASSUME Init PROVE Inv
    OBVIOUS
  <1>1. AnyRuntime \in Runtime
    BY RuntimeAssumption DEF AnyRuntime
  <1>2. TypeOK
    BY <1>1, NullsTyped, AttemptLimitAssumption DEF Init, TypeOK, RuntimeRow, WorkflowRow, OperationRow, RowStatus, Recovery,
           NoWorkflow, NoOp
  <1>3. ActiveOperationHasActiveWorkflow
    BY DEF Init, ActiveOperationHasActiveWorkflow, NoOp
  <1>4. RecoveryHasSuccessor
    BY SubIds DEF Init, RecoveryHasSuccessor, NoOp
  <1>5. AgedRows
    BY DEF Init, AgedRows, Deleted, NoOp
  <1>6. ExecutionMatchesRows
    <2> SUFFICES ASSUME NEW o \in Operation
                 PROVE  /\ exec[o].pc = "none" /\ exec[o].next = 0 /\ op[o].status = "none"
                        /\ exec[o].call = "none"
                        /\ \A n \in Ordinal : att[<<o, n>>].phase = "none" /\ ~(n <= 0)
      BY DEF ExecutionMatchesRows, Completed
    <2>1. \A n \in Ordinal : ~(n <= 0)
      BY SubIds
    <2> QED
      BY <2>1, SubIds DEF Init, NoExec, NoOp, NoAttempt
  <1>7. WireMatchesRows
    BY SubIds DEF Init, WireMatchesRows, Row, NoOp, NoAttempt
  <1>8. SafeVerdictIsFinal
    BY SubIds DEF Init, SafeVerdictIsFinal, NoOp
  <1> QED
    BY <1>2, <1>3, <1>4, <1>5, <1>6, <1>7, <1>8 DEF Inv, JournalInvariant

-----------------------------------------------------------------------------
(* The operators keep to their types.                                      *)

(* Renewing a lease keeps the runtime table typed.                         *)
LEMMA TouchedTyped ==
  ASSUME TypeOK, NEW r \in Runtime PROVE Touched(r) \in [Runtime -> RuntimeRow]
  <1>1. rt \in [Runtime -> RuntimeRow]
    BY DEF TypeOK
  <1>2. ASSUME NEW e \in RuntimeRow, NEW b \in BOOLEAN
        PROVE  [e EXCEPT !.stale = b] \in RuntimeRow
    BY DEF RuntimeRow
  <1>3. rt[r] \in RuntimeRow /\ (rt[r].stale /\ rt[r].lease = "closed") \in BOOLEAN
    BY <1>1
  <1>4. [rt[r] EXCEPT !.stale = rt[r].stale /\ rt[r].lease = "closed"] \in RuntimeRow
    BY <1>2, <1>3
  <1> QED
    BY <1>1, <1>4 DEF Touched

(* A reservation keeps the counters typed.                                 *)
LEMMA ReservedTyped ==
  ASSUME TypeOK, NEW w \in Workflow, NEW D
  PROVE  Reserved(w, D) \in [Workflow -> [Dimension -> Nat]]
  BY DEF TypeOK, Reserved

(* A journal call that returns leaves a typed execution.                   *)
LEMMA ReturnedTyped ==
  ASSUME TypeOK, NEW o \in Operation, NEW pc \in Pc, NEW ended \in BOOLEAN
  PROVE  Returned(o, pc, ended) \in [Operation -> Execution]
  <1>1. ASSUME NEW e \in Execution
        PROVE  [e EXCEPT !.pc = pc, !.ended = ended, !.call = "none",
                         !.outcome = "", !.network = FALSE] \in Execution
    BY DEF Execution
  <1> QED
    BY <1>1 DEF TypeOK, Returned

(* The monotonic merge of two submission records is a record.              *)
LEMMA MergeTyped ==
  ASSUME NEW x \in Submission, NEW y \in Submission PROVE Merge(x, y) \in Submission
  BY DEF Merge, Submission, Bigger, Rank, Cost

(* Whatever an execution makes of its submission is a record.              *)
LEMMA UpdatesTyped ==
  ASSUME NEW x \in Submission, NEW y \in Updates(x) PROVE y \in Submission
  <1>1. ASSUME NEW k \in Nat, NEW outcome \in Completed
        PROVE  CompleteSub(x, outcome, k) \in Submission
    BY DEF CompleteSub, Submission, SubOutcome, Cost
  <1>2. ObserveOutput(x) \in Submission
    BY DEF ObserveOutput, Submission
  <1>3. ASSUME NEW k \in Reported PROVE ObserveUsage(x, k) \in Submission
    BY TokenAssumption DEF ObserveUsage, Submission, Cost
  <1> QED
    BY <1>1, <1>2, <1>3, TokenAssumption DEF Updates, Completed

(* A batch merges into typed submissions.                                  *)
LEMMA BatchTyped ==
  ASSUME TypeOK, NEW b \in Batches, Accepted(b)
  PROVE  Merged(b) \in [SubId -> Submission \cup {NoSub}]
  BY MergeTyped DEF TypeOK, Batches, Accepted, Merged

-----------------------------------------------------------------------------
(* Steps that leave rows and executions alone.                             *)

(* Start, close, heartbeat and a reused pid touch no journal row and no    *)
(* execution.                                                              *)
LEMMA RuntimeQuiet ==
  ASSUME Inv, NEW r \in Runtime,
         \/ NewRuntime(r) \/ StartServer(r) \/ CloseServer(r) \/ Heartbeat(r) \/ HeartbeatLapse(r)
         \/ FinishClose(r) \/ ReusePid(r)
  PROVE  Inv'
  <1>1. Quiet
    BY DEF Quiet, NewRuntime, StartServer, CloseServer, Heartbeat, HeartbeatLapse,
           FinishClose, ReusePid, rowVars, memVars
  <1>2. rt' \in [Runtime -> RuntimeRow]
    <2>1. \A x \in RuntimeRow :
            /\ [x EXCEPT !.lease = "open", !.proc = "up"] \in RuntimeRow
            /\ [x EXCEPT !.boot = "reconcile"] \in RuntimeRow
            /\ [x EXCEPT !.boot = "done"] \in RuntimeRow
            /\ [x EXCEPT !.boot = "closed"] \in RuntimeRow
            /\ [x EXCEPT !.stale = TRUE] \in RuntimeRow
            /\ [x EXCEPT !.stale = FALSE] \in RuntimeRow
            /\ [x EXCEPT !.lease = "closed"] \in RuntimeRow
            /\ [x EXCEPT !.proc = "reused"] \in RuntimeRow
            /\ [x EXCEPT !.proc = "gone"] \in RuntimeRow
      BY DEF RuntimeRow
    <2> DEFINE R == [Runtime -> RuntimeRow]
    <2>2. rt \in R
      BY DEF Inv, TypeOK
    <2>3. CASE NewRuntime(r) \/ FinishClose(r)
      BY <2>1, <2>2, <2>3 DEF NewRuntime, FinishClose
    <2>4. CASE StartServer(r) \/ CloseServer(r)
      <3>1. CASE StartServer(r) /\ \E q \in Runtime : HasPresence(q)
        BY <2>1, <2>2, <3>1 DEF StartServer
      <3>2. CASE StartServer(r) /\ ~\E q \in Runtime : HasPresence(q)
        BY <2>1, <2>2, <3>2 DEF StartServer
      <3>3. CASE CloseServer(r)
        BY <2>1, <2>2, <3>3 DEF CloseServer
      <3> QED
        BY <2>4, <3>1, <3>2, <3>3
    <2>5. CASE Heartbeat(r) \/ HeartbeatLapse(r)
      BY ZenonT(40), <2>1, <2>2, <2>5 DEF Heartbeat, HeartbeatLapse
    <2>6. CASE ReusePid(r)
      BY <2>1, <2>2, <2>6 DEF ReusePid
    <2> QED
      BY <2>3, <2>4, <2>5, <2>6
  <1>3. TypeOK'
    BY <1>2 DEF Inv, TypeOK, NewRuntime, StartServer, CloseServer, Heartbeat, HeartbeatLapse,
           FinishClose, ReusePid, rowVars, memVars
  <1> QED
    BY <1>1, <1>3, QuietKeepsInvariant DEF Inv

(* The start of the drain, the flusher's claim and a dropped batch, and an *)
(* enqueued copy touch no row.                                             *)
LEMMA ProgressQuiet ==
  ASSUME Inv,
         \/ \E r \in Runtime : BeginClose(r) \/ FlusherClaim(r) \/ FlusherDrop(r)
         \/ \E o \in Operation, u \in Updater : Enqueue(o, u)
  PROVE  Inv'
  <1>1. Quiet
    BY DEF Quiet, BeginClose, FlusherClaim, FlusherDrop, Enqueue, rowVars, memVars
  <1>2. ASSUME NEW r \in Runtime, BeginClose(r) \/ FlusherClaim(r) \/ FlusherDrop(r)
        PROVE  TypeOK'
    <2>1. \A x \in RuntimeRow : [x EXCEPT !.lease = "closing"] \in RuntimeRow
      BY DEF RuntimeRow
    <2>2. CASE BeginClose(r)
      BY <2>1, <2>2, NullsTyped DEF Inv, TypeOK, BeginClose, rowVars
    <2>3. CASE FlusherClaim(r) \/ FlusherDrop(r)
      BY <2>3, NullsTyped DEF Inv, TypeOK, FlusherClaim, FlusherDrop, rowVars
    <2> QED
      BY <1>2, <2>2, <2>3
  <1>3. ASSUME NEW o \in Operation, NEW u \in Updater, Enqueue(o, u) PROVE TypeOK'
    <2>1. op[o].rt \in Runtime
      BY DEF Inv, TypeOK, OperationRow
    <2>2. Coalesced(op[o].rt, hand[o][u]) \in Batches
      BY <2>1 DEF Inv, TypeOK, Coalesced, Batches
    <2> QED
      BY <1>3, <2>1, <2>2, NullsTyped DEF Inv, TypeOK, Enqueue, rowVars
  <1>4. TypeOK'
    BY <1>2, <1>3
  <1> QED
    BY <1>1, <1>4, QuietKeepsInvariant DEF Inv

-----------------------------------------------------------------------------
(* Steps of an execution that leave the rows alone.                        *)

(* Only the bookkeeping of terminal calls changes.                         *)
SameProgress(o) ==
  /\ exec'[o].next = exec[o].next
  /\ exec'[o].pc = "none" <=> exec[o].pc = "none"
  /\ exec'[o].pc = "done" <=> exec[o].pc = "done"
  /\ exec'[o].pc = "gone" <=> exec[o].pc = "gone"
  /\ exec'[o].pc \in {"flush", "write"} => exec'[o].outcome \in Completed
  /\ exec'[o].call = "attempt" => exec[o].next # 0

(* Moving an execution from one call to the next keeps the invariant when  *)
(* rows stay.                                                              *)
LEMMA BookkeepingKeepsInvariant ==
  ASSUME JournalInvariant, UNCHANGED <<wf, op, att, sub, mem, aged, wire>>,
         \A o \in Operation : SameProgress(o)
  PROVE  JournalInvariant'
  <1>1. ActiveOperationHasActiveWorkflow' /\ RecoveryHasSuccessor'
    BY DEF JournalInvariant, ActiveOperationHasActiveWorkflow, RecoveryHasSuccessor
  <1>2. AgedRows'
    BY DEF JournalInvariant, AgedRows, Deleted, SameProgress
  <1>3. ExecutionMatchesRows'
    BY DEF JournalInvariant, ExecutionMatchesRows, Deleted, SameProgress
  <1>4. WireMatchesRows'
    BY SubIds DEF JournalInvariant, WireMatchesRows, Row, Deleted, SameProgress
  <1>5. SafeVerdictIsFinal'
    BY DEF JournalInvariant, SafeVerdictIsFinal, Row, IsLast
  <1> QED
    BY <1>1, <1>2, <1>3, <1>4, <1>5 DEF JournalInvariant

(* A barrier that begins keeps the invariant.                              *)
LEMMA StartBarrierInv ==
  ASSUME Inv, NEW o \in Operation, exec[o].pc = "ready",
         NEW call \in {"attempt", "operation"}, NEW outcome \in Completed,
         NEW network \in BOOLEAN, StartBarrier(o, call, outcome, network),
         call = "attempt" => exec[o].next # 0
  PROVE  Inv'
  <1> DEFINE r == op[o].rt
             e == [exec[o] EXCEPT !.pc = IF pending[r] = NoBatch THEN "write" ELSE "flush",
                                  !.call = call, !.outcome = outcome, !.network = network,
                                  !.claimed = pending[r]]
  <1>1. r \in Runtime /\ pending[r] \in Batches /\ exec[o] \in Execution
    BY DEF Inv, TypeOK, OperationRow
  <1>2. e \in Execution
    BY <1>1 DEF Execution, Pc
  <1>3. exec' = [exec EXCEPT ![o] = e]
    BY DEF StartBarrier
  <1>4. TypeOK'
    BY <1>1, <1>2, <1>3, NullsTyped DEF Inv, TypeOK, StartBarrier, rowVars
  <1>5. /\ e.pc \in {"flush", "write"} /\ e.outcome = outcome
        /\ e.next = exec[o].next /\ e.call = call
    BY <1>1 DEF Execution
  <1>6. exec'[o] = e /\ \A p \in Operation \ {o} : exec'[p] = exec[p]
    BY <1>3 DEF Inv, TypeOK
  <1>7. SameProgress(o)
    <2> HIDE DEF e
    <2> QED
      BY <1>5, <1>6 DEF SameProgress
  <1>8. \A p \in Operation : SameProgress(p)
    BY <1>6, <1>7 DEF SameProgress, Inv, JournalInvariant, ExecutionMatchesRows
  <1> QED
    BY <1>4, <1>8, BookkeepingKeepsInvariant DEF Inv, StartBarrier, rowVars

(* A barrier that fails keeps the invariant.                               *)
LEMMA BarrierAbandonedInv ==
  ASSUME Inv, NEW o \in Operation, BarrierDrop(o) \/ JournalFault(o)
  PROVE  Inv'
  <1>1. exec[o] \in Execution
    BY DEF Inv, TypeOK
  <1>2. CASE BarrierDrop(o)
    <2> DEFINE e == [exec[o] EXCEPT !.pc = "write", !.claimed = NoBatch]
    <2>1. e \in Execution /\ e.pc = "write" /\ e.next = exec[o].next /\ e.outcome = exec[o].outcome
             /\ e.call = exec[o].call
      BY <1>1, NullsTyped DEF Execution, Pc
    <2>2. exec' = [exec EXCEPT ![o] = e]
      BY <1>2 DEF BarrierDrop
    <2>3. TypeOK'
      BY <1>2, <2>1, <2>2 DEF Inv, TypeOK, BarrierDrop, rowVars
    <2>4. exec'[o] = e /\ \A p \in Operation \ {o} : exec'[p] = exec[p]
      BY <2>2 DEF Inv, TypeOK
    <2>5. \A p \in Operation : SameProgress(p)
      BY <1>2, <2>1, <2>4 DEF SameProgress, Inv, JournalInvariant, ExecutionMatchesRows, BarrierDrop
    <2> QED
      BY <1>2, <2>3, <2>5, BookkeepingKeepsInvariant DEF Inv, BarrierDrop, rowVars
  <1>3. CASE JournalFault(o)
    <2>1. exec' \in [Operation -> Execution]
      BY <1>1, <1>3, ReturnedTyped DEF Inv, JournalFault, Pc, Execution
    <2>2. TypeOK'
      BY <1>3, <2>1 DEF Inv, TypeOK, JournalFault, rowVars
    <2>3. /\ exec'[o].pc = "poisoned" /\ exec'[o].next = exec[o].next /\ exec'[o].call = "none"
          /\ \A p \in Operation \ {o} : exec'[p] = exec[p]
      BY <1>1, <1>3 DEF Inv, TypeOK, JournalFault, Returned, Execution
    <2>4. \A p \in Operation : SameProgress(p)
      BY <1>3, <2>3 DEF SameProgress, Inv, JournalInvariant, ExecutionMatchesRows, JournalFault
    <2> QED
      BY <1>3, <2>2, <2>4, BookkeepingKeepsInvariant DEF Inv, JournalFault, rowVars
  <1> QED
    BY <1>2, <1>3

-----------------------------------------------------------------------------
(* Steps that move existing attempts and submissions forward.              *)

(* The same rows exist, and no attempt falls back to prepared.             *)
SameRow(s) ==
  /\ sub'[s] = NoSub <=> sub[s] = NoSub
  /\ att'[s].phase = "none" <=> att[s].phase = "none"
  /\ att'[s].phase = "prepared" => att[s].phase = "prepared"
  /\ att'[s].recovery = att[s].recovery

(* Writes that only move submissions forward keep the invariant.           *)
LEMMA ForwardKeepsInvariant ==
  ASSUME JournalInvariant, UNCHANGED <<wf, op, mem, aged, wire>>,
         \A o \in Operation : SameProgress(o),
         \A s \in SubId : SameRow(s)
  PROVE  JournalInvariant'
  <1>1. ActiveOperationHasActiveWorkflow'
    BY DEF JournalInvariant, ActiveOperationHasActiveWorkflow
  <1>2. RecoveryHasSuccessor'
    <2> SUFFICES ASSUME NEW s \in SubId, op[s[1]].status = "active", att[s].recovery # ""
                 PROVE  s[2] < AttemptLimit /\ att'[<<s[1], s[2] + 1>>].phase # "none"
      BY DEF RecoveryHasSuccessor, SameRow
    <2>1. s[2] < AttemptLimit /\ att[<<s[1], s[2] + 1>>].phase # "none"
      BY DEF JournalInvariant, RecoveryHasSuccessor
    <2>2. s[2] + 1 \in Ordinal
      BY <2>1, SubIds
    <2> QED
      BY <2>1, <2>2, SubIds DEF SameRow
  <1>3. AgedRows'
    BY DEF JournalInvariant, AgedRows, Deleted, SameProgress
  <1>4. ExecutionMatchesRows'
    BY SubIds DEF JournalInvariant, ExecutionMatchesRows, Deleted, SameProgress, SameRow
  <1>5. WireMatchesRows'
    <2>1. \A s \in SubId : exec'[s[1]].pc = "gone" <=> exec[s[1]].pc = "gone"
      BY SubIds DEF SameProgress
    <2>2. \A s \in SubId : Deleted(s[1])' <=> Deleted(s[1])
      BY DEF Deleted
    <2>3. \A s \in SubId : Row(s)' <=> Row(s)
      BY DEF Row, SameRow
    <2> QED
      BY <2>1, <2>2, <2>3 DEF JournalInvariant, WireMatchesRows, SameRow
  <1>6. SafeVerdictIsFinal'
    <2>1. \A s \in SubId : IsLast(s)' <=> IsLast(s)
      BY SubIds DEF IsLast, SameRow
    <2> QED
      BY <2>1 DEF JournalInvariant, SafeVerdictIsFinal, Row, SameRow
  <1> QED
    BY <1>1, <1>2, <1>3, <1>4, <1>5, <1>6 DEF JournalInvariant

(* A batch only moves the submissions of rows that are there forward.      *)
LEMMA WriteBatchForward ==
  ASSUME Inv, NEW b \in Batches, WriteBatch(b)
  PROVE  /\ sub' \in [SubId -> Submission \cup {NoSub}]
         /\ att' \in [SubId -> AttemptRow]
         /\ \A s \in SubId : SameRow(s)
  <1>1. sub' \in [SubId -> Submission \cup {NoSub}]
    BY BatchTyped DEF Inv, WriteBatch
  <1>2. \A a \in AttemptRow : /\ MarkSent(a) \in AttemptRow
                              /\ MarkSent(a).phase = "none" <=> a.phase = "none"
                              /\ MarkSent(a).phase = "prepared" => a.phase = "prepared"
                              /\ MarkSent(a).recovery = a.recovery
    BY DEF MarkSent, AttemptRow, Phase
  <1>3. att' \in [SubId -> AttemptRow]
    BY <1>2 DEF Inv, TypeOK, WriteBatch
  <1>4. ASSUME NEW s \in SubId PROVE SameRow(s)
    <2>1. sub'[s] = NoSub <=> sub[s] = NoSub
      <3>1. CASE b[s] = NoSub
        BY <3>1 DEF WriteBatch, Merged
      <3>2. CASE b[s] # NoSub
        <4>1. b[s] \in Submission /\ sub[s] \in Submission
          BY <3>2 DEF Inv, TypeOK, Batches, WriteBatch, Accepted
        <4> QED
          BY <3>2, <4>1, MergeTyped, NullsTyped DEF WriteBatch, Merged
      <3> QED
        BY <3>1, <3>2
    <2>2. att[s] \in AttemptRow /\ att'[s] \in {att[s], MarkSent(att[s])}
      BY DEF Inv, TypeOK, WriteBatch
    <2> QED
      BY <1>2, <2>1, <2>2 DEF SameRow
  <1> QED
    BY <1>1, <1>3, <1>4

(* A batch that lands keeps the invariant.                                 *)
LEMMA LandInv ==
  ASSUME Inv,
         \/ \E r \in Runtime : FlusherLand(r)
         \/ \E o \in Operation : BarrierLand(o)
  PROVE  Inv'
  <1>1. ASSUME NEW r \in Runtime, FlusherLand(r) PROVE Inv'
    <2>1. batch[r] \in Batches /\ WriteBatch(batch[r])
      BY <1>1 DEF Inv, TypeOK, FlusherLand
    <2>2. TypeOK'
      BY <1>1, <2>1, WriteBatchForward, TouchedTyped, NullsTyped DEF Inv, TypeOK, FlusherLand
    <2>3. \A o \in Operation : SameProgress(o)
      BY <1>1 DEF FlusherLand, SameProgress, Inv, JournalInvariant, ExecutionMatchesRows
    <2> QED
      BY <1>1, <2>1, <2>2, <2>3, WriteBatchForward, ForwardKeepsInvariant DEF Inv, FlusherLand
  <1>2. ASSUME NEW o \in Operation, BarrierLand(o) PROVE Inv'
    <2> DEFINE e == [exec[o] EXCEPT !.pc = "write", !.claimed = NoBatch]
    <2>1. exec[o] \in Execution /\ op[o].rt \in Runtime
      BY DEF Inv, TypeOK, OperationRow
    <2>2. exec[o].claimed \in Batches /\ WriteBatch(exec[o].claimed)
      BY <1>2, <2>1 DEF Execution, BarrierLand
    <2>3. e \in Execution /\ e.pc = "write" /\ e.next = exec[o].next /\ e.outcome = exec[o].outcome
             /\ e.call = exec[o].call
      BY <2>1, NullsTyped DEF Execution, Pc
    <2>4. exec' = [exec EXCEPT ![o] = e]
      BY <1>2 DEF BarrierLand
    <2>5. TypeOK'
      BY <1>2, <2>1, <2>2, <2>3, <2>4, WriteBatchForward, TouchedTyped DEF Inv, TypeOK, BarrierLand
    <2>6. exec'[o] = e /\ \A p \in Operation \ {o} : exec'[p] = exec[p]
      BY <2>4 DEF Inv, TypeOK
    <2> HIDE DEF e
    <2>7. \A p \in Operation : SameProgress(p)
      <3>1. exec[o].pc = "flush"
        BY <1>2 DEF BarrierLand
      <3>2. SameProgress(o)
        BY <2>3, <2>6, <3>1 DEF SameProgress, Inv, JournalInvariant, ExecutionMatchesRows
      <3>3. ASSUME NEW p \in Operation \ {o} PROVE SameProgress(p)
        BY <2>6, <3>3 DEF SameProgress, Inv, JournalInvariant, ExecutionMatchesRows
      <3> QED
        BY <3>2, <3>3
    <2> QED
      BY <1>2, <2>2, <2>5, <2>7, WriteBatchForward, ForwardKeepsInvariant DEF Inv, BarrierLand
  <1> QED
    BY <1>1, <1>2

(* An execution that has begun an attempt has a row for it and typed       *)
(* records.                                                                *)
LEMMA CurrentAttempt ==
  ASSUME Inv, NEW o \in Operation, exec[o].next # 0
  PROVE  /\ exec[o].next \in Ordinal /\ <<o, exec[o].next>> \in SubId
         /\ att[<<o, exec[o].next>>] \in AttemptRow
         /\ op[o] \in OperationRow /\ op[o].rt \in Runtime /\ exec[o] \in Execution
  <1>1. exec[o] \in Execution /\ op[o] \in OperationRow
    BY DEF Inv, TypeOK
  <1>2. exec[o].next \in 0 .. AttemptLimit /\ op[o].rt \in Runtime
    BY <1>1 DEF Execution, OperationRow
  <1>3. exec[o].next \in Ordinal
    BY <1>2, AttemptLimitAssumption DEF Ordinal
  <1>4. <<o, exec[o].next>> \in SubId
    BY <1>3, SubIds
  <1> QED
    BY <1>1, <1>2, <1>3, <1>4 DEF Inv, TypeOK

(* Recording the first event of an attempt keeps the invariant.            *)
LEMMA MarkFirstEventInv ==
  ASSUME Inv, NEW o \in Operation, MarkFirstEvent(o) PROVE Inv'
  <1> DEFINE s == <<o, exec[o].next>>
  <1>1. /\ s \in SubId /\ att[s] \in AttemptRow
        /\ op[o].rt \in Runtime /\ exec[o] \in Execution
    BY CurrentAttempt DEF MarkFirstEvent
  <1>2. /\ att' = [att EXCEPT ![s] = [@ EXCEPT !.phase = "streaming", !.event = TRUE]]
        /\ exec' = [exec EXCEPT ![o].told = TRUE]
        /\ sub[s] # NoSub
    BY DEF MarkFirstEvent
  <1>3. [exec[o] EXCEPT !.told = TRUE] \in Execution
    BY <1>1 DEF Execution
  <1> DEFINE a == [att[s] EXCEPT !.phase = "streaming", !.event = TRUE]
  <1>4. a \in AttemptRow /\ a.phase = "streaming" /\ a.recovery = att[s].recovery
    BY <1>1 DEF AttemptRow, Phase
  <1>5. att' = [att EXCEPT ![s] = a]
    BY <1>2
  <1> HIDE DEF a
  <1>6. TypeOK'
    BY <1>1, <1>2, <1>3, <1>4, <1>5, TouchedTyped DEF Inv, TypeOK, MarkFirstEvent
  <1>7. att[s].phase # "none"
    BY <1>1, <1>2 DEF Inv, JournalInvariant, WireMatchesRows, Row
  <1>8. \A t \in SubId : SameRow(t)
    BY <1>1, <1>4, <1>5, <1>7 DEF SameRow, Inv, TypeOK, MarkFirstEvent
  <1>9. \A p \in Operation : SameProgress(p)
    BY <1>1, <1>2 DEF SameProgress, Inv, TypeOK, Execution, JournalInvariant, ExecutionMatchesRows
  <1> QED
    BY <1>6, <1>8, <1>9, ForwardKeepsInvariant DEF Inv, MarkFirstEvent

(* Completing an attempt keeps the invariant.                              *)
LEMMA CompleteAttemptInv ==
  ASSUME Inv, NEW o \in Operation, CompleteAttempt(o) PROVE Inv'
  <1> DEFINE s == <<o, exec[o].next>>
             a == [att[s] EXCEPT !.phase = "terminal", !.outcome = exec[o].outcome,
                                 !.network = exec[o].network]
  <1>1. /\ s \in SubId /\ att[s] \in AttemptRow /\ exec[o].next \in Ordinal
        /\ op[o].rt \in Runtime /\ exec[o] \in Execution
    BY CurrentAttempt DEF Inv, JournalInvariant, ExecutionMatchesRows, CompleteAttempt
  <1>2. a \in AttemptRow /\ a.phase = "terminal" /\ a.recovery = att[s].recovery
    BY <1>1 DEF AttemptRow, Phase, Execution, Settled
  <1>3. att' = [att EXCEPT ![s] = a]
    BY DEF CompleteAttempt
  <1>4. exec' \in [Operation -> Execution]
    BY ReturnedTyped DEF Inv, CompleteAttempt, Pc
  <1> HIDE DEF a
  <1>5. TypeOK'
    BY <1>1, <1>2, <1>3, <1>4, TouchedTyped DEF Inv, TypeOK, CompleteAttempt
  <1>6. exec[o].pc = "write"
    BY DEF CompleteAttempt
  <1>7. att[s].phase # "none"
    <2>1. op[o].status # "pruned" /\ exec[o].next <= exec[o].next
      BY <1>1, SubIds DEF CompleteAttempt, Present
    <2> QED
      BY <1>1, <1>6, <2>1 DEF Inv, JournalInvariant, ExecutionMatchesRows, Deleted
  <1>8. \A t \in SubId : SameRow(t)
    BY <1>1, <1>2, <1>3, <1>7 DEF SameRow, Inv, TypeOK, CompleteAttempt
  <1>9. /\ exec'[o].pc = "ready" /\ exec'[o].next = exec[o].next /\ exec'[o].call = "none"
        /\ \A p \in Operation \ {o} : exec'[p] = exec[p]
    BY <1>1 DEF Inv, TypeOK, CompleteAttempt, Returned, Execution
  <1>10. \A p \in Operation : SameProgress(p)
    BY <1>6, <1>9 DEF SameProgress, Inv, JournalInvariant, ExecutionMatchesRows
  <1> QED
    BY <1>5, <1>8, <1>10, ForwardKeepsInvariant DEF Inv, CompleteAttempt

-----------------------------------------------------------------------------
(* The submission on its way to the wire.                                  *)

(* Sending the request keeps the invariant: its row is there.              *)
LEMMA SendInv ==
  ASSUME Inv, NEW o \in Operation, Send(o) PROVE Inv'
  <1> DEFINE s == <<o, exec[o].next>>
  <1>1. s \in SubId
    BY CurrentAttempt DEF Send
  <1>2. wire' = wire \cup {s} /\ mem[s] # NoSub
    BY DEF Send, NoSub
  <1>3. TypeOK'
    BY <1>1, <1>2 DEF Inv, TypeOK, Send, rowVars, memVars
  <1>4. ActiveOperationHasActiveWorkflow' /\ RecoveryHasSuccessor'
    BY DEF Inv, JournalInvariant, ActiveOperationHasActiveWorkflow, RecoveryHasSuccessor, Send, rowVars
  <1>5. AgedRows' /\ ExecutionMatchesRows'
    BY DEF Inv, JournalInvariant, AgedRows, ExecutionMatchesRows, Deleted, Send, rowVars, memVars
  <1>6. WireMatchesRows'
    BY <1>1, <1>2 DEF Inv, JournalInvariant, WireMatchesRows, Row, Deleted, Send, rowVars, memVars
  <1>7. SafeVerdictIsFinal'
    BY DEF Inv, JournalInvariant, SafeVerdictIsFinal, Row, IsLast, Send, rowVars
  <1> QED
    BY <1>3, <1>4, <1>5, <1>6, <1>7 DEF Inv, JournalInvariant

(* New evidence in memory keeps the invariant.                             *)
LEMMA UpdateSubmissionInv ==
  ASSUME Inv, NEW o \in Operation, NEW u \in Updater, UpdateSubmission(o, u) PROVE Inv'
  <1> DEFINE s == <<o, exec[o].next>>
  <1>1. s \in SubId /\ s[1] = o /\ s \in wire
    BY CurrentAttempt DEF UpdateSubmission
  <1>2. mem[s] \in Submission
    BY <1>1 DEF Inv, TypeOK, JournalInvariant, WireMatchesRows, UpdateSubmission
  <1>3. PICK x \in Updates(mem[s]) : /\ mem' = [mem EXCEPT ![s] = x]
                                     /\ hand' = [hand EXCEPT ![o][u] = [NoBatch EXCEPT ![s] = x]]
    BY DEF UpdateSubmission
  <1>4. x \in Submission
    BY <1>2, UpdatesTyped
  <1>5. [NoBatch EXCEPT ![s] = x] \in Batches
    BY <1>1, <1>4, NullsTyped DEF Batches
  <1>6. TypeOK'
    BY <1>1, <1>3, <1>4, <1>5 DEF Inv, TypeOK, UpdateSubmission, rowVars
  <1>7. \A t \in SubId : mem'[t] # NoSub <=> mem[t] # NoSub
    BY <1>1, <1>2, <1>3, <1>4, NullsTyped DEF Inv, TypeOK
  <1>8. ActiveOperationHasActiveWorkflow' /\ RecoveryHasSuccessor'
    BY DEF Inv, JournalInvariant, ActiveOperationHasActiveWorkflow, RecoveryHasSuccessor,
           UpdateSubmission, rowVars
  <1>9. AgedRows' /\ ExecutionMatchesRows'
    BY DEF Inv, JournalInvariant, AgedRows, ExecutionMatchesRows, Deleted, UpdateSubmission, rowVars
  <1>10. WireMatchesRows'
    BY <1>7 DEF Inv, JournalInvariant, WireMatchesRows, Row, Deleted, UpdateSubmission, rowVars
  <1>11. SafeVerdictIsFinal'
    BY DEF Inv, JournalInvariant, SafeVerdictIsFinal, Row, IsLast, UpdateSubmission, rowVars
  <1> QED
    BY <1>6, <1>8, <1>9, <1>10, <1>11 DEF Inv, JournalInvariant

-----------------------------------------------------------------------------
(* Outcomes, written by the owner.                                         *)

(* Completing an operation keeps the invariant.                            *)
LEMMA CompleteOperationInv ==
  ASSUME Inv, NEW o \in Operation, CompleteOperation(o) PROVE Inv'
  <1> DEFINE row == [op[o] EXCEPT !.status = exec[o].outcome, !.recovery = ""]
  <1>1. exec[o] \in Execution /\ op[o] \in OperationRow /\ op[o].rt \in Runtime
    BY DEF Inv, TypeOK, OperationRow
  <1>2. /\ exec[o].outcome \in Completed /\ op[o].status = "active" /\ exec[o].pc = "write"
        /\ op' = [op EXCEPT ![o] = row]
    BY DEF Inv, JournalInvariant, ExecutionMatchesRows, CompleteOperation
  <1>3. row \in OperationRow /\ row.status \in Completed /\ row.recovery = ""
    BY <1>1, <1>2 DEF OperationRow, RowStatus, Settled, Recovery
  <1>4. exec' \in [Operation -> Execution]
    BY <1>1, ReturnedTyped DEF Inv, CompleteOperation, Pc, Execution
  <1>5. TypeOK'
    BY <1>1, <1>2, <1>3, <1>4, TouchedTyped DEF Inv, TypeOK, CompleteOperation
  <1> HIDE DEF row
  <1>6. op'[o] = row /\ \A p \in Operation \ {o} : op'[p] = op[p]
    BY <1>2 DEF Inv, TypeOK
  <1>7. /\ exec'[o].pc = "done" /\ exec'[o].next = exec[o].next /\ exec'[o].call = "none"
        /\ \A p \in Operation \ {o} : exec'[p] = exec[p]
    BY <1>1 DEF Inv, TypeOK, CompleteOperation, Returned, Execution
  <1>8. row.status \notin {"none", "active", "pruned"} /\ row.status \in Settled
    BY <1>3 DEF Completed, Settled
  <1>9. ActiveOperationHasActiveWorkflow'
    BY <1>6, <1>8 DEF Inv, JournalInvariant, ActiveOperationHasActiveWorkflow, CompleteOperation
  <1>10. RecoveryHasSuccessor'
    BY <1>6, <1>8, SubIds DEF Inv, JournalInvariant, RecoveryHasSuccessor, CompleteOperation
  <1>11. AgedRows'
    <2>1. aged' = aged /\ wf' = wf
      BY DEF CompleteOperation
    <2>2. op'[o].status \in Settled /\ exec'[o].pc = "done" /\ op'[o].status # "pruned"
      BY <1>6, <1>7, <1>8
    <2>3. ASSUME NEW p \in Operation \ {o} PROVE op'[p] = op[p] /\ exec'[p] = exec[p]
      BY <1>6, <1>7
    <2> QED
      BY <2>1, <2>2, <2>3 DEF Inv, JournalInvariant, AgedRows, Deleted
  <1>12. ExecutionMatchesRows'
    <2>1. att' = att /\ wf' = wf
      BY DEF CompleteOperation
    <2>2. /\ wf[WorkflowOf[o]].status # "none"
          /\ \A n \in Ordinal : att[<<o, n>>].phase # "none" <=> n <= exec[o].next
      BY <1>2 DEF Inv, JournalInvariant, ExecutionMatchesRows, Deleted
    <2>3. /\ op'[o].status \notin {"none", "pruned"}
          /\ exec'[o].pc = "done" /\ exec'[o].next = exec[o].next /\ exec'[o].call = "none"
      BY <1>6, <1>7, <1>8
    <2>4. ASSUME NEW p \in Operation \ {o} PROVE op'[p] = op[p] /\ exec'[p] = exec[p]
      BY <1>6, <1>7
    <2> QED
      BY <2>1, <2>2, <2>3, <2>4 DEF Inv, JournalInvariant, ExecutionMatchesRows, Deleted
  <1>13. WireMatchesRows'
    <2>1. \A p \in Operation : /\ Deleted(p)' <=> Deleted(p)
                               /\ exec'[p].pc = "gone" <=> exec[p].pc = "gone"
                               /\ op'[p].status = "active" => op[p].status = "active"
      BY <1>2, <1>6, <1>7, <1>8 DEF Deleted
    <2> QED
      BY <2>1, SubIds DEF Inv, JournalInvariant, WireMatchesRows, Row, CompleteOperation
  <1>14. SafeVerdictIsFinal'
    BY <1>3, <1>6, SubIds DEF Inv, JournalInvariant, SafeVerdictIsFinal, Row, IsLast, CompleteOperation
  <1> QED
    BY <1>5, <1>9, <1>10, <1>11, <1>12, <1>13, <1>14 DEF Inv, JournalInvariant

(* Completing a workflow keeps the invariant: it has no active operation.  *)
LEMMA CompleteWorkflowInv ==
  ASSUME Inv, NEW w \in Workflow, NEW outcome \in Completed, CompleteWorkflow(w, outcome)
  PROVE  Inv'
  <1> DEFINE row == [wf[w] EXCEPT !.status = outcome]
  <1>1. wf[w] \in WorkflowRow /\ wf[w].rt \in Runtime /\ wf' = [wf EXCEPT ![w] = row]
    BY DEF Inv, TypeOK, WorkflowRow, CompleteWorkflow
  <1>2. row \in WorkflowRow /\ row.status \in Settled /\ row.status \notin {"none", "active"}
    BY <1>1 DEF WorkflowRow, RowStatus, Settled, Completed
  <1>3. TypeOK'
    BY <1>1, <1>2, TouchedTyped DEF Inv, TypeOK, CompleteWorkflow, memVars
  <1> HIDE DEF row
  <1>4. wf'[w] = row /\ \A v \in Workflow \ {w} : wf'[v] = wf[v]
    BY <1>1 DEF Inv, TypeOK
  <1>5. \A o \in Operation : /\ WorkflowOf[o] \in Workflow
                             /\ WorkflowOf[o] = w => op[o].status # "active"
    BY WorkflowOfAssumption DEF CompleteWorkflow
  <1>6. ActiveOperationHasActiveWorkflow'
    BY <1>4, <1>5 DEF Inv, JournalInvariant, ActiveOperationHasActiveWorkflow, CompleteWorkflow
  <1>7. RecoveryHasSuccessor'
    BY DEF Inv, JournalInvariant, RecoveryHasSuccessor, CompleteWorkflow
  <1>8. AgedRows'
    BY <1>2, <1>4 DEF Inv, JournalInvariant, AgedRows, Deleted, CompleteWorkflow, memVars
  <1>9. ExecutionMatchesRows'
    BY <1>2, <1>4, <1>5 DEF Inv, JournalInvariant, ExecutionMatchesRows, Deleted, CompleteWorkflow, memVars
  <1>10. WireMatchesRows'
    BY DEF Inv, JournalInvariant, WireMatchesRows, Row, Deleted, CompleteWorkflow, memVars
  <1>11. SafeVerdictIsFinal'
    BY <1>2, <1>4, <1>5, SubIds
    DEF Inv, JournalInvariant, SafeVerdictIsFinal, Row, IsLast, CompleteWorkflow
  <1> QED
    BY <1>3, <1>6, <1>7, <1>8, <1>9, <1>10, <1>11 DEF Inv, JournalInvariant

-----------------------------------------------------------------------------
(* The process stops.                                                      *)

(* A crash keeps the invariant: nothing it loses was relied on.            *)
LEMMA CrashInv ==
  ASSUME Inv, NEW r \in Runtime, Crash(r) PROVE Inv'
  <1>1. [rt[r] EXCEPT !.proc = "gone"] \in RuntimeRow
    BY DEF Inv, TypeOK, RuntimeRow
  <1>2. [NoExec EXCEPT !.pc = "gone"] \in Execution
    BY NullsTyped DEF Execution, Pc
  <1>3. TypeOK'
    BY <1>1, <1>2, NullsTyped DEF Inv, TypeOK, Crash, rowVars
  <1>4. ASSUME NEW o \in Operation
        PROVE  \/ exec'[o] = exec[o] /\ exec[o].pc = "gone"
               \/ /\ exec'[o].pc = "gone" /\ exec'[o].next = 0 /\ exec'[o].call = "none"
                  /\ exec[o].pc # "none"
               \/ exec'[o] = exec[o] /\ exec[o].pc # "gone"
    BY DEF Crash, NoExec
  <1>5. \A o \in Operation : exec[o].pc = "gone" => exec'[o].pc = "gone"
    BY <1>4
  <1>6. \A s \in SubId : mem'[s] = IF exec'[s[1]].pc = "gone" THEN NoSub ELSE mem[s]
    BY DEF Crash
  <1>7. ActiveOperationHasActiveWorkflow' /\ RecoveryHasSuccessor'
    BY DEF Inv, JournalInvariant, ActiveOperationHasActiveWorkflow, RecoveryHasSuccessor, Crash, rowVars
  <1>8. AgedRows'
    BY <1>4 DEF Inv, JournalInvariant, AgedRows, Deleted, Crash, rowVars
  <1>9. ExecutionMatchesRows'
    BY <1>4 DEF Inv, JournalInvariant, ExecutionMatchesRows, Deleted, Crash, rowVars
  <1>10. WireMatchesRows'
    BY <1>5, <1>6, SubIds DEF Inv, JournalInvariant, WireMatchesRows, Row, Deleted, Crash, rowVars
  <1>11. SafeVerdictIsFinal'
    BY DEF Inv, JournalInvariant, SafeVerdictIsFinal, Row, IsLast, Crash, rowVars
  <1> QED
    BY <1>3, <1>7, <1>8, <1>9, <1>10, <1>11 DEF Inv, JournalInvariant

-----------------------------------------------------------------------------
(* New operations, attempts and submissions.                               *)

(* Creating an operation, in a new or an active workflow, keeps the        *)
(* invariant.                                                              *)
LEMMA PrepareOperationInv ==
  ASSUME Inv, NEW r \in Runtime, NEW o \in Operation, PrepareOperation(r, o) PROVE Inv'
  <1> DEFINE w == WorkflowOf[o]
             wrow == [status |-> "active", rt |-> r]
             orow == [status |-> "active", recovery |-> "", rt |-> r]
  <1>1. w \in Workflow /\ exec[o] \in Execution
    BY WorkflowOfAssumption DEF Inv, TypeOK
  <1>2. wrow \in WorkflowRow /\ orow \in OperationRow
    BY DEF WorkflowRow, OperationRow, RowStatus, Recovery
  <1>3. [exec[o] EXCEPT !.pc = "ready"] \in Execution
    BY <1>1 DEF Execution, Pc
  <1>4. /\ wf' = [wf EXCEPT ![w] = wrow]
        /\ op' = [op EXCEPT ![o] = orow]
        /\ exec' = [exec EXCEPT ![o].pc = "ready"] /\ exec[o].pc = "none"
        /\ JoinsWorkflow(r, w)
        /\ UNCHANGED <<att, sub, mem, aged, wire>>
    BY DEF PrepareOperation
  <1>16. wf[w].status = "none" \/ (wf[w].status = "active" /\ wf[w].rt = r)
    BY <1>4 DEF JoinsWorkflow
  <1>17. used' \in [Workflow -> [Dimension -> Nat]]
    BY <1>1, ReservedTyped DEF Inv, PrepareOperation
  <1>18. UNCHANGED <<ledger, hand, pending, batch>> /\ rt' = Touched(r)
    BY DEF PrepareOperation
  <1>5. TypeOK'
    BY <1>1, <1>2, <1>3, <1>4, <1>17, <1>18, TouchedTyped DEF Inv, TypeOK
  <1> HIDE DEF wrow, orow
  <1>6. /\ wf'[w].status = "active" /\ wf'[w].rt = r
        /\ \A v \in Workflow \ {w} : wf'[v] = wf[v]
        /\ op'[o].status = "active" /\ op'[o].rt = r
        /\ \A p \in Operation \ {o} : op'[p] = op[p] /\ exec'[p] = exec[p]
        /\ exec'[o].pc = "ready" /\ exec'[o].next = exec[o].next /\ exec'[o].call = exec[o].call
    BY <1>1, <1>4 DEF Inv, TypeOK, Execution, wrow, orow
  <1>7. /\ op[o].status = "none" /\ exec[o].next = 0 /\ exec[o].call # "attempt"
        /\ \A n \in Ordinal : att[<<o, n>>].phase # "none" <=> n <= 0
    BY <1>4 DEF Inv, JournalInvariant, ExecutionMatchesRows, Deleted
  <1>8. \A n \in Ordinal : att[<<o, n>>].phase = "none"
    BY <1>7, SubIds
  <1>9. \A p \in Operation : WorkflowOf[p] \in Workflow
    BY WorkflowOfAssumption
  <1>10. ActiveOperationHasActiveWorkflow'
    BY <1>4, <1>6, <1>9, <1>16 DEF Inv, JournalInvariant, ActiveOperationHasActiveWorkflow
  <1>11. RecoveryHasSuccessor'
    <2>1. \A n \in Ordinal : att[<<o, n>>].recovery = ""
      BY <1>8, SubIds DEF Inv, JournalInvariant, WireMatchesRows
    <2>2. \A s \in SubId : s[1] = o => att[s].recovery = ""
      BY <2>1, SubIds
    <2>3. \A s \in SubId : s[1] # o => op'[s[1]] = op[s[1]]
      BY <1>6, SubIds
    <2> QED
      BY <1>4, <2>2, <2>3, SubIds DEF Inv, JournalInvariant, RecoveryHasSuccessor
  <1>12. AgedRows'
    <2>1. o \notin aged /\ w \notin aged
      BY <1>1, <1>7, <1>16 DEF Inv, JournalInvariant, AgedRows, Settled, Completed
    <2> QED
      BY <1>4, <1>6, <2>1 DEF Inv, JournalInvariant, AgedRows, Deleted
  <1>13. ExecutionMatchesRows'
    BY <1>4, <1>6, <1>7, <1>9 DEF Inv, JournalInvariant, ExecutionMatchesRows, Deleted, Completed
  <1>14. WireMatchesRows'
    <2>1. \A n \in Ordinal : ~Row(<<o, n>>)
      BY <1>8, SubIds DEF Inv, JournalInvariant, WireMatchesRows
    <2>2. \A p \in Operation : /\ Deleted(p)' <=> Deleted(p)
                               /\ exec'[p].pc = "gone" <=> exec[p].pc = "gone"
                               /\ op'[p].status = "active" => op[p].status = "active" \/ p = o
      BY <1>4, <1>6, <1>7 DEF Deleted
    <2>3. \A s \in SubId : s[1] = o => ~Row(s)
      BY <2>1, SubIds
    <2>4. \A s \in SubId : Row(s)' <=> Row(s)
      BY <1>4 DEF Row
    <2> QED
      BY <1>4, <2>2, <2>3, <2>4, SubIds DEF Inv, JournalInvariant, WireMatchesRows
  <1>15. SafeVerdictIsFinal'
    <2> SUFFICES ASSUME NEW s \in SubId, op'[s[1]].status \in Settled,
                        op'[s[1]].recovery = "reschedule_safe"
                 PROVE  /\ wf'[WorkflowOf[s[1]]].status # "active"
                        /\ IsLast(s) => ~Row(s)
      BY <1>4 DEF SafeVerdictIsFinal, IsLast, Row
    <2>1. s[1] \in Operation \ {o} /\ op'[s[1]] = op[s[1]]
      BY <1>6, SubIds DEF Settled, Completed
    <2>2. op[s[1]].status \in Settled /\ op[s[1]].recovery = "reschedule_safe"
      BY <2>1
    <2>3. wf[WorkflowOf[s[1]]].status # "active" /\ (IsLast(s) => ~Row(s))
      BY <2>2 DEF Inv, JournalInvariant, SafeVerdictIsFinal
    <2>4. wf[WorkflowOf[s[1]]].status # "none"
      BY <2>1, <2>2 DEF Inv, JournalInvariant, ExecutionMatchesRows, Settled, Completed
    <2> QED
      BY <1>6, <1>9, <1>16, <2>1, <2>3, <2>4
  <1> QED
    BY <1>5, <1>10, <1>11, <1>12, <1>13, <1>14, <1>15 DEF Inv, JournalInvariant

(* The row of the next attempt of a running operation, with the recovery   *)
(* action recorded on the attempt before it.                               *)
LEMMA BelowPrevious ==
  /\ \A k, n \in Nat : k # n => ((k <= n) <=> (k <= n - 1))
  /\ \A n, m \in Nat : n <= m => n - 1 + 1 = n /\ n - 1 < m
  OBVIOUS

NextAttempted(o, n) ==
  /\ n = exec[o].next + 1 /\ exec[o].pc = "ready" /\ op[o].status = "active"
  /\ exec'[o].next = n /\ exec'[o].pc = "ready"
  /\ op'[o].status = "active" /\ op'[o].rt = op[o].rt
  /\ \A p \in Operation \ {o} : exec'[p] = exec[p] /\ op'[p] = op[p]
  /\ att'[<<o, n>>].phase = "prepared" /\ att'[<<o, n>>].recovery = ""
  /\ \A s \in SubId : s # <<o, n>> => att'[s].phase = att[s].phase
  /\ \A s \in SubId : s # <<o, n>> /\ s # <<o, exec[o].next>> => att'[s].recovery = att[s].recovery
  /\ UNCHANGED <<wf, sub, mem, aged, wire>>

(* Inserting the next attempt together with its recovery keeps the         *)
(* invariant.                                                              *)
LEMMA NextAttemptKeepsInvariant ==
  ASSUME Inv, NEW o \in Operation, NEW n \in Ordinal, NextAttempted(o, n)
  PROVE  JournalInvariant'
  <1>10. exec[o].next \in Nat /\ n \in Nat /\ n # 0
    <2>1. exec[o] \in Execution
      BY DEF Inv, TypeOK
    <2>2. exec[o].next \in 0 .. AttemptLimit
      BY <2>1 DEF Execution
    <2> QED
      BY <2>2, SubIds, AttemptLimitAssumption
  <1>14. n = exec[o].next + 1
    BY Zenon DEF NextAttempted
  <1>11. n - 1 = exec[o].next
    BY <1>10, <1>14
  <1>1. \A k \in Ordinal : att[<<o, k>>].phase # "none" <=> k <= n - 1
    BY <1>11 DEF Inv, JournalInvariant, ExecutionMatchesRows, Deleted, NextAttempted
  <1>2. att[<<o, n>>].phase = "none" /\ ~Row(<<o, n>>)
    <2>1. att[<<o, n>>].phase = "none"
      BY <1>1, <1>10
    <2> QED
      BY <2>1, SubIds DEF Inv, JournalInvariant, WireMatchesRows
  <1>3. \A p \in Operation : /\ op'[p].status = op[p].status /\ op'[p].rt = op[p].rt
                             /\ exec'[p].pc = exec[p].pc
    BY DEF NextAttempted
  <1>12. UNCHANGED <<wf, sub, mem, aged, wire>>
    BY DEF NextAttempted
  <1>13. /\ att'[<<o, n>>].phase = "prepared" /\ att'[<<o, n>>].recovery = ""
         /\ \A s \in SubId : s # <<o, n>> => att'[s].phase = att[s].phase
         /\ \A s \in SubId : s # <<o, n>> /\ s # <<o, n - 1>> => att'[s].recovery = att[s].recovery
    <2>1. /\ att'[<<o, n>>].phase = "prepared" /\ att'[<<o, n>>].recovery = ""
          /\ \A s \in SubId : s # <<o, n>> => att'[s].phase = att[s].phase
          /\ \A s \in SubId : s # <<o, n>> /\ s # <<o, exec[o].next>> => att'[s].recovery = att[s].recovery
      BY DEF NextAttempted
    <2> QED
      BY <1>11, <2>1
  <1>4. ActiveOperationHasActiveWorkflow'
    BY <1>3, <1>12 DEF Inv, JournalInvariant, ActiveOperationHasActiveWorkflow
  <1>5. RecoveryHasSuccessor'
    <2> SUFFICES ASSUME NEW s \in SubId, op'[s[1]].status = "active", att'[s].recovery # ""
                 PROVE  s[2] < AttemptLimit /\ att'[<<s[1], s[2] + 1>>].phase # "none"
      BY DEF RecoveryHasSuccessor
    <2>1. s # <<o, n>>
      BY <1>13
    <2>2. CASE s = <<o, n - 1>>
      <3>1. s[1] = o /\ s[2] = n - 1
        BY <2>2
      <3>3. n <= AttemptLimit
        BY SubIds
      <3>2. s[2] + 1 = n /\ s[2] < AttemptLimit
        <4>1. n - 1 + 1 = n /\ n - 1 < AttemptLimit
          BY <1>10, <3>3, AttemptLimitAssumption, BelowPrevious
        <4> QED
          BY <3>1, <4>1
      <3> QED
        BY <1>13, <3>1, <3>2
    <2>3. CASE s # <<o, n - 1>>
      <3>1. att[s].recovery # "" /\ op[s[1]].status = "active"
        BY <1>3, <1>13, <2>1, <2>3, SubIds
      <3>2. s[2] < AttemptLimit /\ att[<<s[1], s[2] + 1>>].phase # "none"
        BY <3>1 DEF Inv, JournalInvariant, RecoveryHasSuccessor
      <3>3. <<s[1], s[2] + 1>> \in SubId
        BY <3>2, SubIds
      <3> QED
        BY <1>13, <3>2, <3>3
    <2> QED
      BY <2>2, <2>3
  <1>6. AgedRows'
    BY <1>3, <1>12 DEF Inv, JournalInvariant, AgedRows, Deleted
  <1>15. \A p \in Operation \ {o}, k \in Ordinal :
            att'[<<p, k>>].phase = att[<<p, k>>].phase
    BY <1>13, SubIds
  <1>7. ExecutionMatchesRows'
    <2>1. \A k \in Ordinal : att'[<<o, k>>].phase # "none" <=> k <= n
      <3> SUFFICES ASSUME NEW k \in Ordinal
                   PROVE  att'[<<o, k>>].phase # "none" <=> k <= n
        OBVIOUS
      <3>1. k \in Nat /\ <<o, k>> \in SubId
        BY SubIds
      <3>2. CASE k = n
        <4>1. n <= n
          BY <1>10
        <4> QED
          BY <1>13, <3>2, <4>1
      <3>3. CASE k # n
        <4>1. att'[<<o, k>>].phase = att[<<o, k>>].phase
          BY <1>13, <3>1, <3>3
        <4>2. (k <= n) <=> (k <= n - 1)
          BY <1>10, <3>1, <3>3, BelowPrevious
        <4> QED
          BY <1>1, <4>1, <4>2
      <3> QED
        BY <3>2, <3>3
    <2> SUFFICES ASSUME NEW p \in Operation
                 PROVE  /\ exec'[p].pc = "none" <=> op'[p].status = "none"
                        /\ exec'[p].pc = "none" => exec'[p].next = 0
                        /\ exec'[p].pc \in {"flush", "write"} => exec'[p].outcome \in Completed
                        /\ exec'[p].call = "attempt" => exec'[p].next # 0
                        /\ op'[p].status \in Completed => exec'[p].pc \in {"done", "gone"}
                        /\ exec'[p].pc # "gone" /\ ~Deleted(p)' =>
                             \A k \in Ordinal : att'[<<p, k>>].phase # "none" <=> k <= exec'[p].next
                        /\ op'[p].status # "none" => wf'[WorkflowOf[p]].status # "none"
      BY Zenon DEF ExecutionMatchesRows
    <2>3. CASE p = o
      <3>1. wf[WorkflowOf[o]].status # "none"
        BY DEF Inv, JournalInvariant, ExecutionMatchesRows, NextAttempted
      <3>2. /\ exec'[o].next = n /\ exec'[o].pc = "ready" /\ op'[o].status = "active"
        BY DEF NextAttempted
      <3> QED
        BY <1>10, <1>12, <2>1, <2>3, <3>1, <3>2 DEF Completed
    <2>4. CASE p # o
      <3>1. exec'[p] = exec[p] /\ op'[p] = op[p] /\ wf' = wf
        BY <2>4 DEF NextAttempted
      <3> QED
        BY <1>15, <2>4, <3>1 DEF Inv, JournalInvariant, ExecutionMatchesRows, Deleted
    <2> QED
      BY <2>3, <2>4
  <1>8. WireMatchesRows'
    <2>1. \A s \in SubId : Row(s)' <=> Row(s)
      BY <1>12 DEF Row
    <2>2. \A s \in SubId : (Deleted(s[1])' <=> Deleted(s[1])) /\ exec'[s[1]].pc = exec[s[1]].pc
      BY <1>3, SubIds DEF Deleted
    <2>3. \A s \in SubId : att'[s].phase = "none" => att'[s].recovery = "" /\ ~Row(s)
      <3> SUFFICES ASSUME NEW s \in SubId, att'[s].phase = "none"
                   PROVE  att'[s].recovery = "" /\ ~Row(s)
        OBVIOUS
      <3>1. s # <<o, n>> /\ att[s].phase = "none"
        BY <1>13
      <3>2. s # <<o, n - 1>>
        <4> SUFFICES ASSUME s = <<o, n - 1>> PROVE FALSE
          OBVIOUS
        <4>1. n - 1 \in Ordinal
          BY SubIds
        <4>2. att[<<o, n - 1>>].phase # "none"
          BY <1>1, <1>10, <4>1
        <4> QED
          BY <3>1, <4>2
      <3> QED
        BY <1>13, <3>1, <3>2 DEF Inv, JournalInvariant, WireMatchesRows
    <2>4. \A s \in SubId : Row(s) /\ op'[s[1]].status = "active" => att'[s].phase # "prepared"
      BY <1>2, <1>3, <1>13, SubIds DEF Inv, JournalInvariant, WireMatchesRows
    <2> QED
      BY <1>12, <2>1, <2>2, <2>3, <2>4 DEF Inv, JournalInvariant, WireMatchesRows
  <1>9. SafeVerdictIsFinal'
    <2> SUFFICES ASSUME NEW s \in SubId, op'[s[1]].status \in Settled,
                        op'[s[1]].recovery = "reschedule_safe"
                 PROVE  /\ wf[WorkflowOf[s[1]]].status # "active"
                        /\ IsLast(s)' => ~Row(s)
      BY <1>12 DEF SafeVerdictIsFinal, Row
    <2>1. s[1] \in Operation \ {o} /\ op'[s[1]] = op[s[1]]
      BY SubIds DEF Settled, Completed, NextAttempted
    <2>2. op[s[1]].status \in Settled /\ op[s[1]].recovery = "reschedule_safe"
      BY <2>1
    <2>3. IsLast(s)' <=> IsLast(s)
      <3>1. \A k \in Ordinal : att'[<<s[1], k>>].phase = att[<<s[1], k>>].phase
        BY <1>15, <2>1
      <3>2. s[2] \in Ordinal /\ s = <<s[1], s[2]>>
        BY SubIds
      <3>3. att'[s].phase = att[s].phase
        BY <3>1, <3>2
      <3>4. (\A k \in Ordinal : k > s[2] => att'[<<s[1], k>>].phase = "none")
              <=> (\A k \in Ordinal : k > s[2] => att[<<s[1], k>>].phase = "none")
        BY <3>1, Zenon
      <3> QED
        BY <3>3, <3>4, Zenon DEF IsLast
    <2> QED
      BY <2>2, <2>3 DEF Inv, JournalInvariant, SafeVerdictIsFinal
  <1> QED
    BY <1>4, <1>5, <1>6, <1>7, <1>8, <1>9 DEF JournalInvariant

(* A prepared attempt is a row.                                            *)
LEMMA PreparedTyped ==
  LET a == [NoAttempt EXCEPT !.phase = "prepared"]
  IN  a \in AttemptRow /\ a.phase = "prepared" /\ a.recovery = ""
  BY DEF NoAttempt, AttemptRow, Phase, Recovery

(* Beginning an attempt keeps the invariant.                               *)
LEMMA BeginAttemptInv ==
  ASSUME Inv, NEW o \in Operation, BeginAttempt(o) PROVE Inv'
  <1> DEFINE a == [NoAttempt EXCEPT !.phase = "prepared"]
  <1>1. /\ op[o].rt \in Runtime /\ exec[o] \in Execution /\ WorkflowOf[o] \in Workflow
        /\ 1 \in Ordinal /\ <<o, 1>> \in SubId
    BY SubIds, AttemptLimitAssumption, WorkflowOfAssumption DEF Inv, TypeOK, OperationRow, Ordinal
  <1>2. /\ op[o].status = "active" /\ exec[o].pc = "ready" /\ exec[o].next = 0
        /\ att' = [att EXCEPT ![<<o, 1>>] = a]
        /\ exec' = [exec EXCEPT ![o].next = 1]
        /\ rt' = Touched(op[o].rt)
        /\ UNCHANGED <<wf, ledger, op, sub, mem, hand, pending, batch, aged, wire>>
    BY DEF BeginAttempt, PrepareAttemptTx
  <1>3. used' \in [Workflow -> [Dimension -> Nat]]
    BY <1>1, ReservedTyped DEF Inv, BeginAttempt, PrepareAttemptTx
  <1>4. [exec[o] EXCEPT !.next = 1] \in Execution
    <2>1. \A e \in Execution, k \in 0 .. AttemptLimit : [e EXCEPT !.next = k] \in Execution
      BY DEF Execution
    <2> QED
      BY <1>1, <2>1, AttemptLimitAssumption
  <1>5. a \in AttemptRow /\ a.phase = "prepared" /\ a.recovery = ""
    BY PreparedTyped
  <1> HIDE DEF a
  <1>10. att' \in [SubId -> AttemptRow] /\ exec' \in [Operation -> Execution]
    BY <1>2, <1>4, <1>5 DEF Inv, TypeOK
  <1>6. TypeOK'
    BY <1>1, <1>2, <1>3, <1>10, TouchedTyped DEF Inv, TypeOK
  <1>7. /\ exec'[o].next = 1 /\ exec'[o].pc = "ready"
        /\ \A p \in Operation \ {o} : exec'[p] = exec[p]
    BY <1>1, <1>2 DEF Inv, TypeOK, Execution
  <1>8. att'[<<o, 1>>] = a /\ \A s \in SubId : s # <<o, 1>> => att'[s] = att[s]
    BY <1>1, <1>2 DEF Inv, TypeOK
  <1>9. JournalInvariant'
    <2>1. NextAttempted(o, 1)
      <3>1. 1 = exec[o].next + 1
        BY <1>2
      <3>2. \A s \in SubId : s # <<o, 1>> => att'[s].phase = att[s].phase /\ att'[s].recovery = att[s].recovery
        BY <1>8
      <3>3. /\ exec[o].pc = "ready" /\ op[o].status = "active" /\ exec'[o].next = 1 /\ exec'[o].pc = "ready"
            /\ op' = op /\ \A p \in Operation \ {o} : exec'[p] = exec[p]
            /\ att'[<<o, 1>>].phase = "prepared" /\ att'[<<o, 1>>].recovery = ""
            /\ UNCHANGED <<wf, sub, mem, aged, wire>>
        BY <1>2, <1>5, <1>7, <1>8
      <3> QED
        BY Zenon, <3>1, <3>2, <3>3 DEF NextAttempted
    <2> QED
      BY <1>1, <2>1, NextAttemptKeepsInvariant
  <1> QED
    BY <1>6, <1>9 DEF Inv

(* Recording a recovery with its attempt keeps the invariant.              *)
LEMMA PrepareRecoveryAttemptInv ==
  ASSUME Inv, NEW o \in Operation, NEW plan \in Plan, PrepareRecoveryAttempt(o, plan)
  PROVE  Inv'
  <1> DEFINE n == exec[o].next
             s == <<o, n>>
             t == <<o, n + 1>>
             a == [att[s] EXCEPT !.recovery = plan.action]
             b == [NoAttempt EXCEPT !.phase = "prepared"]
             row == [op[o] EXCEPT !.recovery = plan.action]
             e == [exec[o] EXCEPT !.next = n + 1, !.ended = FALSE, !.told = FALSE]
  <1>1. /\ n \in Ordinal /\ n + 1 <= AttemptLimit
        /\ exec[o].pc = "ready" /\ op[o].status = "active"
        /\ rt' = Touched(op[o].rt)
        /\ UNCHANGED <<wf, ledger, sub, mem, hand, pending, batch, aged, wire>>
    BY DEF PrepareRecoveryAttempt, PrepareAttemptTx
  <1>2. n \in Nat /\ n + 1 \in Nat /\ n # 0
    BY <1>1, SubIds
  <1>3. n + 1 \in Ordinal
    BY <1>1, SubIds, AttemptLimitAssumption DEF Ordinal
  <1>4. /\ s \in SubId /\ t \in SubId /\ s # t
        /\ att[s] \in AttemptRow /\ op[o] \in OperationRow /\ op[o].rt \in Runtime
        /\ exec[o] \in Execution /\ WorkflowOf[o] \in Workflow
    BY <1>1, <1>2, <1>3, SubIds, CurrentAttempt, WorkflowOfAssumption
  <1>5. plan.action \in Recovery
    BY PlanAssumption DEF Recovery
  <1>6. a \in AttemptRow /\ a.phase = att[s].phase
    BY <1>4, <1>5 DEF AttemptRow
  <1>7. b \in AttemptRow /\ b.phase = "prepared" /\ b.recovery = ""
    BY PreparedTyped
  <1>8. row \in OperationRow /\ row.status = op[o].status /\ row.rt = op[o].rt
    BY <1>4, <1>5 DEF OperationRow
  <1>9. e \in Execution /\ e.next = n + 1 /\ e.pc = exec[o].pc
    <2>1. \A x \in Execution, k \in 0 .. AttemptLimit :
            LET y == [x EXCEPT !.next = k, !.ended = FALSE, !.told = FALSE]
            IN  y \in Execution /\ y.next = k /\ y.pc = x.pc
      BY DEF Execution
    <2>2. n + 1 \in 0 .. AttemptLimit
      BY <1>3 DEF Ordinal
    <2> QED
      BY <1>4, <2>1, <2>2
  <1>10. /\ att' = [att EXCEPT ![s] = a, ![t] = b]
         /\ op' = [op EXCEPT ![o] = row]
         /\ exec' = [exec EXCEPT ![o] = e]
    BY DEF PrepareRecoveryAttempt, RecoveryWithNext
  <1>11. used' \in [Workflow -> [Dimension -> Nat]]
    BY <1>4, ReservedTyped DEF Inv, PrepareRecoveryAttempt, PrepareAttemptTx
  <1> HIDE DEF a, b, row, e
  <1>12. /\ att' \in [SubId -> AttemptRow] /\ op' \in [Operation -> OperationRow]
         /\ exec' \in [Operation -> Execution]
    BY <1>6, <1>7, <1>8, <1>9, <1>10 DEF Inv, TypeOK
  <1>13. TypeOK'
    BY <1>1, <1>4, <1>11, <1>12, TouchedTyped DEF Inv, TypeOK
  <1>14. /\ att'[t] = b /\ att'[s] = a
         /\ \A u \in SubId : u # t /\ u # s => att'[u] = att[u]
         /\ op'[o] = row /\ exec'[o] = e
         /\ \A p \in Operation \ {o} : exec'[p] = exec[p] /\ op'[p] = op[p]
    BY <1>4, <1>10 DEF Inv, TypeOK
  <1>15. NextAttempted(o, n + 1)
    <2>2. /\ att'[t].phase = "prepared" /\ att'[t].recovery = ""
          /\ \A u \in SubId : u # t => att'[u].phase = att[u].phase
          /\ \A u \in SubId : u # t /\ u # s => att'[u].recovery = att[u].recovery
      BY <1>6, <1>7, <1>14
    <2>3. /\ exec[o].pc = "ready" /\ op[o].status = "active"
          /\ exec'[o].next = n + 1 /\ exec'[o].pc = "ready"
          /\ op'[o].status = "active" /\ op'[o].rt = op[o].rt
          /\ \A p \in Operation \ {o} : exec'[p] = exec[p] /\ op'[p] = op[p]
      BY <1>1, <1>8, <1>9, <1>14
    <2>4. UNCHANGED <<wf, sub, mem, aged, wire>>
      BY <1>1
    <2> QED
      BY Zenon, <2>2, <2>3, <2>4 DEF NextAttempted
  <1> QED
    BY <1>3, <1>13, <1>15, NextAttemptKeepsInvariant DEF Inv

(* The checkpoint needs an active workflow, so no verdict of safety has    *)
(* been given to the operation.                                            *)
LEMMA RecordSubmissionInv ==
  ASSUME Inv, NEW o \in Operation, NEW seed \in Seeds, RecordSubmission(o, seed) PROVE Inv'
  <1> DEFINE w == WorkflowOf[o]
             s == <<o, exec[o].next>>
             row == [NoSub EXCEPT !.outcome = "in_flight", !.seed = seed]
             a == MarkSent(att[s])
  <1>1. /\ s \in SubId /\ s[1] = o /\ att[s] \in AttemptRow /\ exec[o].next \in Ordinal
        /\ op[o].rt \in Runtime /\ w \in Workflow
    BY CurrentAttempt, WorkflowOfAssumption DEF RecordSubmission
  <1>2. /\ wf[w].status = "active" /\ exec[o].pc = "ready" /\ op[o].status \notin {"none", "pruned"}
        /\ sub' = [sub EXCEPT ![s] = row]
        /\ att' = [att EXCEPT ![s] = a]
        /\ mem' = [mem EXCEPT ![s] = row]
        /\ rt' = Touched(op[o].rt)
        /\ UNCHANGED <<wf, op, exec, hand, pending, batch, aged, wire>>
    BY DEF RecordSubmission, AdmitsSubmission, CostAdmissible, Present
  <1>3. row \in Submission /\ row # NoSub
    BY TokenAssumption DEF NoSub, Submission, SubOutcome, Cost
  <1>4. att[s].phase # "none"
    <2>1. exec[o].next <= exec[o].next
      BY <1>1, SubIds
    <2> QED
      BY <1>1, <1>2, <2>1 DEF Inv, JournalInvariant, ExecutionMatchesRows, Deleted
  <1>5. a \in AttemptRow /\ a.phase \notin {"none", "prepared"} /\ a.recovery = att[s].recovery
    BY <1>1, <1>4 DEF MarkSent, AttemptRow, Phase
  <1>6. used' \in [Workflow -> [Dimension -> Nat]]
    BY <1>1, ReservedTyped DEF Inv, RecordSubmission
  <1> HIDE DEF row, a
  <1>7. TypeOK'
    BY <1>1, <1>2, <1>3, <1>5, <1>6, TouchedTyped DEF Inv, TypeOK
  <1>8. /\ sub'[s] = row /\ mem'[s] = row /\ att'[s] = a
        /\ \A u \in SubId : u # s => sub'[u] = sub[u] /\ mem'[u] = mem[u] /\ att'[u] = att[u]
    BY <1>1, <1>2 DEF Inv, TypeOK
  <1>9. \A u \in SubId : /\ att'[u].phase = "none" <=> att[u].phase = "none"
                         /\ att'[u].phase = "prepared" => att[u].phase = "prepared"
                         /\ att'[u].recovery = att[u].recovery
    BY <1>4, <1>5, <1>8
  <1>10. ActiveOperationHasActiveWorkflow'
    BY <1>2 DEF Inv, JournalInvariant, ActiveOperationHasActiveWorkflow
  <1>11. RecoveryHasSuccessor'
    <2> SUFFICES ASSUME NEW u \in SubId, op[u[1]].status = "active", att[u].recovery # ""
                 PROVE  u[2] < AttemptLimit /\ att'[<<u[1], u[2] + 1>>].phase # "none"
      BY <1>2, <1>9 DEF RecoveryHasSuccessor
    <2>1. u[2] < AttemptLimit /\ att[<<u[1], u[2] + 1>>].phase # "none"
      BY DEF Inv, JournalInvariant, RecoveryHasSuccessor
    <2>2. <<u[1], u[2] + 1>> \in SubId
      BY <2>1, SubIds
    <2> QED
      BY <1>9, <2>1, <2>2
  <1>12. AgedRows'
    BY <1>2 DEF Inv, JournalInvariant, AgedRows, Deleted
  <1>13. ExecutionMatchesRows'
    BY <1>2, <1>9, SubIds DEF Inv, JournalInvariant, ExecutionMatchesRows, Deleted
  <1>14. WireMatchesRows'
    <2>1. sub'[s] # NoSub /\ \A u \in SubId : u # s => (Row(u)' <=> Row(u))
      BY <1>3, <1>8 DEF Row
    <2>2. \A u \in SubId : (Deleted(u[1])' <=> Deleted(u[1])) /\ exec'[u[1]] = exec[u[1]]
      BY <1>2 DEF Deleted
    <2> SUFFICES ASSUME NEW u \in SubId
                 PROVE  /\ mem'[u] # NoSub \/ u \in wire' => Row(u)' \/ Deleted(u[1])'
                        /\ u \in wire' => mem'[u] # NoSub \/ exec'[u[1]].pc = "gone"
                        /\ att'[u].phase = "none" => att'[u].recovery = "" /\ ~Row(u)'
                        /\ Row(u)' /\ op'[u[1]].status = "active" => att'[u].phase # "prepared"
      BY DEF WireMatchesRows
    <2>3. CASE u = s
      BY <1>3, <1>5, <1>8, <2>1, <2>3 DEF Row
    <2>4. CASE u # s
      BY <1>2, <1>8, <2>1, <2>2, <2>4 DEF Inv, JournalInvariant, WireMatchesRows
    <2> QED
      BY <2>3, <2>4
  <1>15. SafeVerdictIsFinal'
    <2> SUFFICES ASSUME NEW u \in SubId, op[u[1]].status \in Settled,
                        op[u[1]].recovery = "reschedule_safe"
                 PROVE  wf[WorkflowOf[u[1]]].status # "active" /\ (IsLast(u)' => ~Row(u)')
      BY <1>2 DEF SafeVerdictIsFinal
    <2>1. wf[WorkflowOf[u[1]]].status # "active" /\ (IsLast(u) => ~Row(u))
      BY DEF Inv, JournalInvariant, SafeVerdictIsFinal
    <2>2. u # s
      BY <1>1, <1>2, <2>1
    <2>3. Row(u)' <=> Row(u)
      BY <1>8, <2>2 DEF Row
    <2>4. IsLast(u)' <=> IsLast(u)
      BY <1>9, SubIds DEF IsLast
    <2> QED
      BY <2>1, <2>3, <2>4
  <1> QED
    BY <1>7, <1>10, <1>11, <1>12, <1>13, <1>14, <1>15 DEF Inv, JournalInvariant

-----------------------------------------------------------------------------
(* Crash recovery and retention.                                           *)

(* The verdict of recovery on an operation is one of the outcomes.         *)
LEMMA VerdictTyped ==
  ASSUME NEW o
  PROVE  /\ Verdict(o).status \in {"abandoned", "interrupted", "blocked"}
         /\ Verdict(o).recovery \in {"stop", "reschedule_safe", "block_ambiguous"}
  BY DEF Verdict

(* What the recovery does to the rows.                                     *)
LEMMA ReconcileRows ==
  ASSUME Inv, NEW r \in Runtime, ReconcileOrphans(r)
  PROVE  /\ \A o \in OrphanOperations(r) :
              /\ op[o].status = "active" /\ op'[o].rt = op[o].rt
              /\ op'[o].status = Verdict(o).status /\ op'[o].recovery = Verdict(o).recovery
         /\ \A o \in Operation \ OrphanOperations(r) : op'[o] = op[o]
         /\ \A s \in SubId : s[1] \notin OrphanOperations(r) => att'[s] = att[s]
         /\ \A s \in SubId : att'[s].phase = "none" <=> att[s].phase = "none"
         /\ \A s \in SubId : att'[s].phase = "none" => att'[s] = att[s]
         /\ \A s \in SubId : Row(s)' <=> Row(s)
         /\ \A w \in OrphanWorkflows(r) : wf'[w].status \in {"abandoned", "interrupted", "blocked"}
         /\ \A w \in Workflow \ OrphanWorkflows(r) : wf'[w] = wf[w]
         /\ UNCHANGED <<exec, mem, aged, wire>>
  <1>1. /\ op' = [o \in Operation |-> SettledOp(r, o)]
        /\ att' = [s \in SubId |-> SettledAttempt(r, s)]
        /\ sub' = [s \in SubId |-> SettledSubmission(r, s)]
        /\ wf' = [w \in Workflow |-> IF w \in OrphanWorkflows(r)
                                     THEN [wf[w] EXCEPT !.status = WorkflowVerdict(r, w)]
                                     ELSE wf[w]]
        /\ UNCHANGED <<exec, mem, aged, wire>>
    BY DEF ReconcileOrphans, memVars
  <1>2. \A o \in OrphanOperations(r) : o \in Operation /\ op[o].status = "active"
    BY DEF OrphanOperations
  <1>3. ASSUME NEW o \in OrphanOperations(r)
        PROVE  /\ op'[o].rt = op[o].rt
               /\ op'[o].status = Verdict(o).status /\ op'[o].recovery = Verdict(o).recovery
    BY <1>1, <1>2 DEF SettledOp
  <1>4. \A o \in Operation \ OrphanOperations(r) : op'[o] = op[o]
    BY <1>1 DEF SettledOp
  <1>5. ASSUME NEW s \in SubId
        PROVE  /\ s[1] \notin OrphanOperations(r) => att'[s] = att[s]
               /\ att'[s].phase = "none" <=> att[s].phase = "none"
               /\ att'[s].phase = "none" => att'[s] = att[s]
    <2>1. att[s] \in AttemptRow /\ att'[s] = SettledAttempt(r, s)
      BY <1>1 DEF Inv, TypeOK
    <2>2. CASE s[1] \in OrphanOperations(r) /\ IsLast(s) /\ att[s].phase # "terminal"
      <3>1. att'[s] = [att[s] EXCEPT !.phase = "terminal", !.outcome = Verdict(s[1]).status,
                                     !.recovery = Verdict(s[1]).recovery, !.network = FALSE]
        BY <2>1, <2>2 DEF SettledAttempt
      <3>2. att'[s].phase = "terminal"
        BY <2>1, <3>1 DEF AttemptRow
      <3> QED
        BY <2>2, <3>2 DEF IsLast
    <2>3. CASE ~(s[1] \in OrphanOperations(r) /\ IsLast(s) /\ att[s].phase # "terminal")
      BY <2>1, <2>3 DEF SettledAttempt
    <2> QED
      BY <2>2, <2>3
  <1>6. ASSUME NEW s \in SubId PROVE Row(s)' <=> Row(s)
    <2>1. CASE s[1] \in OrphanOperations(r) /\ sub[s].outcome = "in_flight"
      <3>1. PICK x \in {"abandoned", "interrupted"} : sub'[s] = [sub[s] EXCEPT !.outcome = x]
        BY <1>1, <2>1 DEF SettledSubmission
      <3>2. sub[s] # NoSub
        BY <2>1 DEF NoSub
      <3>3. sub'[s] \in Submission
        BY <3>1, <3>2 DEF Inv, TypeOK, Submission, SubOutcome
      <3> QED
        BY <3>2, <3>3, NullsTyped DEF Row
    <2>2. CASE ~(s[1] \in OrphanOperations(r) /\ sub[s].outcome = "in_flight")
      BY <1>1, <2>2 DEF SettledSubmission, Row
    <2> QED
      BY <2>1, <2>2
  <1>7. ASSUME NEW w \in OrphanWorkflows(r)
        PROVE  wf'[w].status \in {"abandoned", "interrupted", "blocked"}
    <2>1. w \in Workflow /\ wf[w] \in WorkflowRow
      BY DEF OrphanWorkflows, Inv, TypeOK
    <2>2. wf'[w] = [wf[w] EXCEPT !.status = WorkflowVerdict(r, w)]
      BY <1>1, <2>1
    <2>3. wf'[w].status = WorkflowVerdict(r, w)
      BY <2>1, <2>2 DEF WorkflowRow
    <2> QED
      BY <2>3 DEF WorkflowVerdict
  <1>8. \A w \in Workflow \ OrphanWorkflows(r) : wf'[w] = wf[w]
    BY <1>1
  <1> QED
    BY <1>1, <1>2, <1>3, <1>4, <1>5, <1>6, <1>7, <1>8

(* The rows that recovery writes have their types.                         *)
LEMMA ReconcileTyped ==
  ASSUME Inv, NEW r \in Runtime, ReconcileOrphans(r)
  PROVE  /\ op' \in [Operation -> OperationRow] /\ att' \in [SubId -> AttemptRow]
         /\ sub' \in [SubId -> Submission \cup {NoSub}] /\ wf' \in [Workflow -> WorkflowRow]
  <1>1. ASSUME NEW o \in Operation PROVE SettledOp(r, o) \in OperationRow
    BY VerdictTyped DEF SettledOp, OperationRow, RowStatus, Settled, Recovery, Inv, TypeOK
  <1>2. ASSUME NEW s \in SubId PROVE SettledAttempt(r, s) \in AttemptRow
    <2>1. att[s] \in AttemptRow
      BY DEF Inv, TypeOK
    <2>2. \A x \in AttemptRow, u \in {"abandoned", "interrupted", "blocked"},
             v \in {"stop", "reschedule_safe", "block_ambiguous"} :
            [x EXCEPT !.phase = "terminal", !.outcome = u, !.recovery = v, !.network = FALSE]
              \in AttemptRow
      BY DEF AttemptRow, Phase, Settled, Recovery
    <2> QED
      BY <2>1, <2>2, VerdictTyped DEF SettledAttempt
  <1>3. ASSUME NEW s \in SubId PROVE SettledSubmission(r, s) \in Submission \cup {NoSub}
    <2>1. sub[s] \in Submission \cup {NoSub}
      BY DEF Inv, TypeOK
    <2>2. sub[s].outcome = "in_flight" => sub[s] \in Submission
      BY <2>1 DEF NoSub
    <2>3. \A x \in Submission, u \in {"abandoned", "interrupted"} :
            [x EXCEPT !.outcome = u] \in Submission
      BY DEF Submission, SubOutcome
    <2> QED
      BY <2>1, <2>2, <2>3 DEF SettledSubmission
  <1>4. ASSUME NEW w \in Workflow
        PROVE  wf[w] \in WorkflowRow /\ [wf[w] EXCEPT !.status = WorkflowVerdict(r, w)] \in WorkflowRow
    <2>1. WorkflowVerdict(r, w) \in RowStatus
      BY DEF WorkflowVerdict, RowStatus, Settled
    <2> QED
      BY <2>1 DEF WorkflowRow, Inv, TypeOK
  <1> QED
    BY <1>1, <1>2, <1>3, <1>4 DEF ReconcileOrphans

(* A verdict of safety: the latest attempt has no submission row, and the  *)
(* workflow has no other active operation that could keep it open.         *)
LEMMA SafeVerdictHolds ==
  ASSUME Inv, NEW r \in Runtime, NEW o \in OrphanOperations(r),
         Verdict(o).recovery = "reschedule_safe"
  PROVE  /\ WorkflowOf[o] \in OrphanWorkflows(r)
         /\ \A s \in SubId : s[1] = o /\ IsLast(s) => ~Row(s)
  <1>1. o \in Operation /\ op[o].status = "active" /\ Orphaned(r, op[o].rt)
    BY DEF OrphanOperations
  <1>2. /\ wf[WorkflowOf[o]].status = "active" /\ wf[WorkflowOf[o]].rt = op[o].rt
        /\ WorkflowOf[o] \in Workflow
    BY <1>1, WorkflowOfAssumption DEF Inv, JournalInvariant, ActiveOperationHasActiveWorkflow
  <1>3. ASSUME NEW p \in Operation, WorkflowOf[p] = WorkflowOf[o]
        PROVE  SettledOp(r, p).status # "active"
    <2>1. CASE op[p].status = "active"
      <3>1. op[p].rt = op[o].rt
        BY <1>2, <1>3, <2>1 DEF Inv, JournalInvariant, ActiveOperationHasActiveWorkflow
      <3>2. p \in OrphanOperations(r)
        BY <1>1, <2>1, <3>1 DEF OrphanOperations
      <3> QED
        BY <3>2, VerdictTyped DEF SettledOp
    <2>2. CASE op[p].status # "active"
      BY <2>2 DEF SettledOp, OrphanOperations
    <2> QED
      BY <2>1, <2>2
  <1>4. WorkflowOf[o] \in OrphanWorkflows(r)
    BY <1>1, <1>2, <1>3 DEF OrphanWorkflows
  <1>5. ASSUME NEW s \in SubId, s[1] = o, IsLast(s) PROVE ~Row(s)
    <2>1. /\ s[2] \in Ordinal /\ s = <<o, s[2]>> /\ att[s] \in AttemptRow
          /\ att[s].phase # "none"
      BY <1>5, SubIds DEF IsLast, Inv, TypeOK
    <2>2. CASE ~LastIn(o, {"sent", "streaming", "terminal"})
      <3>1. att[s].phase \notin {"sent", "streaming", "terminal"}
        BY <1>5, <2>1, <2>2 DEF LastIn
      <3>2. att[s].phase = "prepared"
        BY <2>1, <3>1 DEF AttemptRow, Phase
      <3> QED
        BY <1>1, <1>5, <3>2 DEF Inv, JournalInvariant, WireMatchesRows
    <2>3. CASE LastIn(o, {"sent", "streaming", "terminal"})
      <3>1. PICK n \in Ordinal : IsLast(<<o, n>>) /\ CanRetry(att[<<o, n>>].recovery)
        BY <2>3 DEF Verdict
      <3>2. att[<<o, n>>].recovery # "" /\ <<o, n>> \in SubId
        BY <1>1, <3>1, SubIds DEF CanRetry
      <3>3. n < AttemptLimit /\ att[<<o, n + 1>>].phase # "none"
        <4>1. <<o, n>>[1] = o /\ <<o, n>>[2] = n
          OBVIOUS
        <4> QED
          BY <1>1, <3>2, <4>1 DEF Inv, JournalInvariant, RecoveryHasSuccessor
      <3>4. n + 1 \in Ordinal /\ n + 1 > n
        BY <3>3, SubIds
      <3> QED
        BY <3>1, <3>3, <3>4 DEF IsLast
    <2> QED
      BY <2>2, <2>3
  <1> QED
    BY <1>4, <1>5

(* Settling the orphans of dead runtimes keeps the invariant.              *)
LEMMA ReconcileInv ==
  ASSUME Inv, NEW r \in Runtime, ReconcileOrphans(r), rt' \in [Runtime -> RuntimeRow]
  PROVE  Inv'
  <1> DEFINE OO == OrphanOperations(r)
             OW == OrphanWorkflows(r)
  <1>1. TypeOK'
    BY ReconcileTyped DEF Inv, TypeOK, ReconcileOrphans, memVars
  <1>2. \A o \in OO : /\ o \in Operation /\ op[o].status = "active"
                      /\ op'[o].status \in {"abandoned", "interrupted", "blocked"}
                      /\ op'[o].recovery = Verdict(o).recovery
    BY ReconcileRows, VerdictTyped DEF OrphanOperations
  <1>3. \A o \in Operation \ OO : op'[o] = op[o]
    BY ReconcileRows
  <1>4. /\ \A s \in SubId : s[1] \notin OO => att'[s] = att[s]
        /\ \A s \in SubId : att'[s].phase = "none" <=> att[s].phase = "none"
        /\ \A s \in SubId : att'[s].phase = "none" => att'[s] = att[s]
        /\ \A s \in SubId : Row(s)' <=> Row(s)
    BY ReconcileRows
  <1>5. /\ \A w \in OW : /\ wf'[w].status \in {"abandoned", "interrupted", "blocked"}
                         /\ wf[w].status = "active"
        /\ \A w \in Workflow \ OW : wf'[w] = wf[w]
    BY ReconcileRows DEF OrphanWorkflows
  <1>6. UNCHANGED <<exec, mem, aged, wire>>
    BY ReconcileRows
  <1>7. \A o \in Operation : WorkflowOf[o] \in Workflow
    BY WorkflowOfAssumption
  <1>8. \A s \in SubId : IsLast(s)' <=> IsLast(s)
    BY <1>4, SubIds DEF IsLast
  <1> HIDE DEF OO, OW
  <1>9. ActiveOperationHasActiveWorkflow'
    <2> SUFFICES ASSUME NEW o \in Operation, op'[o].status = "active"
                 PROVE  wf'[WorkflowOf[o]].status = "active" /\ wf'[WorkflowOf[o]].rt = op'[o].rt
      BY DEF ActiveOperationHasActiveWorkflow
    <2>1. o \notin OO /\ op'[o] = op[o]
      BY <1>2, <1>3
    <2>2. SettledOp(r, o).status = "active"
      BY <2>1 DEF SettledOp, OO
    <2>3. WorkflowOf[o] \in Workflow \ OW
      BY <1>7, <2>2 DEF OW, OrphanWorkflows
    <2> QED
      BY <1>5, <2>1, <2>3 DEF Inv, JournalInvariant, ActiveOperationHasActiveWorkflow
  <1>10. RecoveryHasSuccessor'
    <2> SUFFICES ASSUME NEW s \in SubId, op'[s[1]].status = "active", att'[s].recovery # ""
                 PROVE  s[2] < AttemptLimit /\ att'[<<s[1], s[2] + 1>>].phase # "none"
      BY DEF RecoveryHasSuccessor
    <2>1. s[1] \notin OO /\ op'[s[1]] = op[s[1]] /\ att'[s] = att[s]
      BY <1>2, <1>3, <1>4, SubIds
    <2>2. s[2] < AttemptLimit /\ att[<<s[1], s[2] + 1>>].phase # "none"
      BY <2>1 DEF Inv, JournalInvariant, RecoveryHasSuccessor
    <2>3. <<s[1], s[2] + 1>> \in SubId
      BY <2>2, SubIds
    <2> QED
      BY <1>4, <2>2, <2>3
  <1>11. AgedRows'
    <2>1. \A o \in OO : o \notin aged
      BY <1>2 DEF Inv, JournalInvariant, AgedRows, Settled, Completed
    <2>2. \A w \in OW : w \in Workflow => w \notin aged
      BY <1>5 DEF Inv, JournalInvariant, AgedRows, Settled, Completed
    <2> QED
      BY <1>2, <1>3, <1>5, <1>6, <2>1, <2>2 DEF Inv, JournalInvariant, AgedRows, Deleted
  <1>12. ExecutionMatchesRows'
    <2>1. \A o \in Operation : /\ op'[o].status = "none" <=> op[o].status = "none"
                               /\ op'[o].status = "pruned" <=> op[o].status = "pruned"
                               /\ op'[o].status \in Completed => op[o].status \in Completed
      BY <1>2, <1>3 DEF Completed
    <2>2. \A w \in Workflow : wf'[w].status = "none" <=> wf[w].status = "none"
      BY <1>5
    <2> QED
      BY <1>4, <1>6, <1>7, <2>1, <2>2, SubIds DEF Inv, JournalInvariant, ExecutionMatchesRows, Deleted
  <1>13. WireMatchesRows'
    <2>1. \A s \in SubId : Deleted(s[1])' <=> Deleted(s[1])
      BY <1>2, <1>3, SubIds DEF Deleted
    <2>2. \A s \in SubId : op'[s[1]].status = "active" => op[s[1]].status = "active" /\ att'[s] = att[s]
      BY <1>2, <1>3, <1>4, SubIds
    <2> QED
      BY <1>4, <1>6, <2>1, <2>2 DEF Inv, JournalInvariant, WireMatchesRows
  <1>14. SafeVerdictIsFinal'
    <2> SUFFICES ASSUME NEW s \in SubId, op'[s[1]].status \in Settled,
                        op'[s[1]].recovery = "reschedule_safe"
                 PROVE  wf'[WorkflowOf[s[1]]].status # "active" /\ (IsLast(s)' => ~Row(s)')
      BY DEF SafeVerdictIsFinal
    <2>1. CASE s[1] \in OO
      <3>1. Verdict(s[1]).recovery = "reschedule_safe"
        BY <1>2, <2>1
      <3>2. /\ WorkflowOf[s[1]] \in OW
            /\ IsLast(s) => ~Row(s)
        BY <2>1, <3>1, SafeVerdictHolds DEF OO, OW
      <3> QED
        BY <1>4, <1>5, <1>8, <3>2
    <2>2. CASE s[1] \notin OO
      <3>1. op'[s[1]] = op[s[1]] /\ WorkflowOf[s[1]] \in Workflow
        BY <1>3, <1>7, <2>2, SubIds
      <3>2. wf[WorkflowOf[s[1]]].status # "active" /\ (IsLast(s) => ~Row(s))
        BY <3>1 DEF Inv, JournalInvariant, SafeVerdictIsFinal
      <3>3. wf'[WorkflowOf[s[1]]] = wf[WorkflowOf[s[1]]]
        BY <1>5, <3>1, <3>2
      <3> QED
        BY <1>4, <1>8, <3>2, <3>3
    <2> QED
      BY <2>1, <2>2
  <1> QED
    BY <1>1, <1>9, <1>10, <1>11, <1>12, <1>13, <1>14 DEF Inv, JournalInvariant

(* Recovery at boot and in maintenance keeps the invariant.                *)
LEMMA RecoveryInv ==
  ASSUME Inv, NEW r \in Runtime, BootReconcile(r) \/ Maintain(r) PROVE Inv'
  <1>1. \A x \in RuntimeRow : [x EXCEPT !.boot = "prune"] \in RuntimeRow
    BY DEF RuntimeRow
  <1>2. rt' \in [Runtime -> RuntimeRow]
    BY <1>1 DEF Inv, TypeOK, BootReconcile, Maintain
  <1>3. CASE ReconcileOrphans(r)
    BY <1>2, <1>3, ReconcileInv
  <1>4. CASE UNCHANGED <<rowVars, memVars, aged, wire>>
    <2>1. Quiet
      BY <1>4 DEF Quiet, rowVars, memVars
    <2>2. TypeOK'
      BY <1>2, <1>4 DEF Inv, TypeOK, rowVars, memVars
    <2> QED
      BY <2>1, <2>2, QuietKeepsInvariant DEF Inv
  <1> QED
    BY <1>3, <1>4 DEF BootReconcile, Maintain

(* Time that passes for retention keeps the invariant.                     *)
LEMMA RetentionPassesInv == ASSUME Inv, RetentionPasses PROVE Inv'
  <1>1. PICK x \in Operation \cup Workflow :
          /\ aged' = aged \cup {x}
          /\ x \in Operation => op[x].status \in Settled /\ exec[x].pc \in {"done", "gone"}
          /\ x \in Workflow => wf[x].status \in Settled
    BY WorkflowOfAssumption DEF RetentionPasses, Forgotten
  <1>2. UNCHANGED <<rt, wf, used, op, att, sub, exec, mem, hand, pending, batch, wire>>
    BY DEF RetentionPasses, rowVars, memVars
  <1>3. TypeOK'
    BY <1>1, <1>2 DEF Inv, TypeOK
  <1>4. ActiveOperationHasActiveWorkflow' /\ RecoveryHasSuccessor'
    BY <1>2 DEF Inv, JournalInvariant, ActiveOperationHasActiveWorkflow, RecoveryHasSuccessor
  <1>5. AgedRows'
    BY <1>1, <1>2 DEF Inv, JournalInvariant, AgedRows, Deleted
  <1>6. ExecutionMatchesRows' /\ WireMatchesRows'
    BY <1>2 DEF Inv, JournalInvariant, ExecutionMatchesRows, WireMatchesRows, Row, Deleted
  <1>7. SafeVerdictIsFinal'
    BY <1>2 DEF Inv, JournalInvariant, SafeVerdictIsFinal, Row, IsLast
  <1> QED
    BY <1>3, <1>4, <1>5, <1>6, <1>7 DEF Inv, JournalInvariant

(* What a deleted attempt reads as.                                        *)
LEMMA NoAttemptFields == NoAttempt.phase = "none" /\ NoAttempt.recovery = ""
  BY DEF NoAttempt

(* Deleting old settled operations keeps the invariant.                    *)
LEMMA PruneOperationsInv ==
  ASSUME Inv, NEW r \in Runtime, PruneOperations(r) PROVE Inv'
  <1>1. \A x \in RuntimeRow : [x EXCEPT !.boot = "prune_workflows"] \in RuntimeRow
    BY DEF RuntimeRow
  <1>2. \A x \in OperationRow : /\ [x EXCEPT !.status = "pruned"] \in OperationRow
                               /\ [x EXCEPT !.status = "pruned"].status = "pruned"
    BY DEF OperationRow, RowStatus
  <1>3. TypeOK'
    BY <1>1, <1>2, NullsTyped DEF Inv, TypeOK, PruneOperations, memVars
  <1>4. /\ \A o \in Operation : o \in aged => op'[o].status = "pruned"
        /\ \A o \in Operation : o \notin aged => op'[o] = op[o]
    BY <1>2 DEF PruneOperations, Inv, TypeOK
  <1>5. /\ \A s \in SubId : s[1] \in aged => att'[s] = NoAttempt /\ sub'[s] = NoSub
        /\ \A s \in SubId : s[1] \notin aged => att'[s] = att[s] /\ sub'[s] = sub[s]
        /\ UNCHANGED <<wf, exec, mem, aged, wire>>
    BY DEF PruneOperations, memVars
  <1>6. \A o \in Operation : o \in aged => op[o].status \in Settled \cup {"pruned"}
    BY DEF Inv, JournalInvariant, AgedRows
  <1>7. ActiveOperationHasActiveWorkflow'
    BY <1>4, <1>5 DEF Inv, JournalInvariant, ActiveOperationHasActiveWorkflow
  <1>8. RecoveryHasSuccessor'
    <2> SUFFICES ASSUME NEW s \in SubId, op'[s[1]].status = "active", att'[s].recovery # ""
                 PROVE  s[2] < AttemptLimit /\ att'[<<s[1], s[2] + 1>>].phase # "none"
      BY DEF RecoveryHasSuccessor
    <2>1. s[1] \notin aged /\ op'[s[1]] = op[s[1]] /\ att'[s] = att[s]
      BY <1>4, <1>5, SubIds
    <2>2. s[2] < AttemptLimit /\ att[<<s[1], s[2] + 1>>].phase # "none"
      BY <2>1 DEF Inv, JournalInvariant, RecoveryHasSuccessor
    <2>3. s[2] + 1 \in Ordinal
      BY <2>2, SubIds
    <2>4. att'[<<s[1], s[2] + 1>>] = att[<<s[1], s[2] + 1>>]
      BY <1>5, <2>1, <2>3, SubIds
    <2> QED
      BY <2>2, <2>4
  <1>9. AgedRows'
    BY <1>4, <1>5 DEF Inv, JournalInvariant, AgedRows, Deleted
  <1>10. ExecutionMatchesRows'
    <2>1. \A o \in Operation : /\ op'[o].status = "none" <=> op[o].status = "none"
                               /\ op'[o].status \in Completed => op[o].status \in Completed
                               /\ op'[o].status # "pruned" => op[o].status # "pruned" /\ o \notin aged
      BY <1>4, <1>6 DEF Completed, Settled
    <2>2. \A o \in Operation, n \in Ordinal : o \notin aged => att'[<<o, n>>] = att[<<o, n>>]
      BY <1>5, SubIds
    <2> QED
      BY <1>5, <2>1, <2>2 DEF Inv, JournalInvariant, ExecutionMatchesRows, Deleted
  <1>11. WireMatchesRows'
    <2> SUFFICES ASSUME NEW s \in SubId
                 PROVE  /\ mem'[s] # NoSub \/ s \in wire' => Row(s)' \/ Deleted(s[1])'
                        /\ s \in wire' => mem'[s] # NoSub \/ exec'[s[1]].pc = "gone"
                        /\ att'[s].phase = "none" => att'[s].recovery = "" /\ ~Row(s)'
                        /\ Row(s)' /\ op'[s[1]].status = "active" => att'[s].phase # "prepared"
      BY DEF WireMatchesRows
    <2>1. s \in wire' => mem'[s] # NoSub \/ exec'[s[1]].pc = "gone"
      BY <1>5 DEF Inv, JournalInvariant, WireMatchesRows
    <2>2. CASE s[1] \in aged
      <3>1. att'[s] = NoAttempt /\ sub'[s] = NoSub
        BY <1>5, <2>2
      <3>2. att'[s].phase = "none" /\ att'[s].recovery = ""
        BY <3>1, NoAttemptFields
      <3>3. Deleted(s[1])' /\ ~Row(s)'
        BY <1>4, <2>2, <3>1, SubIds DEF Deleted, Row
      <3> QED
        BY <2>1, <3>1, <3>2, <3>3
    <2>3. CASE s[1] \notin aged
      <3>1. op'[s[1]] = op[s[1]] /\ att'[s] = att[s] /\ sub'[s] = sub[s]
        BY <1>4, <1>5, <2>3, SubIds
      <3> QED
        BY <1>5, <3>1 DEF Inv, JournalInvariant, WireMatchesRows, Row, Deleted
    <2> QED
      BY <2>2, <2>3
  <1>12. SafeVerdictIsFinal'
    <2> SUFFICES ASSUME NEW s \in SubId, op'[s[1]].status \in Settled,
                        op'[s[1]].recovery = "reschedule_safe"
                 PROVE  wf[WorkflowOf[s[1]]].status # "active" /\ (IsLast(s)' => ~Row(s)')
      BY <1>5 DEF SafeVerdictIsFinal
    <2>1. s[1] \notin aged
      BY <1>4, SubIds DEF Settled, Completed
    <2>2. /\ op'[s[1]] = op[s[1]] /\ sub'[s] = sub[s] /\ att'[s] = att[s]
          /\ \A n \in Ordinal : att'[<<s[1], n>>] = att[<<s[1], n>>]
      BY <1>4, <1>5, <2>1, SubIds
    <2>3. (IsLast(s)' <=> IsLast(s)) /\ (Row(s)' <=> Row(s))
      BY <2>2 DEF IsLast, Row
    <2> QED
      BY <2>2, <2>3 DEF Inv, JournalInvariant, SafeVerdictIsFinal
  <1> QED
    BY <1>3, <1>7, <1>8, <1>9, <1>10, <1>11, <1>12 DEF Inv, JournalInvariant

(* Deleting old settled workflows keeps the invariant: no active operation *)
(* is in one.                                                              *)
LEMMA PruneWorkflowsInv ==
  ASSUME Inv, NEW r \in Runtime, PruneWorkflows(r) PROVE Inv'
  <1>1. \A x \in RuntimeRow : [x EXCEPT !.boot = "done"] \in RuntimeRow
    BY DEF RuntimeRow
  <1>2. \A x \in WorkflowRow : /\ [x EXCEPT !.status = "pruned"] \in WorkflowRow
                              /\ [x EXCEPT !.status = "pruned"].status = "pruned"
    BY DEF WorkflowRow, RowStatus
  <1>3. TypeOK'
    BY <1>1, <1>2 DEF Inv, TypeOK, PruneWorkflows, memVars
  <1>4. \A w \in Workflow : wf'[w] = wf[w] \/ (w \in aged /\ wf'[w].status = "pruned")
    BY <1>2 DEF PruneWorkflows, Inv, TypeOK
  <1>5. UNCHANGED <<op, att, sub, exec, mem, aged, wire>>
    BY DEF PruneWorkflows, memVars
  <1>6. \A w \in Workflow : w \in aged => wf[w].status \in Settled \cup {"pruned"}
    BY DEF Inv, JournalInvariant, AgedRows
  <1>7. \A w \in Workflow : wf[w].status = "active" => wf'[w] = wf[w]
    BY <1>4, <1>6 DEF Settled, Completed
  <1>8. \A o \in Operation : WorkflowOf[o] \in Workflow
    BY WorkflowOfAssumption
  <1>9. ActiveOperationHasActiveWorkflow'
    BY <1>5, <1>7, <1>8 DEF Inv, JournalInvariant, ActiveOperationHasActiveWorkflow
  <1>10. RecoveryHasSuccessor' /\ WireMatchesRows'
    BY <1>5 DEF Inv, JournalInvariant, RecoveryHasSuccessor, WireMatchesRows, Row, Deleted
  <1>11. AgedRows'
    BY <1>4, <1>5 DEF Inv, JournalInvariant, AgedRows, Deleted
  <1>12. ExecutionMatchesRows'
    BY <1>4, <1>5, <1>8 DEF Inv, JournalInvariant, ExecutionMatchesRows, Deleted
  <1>13. SafeVerdictIsFinal'
    BY <1>4, <1>5, <1>8, SubIds DEF Inv, JournalInvariant, SafeVerdictIsFinal, Row, IsLast
  <1> QED
    BY <1>3, <1>9, <1>10, <1>11, <1>12, <1>13 DEF Inv, JournalInvariant

-----------------------------------------------------------------------------
(* The invariant of every step, and what follows from it.                  *)

(* The start of a terminal call keeps the invariant.                       *)
LEMMA BeginCompleteInv ==
  ASSUME Inv, NEW o \in Operation, NEW outcome \in Completed, NEW network \in BOOLEAN,
         BeginCompleteAttempt(o, outcome, network) \/ BeginCompleteOperation(o, outcome)
  PROVE  Inv'
  <1>1. exec[o].pc = "ready"
    BY DEF BeginCompleteAttempt, BeginCompleteOperation
  <1>2. CASE BeginCompleteAttempt(o, outcome, network)
    BY <1>1, <1>2, StartBarrierInv DEF BeginCompleteAttempt
  <1>3. CASE BeginCompleteOperation(o, outcome)
    BY <1>1, <1>3, StartBarrierInv DEF BeginCompleteOperation
  <1> QED
    BY <1>2, <1>3

(* Every step of the journal keeps the invariant.                          *)
THEOREM NextInv == Inv /\ [Next]_vars => Inv'
  <1> SUFFICES ASSUME Inv, [Next]_vars PROVE Inv'
    OBVIOUS
  <1>1. CASE UNCHANGED vars
    BY <1>1, QuietKeepsInvariant DEF Inv, TypeOK, Quiet, vars, rowVars, memVars
  <1>2. ASSUME NEW r \in Runtime, RuntimeStep(r) PROVE Inv'
    <2>1. CASE \/ NewRuntime(r) \/ StartServer(r) \/ CloseServer(r) \/ Heartbeat(r)
               \/ HeartbeatLapse(r) \/ FinishClose(r) \/ ReusePid(r)
      BY <2>1, RuntimeQuiet
    <2>2. CASE BeginClose(r) \/ FlusherClaim(r) \/ FlusherDrop(r)
      BY <2>2, ProgressQuiet
    <2>3. CASE Crash(r)
      BY <2>3, CrashInv
    <2>4. CASE FlusherLand(r)
      BY <2>4, LandInv
    <2>5. CASE BootReconcile(r) \/ Maintain(r)
      BY <2>5, RecoveryInv
    <2>6. CASE PruneOperations(r)
      BY <2>6, PruneOperationsInv
    <2>7. CASE PruneWorkflows(r)
      BY <2>7, PruneWorkflowsInv
    <2> QED
      BY <1>2, <2>1, <2>2, <2>3, <2>4, <2>5, <2>6, <2>7 DEF RuntimeStep
  <1>3. ASSUME NEW o \in Operation, ExecutionStep(o) PROVE Inv'
    <2>1. CASE \E r \in Runtime : PrepareOperation(r, o)
      BY <2>1, PrepareOperationInv
    <2>2. CASE BeginAttempt(o) \/ \E plan \in Plan : PrepareRecoveryAttempt(o, plan)
      BY <2>2, BeginAttemptInv, PrepareRecoveryAttemptInv
    <2>3. CASE Send(o) \/ \E seed \in Seeds : RecordSubmission(o, seed)
      BY <2>3, SendInv, RecordSubmissionInv
    <2>4. CASE \E u \in Updater : UpdateSubmission(o, u) \/ Enqueue(o, u)
      BY <2>4, UpdateSubmissionInv, ProgressQuiet
    <2>5. CASE MarkFirstEvent(o)
      BY <2>5, MarkFirstEventInv
    <2>6. CASE \/ \E outcome \in Completed, network \in BOOLEAN :
                     BeginCompleteAttempt(o, outcome, network)
               \/ \E outcome \in Completed : BeginCompleteOperation(o, outcome)
      BY <2>6, BeginCompleteInv
    <2>7. CASE BarrierLand(o) \/ BarrierDrop(o) \/ JournalFault(o)
      BY <2>7, LandInv, BarrierAbandonedInv
    <2>8. CASE CompleteAttempt(o) \/ CompleteOperation(o)
      BY <2>8, CompleteAttemptInv, CompleteOperationInv
    <2> QED
      BY <1>3, <2>1, <2>2, <2>3, <2>4, <2>5, <2>6, <2>7, <2>8 DEF ExecutionStep
  <1>4. CASE \E w \in Workflow, outcome \in Completed : CompleteWorkflow(w, outcome)
    BY <1>4, CompleteWorkflowInv
  <1>5. CASE RetentionPasses
    BY <1>5, RetentionPassesInv
  <1> QED
    BY <1>1, <1>2, <1>3, <1>4, <1>5 DEF Next

(* In every reachable state of every instance, all variables have their    *)
(* types and the rows, the executions and the wire agree with each other.  *)
(* (all of inference_journal.go)                                           *)
THEOREM InvariantHolds == Spec => []Inv
  <1>1. Init => Inv
    BY InitInv
  <1>2. Inv /\ [Next]_vars => Inv'
    BY NextInv
  <1> QED
    BY <1>1, <1>2, PTL DEF Spec

(* Every variable always has its type.  (all of inference_journal.go)      *)
THEOREM TypesHold == Spec => []TypeOK
  <1>1. Inv => TypeOK
    BY DEF Inv
  <1> QED
    BY <1>1, InvariantHolds, PTL

(* The inductive invariant that the runs check is one: rows, executions,   *)
(* memory and the wire agree.  (all of inference_journal.go)               *)
THEOREM JournalInvariantHolds == Spec => []JournalInvariant
  <1>1. Inv => JournalInvariant
    BY DEF Inv
  <1> QED
    BY <1>1, InvariantHolds, PTL

(* A workflow is never closed over an operation that can still run.        *)
(* (prepareWorkflowTx, completeInferenceWorkflowTx, ReconcileOrphans)      *)
THEOREM WorkflowOutlivesOperations == Spec => []ActiveOperationHasActiveWorkflow
  <1>1. Inv => ActiveOperationHasActiveWorkflow
    BY DEF Inv, JournalInvariant
  <1> QED
    BY <1>1, InvariantHolds, PTL

(* No crash separates a recovery action from the attempt it announces.     *)
(* (PrepareRecoveryAttempt)                                                *)
THEOREM RecoveryIsAtomic == Spec => []RecoveryHasSuccessor
  <1>1. Inv => RecoveryHasSuccessor
    BY DEF Inv, JournalInvariant
  <1> QED
    BY <1>1, InvariantHolds, PTL

(* Request bytes are never on the wire without a row that says so.         *)
(* (RecordSubmission)                                                      *)
THEOREM WriteAheadHolds == Spec => []WriteAhead
  <1>1. Inv => WriteAhead
    BY DEF Inv, TypeOK, JournalInvariant, WireMatchesRows, WriteAhead, Row, Deleted
  <1> QED
    BY <1>1, InvariantHolds, PTL

(* What recovery calls safe to reschedule was not sent and never will be.  *)
(* (ReconcileOrphans against RecordSubmission of a surviving execution)    *)
THEOREM SafeMeansNeverSent == Spec => []RescheduleSafeNeverSent
  <1>1. Inv => RescheduleSafeNeverSent
    <2> SUFFICES ASSUME Inv, NEW s \in SubId, op[s[1]].status \in Settled,
                        op[s[1]].recovery = "reschedule_safe", IsLast(s), s \in wire
                 PROVE  FALSE
      BY DEF RescheduleSafeNeverSent
    <2>1. ~Row(s)
      BY DEF Inv, JournalInvariant, SafeVerdictIsFinal
    <2>2. Deleted(s[1])
      BY <2>1 DEF Inv, JournalInvariant, WireMatchesRows
    <2> QED
      BY <2>2 DEF Deleted, Settled, Completed
  <1> QED
    BY <1>1, InvariantHolds, PTL

(* While a process holds its lease and runs, only its own executions end   *)
(* its operations.  (ReconcileOrphans, process check)                      *)
LEMMA OnlyOwnerSettles ==
  ASSUME Inv, [Next]_vars, NEW o \in Operation,
         op[o].status = "active", op'[o].status # "active",
         Up(op[o].rt), rt[op[o].rt].lease \in {"open", "closing"}
  PROVE  exec[o].pc = "write" /\ exec[o].call = "operation"
  <1>1. op' # op
    OBVIOUS
  <1>2. ASSUME NEW r \in Runtime, RuntimeStep(r) PROVE FALSE
    <2>1. CASE BootReconcile(r) \/ Maintain(r)
      <3>1. ReconcileOrphans(r)
        BY <1>1, <2>1 DEF BootReconcile, Maintain, rowVars
      <3>2. o \in OrphanOperations(r)
        BY <3>1, ReconcileRows
      <3> QED
        BY <3>2 DEF OrphanOperations, Orphaned, Up, ProcessAlive
    <2>2. CASE PruneOperations(r)
      <3>1. o \notin aged
        BY DEF Inv, JournalInvariant, AgedRows, Settled, Completed
      <3> QED
        BY <2>2, <3>1 DEF PruneOperations
    <2> QED
      BY <1>1, <1>2, <2>1, <2>2
      DEF RuntimeStep, NewRuntime, StartServer, CloseServer, Heartbeat, HeartbeatLapse, BeginClose,
          FinishClose, Crash, ReusePid, FlusherClaim, FlusherLand, FlusherDrop, PruneWorkflows, rowVars
  <1>3. ASSUME NEW p \in Operation, ExecutionStep(p)
        PROVE  exec[o].pc = "write" /\ exec[o].call = "operation"
    <2>1. CASE CompleteOperation(p)
      <3>1. p = o
        BY <2>1 DEF CompleteOperation, Inv, TypeOK
      <3> QED
        BY <2>1, <3>1 DEF CompleteOperation
    <2>2. CASE \E r \in Runtime : PrepareOperation(r, p)
      <3>1. p = o => FALSE
        <4> SUFFICES ASSUME p = o PROVE FALSE
          OBVIOUS
        <4>1. exec[o].pc = "none"
          BY <2>2 DEF PrepareOperation
        <4> QED
          BY <4>1 DEF Inv, JournalInvariant, ExecutionMatchesRows
      <3> QED
        BY <2>2, <3>1 DEF PrepareOperation, Inv, TypeOK
    <2>3. CASE \E plan \in Plan : PrepareRecoveryAttempt(p, plan)
      <3>1. \A x : \A y \in OperationRow : [y EXCEPT !.recovery = x].status = y.status
        BY DEF OperationRow
      <3>2. PICK x : op' = [op EXCEPT ![p] = [op[p] EXCEPT !.recovery = x]]
        BY <2>3 DEF PrepareRecoveryAttempt
      <3>3. op'[o].status = op[o].status
        BY <3>1, <3>2 DEF Inv, TypeOK
      <3> QED
        BY <3>3
    <2> QED
      BY <1>1, <1>3, <2>1, <2>2, <2>3
      DEF ExecutionStep, BeginAttempt, RecordSubmission, Send, UpdateSubmission, Enqueue, MarkFirstEvent,
          BeginCompleteAttempt, BeginCompleteOperation, StartBarrier, BarrierLand, BarrierDrop,
          CompleteAttempt, JournalFault, rowVars
  <1>4. CASE UNCHANGED vars \/ RetentionPasses
             \/ \E w \in Workflow, outcome \in Completed : CompleteWorkflow(w, outcome)
    BY <1>1, <1>4 DEF vars, rowVars, RetentionPasses, CompleteWorkflow
  <1> QED
    BY <1>2, <1>3, <1>4 DEF Next

(* No other process settles an operation of a live owner, however stale    *)
(* its heartbeat is.  (ReconcileOrphans, process check)                    *)
THEOREM LiveOwnerIsLeftAlone == Spec => LiveOwnerSettlesItself
  <1>1. Inv /\ [Next]_vars =>
          [\A o \in Operation :
             op[o].status = "active" /\ op'[o].status # "active"
               /\ Up(op[o].rt) /\ rt[op[o].rt].lease \in {"open", "closing"}
             => exec[o].pc = "write" /\ exec[o].call = "operation"]_vars
    BY OnlyOwnerSettles
  <1> QED
    BY <1>1, InvariantHolds, PTL DEF Spec, LiveOwnerSettlesItself

=============================================================================
