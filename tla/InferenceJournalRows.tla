----------------------- MODULE InferenceJournalRows -----------------------
(* Proofs about what one step, and what all steps together, do to the rows *)
(* of the journal: outcomes stay, and the counters and costs are the rows. *)
EXTENDS InferenceJournalProofs, FiniteSetTheorems

(* The three tables keep their terminal outcomes over a step.              *)
OperationFinal(o) ==
  op[o].status \in Settled => op'[o].status \in {op[o].status, "pruned"}

WorkflowFinal(w) ==
  wf[w].status \in Settled => wf'[w].status \in {wf[w].status, "pruned"}

AttemptFinal(s) ==
  att[s].phase = "terminal" => att'[s].phase = "terminal" /\ att'[s].outcome = att[s].outcome

SubmissionFinal(s) ==
  /\ sub[s].outcome \notin {"none", "in_flight"} => sub'[s].outcome = sub[s].outcome
  /\ Rank(sub'[s].cost) >= Rank(sub[s].cost)

AllFinal ==
  /\ \A o \in Operation : OperationFinal(o)
  /\ \A w \in Workflow : WorkflowFinal(w)
  /\ \A s \in SubId : op'[s[1]].status # "pruned" => AttemptFinal(s) /\ SubmissionFinal(s)

(* The order of evidence, in numbers.                                      *)
LEMMA Ranks ==
  /\ Rank("known") = 3 /\ Rank("estimated") = 2 /\ Rank("unknown") = 1
  /\ \A c : Rank(c) \in {1, 2, 3} /\ Rank(c) >= Rank(c)
  /\ \A c : Rank(c) >= 1
  BY DEF Rank

(* What does not change is final.                                          *)
LEMMA SameIsFinal ==
  /\ op' = op => \A o \in Operation : OperationFinal(o)
  /\ wf' = wf => \A w \in Workflow : WorkflowFinal(w)
  /\ att' = att => \A s \in SubId : AttemptFinal(s)
  /\ sub' = sub => \A s \in SubId : SubmissionFinal(s)
  <1>1. \A s \in SubId : Rank(sub[s].cost) >= Rank(sub[s].cost)
    BY Ranks
  <1> QED
    BY <1>1 DEF OperationFinal, WorkflowFinal, AttemptFinal, SubmissionFinal

(* The merge keeps a terminal outcome and the better evidence of cost.     *)
LEMMA MergeFinal ==
  ASSUME NEW x \in Submission, NEW y \in Submission
  PROVE  /\ x.outcome # "in_flight" => Merge(x, y).outcome = x.outcome
         /\ Rank(Merge(x, y).cost) >= Rank(x.cost)
  <1>1. Rank(x.cost) \in {1, 2, 3} /\ Rank(y.cost) \in {1, 2, 3}
    BY Ranks
  <1>2. x.outcome # "in_flight" => Merge(x, y).outcome = x.outcome
    BY DEF Merge, Submission
  <1>3. /\ Merge(x, y).cost = x.cost => Rank(Merge(x, y).cost) = Rank(x.cost)
        /\ Merge(x, y).cost = y.cost => Rank(Merge(x, y).cost) = Rank(y.cost)
    BY Zenon
  <1>4. Rank(Merge(x, y).cost) >= Rank(x.cost)
    <2>1. CASE Rank(x.cost) = 1
      BY <2>1, Ranks
    <2>2. CASE Rank(x.cost) = 3
      <3>1. Rank(y.cost) # 3 => Merge(x, y).cost = x.cost
        BY <1>1, <2>2 DEF Merge, Submission
      <3>2. Rank(y.cost) = 3 => Merge(x, y).cost = y.cost
        BY <2>2 DEF Merge
      <3> QED
        BY <1>3, <2>2, <3>1, <3>2
    <2>3. CASE Rank(x.cost) = 2
      <3>1. Rank(y.cost) = 1 => Merge(x, y).cost = x.cost
        BY <2>3 DEF Merge, Submission
      <3>2. Rank(y.cost) # 1 => Merge(x, y).cost = y.cost
        BY <1>1, <2>3 DEF Merge
      <3> QED
        BY <1>1, <1>3, <2>3, <3>1, <3>2
    <2> QED
      BY <1>1, <2>1, <2>2, <2>3
  <1> QED
    BY <1>2, <1>4

(* A batch that lands leaves terminal attempts and submissions alone.      *)
LEMMA WriteBatchFinal ==
  ASSUME Inv, NEW b \in Batches, WriteBatch(b), NEW s \in SubId
  PROVE  AttemptFinal(s) /\ SubmissionFinal(s)
  <1>1. CASE b[s] = NoSub
    BY <1>1, Ranks DEF WriteBatch, Merged, AttemptFinal, SubmissionFinal
  <1>2. CASE b[s] # NoSub
    <2>1. b[s] \in Submission /\ sub[s] \in Submission
      BY <1>2 DEF Inv, TypeOK, Batches, WriteBatch, Accepted
    <2>2. sub'[s] = Merge(sub[s], b[s]) /\ att'[s] = MarkSent(att[s])
      BY <1>2 DEF WriteBatch, Merged
    <2>3. AttemptFinal(s)
      BY <2>2 DEF AttemptFinal, MarkSent
    <2> QED
      BY <2>1, <2>2, <2>3, MergeFinal DEF SubmissionFinal
  <1> QED
    BY <1>1, <1>2

(* So do the two writers that land one.                                    *)
LEMMA LandFinal ==
  ASSUME Inv,
         \/ \E r \in Runtime : FlusherLand(r)
         \/ \E o \in Operation : BarrierLand(o)
  PROVE  AllFinal
  <1>1. op' = op /\ wf' = wf
    BY DEF FlusherLand, BarrierLand
  <1>2. PICK b \in Batches : WriteBatch(b)
    <2>1. ASSUME NEW r \in Runtime, FlusherLand(r) PROVE batch[r] \in Batches /\ WriteBatch(batch[r])
      BY <2>1 DEF Inv, TypeOK, FlusherLand
    <2>2. ASSUME NEW o \in Operation, BarrierLand(o)
          PROVE  exec[o].claimed \in Batches /\ WriteBatch(exec[o].claimed)
      <3>1. exec[o] \in Execution
        BY DEF Inv, TypeOK
      <3> QED
        BY <2>2, <3>1 DEF Execution, BarrierLand
    <2> QED
      BY <2>1, <2>2
  <1> QED
    BY <1>1, <1>2, WriteBatchFinal, SameIsFinal DEF AllFinal

(* A new operation or attempt takes the place of no row.                   *)
LEMMA PrepareFinal ==
  ASSUME Inv, NEW o \in Operation,
         \/ \E r \in Runtime : PrepareOperation(r, o)
         \/ BeginAttempt(o)
         \/ \E plan \in Plan : PrepareRecoveryAttempt(o, plan)
  PROVE  AllFinal
  <1>1. CASE \E r \in Runtime : PrepareOperation(r, o)
    <2>1. PICK r \in Runtime : PrepareOperation(r, o)
      BY <1>1
    <2>2. op[o].status = "none"
      BY <2>1 DEF PrepareOperation, Inv, JournalInvariant, ExecutionMatchesRows
    <2>3. \A p \in Operation : OperationFinal(p)
      BY <2>1, <2>2 DEF PrepareOperation, OperationFinal, Inv, TypeOK, Settled, Completed
    <2>4. \A w \in Workflow : WorkflowFinal(w)
      BY <2>1 DEF PrepareOperation, JoinsWorkflow, WorkflowFinal, Inv, TypeOK, Settled, Completed
    <2>5. att' = att /\ sub' = sub
      BY <2>1 DEF PrepareOperation
    <2> QED
      BY <2>3, <2>4, <2>5, SameIsFinal DEF AllFinal
  <1>2. CASE BeginAttempt(o)
    <2>1. op' = op /\ wf' = wf /\ sub' = sub
      BY <1>2 DEF BeginAttempt
    <2>2. att[<<o, 1>>].phase = "none"
      <3>1. 1 \in Ordinal /\ ~(1 <= 0)
        BY AttemptLimitAssumption DEF Ordinal
      <3>2. exec[o].pc = "ready" /\ exec[o].next = 0 /\ op[o].status = "active"
        BY <1>2 DEF BeginAttempt, PrepareAttemptTx
      <3> QED
        BY <3>1, <3>2 DEF Inv, JournalInvariant, ExecutionMatchesRows, Deleted
    <2>3. \A s \in SubId : s # <<o, 1>> => att'[s] = att[s]
      BY <1>2 DEF BeginAttempt, Inv, TypeOK
    <2>4. \A s \in SubId : AttemptFinal(s)
      BY <2>2, <2>3 DEF AttemptFinal
    <2> QED
      BY <2>1, <2>4, SameIsFinal DEF AllFinal
  <1>3. ASSUME NEW plan \in Plan, PrepareRecoveryAttempt(o, plan) PROVE AllFinal
    <2> DEFINE n == exec[o].next
               s0 == <<o, n>>
               s1 == <<o, n + 1>>
    <2>1. wf' = wf /\ sub' = sub
      BY <1>3 DEF PrepareRecoveryAttempt
    <2>2. /\ exec[o].pc = "ready" /\ n \in Ordinal /\ op[o].status = "active" /\ n + 1 <= AttemptLimit
          /\ att[s0].phase = "terminal"
      BY <1>3, Zenon DEF PrepareRecoveryAttempt, PrepareAttemptTx
    <2>3. n \in Nat /\ n + 1 \in Ordinal /\ ~(n + 1 <= n)
      BY <2>2, AttemptLimitAssumption DEF Ordinal
    <2>4. s0 \in SubId /\ s1 \in SubId /\ s0 # s1
      BY <2>2, <2>3, SubIds
    <2>5. att[s1].phase = "none"
      BY <2>2, <2>3 DEF Inv, JournalInvariant, ExecutionMatchesRows, Deleted
    <2>6. att' = [att EXCEPT ![s0].recovery = plan.action,
                             ![s1] = [NoAttempt EXCEPT !.phase = "prepared"]]
      BY <1>3, Zenon DEF PrepareRecoveryAttempt, RecoveryWithNext
    <2>7. att[s0] \in AttemptRow /\ att \in [SubId -> AttemptRow]
      BY <2>4 DEF Inv, TypeOK
    <2>8. att'[s0].phase = att[s0].phase /\ att'[s0].outcome = att[s0].outcome
      <3>1. \A a \in AttemptRow : [a EXCEPT !.recovery = plan.action].phase = a.phase
                               /\ [a EXCEPT !.recovery = plan.action].outcome = a.outcome
        BY DEF AttemptRow
      <3>2. att'[s0] = [att[s0] EXCEPT !.recovery = plan.action]
        BY <2>4, <2>6, <2>7
      <3> QED
        BY <2>7, <3>1, <3>2
    <2>9. \A s \in SubId : s # s0 /\ s # s1 => att'[s] = att[s]
      BY <2>6, <2>7
    <2>10. \A s \in SubId : AttemptFinal(s)
      BY <2>5, <2>8, <2>9 DEF AttemptFinal
    <2>11. \A p \in Operation : OperationFinal(p)
      <3>1. op' = [op EXCEPT ![o].recovery = plan.action]
        BY <1>3 DEF PrepareRecoveryAttempt
      <3>2. \A x \in OperationRow : [x EXCEPT !.recovery = plan.action].status = x.status
        BY DEF OperationRow
      <3>3. \A p \in Operation : op'[p].status = op[p].status
        BY <3>1, <3>2 DEF Inv, TypeOK
      <3> QED
        BY <3>3 DEF OperationFinal
    <2> QED
      BY <2>1, <2>10, <2>11, SameIsFinal DEF AllFinal
  <1> QED
    BY <1>1, <1>2, <1>3

(* The running execution writes only rows that have not ended.             *)
LEMMA OwnerFinal ==
  ASSUME Inv, NEW o \in Operation,
         \/ \E seed \in Seeds : RecordSubmission(o, seed)
         \/ MarkFirstEvent(o) \/ CompleteAttempt(o) \/ CompleteOperation(o)
  PROVE  AllFinal
  <1> DEFINE s0 == <<o, exec[o].next>>
  <1>1. ASSUME NEW seed \in Seeds, RecordSubmission(o, seed) PROVE AllFinal
    <2>1. /\ op' = op /\ wf' = wf /\ sub[s0] = NoSub
          /\ sub' = [sub EXCEPT ![s0] = [NoSub EXCEPT !.outcome = "in_flight", !.seed = seed]]
          /\ att' = [att EXCEPT ![s0] = MarkSent(@)]
      BY <1>1 DEF RecordSubmission
    <2>2. /\ \A s \in SubId : att'[s] \in {att[s], MarkSent(att[s])}
          /\ \A s \in SubId : sub'[s] = sub[s] \/ sub[s] = NoSub
      BY <2>1, Zenon DEF Inv, TypeOK
    <2>3. \A s \in SubId : AttemptFinal(s)
      BY <2>2 DEF AttemptFinal, MarkSent
    <2>4. ASSUME NEW s \in SubId PROVE SubmissionFinal(s)
      <3>1. CASE sub'[s] = sub[s]
        BY <3>1, Ranks DEF SubmissionFinal
      <3>2. CASE sub[s] = NoSub
        <4>1. sub[s].outcome = "none" /\ sub[s].cost = "unknown"
          BY <3>2 DEF NoSub
        <4>2. Rank(sub[s].cost) = 1
          BY <4>1, Ranks, Zenon
        <4>3. Rank(sub'[s].cost) >= 1
          BY Ranks
        <4> QED
          BY <4>1, <4>2, <4>3 DEF SubmissionFinal
      <3> QED
        BY <2>2, <3>1, <3>2
    <2> QED
      BY <2>1, <2>3, <2>4, SameIsFinal DEF AllFinal
  <1>2. CASE MarkFirstEvent(o) \/ CompleteAttempt(o)
    <2>1. op' = op /\ wf' = wf /\ sub' = sub /\ att[s0].phase # "terminal"
      BY <1>2 DEF MarkFirstEvent, CompleteAttempt
    <2>2. \A s \in SubId : s # s0 => att'[s] = att[s]
      BY <1>2 DEF MarkFirstEvent, CompleteAttempt, Inv, TypeOK
    <2>3. \A s \in SubId : AttemptFinal(s)
      BY <2>1, <2>2 DEF AttemptFinal
    <2> QED
      BY <2>1, <2>3, SameIsFinal DEF AllFinal
  <1>3. CASE CompleteOperation(o)
    <2>1. att' = att /\ wf' = wf /\ sub' = sub /\ op[o].status = "active"
      BY <1>3 DEF CompleteOperation
    <2>2. \A p \in Operation : p # o => op'[p] = op[p]
      BY <1>3 DEF CompleteOperation, Inv, TypeOK
    <2>3. \A p \in Operation : OperationFinal(p)
      BY <2>1, <2>2 DEF OperationFinal, Settled, Completed
    <2> QED
      BY <2>1, <2>3, SameIsFinal DEF AllFinal
  <1> QED
    BY <1>1, <1>2, <1>3

(* The recovery settles only what is active.                               *)
LEMMA ReconcileFinal ==
  ASSUME Inv, NEW r \in Runtime, ReconcileOrphans(r) PROVE AllFinal
  <1>1. \A o \in Operation : OperationFinal(o)
    BY ReconcileRows DEF OperationFinal, Settled, Completed
  <1>2. \A w \in Workflow : WorkflowFinal(w)
    BY ReconcileRows DEF WorkflowFinal, OrphanWorkflows, Settled, Completed
  <1>3. ASSUME NEW s \in SubId PROVE AttemptFinal(s)
    BY DEF ReconcileOrphans, SettledAttempt, AttemptFinal
  <1>4. ASSUME NEW s \in SubId PROVE SubmissionFinal(s)
    <2>1. sub'[s] = SettledSubmission(r, s)
      BY DEF ReconcileOrphans
    <2>2. CASE sub[s].outcome = "in_flight"
      <3>1. sub[s] \in Submission
        BY <2>2 DEF Inv, TypeOK, NoSub
      <3>2. \A x \in Submission : \A y : [x EXCEPT !.outcome = y].cost = x.cost
        BY DEF Submission
      <3>3. sub'[s].cost = sub[s].cost
        BY <2>1, <3>1, <3>2 DEF SettledSubmission
      <3> QED
        BY <2>2, <3>3, Ranks DEF SubmissionFinal
    <2>3. CASE sub[s].outcome # "in_flight"
      BY <2>1, <2>3, Ranks DEF SettledSubmission, SubmissionFinal
    <2> QED
      BY <2>2, <2>3
  <1> QED
    BY <1>1, <1>2, <1>3, <1>4 DEF AllFinal

(* Retention deletes a row; it never gives one another outcome.            *)
LEMMA PruneFinal ==
  ASSUME Inv, NEW r \in Runtime, PruneOperations(r) \/ PruneWorkflows(r) PROVE AllFinal
  <1>1. CASE PruneOperations(r)
    <2>1. ASSUME NEW o \in aged, o \in Operation PROVE op'[o].status = "pruned"
      <3>1. op[o] \in OperationRow
        BY <2>1 DEF Inv, TypeOK
      <3>2. [op[o] EXCEPT !.status = "pruned"].status = "pruned"
        BY <3>1 DEF OperationRow
      <3> QED
        BY <1>1, <2>1, <3>2 DEF PruneOperations
    <2>2. \A o \in Operation : o \notin aged => op'[o] = op[o]
      BY <1>1 DEF PruneOperations
    <2>3. \A o \in Operation : OperationFinal(o)
      BY <2>1, <2>2 DEF OperationFinal
    <2>4. ASSUME NEW s \in SubId, op'[s[1]].status # "pruned" PROVE AttemptFinal(s) /\ SubmissionFinal(s)
      <3>1. s[1] \notin aged
        BY <2>1, <2>4, SubIds
      <3>2. att'[s] = att[s] /\ sub'[s] = sub[s]
        BY <1>1, <3>1 DEF PruneOperations
      <3> QED
        BY <3>2, Ranks DEF AttemptFinal, SubmissionFinal
    <2>5. wf' = wf
      BY <1>1 DEF PruneOperations
    <2> QED
      BY <2>3, <2>4, <2>5, SameIsFinal DEF AllFinal
  <1>2. CASE PruneWorkflows(r)
    <2>1. op' = op /\ att' = att /\ sub' = sub
      BY <1>2 DEF PruneWorkflows
    <2>2. ASSUME NEW w \in Workflow PROVE WorkflowFinal(w)
      <3>1. wf[w] \in WorkflowRow
        BY DEF Inv, TypeOK
      <3>2. [wf[w] EXCEPT !.status = "pruned"].status = "pruned"
        BY <3>1 DEF WorkflowRow
      <3>3. wf'[w] = wf[w] \/ wf'[w] = [wf[w] EXCEPT !.status = "pruned"]
        BY <1>2 DEF PruneWorkflows
      <3> QED
        BY <3>2, <3>3 DEF WorkflowFinal
    <2> QED
      BY <2>1, <2>2, SameIsFinal DEF AllFinal
  <1> QED
    BY <1>1, <1>2

(* A workflow is completed while it is active.                             *)
LEMMA CompleteWorkflowFinal ==
  ASSUME Inv, NEW w \in Workflow, NEW outcome \in Completed, CompleteWorkflow(w, outcome)
  PROVE  AllFinal
  <1>1. op' = op /\ att' = att /\ sub' = sub /\ wf[w].status = "active"
    BY DEF CompleteWorkflow
  <1>2. \A x \in Workflow : x # w => wf'[x] = wf[x]
    BY DEF CompleteWorkflow, Inv, TypeOK
  <1>3. \A x \in Workflow : WorkflowFinal(x)
    BY <1>1, <1>2 DEF WorkflowFinal, Settled, Completed
  <1> QED
    BY <1>1, <1>3, SameIsFinal DEF AllFinal

(* Every step of the journal is final.                                     *)
LEMMA NextFinal == Inv /\ [Next]_vars => AllFinal
  <1> SUFFICES ASSUME Inv, [Next]_vars PROVE AllFinal
    OBVIOUS
  <1>0. UNCHANGED <<wf, op, att, sub>> => AllFinal
    BY SameIsFinal DEF AllFinal
  <1>1. CASE UNCHANGED vars \/ RetentionPasses
    BY <1>0, <1>1 DEF vars, RetentionPasses, rowVars
  <1>2. ASSUME NEW r \in Runtime, RuntimeStep(r) PROVE AllFinal
    <2>1. CASE FlusherLand(r)
      BY <2>1, LandFinal
    <2>2. CASE BootReconcile(r) \/ Maintain(r)
      BY <1>0, <2>2, ReconcileFinal DEF BootReconcile, Maintain, rowVars
    <2>3. CASE PruneOperations(r) \/ PruneWorkflows(r)
      BY <2>3, PruneFinal
    <2> QED
      BY <1>0, <1>2, <2>1, <2>2, <2>3
      DEF RuntimeStep, NewRuntime, StartServer, CloseServer, Heartbeat, HeartbeatLapse, BeginClose,
          FinishClose, Crash, ReusePid, FlusherClaim, FlusherDrop, rowVars
  <1>3. ASSUME NEW o \in Operation, ExecutionStep(o) PROVE AllFinal
    <2>1. CASE \/ \E r \in Runtime : PrepareOperation(r, o)
               \/ BeginAttempt(o)
               \/ \E plan \in Plan : PrepareRecoveryAttempt(o, plan)
      BY <2>1, PrepareFinal
    <2>2. CASE \/ \E seed \in Seeds : RecordSubmission(o, seed)
               \/ MarkFirstEvent(o) \/ CompleteAttempt(o) \/ CompleteOperation(o)
      BY <2>2, OwnerFinal
    <2>3. CASE BarrierLand(o)
      BY <2>3, LandFinal
    <2> QED
      BY <1>0, <1>3, <2>1, <2>2, <2>3
      DEF ExecutionStep, Send, UpdateSubmission, Enqueue, BeginCompleteAttempt, BeginCompleteOperation,
          StartBarrier, BarrierDrop, JournalFault, rowVars
  <1>4. CASE \E w \in Workflow, outcome \in Completed : CompleteWorkflow(w, outcome)
    BY <1>4, CompleteWorkflowFinal
  <1> QED
    BY <1>1, <1>2, <1>3, <1>4 DEF Next

(* Terminal outcomes are final and evidence of cost never gets worse, for  *)
(* any number of late flushes, late completions and recoveries.            *)
(* (upsertSubmissionRecordTx, completeInferenceAttemptTx, ReconcileOrphans)*)
THEOREM OutcomesStay == Spec => OutcomesAreFinal
  <1>1. Inv /\ [Next]_vars =>
          [/\ \A o \in Operation : op[o].status \in Settled =>
                op'[o].status \in {op[o].status, "pruned"}
           /\ \A w \in Workflow : wf[w].status \in Settled =>
                wf'[w].status \in {wf[w].status, "pruned"}
           /\ \A s \in SubId : op'[s[1]].status # "pruned" =>
                /\ att[s].phase = "terminal" => att'[s].phase = "terminal" /\ att'[s].outcome = att[s].outcome
                /\ sub[s].outcome \notin {"none", "in_flight"} => sub'[s].outcome = sub[s].outcome
                /\ Rank(sub'[s].cost) >= Rank(sub[s].cost)]_vars
    BY NextFinal DEF AllFinal, OperationFinal, WorkflowFinal, AttemptFinal, SubmissionFinal
  <1> QED
    BY <1>1, InvariantHolds, PTL DEF Spec, OutcomesAreFinal

-----------------------------------------------------------------------------
(* The counters of a workflow are the numbers of its rows.                 *)

(* The replay of attempt s was charged: the attempt before was answered.   *)
Spent(s) == s[2] > 1 /\ Answered(att[<<s[1], s[2] - 1>>])

OperationRows(w)  == {o \in Operation : WorkflowOf[o] = w /\ op[o].status # "none"}
AttemptRows(w)    == {s \in Rows(w) : att[s].phase # "none"}
SubmissionRows(w) == {s \in Rows(w) : sub[s] # NoSub}
ReplayRows(w)     == {s \in Rows(w) : att[s].phase # "none" /\ Spent(s)}

(* A finite set, and a counter that is its size.                           *)
Counts(S, n) == IsFiniteSet(S) /\ n = Cardinality(S)

Counted(w) ==
  /\ Counts(OperationRows(w), used[w]["operations"])
  /\ Counts(AttemptRows(w), used[w]["attempts"])
  /\ Counts(SubmissionRows(w), used[w]["submissions"])
  /\ Counts(ReplayRows(w), used[w]["replays"])

AllCounted == \A w \in Workflow : Whole(w) => Counted(w)

(* A row that is inserted is counted once.                                 *)
LEMMA OneMore ==
  ASSUME NEW S, NEW n, NEW x, Counts(S, n), x \notin S PROVE Counts(S \cup {x}, n + 1)
  BY FS_AddElement DEF Counts

(* No workflow has rows in the empty database.                             *)
LEMMA InitCounted == Init => AllCounted
  <1> SUFFICES ASSUME Init, NEW w \in Workflow PROVE Counted(w)
    BY DEF AllCounted
  <1>1. \A s \in Rows(w) : s \in SubId
    BY DEF Rows
  <1>2. /\ OperationRows(w) = {} /\ AttemptRows(w) = {}
        /\ SubmissionRows(w) = {} /\ ReplayRows(w) = {}
    BY <1>1 DEF Init, OperationRows, AttemptRows, SubmissionRows, ReplayRows, NoOp, NoAttempt
  <1>3. /\ used[w]["operations"] = 0 /\ used[w]["attempts"] = 0
        /\ used[w]["submissions"] = 0 /\ used[w]["replays"] = 0
    BY DEF Init, Dimension
  <1> QED
    BY <1>2, <1>3, FS_EmptySet DEF Counted, Counts

(* A step inserts no row of w and changes none of its counters.            *)
NothingNew(w) ==
  /\ used'[w] = used[w]
  /\ \A o \in Operation : WorkflowOf[o] = w =>
       (op'[o].status = "none" <=> op[o].status = "none")
  /\ \A s \in Rows(w) :
       /\ att'[s].phase = "none" <=> att[s].phase = "none"
       /\ sub'[s] = NoSub <=> sub[s] = NoSub
       /\ att[s].phase # "none" => (Spent(s)' <=> Spent(s))

(* Then its counters keep being the numbers of its rows.                   *)
LEMMA NothingNewCounted ==
  ASSUME NEW w \in Workflow, Counted(w), NothingNew(w) PROVE Counted(w)'
  <1>1. OperationRows(w)' = OperationRows(w)
    BY DEF NothingNew, OperationRows
  <1>2. Rows(w)' = Rows(w)
    BY DEF Rows
  <1>3. AttemptRows(w)' = AttemptRows(w) /\ SubmissionRows(w)' = SubmissionRows(w)
    BY <1>2 DEF NothingNew, AttemptRows, SubmissionRows
  <1>4. ReplayRows(w)' = ReplayRows(w)
    BY <1>2 DEF NothingNew, ReplayRows
  <1> QED
    BY <1>1, <1>3, <1>4 DEF Counted, NothingNew

(* A deleted operation stays deleted: what is whole was whole.             *)
LEMMA WholeWasWhole ==
  ASSUME Inv, [Next]_vars, NEW w \in Workflow, Whole(w)' PROVE Whole(w)
  <1> SUFFICES ASSUME NEW o \in Operation, WorkflowOf[o] = w, op[o].status = "pruned"
               PROVE  FALSE
    BY DEF Whole
  <1>1. op'[o].status # "pruned"
    BY DEF Whole
  <1>2. o \in aged
    BY DEF Inv, JournalInvariant, AgedRows, Deleted
  <1>3. op' # op
    BY <1>1
  <1>4. ASSUME NEW r \in Runtime, RuntimeStep(r) PROVE FALSE
    <2>1. CASE PruneOperations(r)
      <3>1. op[o] \in OperationRow /\ op'[o] = [op[o] EXCEPT !.status = "pruned"]
        BY <1>2, <2>1 DEF PruneOperations, Inv, TypeOK
      <3>2. op'[o].status = "pruned"
        BY <3>1 DEF OperationRow
      <3> QED
        BY <1>1, <3>2
    <2>2. CASE BootReconcile(r) \/ Maintain(r)
      <3>1. ReconcileOrphans(r)
        BY <1>3, <2>2 DEF BootReconcile, Maintain, rowVars
      <3> QED
        BY <1>1, <3>1, ReconcileRows
    <2> QED
      BY <1>3, <1>4, <2>1, <2>2
      DEF RuntimeStep, NewRuntime, StartServer, CloseServer, Heartbeat, HeartbeatLapse, BeginClose,
          FinishClose, Crash, ReusePid, FlusherClaim, FlusherLand, FlusherDrop, PruneWorkflows, rowVars
  <1>5. ASSUME NEW p \in Operation, ExecutionStep(p) PROVE FALSE
    <2>1. CASE CompleteOperation(p)
      <3>1. p # o
        BY <2>1 DEF CompleteOperation
      <3> QED
        BY <1>1, <2>1, <3>1 DEF CompleteOperation, Inv, TypeOK
    <2>2. CASE \E r \in Runtime : PrepareOperation(r, p)
      <3>1. op[p].status = "none"
        BY <2>2 DEF PrepareOperation, Inv, JournalInvariant, ExecutionMatchesRows
      <3>2. p # o
        BY <3>1
      <3> QED
        BY <1>1, <2>2, <3>2 DEF PrepareOperation, Inv, TypeOK
    <2>3. CASE \E plan \in Plan : PrepareRecoveryAttempt(p, plan)
      <3>1. p # o
        BY <2>3 DEF PrepareRecoveryAttempt, PrepareAttemptTx
      <3>2. PICK x : op' = [op EXCEPT ![p] = [op[p] EXCEPT !.recovery = x]]
        BY <2>3 DEF PrepareRecoveryAttempt
      <3> QED
        BY <1>1, <3>1, <3>2 DEF Inv, TypeOK
    <2> QED
      BY <1>3, <1>5, <2>1, <2>2, <2>3
      DEF ExecutionStep, BeginAttempt, RecordSubmission, Send, UpdateSubmission, Enqueue, MarkFirstEvent,
          BeginCompleteAttempt, BeginCompleteOperation, StartBarrier, BarrierLand, BarrierDrop,
          CompleteAttempt, JournalFault, rowVars
  <1>6. CASE UNCHANGED vars \/ RetentionPasses
             \/ \E x \in Workflow, outcome \in Completed : CompleteWorkflow(x, outcome)
    BY <1>3, <1>6 DEF vars, rowVars, RetentionPasses, CompleteWorkflow
  <1> QED
    BY <1>4, <1>5, <1>6 DEF Next

-----------------------------------------------------------------------------
(* Steps that insert no row.                                               *)

(* The attempt before a row of w, and the rows of w themselves, exist.     *)
LEMMA RowIds ==
  ASSUME NEW w, NEW s \in Rows(w)
  PROVE  /\ s \in SubId /\ s[1] \in Operation /\ WorkflowOf[s[1]] = w /\ s[2] \in Nat
         /\ s = <<s[1], s[2]>>
         /\ s[2] > 1 => <<s[1], s[2] - 1>> \in SubId
  <1>1. s \in SubId /\ WorkflowOf[s[1]] = w
    BY DEF Rows
  <1>2. s[1] \in Operation /\ s[2] \in 1 .. AttemptLimit /\ s = <<s[1], s[2]>>
    BY <1>1, SubIds DEF Ordinal
  <1>3. s[2] > 1 => s[2] - 1 \in Ordinal
    BY <1>2, AttemptLimitAssumption DEF Ordinal
  <1> QED
    BY <1>1, <1>2, <1>3, SubIds, AttemptLimitAssumption

(* Answers do not change, so neither does what a replay has cost.          *)
LEMMA SpentStays ==
  ASSUME NEW w, NEW s \in Rows(w),
         \A p \in SubId : Answered(att[p])' <=> Answered(att[p])
  PROVE  Spent(s)' <=> Spent(s)
  BY RowIds DEF Spent

(* A batch that lands inserts no row.                                      *)
LEMMA LandAddsNothing ==
  ASSUME Inv, NEW w \in Workflow,
         \/ \E r \in Runtime : FlusherLand(r)
         \/ \E o \in Operation : BarrierLand(o)
  PROVE  NothingNew(w)
  <1>1. op' = op /\ used' = used
    BY DEF FlusherLand, BarrierLand
  <1>2. PICK b \in Batches : WriteBatch(b)
    <2>1. ASSUME NEW r \in Runtime, FlusherLand(r) PROVE batch[r] \in Batches /\ WriteBatch(batch[r])
      BY <2>1 DEF Inv, TypeOK, FlusherLand
    <2>2. ASSUME NEW o \in Operation, BarrierLand(o)
          PROVE  exec[o].claimed \in Batches /\ WriteBatch(exec[o].claimed)
      <3>1. exec[o] \in Execution
        BY DEF Inv, TypeOK
      <3> QED
        BY <2>2, <3>1 DEF Execution, BarrierLand
    <2> QED
      BY <2>1, <2>2
  <1>3. \A s \in SubId : SameRow(s)
    BY <1>2, WriteBatchForward
  <1>4. ASSUME NEW p \in SubId PROVE Answered(att[p])' <=> Answered(att[p])
    <2>1. att[p] \in AttemptRow /\ att'[p] \in {att[p], MarkSent(att[p])}
      BY <1>2 DEF Inv, TypeOK, WriteBatch
    <2>2. MarkSent(att[p]).network = att[p].network /\ MarkSent(att[p]).event = att[p].event
      BY <2>1 DEF MarkSent, AttemptRow
    <2> QED
      BY <2>1, <2>2 DEF Answered
  <1> QED
    BY <1>1, <1>3, <1>4, SpentStays, RowIds DEF NothingNew, SameRow

(* An execution that ends or hears from its current attempt: no attempt    *)
(* follows that one yet.                                                   *)
LEMMA CurrentAddsNothing ==
  ASSUME Inv, NEW o \in Operation, NEW w \in Workflow, MarkFirstEvent(o) \/ CompleteAttempt(o)
  PROVE  NothingNew(w)
  <1> DEFINE n == exec[o].next
             s0 == <<o, n>>
  <1>1. /\ op' = op /\ used' = used /\ sub' = sub
        /\ exec[o].pc \in {"ready", "write"} /\ Present(op[o].status)
        /\ n # 0
    BY DEF MarkFirstEvent, CompleteAttempt, Present, Inv, JournalInvariant, ExecutionMatchesRows
  <1>2. n \in Ordinal /\ n \in Nat /\ s0 \in SubId /\ att[s0] \in AttemptRow
    BY <1>1, CurrentAttempt, SubIds
  <1>3. att[s0].phase # "none"
    BY <1>1, <1>2, AttemptLimitAssumption
    DEF Inv, JournalInvariant, ExecutionMatchesRows, Deleted, Present, Ordinal
  <1>4. \A s \in SubId : s # s0 => att'[s] = att[s]
    BY DEF MarkFirstEvent, CompleteAttempt, Inv, TypeOK
  <1>5. att'[s0].phase # "none"
    <2>1. CASE MarkFirstEvent(o)
      <3>1. att'[s0] = [att[s0] EXCEPT !.phase = "streaming", !.event = TRUE]
        BY <1>2, <2>1 DEF MarkFirstEvent, Inv, TypeOK
      <3>2. att'[s0].phase = "streaming"
        BY <1>2, <3>1 DEF AttemptRow
      <3> QED
        BY <3>2
    <2>2. CASE CompleteAttempt(o)
      <3>1. att'[s0] = [att[s0] EXCEPT !.phase = "terminal", !.outcome = exec[o].outcome,
                                       !.network = exec[o].network]
        BY <1>2, <2>2 DEF CompleteAttempt, Inv, TypeOK
      <3>2. att'[s0].phase = "terminal"
        BY <1>2, <3>1 DEF AttemptRow
      <3> QED
        BY <3>2
    <2> QED
      BY <2>1, <2>2
  <1>6. ASSUME NEW s \in Rows(w), att[s].phase # "none" PROVE Spent(s)' <=> Spent(s)
    <2>1. s \in SubId /\ s = <<s[1], s[2]>> /\ s[2] \in Nat
          /\ (s[2] > 1 => <<s[1], s[2] - 1>> \in SubId)
      BY <1>6, RowIds
    <2>2. ASSUME s[2] > 1, <<s[1], s[2] - 1>> = s0 PROVE FALSE
      <3>1. s[1] = o /\ s[2] - 1 = n /\ s[2] \in Ordinal
        BY <2>1, <2>2, SubIds
      <3>2. s = <<o, s[2]>> /\ ~(s[2] <= n)
        BY <1>2, <2>1, <3>1
      <3> QED
        BY <1>1, <1>6, <3>1, <3>2
        DEF Inv, JournalInvariant, ExecutionMatchesRows, Deleted, Present
    <2> QED
      BY <1>4, <2>1, <2>2 DEF Spent
  <1> QED
    BY <1>1, <1>3, <1>4, <1>5, <1>6, RowIds DEF NothingNew

(* Completing an operation inserts none.                                   *)
LEMMA CompleteAddsNothing ==
  ASSUME Inv, NEW o \in Operation, NEW w \in Workflow, CompleteOperation(o)
  PROVE  NothingNew(w)
  <1>1. att' = att /\ sub' = sub /\ used' = used /\ op[o].status = "active"
        /\ exec[o].pc = "write"
    BY DEF CompleteOperation
  <1>2. op'[o].status # "none"
    <2>1. op[o] \in OperationRow /\ exec[o].outcome \in Completed
      BY <1>1 DEF Inv, TypeOK, JournalInvariant, ExecutionMatchesRows
    <2>2. op'[o] = [op[o] EXCEPT !.status = exec[o].outcome, !.recovery = ""]
      BY DEF CompleteOperation, Inv, TypeOK
    <2>3. op'[o].status = exec[o].outcome
      BY <2>1, <2>2 DEF OperationRow
    <2> QED
      BY <2>1, <2>3 DEF Completed
  <1>3. \A p \in Operation : p # o => op'[p] = op[p]
    BY DEF CompleteOperation, Inv, TypeOK
  <1>4. \A s \in Rows(w) : Spent(s)' <=> Spent(s)
    BY <1>1 DEF Spent
  <1> QED
    BY <1>1, <1>2, <1>3, <1>4 DEF NothingNew

(* The recovery settles rows; only the last attempt of an operation loses  *)
(* its network failure, and no replay was charged for it.                  *)
LEMMA ReconcileAddsNothing ==
  ASSUME Inv, NEW r \in Runtime, NEW w \in Workflow, ReconcileOrphans(r)
  PROVE  NothingNew(w)
  <1>1. used' = used /\ att' = [s \in SubId |-> SettledAttempt(r, s)]
    BY DEF ReconcileOrphans
  <1>2. \A o \in Operation : op'[o].status = "none" <=> op[o].status = "none"
    BY ReconcileRows, VerdictTyped
  <1>3. \A s \in SubId : /\ att'[s].phase = "none" <=> att[s].phase = "none"
                         /\ sub'[s] = NoSub <=> sub[s] = NoSub
    BY ReconcileRows DEF Row
  <1>4. ASSUME NEW s \in Rows(w), att[s].phase # "none" PROVE Spent(s)' <=> Spent(s)
    <2> DEFINE p == <<s[1], s[2] - 1>>
    <2>1. s \in SubId /\ s = <<s[1], s[2]>> /\ s[2] \in Nat /\ (s[2] > 1 => p \in SubId)
      BY <1>4, RowIds
    <2>2. ASSUME s[2] > 1 PROVE ~IsLast(p)
      <3>1. p[1] = s[1] /\ p[2] = s[2] - 1 /\ s[2] > s[2] - 1 /\ s[2] \in Ordinal
        BY <2>1, SubIds
      <3> QED
        BY <1>4, <2>1, <3>1 DEF IsLast
    <2>3. s[2] > 1 => att'[p] = att[p]
      BY <1>1, <2>1, <2>2 DEF SettledAttempt
    <2> QED
      BY <2>3 DEF Spent
  <1> QED
    BY <1>1, <1>2, <1>3, <1>4, RowIds DEF NothingNew

(* Retention deletes no row of a workflow that stays whole.                *)
LEMMA PruneAddsNothing ==
  ASSUME Inv, NEW r \in Runtime, NEW w \in Workflow, PruneOperations(r), Whole(w)'
  PROVE  NothingNew(w)
  <1>1. ASSUME NEW o \in Operation, WorkflowOf[o] = w PROVE o \notin aged
    <2>1. SUFFICES ASSUME o \in aged PROVE FALSE
      OBVIOUS
    <2>2. op[o] \in OperationRow /\ op'[o] = [op[o] EXCEPT !.status = "pruned"]
      BY <2>1 DEF PruneOperations, Inv, TypeOK
    <2>3. op'[o].status = "pruned"
      BY <2>2 DEF OperationRow
    <2> QED
      BY <1>1, <2>3 DEF Whole
  <1>2. \A o \in Operation : WorkflowOf[o] = w => op'[o] = op[o]
    BY <1>1 DEF PruneOperations
  <1>3. ASSUME NEW p \in SubId, WorkflowOf[p[1]] = w PROVE att'[p] = att[p] /\ sub'[p] = sub[p]
    <2>1. p[1] \notin aged
      BY <1>1, <1>3, SubIds
    <2> QED
      BY <2>1 DEF PruneOperations
  <1>4. ASSUME NEW s \in Rows(w) PROVE Spent(s)' <=> Spent(s)
    <2>1. s[2] > 1 => att'[<<s[1], s[2] - 1>>] = att[<<s[1], s[2] - 1>>]
      BY <1>3, <1>4, RowIds
    <2> QED
      BY <2>1 DEF Spent
  <1>5. used' = used
    BY DEF PruneOperations
  <1> QED
    BY <1>2, <1>3, <1>4, <1>5, RowIds DEF NothingNew

-----------------------------------------------------------------------------
(* Steps that insert a row and reserve it in the same transaction.         *)

(* One unit of each reserved dimension, in one workflow.                   *)
LEMMA ReservedAt ==
  ASSUME Inv, NEW v \in Workflow, NEW D, used' = Reserved(v, D)
  PROVE  /\ \A w \in Workflow : w # v => used'[w] = used[w]
         /\ \A d \in Dimension :
              /\ d \in D => used'[v][d] = used[v][d] + 1
              /\ d \notin D => used'[v][d] = used[v][d]
  <1>1. used \in [Workflow -> [Dimension -> Nat]]
    BY DEF Inv, TypeOK
  <1>2. used' = [used EXCEPT ![v] = [d \in Dimension |-> IF d \in D THEN used[v][d] + 1 ELSE used[v][d]]]
    BY <1>1 DEF Reserved
  <1> QED
    BY <1>1, <1>2

(* A new operation is counted.                                             *)
LEMMA PrepareOperationCounted ==
  ASSUME Inv, NEW r \in Runtime, NEW o \in Operation, PrepareOperation(r, o),
         NEW w \in Workflow, Counted(w)
  PROVE  Counted(w)'
  <1> DEFINE v == WorkflowOf[o]
             D == {"operations"} \cup (IF Parent[o] # NoParent THEN {"child_operations"} ELSE {})
  <1>1. v \in Workflow
    BY WorkflowOfAssumption
  <1>2. /\ att' = att /\ sub' = sub /\ used' = Reserved(v, D)
        /\ op' = [op EXCEPT ![o] = [status |-> "active", recovery |-> "", rt |-> r]]
        /\ op[o].status = "none"
    BY DEF PrepareOperation, Inv, JournalInvariant, ExecutionMatchesRows
  <1>3. op'[o].status = "active" /\ \A p \in Operation : p # o => op'[p] = op[p]
    BY <1>2 DEF Inv, TypeOK
  <1>4. \A s \in Rows(w) : Spent(s)' <=> Spent(s)
    BY <1>2 DEF Spent
  <1>5. CASE w # v
    <2>1. NothingNew(w)
      BY <1>1, <1>2, <1>3, <1>4, <1>5, ReservedAt DEF NothingNew
    <2> QED
      BY <2>1, NothingNewCounted
  <1>6. CASE w = v
    <2>1. OperationRows(w)' = OperationRows(w) \cup {o} /\ o \notin OperationRows(w)
      BY <1>2, <1>3, <1>6 DEF OperationRows
    <2>2. /\ AttemptRows(w)' = AttemptRows(w) /\ SubmissionRows(w)' = SubmissionRows(w)
          /\ ReplayRows(w)' = ReplayRows(w)
      BY <1>2, <1>4 DEF AttemptRows, SubmissionRows, ReplayRows, Rows
    <2>9. /\ "operations" \in D /\ "attempts" \notin D /\ "submissions" \notin D /\ "replays" \notin D
      OBVIOUS
    <2> HIDE DEF D
    <2>3. /\ used'[w]["operations"] = used[w]["operations"] + 1
          /\ used'[w]["attempts"] = used[w]["attempts"]
          /\ used'[w]["submissions"] = used[w]["submissions"]
          /\ used'[w]["replays"] = used[w]["replays"]
      BY <1>1, <1>2, <1>6, <2>9, ReservedAt DEF Dimension
    <2>4. Counts(OperationRows(w)', used'[w]["operations"])
      BY <2>1, <2>3, OneMore DEF Counted
    <2> QED
      BY <2>2, <2>3, <2>4 DEF Counted
  <1> QED
    BY <1>5, <1>6

(* A new submission is counted.                                            *)
LEMMA RecordSubmissionCounted ==
  ASSUME Inv, NEW o \in Operation, NEW seed \in Seeds, RecordSubmission(o, seed),
         NEW w \in Workflow, Counted(w)
  PROVE  Counted(w)'
  <1> DEFINE v == WorkflowOf[o]
             s0 == <<o, exec[o].next>>
             row == [NoSub EXCEPT !.outcome = "in_flight", !.seed = seed]
  <1>1. v \in Workflow /\ s0 \in SubId /\ s0[1] = o
    BY WorkflowOfAssumption, CurrentAttempt DEF RecordSubmission
  <1>2. /\ op' = op /\ used' = Reserved(v, {"submissions"}) /\ sub[s0] = NoSub
        /\ sub' = [sub EXCEPT ![s0] = row] /\ att' = [att EXCEPT ![s0] = MarkSent(@)]
    BY DEF RecordSubmission
  <1>3. sub'[s0] # NoSub /\ \A s \in SubId : s # s0 => sub'[s] = sub[s]
    <2>1. sub'[s0] = row /\ \A s \in SubId : s # s0 => sub'[s] = sub[s]
      BY <1>1, <1>2 DEF Inv, TypeOK
    <2>2. row.outcome = "in_flight" /\ NoSub.outcome = "none"
      BY DEF NoSub
    <2> QED
      BY <2>1, <2>2
  <1>4. ASSUME NEW p \in SubId
        PROVE  /\ att'[p].phase = "none" <=> att[p].phase = "none"
               /\ Answered(att[p])' <=> Answered(att[p])
    <2>1. att[p] \in AttemptRow /\ att'[p] \in {att[p], MarkSent(att[p])}
      BY <1>1, <1>2 DEF Inv, TypeOK
    <2>2. /\ MarkSent(att[p]).network = att[p].network /\ MarkSent(att[p]).event = att[p].event
          /\ MarkSent(att[p]).phase = "none" <=> att[p].phase = "none"
      BY <2>1 DEF MarkSent, AttemptRow
    <2> QED
      BY <2>1, <2>2 DEF Answered
  <1>5. \A s \in Rows(w) : Spent(s)' <=> Spent(s)
    BY <1>4, SpentStays
  <1>6. CASE w # v
    <2>1. \A s \in Rows(w) : s \in SubId /\ s # s0
      BY <1>1, <1>6, RowIds
    <2>2. NothingNew(w)
      BY <1>1, <1>2, <1>3, <1>4, <1>5, <1>6, <2>1, ReservedAt DEF NothingNew
    <2> QED
      BY <2>2, NothingNewCounted
  <1>7. CASE w = v
    <2>1. s0 \in Rows(w) /\ Rows(w)' = Rows(w) /\ \A s \in Rows(w) : s \in SubId
      BY <1>1, <1>7 DEF Rows
    <2>2. SubmissionRows(w)' = SubmissionRows(w) \cup {s0} /\ s0 \notin SubmissionRows(w)
      BY <1>2, <1>3, <2>1 DEF SubmissionRows
    <2>3. OperationRows(w)' = OperationRows(w)
      BY <1>2 DEF OperationRows
    <2>4. AttemptRows(w)' = AttemptRows(w)
      BY <1>4, <2>1 DEF AttemptRows
    <2>5. ReplayRows(w)' = ReplayRows(w)
      BY <1>4, <1>5, <2>1 DEF ReplayRows
    <2>6. /\ used'[w]["operations"] = used[w]["operations"]
          /\ used'[w]["attempts"] = used[w]["attempts"]
          /\ used'[w]["submissions"] = used[w]["submissions"] + 1
          /\ used'[w]["replays"] = used[w]["replays"]
      BY <1>1, <1>2, <1>7, ReservedAt DEF Dimension
    <2>7. Counts(SubmissionRows(w)', used'[w]["submissions"])
      BY <2>2, <2>6, OneMore DEF Counted
    <2> QED
      BY <2>3, <2>4, <2>5, <2>6, <2>7 DEF Counted
  <1> QED
    BY <1>6, <1>7

(* The row of attempt n of o is inserted, the one before at most told what *)
(* to do next.                                                             *)
AttemptInserted(o, n) ==
  /\ att[<<o, n>>].phase = "none" /\ att'[<<o, n>>].phase # "none"
  /\ \A k \in Ordinal : k > n => att[<<o, k>>].phase = "none"
  /\ \A s \in SubId : s # <<o, n>> =>
       /\ att'[s].phase = "none" <=> att[s].phase = "none"
       /\ Answered(att[s])' <=> Answered(att[s])
  /\ \A p \in Operation : op'[p].status = "none" <=> op[p].status = "none"
  /\ sub' = sub

(* The dimensions of an attempt: a replay when the one before was answered.*)
Reserves(o, n, D) ==
  /\ used' = Reserved(WorkflowOf[o], D)
  /\ "attempts" \in D /\ "operations" \notin D /\ "submissions" \notin D
  /\ "replays" \in D <=> Spent(<<o, n>>)

(* A new attempt is counted, and so is the replay it is.                   *)
LEMMA AttemptCounted ==
  ASSUME Inv, NEW o \in Operation, NEW n \in Ordinal, NEW D,
         AttemptInserted(o, n), Reserves(o, n, D), NEW w \in Workflow, Counted(w)
  PROVE  Counted(w)'
  <1> DEFINE v == WorkflowOf[o]
             s1 == <<o, n>>
  <1>1. v \in Workflow /\ s1 \in SubId /\ s1[1] = o /\ s1[2] = n /\ n \in Nat /\ n >= 1
    BY WorkflowOfAssumption, SubIds
  <1>2. ASSUME NEW s \in Rows(w), att[s].phase # "none" \/ s = s1 PROVE Spent(s)' <=> Spent(s)
    <2> DEFINE p == <<s[1], s[2] - 1>>
    <2>1. s \in SubId /\ s = <<s[1], s[2]>> /\ s[2] \in Nat /\ (s[2] > 1 => p \in SubId)
      BY <1>2, RowIds
    <2>2. ASSUME s[2] > 1 PROVE p # s1
      <3> SUFFICES ASSUME p = s1 PROVE FALSE
        OBVIOUS
      <3>1. s[1] = o /\ s[2] - 1 = n /\ s[2] \in Ordinal
        BY <2>1, SubIds
      <3>2. s[2] > n /\ s = <<o, s[2]>> /\ s # s1
        BY <1>1, <2>1, <3>1
      <3> QED
        BY <1>2, <3>1, <3>2 DEF AttemptInserted
    <2> QED
      BY <2>1, <2>2 DEF Spent, AttemptInserted
  <1>3. CASE w # v
    <2>1. \A s \in Rows(w) : s \in SubId /\ s # s1
      BY <1>1, <1>3, RowIds
    <2>2. used'[w] = used[w]
      BY <1>1, <1>3, ReservedAt DEF Reserves
    <2>3. NothingNew(w)
      BY <1>2, <2>1, <2>2 DEF NothingNew, AttemptInserted
    <2> QED
      BY <2>3, NothingNewCounted
  <1>4. CASE w = v
    <2>1. s1 \in Rows(w) /\ Rows(w)' = Rows(w) /\ \A s \in Rows(w) : s \in SubId
      BY <1>1, <1>4 DEF Rows
    <2>2. AttemptRows(w)' = AttemptRows(w) \cup {s1} /\ s1 \notin AttemptRows(w)
      BY <2>1 DEF AttemptRows, AttemptInserted
    <2>3. OperationRows(w)' = OperationRows(w) /\ SubmissionRows(w)' = SubmissionRows(w)
      BY <2>1 DEF OperationRows, SubmissionRows, AttemptInserted
    <2>4. /\ Spent(s1) => ReplayRows(w)' = ReplayRows(w) \cup {s1} /\ s1 \notin ReplayRows(w)
          /\ ~Spent(s1) => ReplayRows(w)' = ReplayRows(w)
      <3>1. \A s \in Rows(w) : s # s1 => (att'[s].phase # "none" <=> att[s].phase # "none")
        BY <2>1 DEF AttemptInserted
      <3>2. att[s1].phase = "none" /\ att'[s1].phase # "none"
        BY DEF AttemptInserted
      <3>3. \A s \in Rows(w) : s # s1 =>
              (att'[s].phase # "none" /\ Spent(s)' <=> att[s].phase # "none" /\ Spent(s))
        BY <1>2, <3>1
      <3>4. Spent(s1)' <=> Spent(s1)
        BY <1>2, <2>1
      <3>5. ReplayRows(w)' = {s \in Rows(w) : att'[s].phase # "none" /\ Spent(s)'}
        BY <2>1 DEF ReplayRows
      <3> QED
        BY <2>1, <3>2, <3>3, <3>4, <3>5 DEF ReplayRows
    <2>5. /\ used'[w]["operations"] = used[w]["operations"]
          /\ used'[w]["attempts"] = used[w]["attempts"] + 1
          /\ used'[w]["submissions"] = used[w]["submissions"]
          /\ Spent(s1) => used'[w]["replays"] = used[w]["replays"] + 1
          /\ ~Spent(s1) => used'[w]["replays"] = used[w]["replays"]
      BY <1>1, <1>4, ReservedAt DEF Dimension, Reserves
    <2>6. Counts(AttemptRows(w)', used'[w]["attempts"])
      BY <2>2, <2>5, OneMore DEF Counted
    <2>7. Counts(ReplayRows(w)', used'[w]["replays"])
      BY <2>4, <2>5, OneMore DEF Counted
    <2> QED
      BY <2>3, <2>5, <2>6, <2>7 DEF Counted
  <1> QED
    BY <1>3, <1>4

(* What an attempt reserves besides the dimensions of its recovery.        *)
AttemptDimensions(o, n) == {"attempts"} \cup (IF Spent(<<o, n>>) THEN {"replays"} ELSE {})

(* The transaction of an attempt reserves exactly these.                   *)
LEMMA AttemptReserves ==
  ASSUME NEW o, NEW n, NEW D, PrepareAttemptTx(o, n, D)
  PROVE  used' = Reserved(WorkflowOf[o], D \cup AttemptDimensions(o, n))
  <1> DEFINE E == D \cup {"attempts"}
                    \cup (IF n > 1 /\ Answered(att[<<o, n - 1>>]) THEN {"replays"} ELSE {})
  <1>1. used' = Reserved(WorkflowOf[o], E)
    BY Zenon DEF PrepareAttemptTx
  <1>2. E = D \cup AttemptDimensions(o, n)
    BY DEF AttemptDimensions, Spent
  <1> HIDE DEF E
  <1> QED
    BY <1>1, <1>2

(* The first attempt of an execution.                                      *)
LEMMA BeginAttemptCounted ==
  ASSUME Inv, NEW o \in Operation, BeginAttempt(o), NEW w \in Workflow, Counted(w)
  PROVE  Counted(w)'
  <1>1. 1 \in Ordinal /\ <<o, 1>> \in SubId /\ \A k \in Ordinal : k \in Nat /\ ~(k <= 0)
    BY SubIds, AttemptLimitAssumption DEF Ordinal
  <1>2. /\ exec[o].pc = "ready" /\ exec[o].next = 0 /\ op[o].status = "active"
        /\ op' = op /\ sub' = sub
        /\ att' = [att EXCEPT ![<<o, 1>>] = [NoAttempt EXCEPT !.phase = "prepared"]]
        /\ PrepareAttemptTx(o, 1, {})
    BY DEF BeginAttempt, PrepareAttemptTx
  <1>3. \A k \in Ordinal : att[<<o, k>>].phase = "none"
    BY <1>1, <1>2 DEF Inv, JournalInvariant, ExecutionMatchesRows, Deleted
  <1>4. att'[<<o, 1>>].phase = "prepared" /\ \A s \in SubId : s # <<o, 1>> => att'[s] = att[s]
    BY <1>1, <1>2 DEF Inv, TypeOK, NoAttempt
  <1>5. AttemptInserted(o, 1)
    BY <1>1, <1>2, <1>3, <1>4 DEF AttemptInserted, Answered
  <1>6. Reserves(o, 1, {} \cup AttemptDimensions(o, 1))
    BY <1>2, AttemptReserves DEF Reserves, AttemptDimensions, Spent
  <1> QED
    BY <1>1, <1>5, <1>6, AttemptCounted

(* A later attempt, with the recovery of the one before.                   *)
LEMMA RecoveryAttemptCounted ==
  ASSUME Inv, NEW o \in Operation, NEW plan \in Plan, PrepareRecoveryAttempt(o, plan),
         NEW w \in Workflow, Counted(w)
  PROVE  Counted(w)'
  <1> DEFINE n == exec[o].next
             s0 == <<o, n>>
             s1 == <<o, n + 1>>
             D == RecoveryDimension(plan.action) \cup (IF plan.waits THEN {"recovery_wait"} ELSE {})
             E == D \cup AttemptDimensions(o, n + 1)
  <1>1. /\ exec[o].pc = "ready" /\ n \in Ordinal /\ op[o].status = "active" /\ n + 1 <= AttemptLimit
        /\ sub' = sub /\ used' = Reserved(WorkflowOf[o], E)
        /\ att' = [att EXCEPT ![s0].recovery = plan.action,
                              ![s1] = [NoAttempt EXCEPT !.phase = "prepared"]]
        /\ op' = [op EXCEPT ![o].recovery = plan.action]
    <2>1. /\ exec[o].pc = "ready" /\ n \in Ordinal /\ op[o].status = "active" /\ n + 1 <= AttemptLimit
          /\ att' = [att EXCEPT ![s0].recovery = plan.action,
                                ![s1] = [NoAttempt EXCEPT !.phase = "prepared"]]
      BY Zenon DEF PrepareRecoveryAttempt, PrepareAttemptTx, RecoveryWithNext
    <2>2. PrepareAttemptTx(o, n + 1, D)
      BY Zenon DEF PrepareRecoveryAttempt
    <2> HIDE DEF D
    <2>3. used' = Reserved(WorkflowOf[o], E)
      BY <2>2, AttemptReserves
    <2>4. sub' = sub /\ op' = [op EXCEPT ![o].recovery = plan.action]
      BY DEF PrepareRecoveryAttempt
    <2> QED
      BY <2>1, <2>3, <2>4
  <1>2. n \in Nat /\ n >= 1 /\ n + 1 \in Ordinal /\ n + 1 > 1 /\ n + 1 - 1 = n
    BY <1>1, AttemptLimitAssumption DEF Ordinal
  <1>3. s0 \in SubId /\ s1 \in SubId /\ s0 # s1
    BY <1>1, <1>2, SubIds
  <1>4. \A k \in Ordinal : k > n => att[<<o, k>>].phase = "none"
    <2>1. \A k \in Ordinal : k > n => ~(k <= n)
      BY <1>2, SubIds
    <2> QED
      BY <1>1, <2>1 DEF Inv, JournalInvariant, ExecutionMatchesRows, Deleted
  <1>5. att[s0] \in AttemptRow /\ att \in [SubId -> AttemptRow]
    BY <1>3 DEF Inv, TypeOK
  <1>6. att'[s0].phase = att[s0].phase /\ (Answered(att'[s0]) <=> Answered(att[s0]))
    <2>1. att'[s0] = [att[s0] EXCEPT !.recovery = plan.action]
      BY <1>1, <1>3, <1>5
    <2>2. \A a \in AttemptRow : /\ [a EXCEPT !.recovery = plan.action].phase = a.phase
                                /\ [a EXCEPT !.recovery = plan.action].network = a.network
                                /\ [a EXCEPT !.recovery = plan.action].event = a.event
      BY DEF AttemptRow
    <2> QED
      BY <1>5, <2>1, <2>2 DEF Answered
  <1>7. /\ att'[s1].phase = "prepared"
        /\ \A s \in SubId : s # s0 /\ s # s1 => att'[s] = att[s]
    BY <1>1, <1>3, <1>5 DEF NoAttempt
  <1>8. \A p \in Operation : op'[p].status = op[p].status
    <2>1. \A x \in OperationRow : [x EXCEPT !.recovery = plan.action].status = x.status
      BY DEF OperationRow
    <2> QED
      BY <1>1, <2>1 DEF Inv, TypeOK
  <1>9. AttemptInserted(o, n + 1)
    <2>1. \A s \in SubId : s # s1 =>
            /\ att'[s].phase = "none" <=> att[s].phase = "none"
            /\ Answered(att[s])' <=> Answered(att[s])
      BY <1>6, <1>7 DEF Answered
    <2>2. \A k \in Ordinal : k > n + 1 => att[<<o, k>>].phase = "none"
      BY <1>2, <1>4, SubIds
    <2>3. att[s1].phase = "none"
      BY <1>2, <1>4
    <2> QED
      BY <1>1, <1>7, <1>8, <2>1, <2>2, <2>3 DEF AttemptInserted
  <1>10. Reserves(o, n + 1, E)
    <2>1. /\ "operations" \notin D /\ "submissions" \notin D /\ "replays" \notin D
      BY DEF RecoveryDimension
    <2> HIDE DEF D
    <2> QED
      BY <1>1, <2>1, Zenon DEF Reserves, AttemptDimensions
  <1> HIDE DEF E
  <1> QED
    BY <1>2, <1>9, <1>10, AttemptCounted

-----------------------------------------------------------------------------
(* Every step of the journal keeps the counters.                           *)
LEMMA NextCounted == Inv /\ AllCounted /\ [Next]_vars => AllCounted'
  <1> SUFFICES ASSUME Inv, AllCounted, [Next]_vars, NEW w \in Workflow, Whole(w)'
               PROVE  Counted(w)'
    BY DEF AllCounted
  <1>0. Counted(w)
    BY WholeWasWhole DEF AllCounted
  <1>1. UNCHANGED <<used, op, att, sub>> => NothingNew(w)
    BY DEF NothingNew, Spent
  <1>2. CASE UNCHANGED vars \/ RetentionPasses
             \/ \E x \in Workflow, outcome \in Completed : CompleteWorkflow(x, outcome)
    BY <1>0, <1>1, <1>2, NothingNewCounted DEF vars, RetentionPasses, CompleteWorkflow, rowVars
  <1>3. ASSUME NEW r \in Runtime, RuntimeStep(r) PROVE Counted(w)'
    <2>1. CASE FlusherLand(r)
      BY <1>0, <2>1, LandAddsNothing, NothingNewCounted
    <2>2. CASE BootReconcile(r) \/ Maintain(r)
      BY <1>0, <1>1, <2>2, ReconcileAddsNothing, NothingNewCounted DEF BootReconcile, Maintain, rowVars
    <2>3. CASE PruneOperations(r)
      BY <1>0, <2>3, PruneAddsNothing, NothingNewCounted
    <2>4. CASE PruneWorkflows(r)
      BY <1>0, <1>1, <2>4, NothingNewCounted DEF PruneWorkflows
    <2> QED
      BY <1>0, <1>1, <1>3, <2>1, <2>2, <2>3, <2>4, NothingNewCounted
      DEF RuntimeStep, NewRuntime, StartServer, CloseServer, Heartbeat, HeartbeatLapse, BeginClose,
          FinishClose, Crash, ReusePid, FlusherClaim, FlusherDrop, rowVars
  <1>4. ASSUME NEW o \in Operation, ExecutionStep(o) PROVE Counted(w)'
    <2>1. CASE \E r \in Runtime : PrepareOperation(r, o)
      BY <1>0, <2>1, PrepareOperationCounted
    <2>2. CASE BeginAttempt(o) \/ \E plan \in Plan : PrepareRecoveryAttempt(o, plan)
      BY <1>0, <2>2, BeginAttemptCounted, RecoveryAttemptCounted
    <2>3. CASE \E seed \in Seeds : RecordSubmission(o, seed)
      BY <1>0, <2>3, RecordSubmissionCounted
    <2>4. CASE MarkFirstEvent(o) \/ CompleteAttempt(o) \/ CompleteOperation(o)
      BY <1>0, <2>4, CurrentAddsNothing, CompleteAddsNothing, NothingNewCounted
    <2>5. CASE BarrierLand(o)
      BY <1>0, <2>5, LandAddsNothing, NothingNewCounted
    <2> QED
      BY <1>0, <1>1, <1>4, <2>1, <2>2, <2>3, <2>4, <2>5, NothingNewCounted
      DEF ExecutionStep, Send, UpdateSubmission, Enqueue, BeginCompleteAttempt, BeginCompleteOperation,
          StartBarrier, BarrierDrop, JournalFault, rowVars
  <1> QED
    BY <1>2, <1>3, <1>4 DEF Next

(* In every reachable state the counters of a workflow that lost no row    *)
(* are the numbers of its rows, for any limits: each row was reserved in   *)
(* its own transaction, once, and a replay only if an answer preceded it.  *)
(* (reserveWorkflowCounterTx, prepareAttemptTx)                            *)
THEOREM CountersAreRows == Spec => []CountersMatchRows
  <1>1. Init => Inv /\ AllCounted
    BY InitInv, InitCounted
  <1>2. (Inv /\ AllCounted) /\ [Next]_vars => (Inv /\ AllCounted)'
    BY NextInv, NextCounted
  <1>3. Inv /\ AllCounted => CountersMatchRows
    BY DEF AllCounted, Counted, Counts, OperationRows, AttemptRows, SubmissionRows, ReplayRows,
           Spent, CountersMatchRows
  <1> QED
    BY <1>1, <1>2, <1>3, PTL DEF Spec

-----------------------------------------------------------------------------
(* Sums over finite sets: each induction takes a least counterexample.     *)

(* The element the sum of s takes first.                                   *)
Pick(s) == CHOOSE x \in s : TRUE

(* g sums f over the sets of D.                                            *)
Sums(f, g, D) == g = [s \in D |-> IF s = {} THEN 0 ELSE f[Pick(s)] + g[s \ {Pick(s)}]]

(* The subsets of S with at most n elements.                               *)
UpTo(S, n) == {s \in SUBSET S : Cardinality(s) <= n}

(* The element taken is one of the set, and what is left is smaller.       *)
LEMMA PickFacts ==
  ASSUME NEW S, IsFiniteSet(S), NEW s \in SUBSET S, s # {}
  PROVE  /\ Pick(s) \in s /\ s \ {Pick(s)} \in SUBSET S /\ s \ {Pick(s)} # s
         /\ Cardinality(s \ {Pick(s)}) = Cardinality(s) - 1
         /\ Cardinality(s) \in Nat
<1>1. Pick(s) \in s
  BY DEF Pick
<1>2. IsFiniteSet(s)
  BY FS_Subset
<1> QED
  BY <1>1, <1>2, FS_RemoveElement, FS_CardinalityType

(* A set of numbers that is not empty has a least one.                     *)
LEMMA LeastNumber ==
  ASSUME NEW T \in SUBSET Nat, T # {}
  PROVE  \E n \in T : \A m \in T : ~(m < n)
<1>1. \E n \in T : \A m \in T : <<m, n>> \notin OpToRel(<, Nat)
  BY NatLessThanWellFounded, WFMin
<1> QED
  BY <1>1 DEF OpToRel

(* A family of subsets of a finite set that is not empty has a least one.  *)
LEMMA LeastSet ==
  ASSUME NEW S, IsFiniteSet(S), NEW T \in SUBSET SUBSET S, T # {}
  PROVE  \E s \in T : \A t \in T : t \subseteq s => t = s
<1>1. IsWellFoundedOn(StrictSubsetOrdering(S), SUBSET S)
  BY FS_StrictSubsetOrderingWellFounded, FS_FiniteSubsetsOfFinite
<1>2. \E s \in T : \A t \in T : <<t, s>> \notin StrictSubsetOrdering(S)
  BY <1>1, WFMin
<1> QED
  BY <1>2 DEF StrictSubsetOrdering

(* The recursion has a solution for the sets of any size.                  *)
LEMMA SumsUpTo ==
  ASSUME NEW f, NEW S, IsFiniteSet(S), NEW n \in Nat
  PROVE  \E g : Sums(f, g, UpTo(S, n))
<1> DEFINE T == {k \in Nat : ~\E g : Sums(f, g, UpTo(S, k))}
<1>1. ASSUME T # {} PROVE FALSE
  <2>1. PICK k \in T : \A m \in T : ~(m < k)
    BY <1>1, LeastNumber
  <2>2. CASE k = 0
    <3> DEFINE g == [s \in UpTo(S, 0) |-> 0]
    <3>1. ASSUME NEW s \in UpTo(S, 0) PROVE s = {}
      <4>1. s \in SUBSET S /\ IsFiniteSet(s) /\ Cardinality(s) <= 0
        BY FS_Subset DEF UpTo
      <4>2. Cardinality(s) \in Nat
        BY <4>1, FS_CardinalityType
      <4> QED
        BY <4>1, <4>2, FS_EmptySet
    <3>2. Sums(f, g, UpTo(S, 0))
      BY <3>1 DEF Sums
    <3> QED
      BY <2>1, <2>2, <3>2
  <2>3. CASE k # 0
    <3>1. k - 1 \in Nat /\ k - 1 \notin T
      BY <2>1, <2>3
    <3>2. PICK g : Sums(f, g, UpTo(S, k - 1))
      BY <3>1
    <3> DEFINE h == [s \in UpTo(S, k) |-> IF s = {} THEN 0 ELSE f[Pick(s)] + g[s \ {Pick(s)}]]
    <3>3. ASSUME NEW s \in UpTo(S, k), s # {} PROVE h[s \ {Pick(s)}] = g[s \ {Pick(s)}]
      <4> DEFINE u == s \ {Pick(s)}
      <4>1. u \in UpTo(S, k) /\ u \in UpTo(S, k - 1)
        BY <3>3, PickFacts DEF UpTo
      <4>2. h[u] = IF u = {} THEN 0 ELSE f[Pick(u)] + g[u \ {Pick(u)}]
        BY <4>1
      <4>3. g[u] = IF u = {} THEN 0 ELSE f[Pick(u)] + g[u \ {Pick(u)}]
        BY <3>2, <4>1 DEF Sums
      <4> QED
        BY <4>2, <4>3
    <3>4. Sums(f, h, UpTo(S, k))
      BY <3>3 DEF Sums
    <3> QED
      BY <2>1, <3>4
  <2> QED
    BY <2>2, <2>3
<1> QED
  BY <1>1

(* All partial sums of f over S.                                           *)
Partial(f, S) == CHOOSE g : Sums(f, g, SUBSET S)

(* What Partial is for: it starts at 0, adds one term at a time and ends    *)
(* with the sum.                                                           *)
SumsUp(f, S) ==
  /\ SumFunctionOnSet(f, S) = Partial(f, S)[S]
  /\ Partial(f, S)[{}] = 0
  /\ \A s \in SUBSET S : s # {} =>
       Partial(f, S)[s] = f[Pick(s)] + Partial(f, S)[s \ {Pick(s)}]

(* The sum is the last of the partial sums, which obey the recursion.      *)
LEMMA PartialSums ==
  ASSUME NEW f, NEW S, IsFiniteSet(S)
  PROVE  SumsUp(f, S)
<1>1. SumFunctionOnSet(f, S) = Partial(f, S)[S]
  BY DEF SumFunctionOnSet, FoldFunctionOnSet, MapThenFoldSet, Partial, Sums, Pick
<1>2. UpTo(S, Cardinality(S)) = SUBSET S /\ Cardinality(S) \in Nat
  BY FS_Subset, FS_CardinalityType DEF UpTo
<1>3. \E g : Sums(f, g, UpTo(S, Cardinality(S)))
  BY <1>2, SumsUpTo
<1>4. Sums(f, Partial(f, S), SUBSET S)
  BY <1>2, <1>3 DEF Partial
<1> QED
  BY <1>1, <1>4 DEF Sums, SumsUp

(* A sum of differences is the difference of the sums.                     *)
LEMMA SumDifference ==
  ASSUME NEW S, IsFiniteSet(S), NEW f \in [S -> Int], NEW g \in [S -> Int], NEW d \in [S -> Int],
         \A x \in S : d[x] = g[x] - f[x]
  PROVE  /\ SumFunctionOnSet(f, S) \in Int /\ SumFunctionOnSet(d, S) \in Int
         /\ SumFunctionOnSet(g, S) = SumFunctionOnSet(f, S) + SumFunctionOnSet(d, S)
<1> DEFINE F == Partial(f, S)  G == Partial(g, S)  D == Partial(d, S)
           Good(s) == F[s] \in Int /\ D[s] \in Int /\ G[s] = F[s] + D[s]
           T == {s \in SUBSET S : ~Good(s)}
<1>0. /\ F[{}] = 0 /\ G[{}] = 0 /\ D[{}] = 0
      /\ \A s \in SUBSET S : s # {} => F[s] = f[Pick(s)] + F[s \ {Pick(s)}]
      /\ \A s \in SUBSET S : s # {} => G[s] = g[Pick(s)] + G[s \ {Pick(s)}]
      /\ \A s \in SUBSET S : s # {} => D[s] = d[Pick(s)] + D[s \ {Pick(s)}]
      /\ SumFunctionOnSet(f, S) = F[S] /\ SumFunctionOnSet(g, S) = G[S] /\ SumFunctionOnSet(d, S) = D[S]
  <2>1. SumsUp(f, S) /\ SumsUp(g, S) /\ SumsUp(d, S)
    BY PartialSums
  <2> QED
    BY <2>1 DEF SumsUp
<1>1. ASSUME T # {} PROVE FALSE
  <2>0. T \in SUBSET SUBSET S
    OBVIOUS
  <2>1. PICK s \in T : \A t \in T : t \subseteq s => t = s
    <3> HIDE DEF T
    <3> QED
      BY <1>1, <2>0, LeastSet
  <2>2. CASE s = {}
    BY <1>0, <2>1, <2>2
  <2>3. CASE s # {}
    <3> DEFINE u == s \ {Pick(s)}
    <3>1. Pick(s) \in S /\ u \in SUBSET S /\ u \subseteq s /\ u # s
      BY <2>1, <2>3, PickFacts
    <3>2. Good(u)
      BY <2>1, <3>1
    <3>3. /\ F[s] = f[Pick(s)] + F[u] /\ G[s] = g[Pick(s)] + G[u] /\ D[s] = d[Pick(s)] + D[u]
      BY <1>0, <2>1, <2>3
    <3>4. f[Pick(s)] \in Int /\ g[Pick(s)] \in Int /\ d[Pick(s)] \in Int /\ d[Pick(s)] = g[Pick(s)] - f[Pick(s)]
      BY <3>1
    <3> HIDE DEF u, F, G, D
    <3>5. Good(s)
      BY <3>2, <3>3, <3>4
    <3> QED
      BY <2>1, <3>5
  <2> QED
    BY <2>2, <2>3
<1>2. Good(S)
  BY <1>1
<1> QED
  BY <1>0, <1>2

(* A sum of numbers none of which is negative is not, and is zero only if  *)
(* all of them are.                                                        *)
LEMMA SumOfNaturals ==
  ASSUME NEW S, IsFiniteSet(S), NEW f \in [S -> Nat]
  PROVE  /\ SumFunctionOnSet(f, S) \in Nat
         /\ SumFunctionOnSet(f, S) = 0 <=> \A x \in S : f[x] = 0
<1> DEFINE F == Partial(f, S)
           Good(s) == F[s] \in Nat /\ (F[s] = 0 <=> \A x \in s : f[x] = 0)
           T == {s \in SUBSET S : ~Good(s)}
<1>0. /\ F[{}] = 0 /\ SumFunctionOnSet(f, S) = F[S]
      /\ \A s \in SUBSET S : s # {} => F[s] = f[Pick(s)] + F[s \ {Pick(s)}]
  <2>1. SumsUp(f, S)
    BY PartialSums
  <2> QED
    BY <2>1 DEF SumsUp
<1>1. ASSUME T # {} PROVE FALSE
  <2>0. T \in SUBSET SUBSET S
    OBVIOUS
  <2>1. PICK s \in T : \A t \in T : t \subseteq s => t = s
    <3> HIDE DEF T
    <3> QED
      BY <1>1, <2>0, LeastSet
  <2>2. CASE s = {}
    BY <1>0, <2>1, <2>2
  <2>3. CASE s # {}
    <3> DEFINE u == s \ {Pick(s)}
    <3>1. Pick(s) \in S /\ u \in SUBSET S /\ u \subseteq s /\ u # s /\ Pick(s) \in s
      BY <2>1, <2>3, PickFacts
    <3>2. Good(u)
      BY <2>1, <3>1
    <3>3. F[s] = f[Pick(s)] + F[u]
      BY <1>0, <2>1, <2>3
    <3>4. f[Pick(s)] \in Nat
      BY <3>1
    <3>5. (\A x \in s : f[x] = 0) <=> f[Pick(s)] = 0 /\ \A x \in u : f[x] = 0
      BY <3>1
    <3> HIDE DEF u, F
    <3>6. Good(s)
      BY <3>2, <3>3, <3>4, <3>5
    <3> QED
      BY <2>1, <3>6
  <2> QED
    BY <2>2, <2>3
<1>2. Good(S)
  BY <1>1
<1> QED
  BY <1>0, <1>2

-----------------------------------------------------------------------------
(* The cost columns of a workflow are the sums over its submission rows.   *)

(* What each row of w adds to column c.                                    *)
Costs(w, c) == [s \in Rows(w) |-> Contribution(sub[s])[c]]

(* Rows that Prune deleted stay paid for.                                  *)
Paid(w) ==
  \A c \in CostColumn :
    /\ SumFunction(Costs(w, c)) <= ledger[w][c]
    /\ Whole(w) => ledger[w][c] = SumFunction(Costs(w, c))

LedgerInv ==
  /\ ledger \in [Workflow -> [CostColumn -> Int]]
  /\ \A w \in Workflow : Paid(w)

(* A row adds a natural number to each column, and no row adds nothing.    *)
LEMMA ContributionNat ==
  ASSUME NEW x \in Submission \cup {NoSub}, NEW c \in CostColumn
  PROVE  /\ Contribution(x)[c] \in Nat
         /\ Contribution(NoSub)[c] = 0
         /\ x # NoSub /\ x.cost = "unknown" => Contribution(x)["unknown"] = 1
<1>1. x = NoSub \/ (x \in Submission /\ x.outcome # "none")
  BY DEF Submission, SubOutcome, Completed
<1>2. NoSub.outcome = "none" /\ NoSub.rep = 0
  BY DEF NoSub
<1>3. Contribution(NoSub)[c] = 0
  BY <1>2 DEF Contribution
<1>4. ASSUME x \in Submission, x.outcome # "none" PROVE Contribution(x)[c] \in Nat
  BY <1>4 DEF Contribution, Submission
<1>5. ASSUME x \in Submission, x.outcome # "none", x.cost = "unknown" PROVE Contribution(x)["unknown"] = 1
  BY <1>5 DEF Contribution, CostColumn
<1> QED
  BY <1>1, <1>3, <1>4, <1>5

(* The rows of a workflow are finitely many (newInferenceID).              *)
LEMMA FiniteRows ==
  ASSUME NEW w PROVE IsFiniteSet(Rows(w))
<1>1. IsFiniteSet(Ordinal)
  BY AttemptLimitAssumption, FS_Interval DEF Ordinal
<1>2. IsFiniteSet(SubId)
  BY <1>1, OperationAssumption, FS_Product DEF SubId
<1> QED
  BY <1>2, FS_Subset DEF Rows

(* The costs of the rows, as functions.                                    *)
LEMMA CostsTyped ==
  ASSUME TypeOK, NEW w, NEW c \in CostColumn
  PROVE  /\ Costs(w, c) \in [Rows(w) -> Nat]
         /\ SumFunction(Costs(w, c)) = SumFunctionOnSet(Costs(w, c), Rows(w))
         /\ SumFunction(Costs(w, c)) \in Nat
<1>1. \A s \in Rows(w) : sub[s] \in Submission \cup {NoSub}
  BY DEF TypeOK, Rows
<1>2. Costs(w, c) \in [Rows(w) -> Nat]
  BY <1>1, ContributionNat DEF Costs
<1>3. SumFunction(Costs(w, c)) = SumFunctionOnSet(Costs(w, c), Rows(w))
  BY DEF SumFunction, Costs
<1> QED
  BY <1>2, <1>3, FiniteRows, SumOfNaturals

(* The same after a step.                                                  *)
LEMMA CostsTypedNext ==
  ASSUME TypeOK', NEW w, NEW c \in CostColumn
  PROVE  /\ Costs(w, c)' = [s \in Rows(w) |-> Contribution(sub'[s])[c]]
         /\ Costs(w, c)' \in [Rows(w) -> Nat]
         /\ SumFunction(Costs(w, c))' = SumFunctionOnSet(Costs(w, c)', Rows(w))
         /\ SumFunction(Costs(w, c))' \in Nat
<1>1. \A s \in Rows(w) : sub'[s] \in Submission \cup {NoSub}
  BY DEF TypeOK, Rows
<1>2. Costs(w, c)' = [s \in Rows(w) |-> Contribution(sub'[s])[c]]
  BY DEF Costs, Rows, Contribution
<1>3. Costs(w, c)' \in [Rows(w) -> Nat]
  BY <1>1, <1>2, ContributionNat
<1>4. SumFunction(Costs(w, c))' = SumFunctionOnSet(Costs(w, c)', Rows(w))
  BY <1>2 DEF SumFunction
<1> QED
  BY <1>2, <1>3, <1>4, FiniteRows, SumOfNaturals

(* By how much the sums change is the sum of what the rows change.         *)
LEMMA CostsDiffer ==
  ASSUME TypeOK, TypeOK', NEW w, NEW c \in CostColumn
  PROVE  LET d == [s \in Rows(w) |-> Contribution(sub'[s])[c] - Contribution(sub[s])[c]] IN
         /\ SumFunction(d) = SumFunctionOnSet(d, Rows(w)) /\ SumFunction(d) \in Int
         /\ SumFunction(Costs(w, c))' = SumFunction(Costs(w, c)) + SumFunction(d)
<1> DEFINE d == [s \in Rows(w) |-> Contribution(sub'[s])[c] - Contribution(sub[s])[c]]
           f == Costs(w, c)
           g == [s \in Rows(w) |-> Contribution(sub'[s])[c]]
<1>1. /\ f \in [Rows(w) -> Nat] /\ SumFunction(f) = SumFunctionOnSet(f, Rows(w))
      /\ \A s \in Rows(w) : f[s] = Contribution(sub[s])[c]
  BY CostsTyped DEF Costs
<1>2. /\ g \in [Rows(w) -> Nat] /\ SumFunction(Costs(w, c))' = SumFunctionOnSet(g, Rows(w))
  BY CostsTypedNext
<1>3. \A s \in Rows(w) : f[s] \in Int /\ g[s] \in Int /\ d[s] = g[s] - f[s]
  BY <1>1, <1>2
<1>4. f \in [Rows(w) -> Int] /\ g \in [Rows(w) -> Int]
  BY <1>1, <1>2
<1>5. d \in [Rows(w) -> Int]
  BY <1>3
<1>6. SumFunction(d) = SumFunctionOnSet(d, Rows(w))
  BY DEF SumFunction
<1> HIDE DEF d, f, g
<1>7. /\ SumFunctionOnSet(f, Rows(w)) \in Int /\ SumFunctionOnSet(d, Rows(w)) \in Int
      /\ SumFunctionOnSet(g, Rows(w)) = SumFunctionOnSet(f, Rows(w)) + SumFunctionOnSet(d, Rows(w))
  BY <1>3, <1>4, <1>5, FiniteRows, SumDifference
<1>8. /\ SumFunction(d) \in Int
      /\ SumFunction(Costs(w, c))' = SumFunction(f) + SumFunction(d)
  BY <1>1, <1>2, <1>6, <1>7
<1> QED
  BY <1>6, <1>8 DEF d, f

(* A transaction that writes rows books the difference.                    *)
LEMMA BookedKeepsLedger ==
  ASSUME TypeOK, TypeOK', LedgerInv, ledger' = LedgerAfter(sub'),
         \A w \in Workflow : Whole(w)' => Whole(w)
  PROVE  LedgerInv'
<1> DEFINE d(w, c) == [s \in Rows(w) |-> Contribution(sub'[s])[c] - Contribution(sub[s])[c]]
<1>1. ASSUME NEW w \in Workflow, NEW c \in CostColumn
      PROVE  /\ ledger'[w][c] = ledger[w][c] + SumFunction(d(w, c))
             /\ SumFunction(d(w, c)) \in Int
             /\ SumFunction(Costs(w, c))' = SumFunction(Costs(w, c)) + SumFunction(d(w, c))
             /\ SumFunction(Costs(w, c)) \in Nat /\ ledger[w][c] \in Int
  <2>1. /\ SumFunction(d(w, c)) \in Int
        /\ SumFunction(Costs(w, c))' = SumFunction(Costs(w, c)) + SumFunction(d(w, c))
    BY CostsDiffer
  <2>2. SumFunction(Costs(w, c)) \in Nat
    BY CostsTyped
  <2>3. ledger'[w][c] = ledger[w][c] + SumFunction(d(w, c))
    BY DEF LedgerAfter
  <2> QED
    BY <2>1, <2>2, <2>3 DEF LedgerInv
<1>2. ledger' \in [Workflow -> [CostColumn -> Int]]
  <2>1. ledger' = [w \in Workflow |-> [c \in CostColumn |-> ledger[w][c] + SumFunction(d(w, c))]]
    BY DEF LedgerAfter
  <2> HIDE DEF d
  <2> QED
    BY <1>1, <2>1
<1> HIDE DEF d
<1>3. ASSUME NEW w \in Workflow PROVE Paid(w)'
  <2>1. ASSUME NEW c \in CostColumn
        PROVE  /\ SumFunction(Costs(w, c))' <= ledger'[w][c]
               /\ Whole(w)' => ledger'[w][c] = SumFunction(Costs(w, c))'
    <3>1. /\ SumFunction(Costs(w, c)) <= ledger[w][c]
          /\ Whole(w)' => ledger[w][c] = SumFunction(Costs(w, c))
      BY DEF LedgerInv, Paid
    <3> QED
      BY <1>1, <3>1
  <2> QED
    BY <2>1 DEF Paid
<1> QED
  BY <1>2, <1>3 DEF LedgerInv

(* A step that books nothing raises the cost of no row, and lowers it only *)
(* of a workflow that is not whole then.                                   *)
LEMMA UnbookedKeepsLedger ==
  ASSUME TypeOK, TypeOK', LedgerInv, ledger' = ledger,
         \A w \in Workflow : Whole(w)' => Whole(w),
         \A w \in Workflow : \A s \in Rows(w) : \A c \in CostColumn :
           /\ Contribution(sub'[s])[c] <= Contribution(sub[s])[c]
           /\ Whole(w)' => Contribution(sub'[s])[c] = Contribution(sub[s])[c]
  PROVE  LedgerInv'
<1>1. ASSUME NEW w \in Workflow, NEW c \in CostColumn
      PROVE  /\ SumFunction(Costs(w, c))' <= ledger'[w][c]
             /\ Whole(w)' => ledger'[w][c] = SumFunction(Costs(w, c))'
  <2> DEFINE f == Costs(w, c)
             g == [s \in Rows(w) |-> Contribution(sub'[s])[c]]
             d == [s \in Rows(w) |-> f[s] - g[s]]
  <2>1. /\ f \in [Rows(w) -> Nat] /\ SumFunction(f) = SumFunctionOnSet(f, Rows(w))
        /\ f = [s \in Rows(w) |-> Contribution(sub[s])[c]]
    BY CostsTyped DEF Costs
  <2>2. /\ g \in [Rows(w) -> Nat] /\ SumFunction(Costs(w, c))' = SumFunctionOnSet(g, Rows(w))
    BY CostsTypedNext
  <2>3. \A s \in Rows(w) : f[s] \in Nat /\ g[s] \in Nat /\ g[s] <= f[s] /\ d[s] = f[s] - g[s]
    BY <2>1, <2>2
  <2>4. f \in [Rows(w) -> Int] /\ g \in [Rows(w) -> Int]
    BY <2>1, <2>2
  <2>5. d \in [Rows(w) -> Nat] /\ d \in [Rows(w) -> Int]
    BY <2>3
  <2>6. Whole(w)' => f = g
    BY <2>1
  <2>7. /\ SumFunction(f) <= ledger[w][c] /\ ledger[w][c] \in Int
        /\ Whole(w)' => ledger[w][c] = SumFunction(f)
    BY DEF LedgerInv, Paid
  <2> HIDE DEF f, g, d
  <2>8. /\ SumFunctionOnSet(g, Rows(w)) \in Int /\ SumFunctionOnSet(d, Rows(w)) \in Int
        /\ SumFunctionOnSet(f, Rows(w)) = SumFunctionOnSet(g, Rows(w)) + SumFunctionOnSet(d, Rows(w))
    BY <2>3, <2>4, <2>5, FiniteRows, SumDifference
  <2>9. SumFunctionOnSet(d, Rows(w)) \in Nat
    BY <2>5, FiniteRows, SumOfNaturals
  <2> QED
    BY <2>1, <2>2, <2>6, <2>7, <2>8, <2>9
<1>2. ledger' \in [Workflow -> [CostColumn -> Int]]
  BY DEF LedgerInv
<1> QED
  BY <1>1, <1>2 DEF LedgerInv, Paid

(* A settled submission costs what it did.                                 *)
LEMMA SettledCosts ==
  ASSUME TypeOK, NEW r \in Runtime, NEW s \in SubId, NEW c \in CostColumn
  PROVE  Contribution(SettledSubmission(r, s))[c] = Contribution(sub[s])[c]
<1> DEFINE o == IF Verdict(s[1]).status = "abandoned" THEN "abandoned" ELSE "interrupted"
           y == [sub[s] EXCEPT !.outcome = o]
<1>1. o # "none"
  OBVIOUS
<1>2. CASE sub[s].outcome # "in_flight" \/ s[1] \notin OrphanOperations(r)
  BY <1>2 DEF SettledSubmission
<1>3. CASE sub[s].outcome = "in_flight" /\ s[1] \in OrphanOperations(r)
  <2>1. SettledSubmission(r, s) = y
    BY <1>3 DEF SettledSubmission
  <2>2. sub[s] \in Submission
    BY <1>3 DEF TypeOK, NoSub
  <2> HIDE DEF o
  <2>3. /\ y.outcome = o /\ y.cost = sub[s].cost /\ y.rep = sub[s].rep
        /\ y.seed = sub[s].seed /\ y.out = sub[s].out
    BY <2>2 DEF Submission
  <2> HIDE DEF y
  <2> QED
    BY <1>1, <1>3, <2>1, <2>3 DEF Contribution
<1> QED
  BY <1>2, <1>3

(* The recovery books nothing, and changes no cost.                        *)
LEMMA ReconcileKeepsLedger ==
  ASSUME Inv, TypeOK', LedgerInv, NEW r \in Runtime, ReconcileOrphans(r),
         \A w \in Workflow : Whole(w)' => Whole(w)
  PROVE  LedgerInv'
<1>1. ledger' = ledger /\ sub' = [s \in SubId |-> SettledSubmission(r, s)]
  BY DEF ReconcileOrphans
<1>2. ASSUME NEW w \in Workflow, NEW s \in Rows(w), NEW c \in CostColumn
      PROVE  /\ Contribution(sub'[s])[c] = Contribution(sub[s])[c]
             /\ Contribution(sub[s])[c] \in Nat
  <2>1. s \in SubId /\ sub'[s] = SettledSubmission(r, s)
    BY <1>1 DEF Rows
  <2>2. sub[s] \in Submission \cup {NoSub}
    BY <2>1 DEF Inv, TypeOK
  <2> QED
    BY <2>1, <2>2, SettledCosts, ContributionNat DEF Inv
<1>3. \A w \in Workflow : \A s \in Rows(w) : \A c \in CostColumn :
        /\ Contribution(sub'[s])[c] <= Contribution(sub[s])[c]
        /\ Whole(w)' => Contribution(sub'[s])[c] = Contribution(sub[s])[c]
  BY <1>2
<1> QED
  BY <1>1, <1>3, UnbookedKeepsLedger DEF Inv

(* What Prune deletes stays booked.                                        *)
LEMMA PruneKeepsLedger ==
  ASSUME Inv, TypeOK', LedgerInv, NEW r \in Runtime, PruneOperations(r),
         \A w \in Workflow : Whole(w)' => Whole(w)
  PROVE  LedgerInv'
<1>1. ledger' = ledger /\ sub' = [s \in SubId |-> IF s[1] \in aged THEN NoSub ELSE sub[s]]
  BY DEF PruneOperations
<1>2. ASSUME NEW w \in Workflow, NEW s \in Rows(w), NEW c \in CostColumn
      PROVE  /\ Contribution(sub'[s])[c] <= Contribution(sub[s])[c]
             /\ Whole(w)' => Contribution(sub'[s])[c] = Contribution(sub[s])[c]
  <2>1. s \in SubId /\ s[1] \in Operation /\ WorkflowOf[s[1]] = w
    BY RowIds
  <2>2. sub[s] \in Submission \cup {NoSub}
    BY <2>1 DEF Inv, TypeOK
  <2>3. Contribution(sub[s])[c] \in Nat /\ Contribution(NoSub)[c] = 0
    BY <2>2, ContributionNat
  <2>4. CASE s[1] \in aged
    <3>1. op[s[1]] \in OperationRow /\ op'[s[1]] = [op[s[1]] EXCEPT !.status = "pruned"]
      BY <2>1, <2>4 DEF PruneOperations, Inv, TypeOK
    <3>2. op'[s[1]].status = "pruned"
      BY <3>1 DEF OperationRow
    <3>3. ~Whole(w)'
      BY <2>1, <3>2 DEF Whole
    <3>4. sub'[s] = NoSub
      BY <1>1, <2>1, <2>4
    <3> QED
      BY <2>3, <3>3, <3>4
  <2>5. CASE s[1] \notin aged
    <3>1. sub'[s] = sub[s]
      BY <1>1, <2>1, <2>5
    <3> QED
      BY <2>3, <3>1
  <2> QED
    BY <2>4, <2>5
<1>3. \A w \in Workflow : \A s \in Rows(w) : \A c \in CostColumn :
        /\ Contribution(sub'[s])[c] <= Contribution(sub[s])[c]
        /\ Whole(w)' => Contribution(sub'[s])[c] = Contribution(sub[s])[c]
  BY <1>2
<1> QED
  BY <1>1, <1>3, UnbookedKeepsLedger DEF Inv

(* Every step of the journal keeps the books.                              *)
LEMMA NextLedger == Inv /\ LedgerInv /\ [Next]_vars => LedgerInv'
<1> SUFFICES ASSUME Inv, LedgerInv, [Next]_vars PROVE LedgerInv'
  OBVIOUS
<1>0. Inv' /\ TypeOK /\ TypeOK' /\ \A w \in Workflow : Whole(w)' => Whole(w)
  BY NextInv, WholeWasWhole DEF Inv
<1>1. ASSUME UNCHANGED <<ledger, sub>> PROVE LedgerInv'
  <2>1. ASSUME NEW w \in Workflow, NEW s \in Rows(w), NEW c \in CostColumn
        PROVE  /\ Contribution(sub'[s])[c] = Contribution(sub[s])[c]
               /\ Contribution(sub[s])[c] \in Nat
    <3>1. sub[s] \in Submission \cup {NoSub}
      BY <1>0 DEF TypeOK, Rows
    <3> QED
      BY <1>1, <3>1, ContributionNat
  <2>2. \A w \in Workflow : \A s \in Rows(w) : \A c \in CostColumn :
          /\ Contribution(sub'[s])[c] <= Contribution(sub[s])[c]
          /\ Whole(w)' => Contribution(sub'[s])[c] = Contribution(sub[s])[c]
    BY <2>1
  <2> QED
    BY <1>0, <1>1, <2>2, UnbookedKeepsLedger
<1>2. ASSUME NEW b, WriteBatch(b) PROVE LedgerInv'
  <2>1. ledger' = LedgerAfter(sub')
    BY <1>2 DEF WriteBatch
  <2> QED
    BY <1>0, <2>1, BookedKeepsLedger
<1>3. CASE UNCHANGED vars \/ RetentionPasses
           \/ \E x \in Workflow, outcome \in Completed : CompleteWorkflow(x, outcome)
  BY <1>1, <1>3 DEF vars, RetentionPasses, CompleteWorkflow, rowVars
<1>4. ASSUME NEW r \in Runtime, RuntimeStep(r) PROVE LedgerInv'
  <2>1. CASE FlusherLand(r)
    BY <1>2, <2>1 DEF FlusherLand
  <2>2. CASE BootReconcile(r) \/ Maintain(r)
    BY <1>0, <1>1, <2>2, ReconcileKeepsLedger DEF BootReconcile, Maintain, rowVars
  <2>3. CASE PruneOperations(r)
    BY <1>0, <2>3, PruneKeepsLedger
  <2> QED
    BY <1>1, <1>4, <2>1, <2>2, <2>3
    DEF RuntimeStep, NewRuntime, StartServer, CloseServer, Heartbeat, HeartbeatLapse, BeginClose,
        FinishClose, Crash, ReusePid, FlusherClaim, FlusherDrop, PruneWorkflows, rowVars
<1>5. ASSUME NEW o \in Operation, ExecutionStep(o) PROVE LedgerInv'
  <2>1. CASE \E seed \in Seeds : RecordSubmission(o, seed)
    <3>1. ledger' = LedgerAfter(sub')
      BY <2>1 DEF RecordSubmission
    <3> QED
      BY <1>0, <3>1, BookedKeepsLedger
  <2>2. CASE BarrierLand(o)
    BY <1>2, <2>2 DEF BarrierLand
  <2> QED
    BY <1>1, <1>5, <2>1, <2>2
    DEF ExecutionStep, PrepareOperation, BeginAttempt, PrepareRecoveryAttempt, Send, UpdateSubmission, Enqueue,
        MarkFirstEvent, BeginCompleteAttempt, BeginCompleteOperation, StartBarrier, BarrierDrop,
        CompleteAttempt, CompleteOperation, JournalFault, rowVars
<1> QED
  BY <1>3, <1>4, <1>5 DEF Next

(* The empty database costs nothing.                                       *)
LEMMA InitLedger == Init => LedgerInv
<1> SUFFICES ASSUME Init PROVE LedgerInv
  OBVIOUS
<1>1. ledger = [w \in Workflow |-> [c \in CostColumn |-> 0]] /\ TypeOK
  BY InitInv DEF Init, Inv
<1>2. ASSUME NEW w \in Workflow, NEW c \in CostColumn PROVE SumFunction(Costs(w, c)) = 0
  <2>1. \A s \in Rows(w) : Costs(w, c)[s] = 0
    <3>1. \A s \in Rows(w) : sub[s] = NoSub
      BY DEF Init, Rows
    <3>2. Contribution(NoSub)[c] = 0
      BY ContributionNat
    <3> QED
      BY <3>1, <3>2 DEF Costs
  <2>2. /\ Costs(w, c) \in [Rows(w) -> Nat]
        /\ SumFunction(Costs(w, c)) = SumFunctionOnSet(Costs(w, c), Rows(w))
    BY <1>1, CostsTyped
  <2> QED
    BY <2>1, <2>2, FiniteRows, SumOfNaturals
<1> QED
  BY <1>1, <1>2 DEF LedgerInv, Paid

(* The cost columns of a workflow that lost no row are the sums over its   *)
(* rows, in whatever order the direct writes, the flusher and the barriers *)
(* landed them, for any number of rows.  (applyWorkflowCostDeltaTx)        *)
THEOREM LedgersAreRows == Spec => []LedgerMatchesRows
<1>1. Init => Inv /\ LedgerInv
  BY InitInv, InitLedger
<1>2. (Inv /\ LedgerInv) /\ [Next]_vars => (Inv /\ LedgerInv)'
  BY NextInv, NextLedger
<1>3. LedgerInv => LedgerMatchesRows
  BY DEF LedgerInv, Paid, LedgerMatchesRows, Costs
<1> QED
  BY <1>1, <1>2, <1>3, PTL DEF Spec

(* A column that is zero has no row that adds to it.                       *)
LEMMA NoneUnknown ==
  ASSUME TypeOK, LedgerInv, NEW w \in Workflow, ledger[w]["unknown"] = 0,
         NEW t \in Rows(w), sub[t] # NoSub
  PROVE  sub[t].cost # "unknown"
<1>1. "unknown" \in CostColumn /\ sub[t] \in Submission \cup {NoSub}
  BY DEF CostColumn, TypeOK, Rows
<1>2. /\ Costs(w, "unknown") \in [Rows(w) -> Nat]
      /\ SumFunction(Costs(w, "unknown")) = SumFunctionOnSet(Costs(w, "unknown"), Rows(w))
      /\ SumFunction(Costs(w, "unknown")) \in Nat
  BY <1>1, CostsTyped
<1>3. SumFunction(Costs(w, "unknown")) <= 0
  BY <1>1 DEF LedgerInv, Paid
<1>4. Costs(w, "unknown")[t] = 0
  BY <1>2, <1>3, FiniteRows, SumOfNaturals
<1>5. Contribution(sub[t])["unknown"] = 0
  BY <1>4 DEF Costs
<1> QED
  BY <1>1, <1>5, ContributionNat

(* Only RecordSubmission inserts a row, and only if the cost is admissible.*)
LEMMA OnlyRecordInserts ==
  ASSUME Inv, [Next]_vars, NEW s \in SubId, sub[s] = NoSub, sub'[s] # NoSub
  PROVE  CostAdmissible(WorkflowOf[s[1]])
<1>1. sub' # sub
  OBVIOUS
<1>2. ASSUME NEW b \in Batches, WriteBatch(b) PROVE FALSE
  <2>1. b[s] = NoSub
    BY <1>2 DEF WriteBatch, Accepted
  <2> QED
    BY <1>2, <2>1 DEF WriteBatch, Merged
<1>3. ASSUME NEW r \in Runtime, RuntimeStep(r) PROVE FALSE
  <2>1. CASE FlusherLand(r)
    <3>1. batch[r] \in Batches
      BY DEF Inv, TypeOK
    <3> QED
      BY <1>2, <2>1, <3>1 DEF FlusherLand
  <2>2. CASE BootReconcile(r) \/ Maintain(r)
    <3>1. sub'[s] = SettledSubmission(r, s)
      BY <1>1, <2>2 DEF BootReconcile, Maintain, ReconcileOrphans, rowVars
    <3> QED
      BY <3>1 DEF SettledSubmission, NoSub
  <2>3. CASE PruneOperations(r)
    BY <2>3 DEF PruneOperations
  <2> QED
    BY <1>1, <1>3, <2>1, <2>2, <2>3
    DEF RuntimeStep, NewRuntime, StartServer, CloseServer, Heartbeat, HeartbeatLapse, BeginClose,
        FinishClose, Crash, ReusePid, FlusherClaim, FlusherDrop, PruneWorkflows, rowVars
<1>4. ASSUME NEW o \in Operation, ExecutionStep(o) PROVE CostAdmissible(WorkflowOf[s[1]])
  <2>1. CASE \E seed \in Seeds : RecordSubmission(o, seed)
    <3> DEFINE s0 == <<o, exec[o].next>>
    <3>1. PICK row : sub' = [sub EXCEPT ![s0] = row]
      BY <2>1 DEF RecordSubmission
    <3>2. s = s0
      BY <3>1 DEF Inv, TypeOK
    <3>3. s[1] = o
      BY <3>2
    <3> QED
      BY <2>1, <3>3 DEF RecordSubmission, AdmitsSubmission
  <2>2. CASE BarrierLand(o)
    <3>1. exec[o].claimed \in Batches
      BY DEF Inv, TypeOK, Execution
    <3> QED
      BY <1>2, <2>2, <3>1 DEF BarrierLand
  <2> QED
    BY <1>1, <1>4, <2>1, <2>2
    DEF ExecutionStep, PrepareOperation, BeginAttempt, PrepareRecoveryAttempt, Send, UpdateSubmission, Enqueue,
        MarkFirstEvent, BeginCompleteAttempt, BeginCompleteOperation, StartBarrier, BarrierDrop,
        CompleteAttempt, CompleteOperation, JournalFault, rowVars
<1>5. CASE UNCHANGED vars \/ RetentionPasses
           \/ \E x \in Workflow, outcome \in Completed : CompleteWorkflow(x, outcome)
  BY <1>1, <1>5 DEF vars, RetentionPasses, CompleteWorkflow, rowVars
<1> QED
  BY <1>3, <1>4, <1>5 DEF Next

(* Under a usage limit no submission starts while the cost of another one  *)
(* of its workflow is unknown, even one whose neighbours Prune deleted.    *)
(* (assertWorkflowCostAdmissibleTx)                                        *)
THEOREM LimitIsNeverBlind == Spec => HardLimitNeverBlind
<1>1. Init => Inv /\ LedgerInv
  BY InitInv, InitLedger
<1>2. (Inv /\ LedgerInv) /\ [Next]_vars => (Inv /\ LedgerInv)'
  BY NextInv, NextLedger
<1>3. Inv /\ LedgerInv /\ [Next]_vars =>
        [\A s \in SubId : MaxUsage >= 0 /\ sub[s] = NoSub /\ sub'[s] # NoSub =>
           \A t \in Rows(WorkflowOf[s[1]]) : sub[t] # NoSub => sub[t].cost # "unknown"]_vars
  <2> SUFFICES ASSUME Inv, LedgerInv, [Next]_vars, NEW s \in SubId, MaxUsage >= 0, sub[s] = NoSub, sub'[s] # NoSub,
                      NEW t \in Rows(WorkflowOf[s[1]]), sub[t] # NoSub
               PROVE  sub[t].cost # "unknown"
    OBVIOUS
  <2>1. s[1] \in Operation /\ WorkflowOf[s[1]] \in Workflow
    BY SubIds, WorkflowOfAssumption
  <2>2. CostAdmissible(WorkflowOf[s[1]])
    BY OnlyRecordInserts
  <2>3. ledger[WorkflowOf[s[1]]]["unknown"] = 0
    BY <2>2, LimitAssumption DEF CostAdmissible
  <2> QED
    BY <2>1, <2>3, NoneUnknown DEF Inv
<1> QED
  BY <1>1, <1>2, <1>3, PTL DEF Spec, HardLimitNeverBlind

(* The cost columns never run below zero, which applyWorkflowCostDeltaTx   *)
(* would refuse as an underflow: whatever a row takes back was booked.     *)
THEOREM BooksNeverUnderflow == Spec => [](\A w \in Workflow, c \in CostColumn : ledger[w][c] \in Nat)
<1>1. Init => Inv /\ LedgerInv
  BY InitInv, InitLedger
<1>2. (Inv /\ LedgerInv) /\ [Next]_vars => (Inv /\ LedgerInv)'
  BY NextInv, NextLedger
<1>3. Inv /\ LedgerInv => \A w \in Workflow, c \in CostColumn : ledger[w][c] \in Nat
  <2> SUFFICES ASSUME Inv, LedgerInv, NEW w \in Workflow, NEW c \in CostColumn PROVE ledger[w][c] \in Nat
    OBVIOUS
  <2>1. SumFunction(Costs(w, c)) \in Nat
    BY CostsTyped DEF Inv
  <2>2. ledger[w][c] \in Int /\ SumFunction(Costs(w, c)) <= ledger[w][c]
    BY DEF LedgerInv, Paid
  <2> QED
    BY <2>1, <2>2
<1> QED
  BY <1>1, <1>2, <1>3, PTL DEF Spec

(* A sum with one term.                                                    *)
LEMMA SumOfOne ==
  ASSUME NEW S, IsFiniteSet(S), NEW f \in [S -> Int]
  PROVE  \A x \in S : (\A y \in S : y # x => f[y] = 0) => SumFunctionOnSet(f, S) = f[x]
<1> DEFINE F == Partial(f, S)
<1>0. /\ F[{}] = 0 /\ SumFunctionOnSet(f, S) = F[S]
      /\ \A s \in SUBSET S : s # {} => F[s] = f[Pick(s)] + F[s \ {Pick(s)}]
  <2>1. SumsUp(f, S)
    BY PartialSums
  <2> QED
    BY <2>1 DEF SumsUp
<1> SUFFICES ASSUME NEW x \in S, \A y \in S : y # x => f[y] = 0 PROVE SumFunctionOnSet(f, S) = f[x]
  OBVIOUS
<1> DEFINE Good(s) == F[s] = IF x \in s THEN f[x] ELSE 0
           T == {s \in SUBSET S : ~Good(s)}
<1>1. ASSUME T # {} PROVE FALSE
  <2>0. T \in SUBSET SUBSET S
    OBVIOUS
  <2>1. PICK s \in T : \A t \in T : t \subseteq s => t = s
    <3> HIDE DEF T
    <3> QED
      BY <1>1, <2>0, LeastSet
  <2>2. CASE s = {}
    BY <1>0, <2>1, <2>2
  <2>3. CASE s # {}
    <3> DEFINE u == s \ {Pick(s)}
    <3>1. Pick(s) \in S /\ u \in SUBSET S /\ u \subseteq s /\ u # s /\ Pick(s) \in s /\ Pick(s) \notin u
      BY <2>1, <2>3, PickFacts
    <3>2. Good(u)
      BY <2>1, <3>1
    <3>3. F[s] = f[Pick(s)] + F[u]
      BY <1>0, <2>1, <2>3
    <3>4. f[Pick(s)] \in Int /\ f[x] \in Int /\ (Pick(s) # x => f[Pick(s)] = 0)
      BY <3>1
    <3>5. x \in s <=> x = Pick(s) \/ x \in u
      BY <3>1
    <3> HIDE DEF u, F
    <3>6. Good(s)
      BY <3>1, <3>2, <3>3, <3>4, <3>5
    <3> QED
      BY <2>1, <3>6
  <2> QED
    BY <2>2, <2>3
<1>2. Good(S)
  BY <1>1
<1> QED
  BY <1>0, <1>2

(* No workflow has more submissions of unknown cost than it may.           *)
UnknownWithinLimit == \A w \in Workflow : MaxUnknown < 0 \/ ledger[w]["unknown"] <= MaxUnknown

(* The merge never turns a known or estimated cost into an unknown one.    *)
LEMMA MergeKeepsKnowledge ==
  ASSUME NEW x \in Submission, NEW y \in Submission
  PROVE  Contribution(Merge(x, y))["unknown"] <= Contribution(x)["unknown"]
<1>1. Merge(x, y) \in Submission /\ Rank(Merge(x, y).cost) >= Rank(x.cost)
  BY MergeTyped, MergeFinal
<1>2. ASSUME NEW z \in Submission
      PROVE  /\ Contribution(z)["unknown"] = IF z.cost = "unknown" THEN 1 ELSE 0
             /\ z.cost = "unknown" <=> Rank(z.cost) = 1
  <2>1. z.outcome # "none" /\ z.cost \in Cost /\ "unknown" \in CostColumn
    BY DEF Submission, SubOutcome, Completed, CostColumn
  <2>2. Contribution(z)["unknown"] = IF z.cost = "unknown" THEN 1 ELSE 0
    BY <2>1 DEF Contribution
  <2>3. z.cost = "unknown" <=> Rank(z.cost) = 1
    BY <2>1, Ranks DEF Cost
  <2> QED
    BY <2>2, <2>3
<1>3. Rank(x.cost) \in {1, 2, 3} /\ Rank(Merge(x, y).cost) \in {1, 2, 3}
  BY Ranks
<1>4. /\ Contribution(Merge(x, y))["unknown"] = IF Merge(x, y).cost = "unknown" THEN 1 ELSE 0
      /\ Merge(x, y).cost = "unknown" <=> Rank(Merge(x, y).cost) = 1
  BY <1>1, <1>2
<1>5. /\ Contribution(x)["unknown"] = IF x.cost = "unknown" THEN 1 ELSE 0
      /\ x.cost = "unknown" <=> Rank(x.cost) = 1
  BY <1>2
<1> QED
  BY <1>1, <1>3, <1>4, <1>5

(* A batch that lands makes no more costs unknown.                         *)
LEMMA BatchWithinLimit ==
  ASSUME Inv, TypeOK', LedgerInv, UnknownWithinLimit, NEW b \in Batches, WriteBatch(b)
  PROVE  UnknownWithinLimit'
<1> SUFFICES ASSUME NEW w \in Workflow PROVE ledger'[w]["unknown"] <= ledger[w]["unknown"] /\ ledger'[w]["unknown"] \in Int
                                             /\ ledger[w]["unknown"] \in Int
  BY LimitAssumption DEF UnknownWithinLimit
<1> DEFINE d == [s \in Rows(w) |-> Contribution(sub'[s])["unknown"] - Contribution(sub[s])["unknown"]]
           e == [s \in Rows(w) |-> 0 - d[s]]
           z == [s \in Rows(w) |-> 0]
<1>1. "unknown" \in CostColumn /\ TypeOK
  BY DEF CostColumn, Inv
<1>2. ASSUME NEW s \in Rows(w)
      PROVE  /\ Contribution(sub'[s])["unknown"] <= Contribution(sub[s])["unknown"]
             /\ Contribution(sub'[s])["unknown"] \in Nat /\ Contribution(sub[s])["unknown"] \in Nat
  <2>1. s \in SubId /\ sub[s] \in Submission \cup {NoSub} /\ sub'[s] \in Submission \cup {NoSub}
    BY <1>1 DEF TypeOK, Rows
  <2>2. Contribution(sub'[s])["unknown"] \in Nat /\ Contribution(sub[s])["unknown"] \in Nat
    BY <1>1, <2>1, ContributionNat
  <2>3. CASE b[s] = NoSub
    <3>1. sub'[s] = sub[s]
      BY <2>1, <2>3 DEF WriteBatch, Merged
    <3> QED
      BY <2>2, <3>1
  <2>4. CASE b[s] # NoSub
    <3>1. b[s] \in Submission /\ sub[s] \in Submission /\ sub'[s] = Merge(sub[s], b[s])
      BY <2>1, <2>4 DEF Batches, WriteBatch, Accepted, Merged
    <3> QED
      BY <2>2, <3>1, MergeKeepsKnowledge
  <2> QED
    BY <2>3, <2>4
<1>3. SumFunction(d) = SumFunctionOnSet(d, Rows(w)) /\ SumFunction(d) \in Int
  BY <1>1, CostsDiffer
<1>4. ledger'[w]["unknown"] = ledger[w]["unknown"] + SumFunction(d) /\ ledger[w]["unknown"] \in Int
  <2>1. ledger' = LedgerAfter(sub')
    BY DEF WriteBatch
  <2> QED
    BY <1>1, <2>1 DEF LedgerAfter, LedgerInv
<1>5. \A s \in Rows(w) : d[s] \in Int /\ e[s] \in Nat /\ e[s] = z[s] - d[s] /\ z[s] = 0
  BY <1>2
<1>6. d \in [Rows(w) -> Int] /\ e \in [Rows(w) -> Nat] /\ z \in [Rows(w) -> Nat]
  BY <1>5
<1>7. e \in [Rows(w) -> Int] /\ z \in [Rows(w) -> Int]
  BY <1>5
<1> HIDE DEF d, e, z
<1>8. SumFunctionOnSet(z, Rows(w)) = SumFunctionOnSet(d, Rows(w)) + SumFunctionOnSet(e, Rows(w))
  BY <1>5, <1>6, <1>7, FiniteRows, SumDifference
<1>9. SumFunctionOnSet(z, Rows(w)) = 0 /\ SumFunctionOnSet(e, Rows(w)) \in Nat
  BY <1>5, <1>6, FiniteRows, SumOfNaturals
<1> QED
  BY <1>3, <1>4, <1>8, <1>9

(* A new submission is one more, and was admitted.                         *)
LEMMA RecordWithinLimit ==
  ASSUME Inv, TypeOK', LedgerInv, UnknownWithinLimit,
         NEW o \in Operation, NEW seed \in Seeds, RecordSubmission(o, seed)
  PROVE  UnknownWithinLimit'
<1> DEFINE s0 == <<o, exec[o].next>>
           row == [NoSub EXCEPT !.outcome = "in_flight", !.seed = seed]
<1>1. /\ sub' = [sub EXCEPT ![s0] = row] /\ ledger' = LedgerAfter(sub') /\ sub[s0] = NoSub
      /\ AdmitsSubmission(WorkflowOf[o])
  BY DEF RecordSubmission
<1>2. s0 \in SubId /\ s0[1] = o /\ WorkflowOf[o] \in Workflow /\ "unknown" \in CostColumn /\ TypeOK
  BY WorkflowOfAssumption, CurrentAttempt DEF RecordSubmission, CostColumn, Inv
<1>3. Contribution(row)["unknown"] = 1 /\ Contribution(NoSub)["unknown"] = 0
  <2>1. row.outcome = "in_flight" /\ row.cost = "unknown" /\ NoSub.outcome = "none"
    BY DEF NoSub
  <2> QED
    BY <1>2, <2>1 DEF Contribution
<1>4. \A s \in SubId : sub'[s] = IF s = s0 THEN row ELSE sub[s]
  BY <1>1, <1>2 DEF TypeOK
<1> HIDE DEF s0, row
<1>5. ASSUME NEW w \in Workflow
      PROVE  /\ ledger[w]["unknown"] \in Int
             /\ ledger'[w]["unknown"] = ledger[w]["unknown"] + (IF w = WorkflowOf[o] THEN 1 ELSE 0)
  <2> DEFINE d == [s \in Rows(w) |-> Contribution(sub'[s])["unknown"] - Contribution(sub[s])["unknown"]]
  <2>1. SumFunction(d) = SumFunctionOnSet(d, Rows(w))
    BY <1>2, CostsDiffer
  <2>2. ledger'[w]["unknown"] = ledger[w]["unknown"] + SumFunction(d) /\ ledger[w]["unknown"] \in Int
    BY <1>1, <1>2 DEF LedgerAfter, LedgerInv
  <2>3. ASSUME NEW s \in Rows(w) PROVE d[s] = IF s = s0 THEN 1 ELSE 0
    <3>1. s \in SubId /\ sub[s] \in Submission \cup {NoSub}
      BY <1>2 DEF TypeOK, Rows
    <3>2. Contribution(sub[s])["unknown"] \in Nat
      BY <1>2, <3>1, ContributionNat
    <3> QED
      BY <1>1, <1>3, <1>4, <3>1, <3>2
  <2>4. d \in [Rows(w) -> Int] /\ d \in [Rows(w) -> Nat]
    BY <2>3
  <2> HIDE DEF d
  <2>5. CASE w = WorkflowOf[o]
    <3>1. s0 \in Rows(w)
      BY <1>2, <2>5 DEF Rows
    <3>2. SumFunctionOnSet(d, Rows(w)) = 1
      BY <2>3, <2>4, <3>1, FiniteRows, SumOfOne
    <3> QED
      BY <2>1, <2>2, <2>5, <3>2
  <2>6. CASE w # WorkflowOf[o]
    <3>1. s0 \notin Rows(w)
      BY <1>2, <2>6 DEF Rows
    <3>2. SumFunctionOnSet(d, Rows(w)) = 0
      BY <2>3, <2>4, <3>1, FiniteRows, SumOfNaturals
    <3> QED
      BY <2>1, <2>2, <2>6, <3>2
  <2> QED
    BY <2>5, <2>6
<1>6. ASSUME NEW w \in Workflow PROVE MaxUnknown < 0 \/ ledger'[w]["unknown"] <= MaxUnknown
  <2>1. MaxUnknown < 0 \/ ledger[w]["unknown"] <= MaxUnknown
    BY DEF UnknownWithinLimit
  <2>2. w = WorkflowOf[o] => MaxUnknown < 0 \/ ledger[w]["unknown"] + 1 <= MaxUnknown
    BY <1>1 DEF AdmitsSubmission
  <2>3. /\ ledger[w]["unknown"] \in Int
        /\ w = WorkflowOf[o] => ledger'[w]["unknown"] = ledger[w]["unknown"] + 1
        /\ w # WorkflowOf[o] => ledger'[w]["unknown"] = ledger[w]["unknown"]
    BY <1>5
  <2> QED
    BY <2>1, <2>2, <2>3, LimitAssumption
<1> QED
  BY <1>6 DEF UnknownWithinLimit

(* Every step of the journal keeps to the limit.                           *)
LEMMA NextWithinLimit == Inv /\ LedgerInv /\ UnknownWithinLimit /\ [Next]_vars => UnknownWithinLimit'
<1> SUFFICES ASSUME Inv, LedgerInv, UnknownWithinLimit, [Next]_vars PROVE UnknownWithinLimit'
  OBVIOUS
<1>0. TypeOK'
  BY NextInv DEF Inv
<1>1. ASSUME UNCHANGED ledger PROVE UnknownWithinLimit'
  BY <1>1 DEF UnknownWithinLimit
<1>2. ASSUME NEW r \in Runtime, RuntimeStep(r) PROVE UnknownWithinLimit'
  <2>1. CASE FlusherLand(r)
    <3>1. batch[r] \in Batches /\ WriteBatch(batch[r])
      BY <2>1 DEF Inv, TypeOK, FlusherLand
    <3> QED
      BY <1>0, <3>1, BatchWithinLimit
  <2>2. CASE BootReconcile(r) \/ Maintain(r)
    BY <1>1, <2>2 DEF BootReconcile, Maintain, ReconcileOrphans, rowVars
  <2> QED
    BY <1>1, <1>2, <2>1, <2>2
    DEF RuntimeStep, NewRuntime, StartServer, CloseServer, Heartbeat, HeartbeatLapse, BeginClose,
        FinishClose, Crash, ReusePid, FlusherClaim, FlusherDrop, PruneOperations, PruneWorkflows, rowVars
<1>3. ASSUME NEW o \in Operation, ExecutionStep(o) PROVE UnknownWithinLimit'
  <2>1. CASE \E seed \in Seeds : RecordSubmission(o, seed)
    BY <1>0, <2>1, RecordWithinLimit
  <2>2. CASE BarrierLand(o)
    <3>1. exec[o].claimed \in Batches /\ WriteBatch(exec[o].claimed)
      BY <2>2 DEF Inv, TypeOK, Execution, BarrierLand
    <3> QED
      BY <1>0, <3>1, BatchWithinLimit
  <2> QED
    BY <1>1, <1>3, <2>1, <2>2
    DEF ExecutionStep, PrepareOperation, BeginAttempt, PrepareRecoveryAttempt, Send, UpdateSubmission, Enqueue,
        MarkFirstEvent, BeginCompleteAttempt, BeginCompleteOperation, StartBarrier, BarrierDrop,
        CompleteAttempt, CompleteOperation, JournalFault, rowVars
<1>4. CASE UNCHANGED vars \/ RetentionPasses
           \/ \E x \in Workflow, outcome \in Completed : CompleteWorkflow(x, outcome)
  BY <1>1, <1>4 DEF vars, RetentionPasses, CompleteWorkflow, rowVars
<1> QED
  BY <1>2, <1>3, <1>4 DEF Next

(* The submissions whose cost is not known never exceed the limit on them, *)
(* whichever late flush, barrier or recovery changes them: only the direct *)
(* write of a new submission adds one, and that is admitted first.         *)
(* (upsertSubmissionRecordTx, applyWorkflowCostDeltaTx)                    *)
THEOREM UnknownStaysWithinLimit == Spec => []UnknownWithinLimit
<1>1. Init => Inv /\ LedgerInv /\ UnknownWithinLimit
  <2>1. Init => UnknownWithinLimit
    BY LimitAssumption DEF Init, UnknownWithinLimit, CostColumn
  <2> QED
    BY <2>1, InitInv, InitLedger
<1>2. (Inv /\ LedgerInv /\ UnknownWithinLimit) /\ [Next]_vars => (Inv /\ LedgerInv /\ UnknownWithinLimit)'
  BY NextInv, NextLedger, NextWithinLimit
<1> QED
  BY <1>1, <1>2, PTL DEF Spec

=============================================================================
