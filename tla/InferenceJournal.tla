-------------------------- MODULE InferenceJournal --------------------------
(***************************************************************************)
(* The durable write-ahead journal of provider requests                    *)
(* (internal/session/inference_journal.go) together with the in-process    *)
(* executions that call it (internal/providers/inference_execution.go).    *)
(*                                                                         *)
(* A runtime is one boot of a wuu process.  It owns workflows; a workflow  *)
(* owns operations; an operation makes attempts with ordinals 1, 2, ...;   *)
(* an attempt owns at most one submission, the bytes put on the wire.      *)
(* Rows of the four tables live in one SQLite database shared by every     *)
(* process of the workspace, and every journal call is one immediate       *)
(* transaction, hence one action.  Streaming updates of a submission are   *)
(* not written through: they are coalesced in memory per runtime and       *)
(* landed later by a background flusher or by the barrier in front of a    *)
(* terminal write, each of which is several actions.                       *)
(*                                                                         *)
(* The attempt n of operation o, and its submission, is named <<o, n>>.    *)
(***************************************************************************)
EXTENDS Integers, FiniteSets, FiniteSetsExt

CONSTANTS
  Runtime,            \* boots of wuu processes in one workspace scope
  Workflow,           \* inference workflow ids
  Operation,          \* inference operation ids
  WorkflowOf,         \* the workflow of each operation
  Parent,             \* the parent operation of each, or NoParent
  NoParent,
  BestEffort,         \* operations and workflows of the best-effort profile
  AttemptLimit,       \* attempt_limit of every operation
  Limit,              \* the frozen limit of each counted dimension, < 0: none
  MaxUnknown,         \* max_unknown_billable, < 0: none
  MaxUsage,           \* max_usage_tokens, < 0: none
  MaxOutput,          \* bound: output tokens one submission estimates
  Reported,           \* bound: token totals a provider reports
  Seeds,              \* bound: input estimates taken from a request's size
  Plan,               \* recovery plans: an action, and whether it delays
  Updater             \* goroutines that update one submission

(* The counted budget dimensions (usage and unknown-billable are kept in   *)
(* the cost ledger).                                                       *)
Dimension == {"operations", "child_operations", "attempts", "submissions",
              "replays", "transport_switches", "credential_refreshes",
              "payload_transforms", "recovery_wait"}

ASSUME RuntimeAssumption == Runtime # {}
(* An operation id is a prefix and twelve bytes in hexadecimal (newInferenceID). *)
ASSUME OperationAssumption == IsFiniteSet(Operation)
ASSUME AttemptLimitAssumption == AttemptLimit \in Nat \ {0}
ASSUME WorkflowOfAssumption == /\ WorkflowOf \in [Operation -> Workflow]
                               /\ Operation \cap Workflow = {}
ASSUME ParentAssumption == /\ NoParent \notin Operation
                           /\ Parent \in [Operation -> Operation \cup {NoParent}]
                           /\ \A o \in Operation : Parent[o] # o
ASSUME LimitAssumption == /\ Limit \in [Dimension -> Int]
                          /\ MaxUnknown \in Int
                          /\ MaxUsage \in Int
ASSUME TokenAssumption == MaxOutput \in Nat /\ Reported \subseteq Nat \ {0} /\ Seeds \subseteq Nat
ASSUME PlanAssumption ==
  Plan \subseteq [action : {"replay_same", "wait_then_replay", "switch_transport",
                            "refresh_auth", "transform_payload"},
                  waits : BOOLEAN]

Ordinal == 1 .. AttemptLimit
SubId == Operation \X Ordinal

VARIABLES
  rt,       \* inference_journal_runtimes rows, and the process behind each
  wf,       \* inference_workflows: owner and status
  used,     \* inference_workflows: used_<dimension>
  ledger,   \* inference_workflows: known/estimated/unknown columns
  op,       \* inference_operations rows
  att,      \* inference_attempts rows
  sub,      \* inference_submissions rows
  exec,     \* InferenceExecution: the call in progress
  mem,      \* InferenceExecution.submissions: in-memory submissions
  hand,     \* snapshots taken under e.mu and not yet handed to the coalescer
  pending,  \* InferenceJournalRuntime.progress: the coalescing map
  batch,    \* the batch the background flusher has claimed
  aged,     \* rows last updated longer than the retention time ago
  wire      \* history: submissions whose request bytes were sent

rowVars == <<wf, used, ledger, op, att, sub>>
memVars == <<exec, mem, hand, pending, batch>>
vars == <<rt, rowVars, memVars, aged, wire>>

-----------------------------------------------------------------------------
(* Rows and their values.                                                  *)

Completed == {"succeeded", "failed"}
Settled == Completed \cup {"interrupted", "blocked", "abandoned"}

(* "none": no row yet.  "pruned": the row was deleted by Prune; ids are     *)
(* random, so a deleted id is never used again.                            *)
RowStatus == {"none", "active", "pruned"} \cup Settled

SubOutcome == {"in_flight"} \cup Completed \cup {"interrupted", "abandoned"}
Cost == {"unknown", "estimated", "known"}

(* A submission record: seed is the input estimate taken from the request  *)
(* size (absent: 0), out the output estimate, rep the reported usage       *)
(* (absent: 0).                                                            *)
Submission == [outcome : SubOutcome, cost : Cost, rep : Nat, seed : Nat, out : Nat]
NoSub == [outcome |-> "none", cost |-> "unknown", rep |-> 0, seed |-> 0, out |-> 0]

Phase == {"none", "prepared", "sent", "streaming", "terminal"}
Recovery == {"", "stop", "reschedule_safe", "block_ambiguous",
             "replay_same", "wait_then_replay", "switch_transport",
             "refresh_auth", "transform_payload"}

NoAttempt == [phase |-> "none", outcome |-> "", recovery |-> "",
              network |-> FALSE, event |-> FALSE]
AnyRuntime == CHOOSE r \in Runtime : TRUE
NoWorkflow == [status |-> "none", rt |-> AnyRuntime]
NoOp == [status |-> "none", recovery |-> "", rt |-> AnyRuntime]

CostColumn == {"known", "estimated", "unknown", "known_tokens", "estimated_tokens"}

(* A set of coalesced records: at most one for each submission.            *)
NoBatch == [s \in SubId |-> NoSub]
Batches == [SubId -> Submission \cup {NoSub}]

Pc == {"none", "ready", "flush", "write", "done", "poisoned", "gone"}
NoExec == [pc |-> "none", next |-> 0, ended |-> FALSE, told |-> FALSE,
           call |-> "none", outcome |-> "", network |-> FALSE, claimed |-> NoBatch]

Present(status) == status \notin {"none", "pruned"}

(* The process of r can still execute code, and call the journal.          *)
Up(r) == rt[r].proc = "up"

(* Mutant: the probe answers for every pid that was ever recorded.         *)
ProbeAlwaysAnswers(r) == rt[r].proc # "none"

(* inferenceRuntimeProcessAlive: signal 0 reaches the pid.  A pid reused   *)
(* by an unrelated process answers as well.                                *)
ProcessAlive(r) == rt[r].proc \in {"up", "reused"}

(* Every journal write refreshes heartbeat_at WHERE closed_at = 0.         *)
Touched(r) == [rt EXCEPT ![r].stale = @ /\ rt[r].lease = "closed"]

Init ==
  /\ rt = [r \in Runtime |-> [lease |-> "none", stale |-> FALSE, proc |-> "none", boot |-> "none"]]
  /\ wf = [w \in Workflow |-> NoWorkflow]
  /\ used = [w \in Workflow |-> [d \in Dimension |-> 0]]
  /\ ledger = [w \in Workflow |-> [c \in CostColumn |-> 0]]
  /\ op = [o \in Operation |-> NoOp]
  /\ att = [s \in SubId |-> NoAttempt]
  /\ sub = [s \in SubId |-> NoSub]
  /\ exec = [o \in Operation |-> NoExec]
  /\ mem = [s \in SubId |-> NoSub]
  /\ hand = [o \in Operation |-> [u \in Updater |-> NoBatch]]
  /\ pending = [r \in Runtime |-> NoBatch]
  /\ batch = [r \in Runtime |-> NoBatch]
  /\ aged = {}
  /\ wire = {}

-----------------------------------------------------------------------------
(* The runtime lease.                                                      *)

NewRuntime(r) ==
  /\ rt[r].lease = "none"
  /\ rt' = [rt EXCEPT ![r] = [@ EXCEPT !.lease = "open", !.proc = "up"]]
  /\ UNCHANGED <<rowVars, memVars, aged, wire>>

(* The runtime starts an app server; wuu eval and probes never do.  The     *)
(* first server with presence settles on boot, under a gate that keeps its *)
(* peers from starting; a later one only runs the periodic maintenance.    *)
Booting(r) == Up(r) /\ rt[r].boot \in {"reconcile", "prune", "prune_workflows"}
HasPresence(r) == Up(r) /\ rt[r].boot = "done"

StartServer(r) ==
  /\ Up(r) /\ rt[r].lease = "open" /\ rt[r].boot = "none"
  /\ ~\E q \in Runtime : Booting(q)
  /\ rt' = [rt EXCEPT ![r].boot = IF \E q \in Runtime : HasPresence(q) THEN "done" ELSE "reconcile"]
  /\ UNCHANGED <<rowVars, memVars, aged, wire>>

(* Server.Close stops the maintenance and gives the presence up.           *)
CloseServer(r) ==
  /\ Up(r) /\ rt[r].boot = "done"
  /\ rt' = [rt EXCEPT ![r].boot = "closed"]
  /\ UNCHANGED <<rowVars, memVars, aged, wire>>

(* The ticker of startHeartbeat; the row is updated while closed_at = 0.   *)
Heartbeat(r) ==
  /\ Up(r) /\ rt[r].lease = "open" /\ rt[r].stale
  /\ rt' = [rt EXCEPT ![r].stale = FALSE]
  /\ UNCHANGED <<rowVars, memVars, aged, wire>>

(* inferenceJournalStaleAfter passes without a write of r: the process is  *)
(* dead, suspended, or its heartbeat loop could not open the store.        *)
HeartbeatLapse(r) ==
  /\ rt[r].lease # "none" /\ ~rt[r].stale
  /\ rt' = [rt EXCEPT ![r].stale = TRUE]
  /\ UNCHANGED <<rowVars, memVars, aged, wire>>

(* Close stops the heartbeat and the flusher.  The flusher first finishes  *)
(* the batch it is writing and then claims what is left.                   *)
BeginClose(r) ==
  /\ Up(r) /\ rt[r].lease = "open" /\ batch[r] = NoBatch
  /\ rt[r].boot \in {"none", "closed"}
  /\ rt' = [rt EXCEPT ![r].lease = "closing"]
  /\ batch' = [batch EXCEPT ![r] = pending[r]]
  /\ pending' = [pending EXCEPT ![r] = NoBatch]
  /\ UNCHANGED <<rowVars, exec, mem, hand, aged, wire>>

(* closed_at is stamped only after the final flush returned.  Executions   *)
(* that outlived the shutdown drain may still be running.                  *)
FinishClose(r) ==
  /\ Up(r) /\ rt[r].lease = "closing" /\ batch[r] = NoBatch
  /\ rt' = [rt EXCEPT ![r].lease = "closed"]
  /\ UNCHANGED <<rowVars, memVars, aged, wire>>

(* The process exits or is killed: only the database survives.             *)
Crash(r) ==
  /\ Up(r)
  /\ rt' = [rt EXCEPT ![r].proc = "gone"]
  /\ exec' = [o \in Operation |-> IF op[o].rt = r /\ exec[o].pc # "none"
                                  THEN [NoExec EXCEPT !.pc = "gone"] ELSE exec[o]]
  /\ mem' = [s \in SubId |-> IF exec'[s[1]].pc = "gone" THEN NoSub ELSE mem[s]]
  /\ hand' = [o \in Operation |-> IF exec'[o].pc = "gone"
                                  THEN [u \in Updater |-> NoBatch] ELSE hand[o]]
  /\ pending' = [pending EXCEPT ![r] = NoBatch]
  /\ batch' = [batch EXCEPT ![r] = NoBatch]
  /\ UNCHANGED <<rowVars, aged, wire>>

(* The operating system gives a dead process's pid to another program, and *)
(* takes it back.                                                          *)
ReusePid(r) ==
  /\ rt[r].proc \in {"gone", "reused"}
  /\ rt' = [rt EXCEPT ![r].proc = IF @ = "gone" THEN "reused" ELSE "gone"]
  /\ UNCHANGED <<rowVars, memVars, aged, wire>>

-----------------------------------------------------------------------------
(* Budgets.                                                                *)

(* reserveWorkflowCounterTx for one unit of each dimension in D.           *)
CanReserve(w, D) ==
  /\ wf[w].status = "active"
  /\ \A d \in D : Limit[d] < 0 \/ used[w][d] + 1 <= Limit[d]

Reserved(w, D) ==
  [used EXCEPT ![w] = [d \in Dimension |-> IF d \in D THEN @[d] + 1 ELSE @[d]]]

(* assertWorkflowCostAdmissibleTx: under a usage limit no new work starts  *)
(* while a submission's cost is unknown or the limit is passed.            *)
CostAdmissible(w) ==
  /\ wf[w].status = "active"
  /\ \/ MaxUsage < 0
     \/ /\ ledger[w]["unknown"] = 0
        /\ ledger[w]["known_tokens"] + ledger[w]["estimated_tokens"] <= MaxUsage

(* What one submission row adds to its workflow's cost columns.            *)
Contribution(x) ==
  [c \in CostColumn |->
     IF x.outcome = "none" THEN 0
     ELSE CASE c = x.cost -> 1
            [] c = "known_tokens" /\ x.cost = "known"         -> x.rep
            [] c = "estimated_tokens" /\ x.cost = "estimated" -> x.seed + x.out
            [] OTHER -> 0]

Rows(w) == {s \in SubId : WorkflowOf[s[1]] = w}

(* Mutant: the old cost of a changed row is not taken back.                *)
LedgerAdds(new) ==
  [w \in Workflow |-> [c \in CostColumn |-> ledger[w][c]
     + SumFunction([s \in Rows(w) |-> IF new[s] = sub[s] THEN 0 ELSE Contribution(new[s])[c]])]]

(* applyWorkflowCostDeltaTx when the submission rows become new.           *)
LedgerAfter(new) ==
  [w \in Workflow |-> [c \in CostColumn |-> ledger[w][c]
     + SumFunction([s \in Rows(w) |-> Contribution(new[s])[c] - Contribution(sub[s])[c]])]]

-----------------------------------------------------------------------------
(* Preparing operations and attempts.                                      *)

(* prepareWorkflowTx: a new workflow, or an active one of this runtime.    *)
JoinsWorkflow(r, w) ==
  \/ wf[w].status = "none"
  \/ wf[w].status = "active" /\ wf[w].rt = r /\ CostAdmissible(w)

(* bindJournal and PrepareOperation: the workflow row is created with its  *)
(* first operation and refused once terminal or owned by another runtime.  *)
PrepareOperation(r, o) ==
  LET w == WorkflowOf[o] IN
  /\ Up(r)
  /\ exec[o].pc = "none"
  /\ JoinsWorkflow(r, w)
  /\ Parent[o] # NoParent => /\ Present(op[Parent[o]].status)
                             /\ WorkflowOf[Parent[o]] = w
  /\ LET D == {"operations"} \cup (IF Parent[o] # NoParent THEN {"child_operations"} ELSE {}) IN
     /\ \A d \in D : Limit[d] < 0 \/ used[w][d] + 1 <= Limit[d]
     /\ used' = Reserved(w, D)
  /\ wf' = [wf EXCEPT ![w] = [status |-> "active", rt |-> r]]
  /\ op' = [op EXCEPT ![o] = [status |-> "active", recovery |-> "", rt |-> r]]
  /\ exec' = [exec EXCEPT ![o].pc = "ready"]
  /\ rt' = Touched(r)
  /\ UNCHANGED <<ledger, att, sub, mem, hand, pending, batch, aged, wire>>

(* priorAttemptAnsweredTx: an attempt that died in the network without a   *)
(* response event cannot have been billed, so replaying it is free.        *)
Answered(a) == ~(a.network /\ ~a.event)

(* Mutant: every retry is charged as a replay.                             *)
PrepareAttemptChargesAll(o, n, D) ==
  LET E == D \cup {"attempts"} \cup (IF n > 1 THEN {"replays"} ELSE {}) IN
  /\ op[o].status = "active" /\ n <= AttemptLimit
  /\ CostAdmissible(WorkflowOf[o]) /\ CanReserve(WorkflowOf[o], E)
  /\ used' = Reserved(WorkflowOf[o], E)

(* prepareAttemptTx for attempt n of o, charging the dimensions in D of    *)
(* the same transaction as well.                                           *)
PrepareAttemptTx(o, n, D) ==
  LET w == WorkflowOf[o]
      E == D \cup {"attempts"}
             \cup (IF n > 1 /\ Answered(att[<<o, n - 1>>]) THEN {"replays"} ELSE {})
  IN
  /\ op[o].status = "active"
  /\ n <= AttemptLimit
  /\ CostAdmissible(w)
  /\ CanReserve(w, E)
  /\ used' = Reserved(w, E)

(* BeginAttemptChecked: the first attempt of an execution.                 *)
BeginAttempt(o) ==
  /\ Up(op[o].rt)
  /\ exec[o].pc = "ready" /\ exec[o].next = 0
  /\ PrepareAttemptTx(o, 1, {})
  /\ att' = [att EXCEPT ![<<o, 1>>] = [NoAttempt EXCEPT !.phase = "prepared"]]
  /\ exec' = [exec EXCEPT ![o].next = 1]
  /\ rt' = Touched(op[o].rt)
  /\ UNCHANGED <<wf, ledger, op, sub, mem, hand, pending, batch, aged, wire>>

RecoveryDimension(action) ==
  CASE action = "switch_transport"  -> {"transport_switches"}
    [] action = "refresh_auth"      -> {"credential_refreshes"}
    [] action = "transform_payload" -> {"payload_transforms"}
    [] OTHER                        -> {}

(* Mutant: only the recovery action is written, the attempt comes later.   *)
RecoveryAlone(o, n, action) == [att EXCEPT ![<<o, n>>].recovery = action]

(* recordRecoveryTx and prepareAttemptTx.                                  *)
RecoveryWithNext(o, n, action) ==
  [att EXCEPT ![<<o, n>>].recovery = action,
              ![<<o, n + 1>>] = [NoAttempt EXCEPT !.phase = "prepared"]]

(* PrepareRecoveryAttempt: the recovery action of the failed attempt and   *)
(* the row of the next one are written in one transaction.                 *)
PrepareRecoveryAttempt(o, plan) ==
  LET n == exec[o].next
      D == RecoveryDimension(plan.action) \cup (IF plan.waits THEN {"recovery_wait"} ELSE {})
  IN
  /\ Up(op[o].rt)
  /\ exec[o].pc = "ready" /\ n \in Ordinal /\ exec[o].ended
  /\ att[<<o, n>>].phase = "terminal" /\ att[<<o, n>>].recovery = ""
  /\ PrepareAttemptTx(o, n + 1, D)
  /\ att' = RecoveryWithNext(o, n, plan.action)
  /\ op' = [op EXCEPT ![o].recovery = plan.action]
  /\ exec' = [exec EXCEPT ![o] = [@ EXCEPT !.next = n + 1, !.ended = FALSE, !.told = FALSE]]
  /\ rt' = Touched(op[o].rt)
  /\ UNCHANGED <<wf, ledger, sub, mem, hand, pending, batch, aged, wire>>

-----------------------------------------------------------------------------
(* The submission: written ahead of the wire, then updated from memory.    *)

(* upsertSubmissionRecordTx marks the attempt sent unless it is terminal.  *)
MarkSent(a) == IF a.phase = "prepared" THEN [a EXCEPT !.phase = "sent"] ELSE a

(* Mutant: admission is decided when the attempt is prepared, not here.    *)
AdmitsAnySubmission(w) == MaxUnknown < 0 \/ ledger[w]["unknown"] + 1 <= MaxUnknown

(* Mutant: the counters are reserved but the cost is not looked at again.  *)
AdmitsUncostedSubmission(w) ==
  CanReserve(w, {"submissions"}) /\ AdmitsAnySubmission(w)

(* The budget checks of upsertSubmissionRecordTx for a new row.            *)
AdmitsSubmission(w) ==
  /\ CostAdmissible(w)
  /\ CanReserve(w, {"submissions"})
  /\ MaxUnknown < 0 \/ ledger[w]["unknown"] + 1 <= MaxUnknown

(* RecordSubmission: the synchronous checkpoint before the request bytes.  *)
(* It requires only that the operation row is there, not that it is        *)
(* active; the workflow has to be active for the reservation.              *)
RecordSubmission(o, seed) ==
  LET w == WorkflowOf[o]
      s == <<o, exec[o].next>>
      row == [NoSub EXCEPT !.outcome = "in_flight", !.seed = seed]
  IN
  /\ Up(op[o].rt)
  /\ exec[o].pc = "ready" /\ exec[o].next # 0 /\ ~exec[o].ended
  /\ mem[s] = NoSub
  /\ Present(op[o].status)
  /\ sub[s] = NoSub
  /\ AdmitsSubmission(w)
  /\ used' = Reserved(w, {"submissions"})
  /\ ledger' = LedgerAfter([sub EXCEPT ![s] = row])
  /\ sub' = [sub EXCEPT ![s] = row]
  /\ att' = [att EXCEPT ![s] = MarkSent(@)]
  /\ mem' = [mem EXCEPT ![s] = row]
  /\ rt' = Touched(op[o].rt)
  /\ UNCHANGED <<wf, op, exec, hand, pending, batch, aged, wire>>

(* Mutant: the request is written as soon as the attempt is prepared.      *)
SendFirst(o) ==
  /\ Up(op[o].rt) /\ exec[o].pc = "ready" /\ exec[o].next # 0 /\ ~exec[o].ended
  /\ <<o, exec[o].next>> \notin wire
  /\ wire' = wire \cup {<<o, exec[o].next>>}
  /\ UNCHANGED <<rt, rowVars, memVars, aged>>

(* The protocol client writes the request after RecordSubmission returned. *)
Send(o) ==
  LET s == <<o, exec[o].next>> IN
  /\ Up(op[o].rt)
  /\ exec[o].pc = "ready" /\ exec[o].next # 0 /\ ~exec[o].ended
  /\ mem[s].outcome = "in_flight" /\ s \notin wire
  /\ wire' = wire \cup {s}
  /\ UNCHANGED <<rt, rowVars, memVars, aged>>

(* The closures given to updateSubmission.                                 *)
ObserveOutput(x) ==
  IF x.cost = "known" THEN x ELSE [x EXCEPT !.out = @ + 1]
ObserveUsage(x, k) == [x EXCEPT !.cost = "known", !.rep = k]
CompleteSub(x, outcome, k) ==
  LET ended == x.outcome # "in_flight"
      seeded == x.cost = "unknown" /\ x.seed > 0
      cost == IF k > 0 /\ (~ended \/ x.cost # "known") THEN "known"
              ELSE IF ~ended /\ seeded THEN "estimated" ELSE x.cost
  IN [x EXCEPT !.outcome = IF ended THEN @ ELSE outcome,
               !.cost = cost,
               !.rep = IF k > 0 /\ (~ended \/ x.cost # "known") THEN k ELSE @]

Updates(x) ==
  (IF x.out < MaxOutput THEN {ObserveOutput(x)} ELSE {})
    \cup {ObserveUsage(x, k) : k \in Reported}
    \cup {CompleteSub(x, "succeeded", k) : k \in Reported \cup {0}}
    \cup {CompleteSub(x, "failed", 0)}

(* updateSubmission, first half: the submission is updated and copied      *)
(* under e.mu, by the client goroutine or the stream consumer.             *)
UpdateSubmission(o, u) ==
  LET s == <<o, exec[o].next>> IN
  /\ Up(op[o].rt)
  /\ exec[o].pc = "ready" /\ exec[o].next # 0 /\ ~exec[o].ended
  /\ s \in wire
  /\ hand[o][u] = NoBatch
  /\ \E x \in Updates(mem[s]) :
       /\ mem' = [mem EXCEPT ![s] = x]
       /\ hand' = [hand EXCEPT ![o][u] = [NoBatch EXCEPT ![s] = x]]
  /\ UNCHANGED <<rt, rowVars, exec, pending, batch, aged, wire>>

(* Second half: e.mu is released, and enqueueSubmissionProgress puts the   *)
(* copy into the coalescing map over whatever is there.                    *)
Coalesced(r, new) ==
  [s \in SubId |-> IF new[s] # NoSub THEN new[s] ELSE pending[r][s]]

Enqueue(o, u) ==
  LET r == op[o].rt IN
  /\ Up(r)
  /\ hand[o][u] # NoBatch
  /\ pending' = [pending EXCEPT ![r] = Coalesced(r, hand[o][u])]
  /\ hand' = [hand EXCEPT ![o][u] = NoBatch]
  /\ UNCHANGED <<rt, rowVars, exec, mem, batch, aged, wire>>

(* MarkAttemptFirstEvent, tried once per attempt by the consumer.          *)
MarkFirstEvent(o) ==
  LET s == <<o, exec[o].next>> IN
  /\ Up(op[o].rt)
  /\ exec[o].pc = "ready" /\ exec[o].next # 0 /\ ~exec[o].ended /\ ~exec[o].told
  /\ s \in wire
  /\ op[o].status = "active" /\ sub[s] # NoSub /\ att[s].phase # "terminal"
  /\ att' = [att EXCEPT ![s] = [@ EXCEPT !.phase = "streaming", !.event = TRUE]]
  /\ exec' = [exec EXCEPT ![o].told = TRUE]
  /\ rt' = Touched(op[o].rt)
  /\ UNCHANGED <<wf, used, ledger, op, sub, mem, hand, pending, batch, aged, wire>>

-----------------------------------------------------------------------------
(* Landing coalesced progress.                                             *)

Rank(cost) == CASE cost = "known" -> 3 [] cost = "estimated" -> 2 [] OTHER -> 1

Bigger(a, b) == IF a > b THEN a ELSE b

(* Mutant: the last writer wins.                                           *)
MergeLast(old, new) == IF old.outcome = "none" THEN old ELSE new

(* The monotone merge of upsertSubmissionRecordTx: a terminal outcome      *)
(* stays, the better evidence of cost wins, equal evidence takes maxima.   *)
Merge(old, new) ==
  LET outcome == IF old.outcome # "in_flight" THEN old.outcome ELSE new.outcome
      keepEstimate == old.seed + old.out > 0 /\ new.seed + new.out = 0
  IN
  CASE Rank(old.cost) > Rank(new.cost) -> [old EXCEPT !.outcome = outcome]
    [] Rank(old.cost) = Rank(new.cost) ->
         [outcome |-> outcome, cost |-> new.cost, rep |-> Bigger(old.rep, new.rep),
          seed |-> Bigger(old.seed, new.seed), out |-> Bigger(old.out, new.out)]
    [] OTHER ->
         [outcome |-> outcome, cost |-> new.cost, rep |-> new.rep,
          seed |-> IF keepEstimate THEN old.seed ELSE new.seed,
          out  |-> IF keepEstimate THEN old.out ELSE new.out]

(* "submission already completed as": two different terminal outcomes.     *)
Conflict(old, new) ==
  old.outcome # "in_flight" /\ new.outcome \notin {"in_flight", old.outcome}

(* One transaction for the batch: a single bad record drops all of it.     *)
Accepted(b) ==
  \A s \in SubId : b[s] # NoSub => /\ Present(op[s[1]].status)
                                  /\ sub[s] # NoSub
                                  /\ ~Conflict(sub[s], b[s])

(* The rows writeSubmissionProgressBatch leaves.                           *)
Merged(b) == [s \in SubId |-> IF b[s] # NoSub THEN Merge(sub[s], b[s]) ELSE sub[s]]

WriteBatch(b) ==
  /\ Accepted(b)
  /\ sub' = Merged(b)
  /\ att' = [s \in SubId |-> IF b[s] # NoSub THEN MarkSent(att[s]) ELSE att[s]]
  /\ ledger' = LedgerAfter(Merged(b))

(* The 250 ms ticker of startProgressFlusher: claim under progressMu ...   *)
FlusherClaim(r) ==
  /\ Up(r) /\ rt[r].lease = "open"
  /\ batch[r] = NoBatch /\ pending[r] # NoBatch
  /\ batch' = [batch EXCEPT ![r] = pending[r]]
  /\ pending' = [pending EXCEPT ![r] = NoBatch]
  /\ UNCHANGED <<rt, rowVars, exec, mem, hand, aged, wire>>

(* ... and write after progressMu was released.                            *)
FlusherLand(r) ==
  /\ Up(r) /\ batch[r] # NoBatch
  /\ WriteBatch(batch[r])
  /\ batch' = [batch EXCEPT ![r] = NoBatch]
  /\ rt' = Touched(r)
  /\ UNCHANGED <<wf, used, op, exec, mem, hand, pending, aged, wire>>

(* The store cannot be opened or locked, or a record is refused.           *)
FlusherDrop(r) ==
  /\ Up(r) /\ batch[r] # NoBatch
  /\ batch' = [batch EXCEPT ![r] = NoBatch]
  /\ UNCHANGED <<rt, rowVars, exec, mem, hand, pending, aged, wire>>

-----------------------------------------------------------------------------
(* Terminal writes of an execution.                                        *)

(* The stream is drained before Complete is called: both updaters have     *)
(* handed over their last copy and the submission has ended in memory,     *)
(* with the outcome the attempt reports.                                   *)
Drained(o, outcome) ==
  LET s == <<o, exec[o].next>> IN
  /\ \A u \in Updater : hand[o][u] = NoBatch
  /\ mem[s].outcome # "in_flight"
  /\ outcome = "succeeded" => mem[s].outcome = "succeeded"

(* The barrier of CompleteAttempt and CompleteOperation starts: what is    *)
(* pending, of any execution of the runtime, is claimed.                   *)
StartBarrier(o, call, outcome, network) ==
  LET r == op[o].rt IN
  /\ exec' = [exec EXCEPT ![o] = [@ EXCEPT
                !.pc = IF pending[r] = NoBatch THEN "write" ELSE "flush",
                !.call = call, !.outcome = outcome, !.network = network,
                !.claimed = pending[r]]]
  /\ pending' = [pending EXCEPT ![r] = NoBatch]
  /\ UNCHANGED <<rt, rowVars, mem, hand, batch, aged, wire>>

BeginCompleteAttempt(o, outcome, network) ==
  /\ Up(op[o].rt)
  /\ exec[o].pc = "ready" /\ exec[o].next # 0 /\ ~exec[o].ended
  /\ Drained(o, outcome)
  /\ network => outcome = "failed"
  /\ StartBarrier(o, "attempt", outcome, network)

BeginCompleteOperation(o, outcome) ==
  /\ Up(op[o].rt)
  /\ exec[o].pc = "ready"
  /\ exec[o].next # 0 => exec[o].ended
  /\ outcome = "succeeded" => /\ exec[o].next # 0
                              /\ att[<<o, exec[o].next>>].outcome = "succeeded"
  /\ StartBarrier(o, "operation", outcome, FALSE)

BarrierLand(o) ==
  /\ Up(op[o].rt) /\ exec[o].pc = "flush"
  /\ WriteBatch(exec[o].claimed)
  /\ exec' = [exec EXCEPT ![o] = [@ EXCEPT !.pc = "write", !.claimed = NoBatch]]
  /\ rt' = Touched(op[o].rt)
  /\ UNCHANGED <<wf, used, op, mem, hand, pending, batch, aged, wire>>

(* A failed barrier flush is recorded in progressErr and otherwise ignored.*)
BarrierDrop(o) ==
  /\ Up(op[o].rt) /\ exec[o].pc = "flush"
  /\ exec' = [exec EXCEPT ![o] = [@ EXCEPT !.pc = "write", !.claimed = NoBatch]]
  /\ UNCHANGED <<rt, rowVars, mem, hand, pending, batch, aged, wire>>

Returned(o, pc, ended) ==
  [exec EXCEPT ![o] = [@ EXCEPT !.pc = pc, !.ended = ended, !.call = "none",
                                !.outcome = "", !.network = FALSE]]

(* completeInferenceAttemptTx.                                             *)
CompleteAttempt(o) ==
  LET s == <<o, exec[o].next>> IN
  /\ Up(op[o].rt)
  /\ exec[o].pc = "write" /\ exec[o].call = "attempt"
  /\ Present(op[o].status)
  /\ att[s].phase # "terminal"
  /\ att' = [att EXCEPT ![s] = [@ EXCEPT !.phase = "terminal", !.outcome = exec[o].outcome,
                                        !.network = exec[o].network]]
  /\ exec' = Returned(o, "ready", TRUE)
  /\ rt' = Touched(op[o].rt)
  /\ UNCHANGED <<wf, used, ledger, op, sub, mem, hand, pending, batch, aged, wire>>

(* completeInferenceOperationTx, which also clears the recovery action.    *)
CompleteOperation(o) ==
  /\ Up(op[o].rt)
  /\ exec[o].pc = "write" /\ exec[o].call = "operation"
  /\ op[o].status = "active"
  /\ op' = [op EXCEPT ![o] = [@ EXCEPT !.status = exec[o].outcome, !.recovery = ""]]
  /\ exec' = Returned(o, "done", exec[o].ended)
  /\ rt' = Touched(op[o].rt)
  /\ UNCHANGED <<wf, used, ledger, att, sub, mem, hand, pending, batch, aged, wire>>

(* A synchronous call fails: the store is unavailable, or the row is no    *)
(* longer in a state the call accepts.  journalErr makes every later call  *)
(* of the execution fail, so the operation stays as it is in the database. *)
JournalFault(o) ==
  /\ Up(op[o].rt) /\ exec[o].pc \in {"ready", "write"}
  /\ exec' = Returned(o, "poisoned", exec[o].ended)
  /\ UNCHANGED <<rt, rowVars, mem, hand, pending, batch, aged, wire>>

(* Mutant: the workflow ends with its root operation.                      *)
CompleteWorkflowAtRoot(w, outcome) ==
  /\ Up(wf[w].rt)
  /\ wf[w].status = "active"
  /\ \A o \in Operation : WorkflowOf[o] = w /\ Parent[o] = NoParent => op[o].status # "active"
  /\ wf' = [wf EXCEPT ![w].status = outcome]
  /\ rt' = Touched(wf[w].rt)
  /\ UNCHANGED <<used, ledger, op, att, sub, memVars, aged, wire>>

(* completeInferenceWorkflowTx, called by the owner of the workflow.       *)
CompleteWorkflow(w, outcome) ==
  /\ Up(wf[w].rt)
  /\ wf[w].status = "active"
  /\ \A o \in Operation : WorkflowOf[o] = w => op[o].status # "active"
  /\ wf' = [wf EXCEPT ![w].status = outcome]
  /\ rt' = Touched(wf[w].rt)
  /\ UNCHANGED <<used, ledger, op, att, sub, memVars, aged, wire>>

-----------------------------------------------------------------------------
(* Crash recovery by another runtime of the workspace.                     *)

(* Mutant: a stale heartbeat is enough.                                    *)
OrphanedWhenStale(r, q) ==
  /\ q # r
  /\ \/ rt[q].lease = "closed"
     \/ rt[q].lease # "none" /\ rt[q].stale

(* The lease of q is closed, or stale with no process behind the pid.      *)
Orphaned(r, q) ==
  /\ q # r
  /\ \/ rt[q].lease = "closed"
     \/ rt[q].lease # "none" /\ rt[q].stale /\ ~ProcessAlive(q)

OrphanOperations(r) ==
  {o \in Operation : op[o].status = "active" /\ Orphaned(r, op[o].rt)}

(* The attempt row with the highest ordinal.                               *)
IsLast(s) ==
  /\ att[s].phase # "none"
  /\ \A n \in Ordinal : n > s[2] => att[<<s[1], n>>].phase = "none"

LastIn(o, phases) == \E n \in Ordinal : IsLast(<<o, n>>) /\ att[<<o, n>>].phase \in phases

(* recoveryCanCreateAnotherAttempt.                                        *)
CanRetry(recovery) == recovery \in {"replay_same", "wait_then_replay", "transform_payload",
                                    "refresh_auth", "switch_transport", "reschedule_safe"}

(* Mutant: an attempt without a response event counts as never sent.       *)
SentIsSafe(o) ==
  IF ~LastIn(o, {"streaming", "terminal"})
  THEN [status |-> "interrupted", recovery |-> "reschedule_safe"]
  ELSE [status |-> "blocked", recovery |-> "block_ambiguous"]

(* What the journal proves about an operation whose process is gone.       *)
Verdict(o) ==
  IF o \in BestEffort THEN [status |-> "abandoned", recovery |-> "stop"]
  ELSE IF ~LastIn(o, {"sent", "streaming", "terminal"})
       THEN [status |-> "interrupted", recovery |-> "reschedule_safe"]
  ELSE IF LastIn(o, {"terminal"})
       THEN [status |-> "interrupted",
             recovery |-> IF \E n \in Ordinal : IsLast(<<o, n>>) /\ CanRetry(att[<<o, n>>].recovery)
                          THEN "reschedule_safe" ELSE "stop"]
  ELSE [status |-> "blocked", recovery |-> "block_ambiguous"]

SettledOp(r, o) ==
  IF o \in OrphanOperations(r)
  THEN [status |-> Verdict(o).status, recovery |-> Verdict(o).recovery, rt |-> op[o].rt]
  ELSE op[o]

SettledAttempt(r, s) ==
  IF s[1] \in OrphanOperations(r) /\ IsLast(s) /\ att[s].phase # "terminal"
  THEN [att[s] EXCEPT !.phase = "terminal", !.outcome = Verdict(s[1]).status,
                      !.recovery = Verdict(s[1]).recovery, !.network = FALSE]
  ELSE att[s]

SettledSubmission(r, s) ==
  IF s[1] \in OrphanOperations(r) /\ sub[s].outcome = "in_flight"
  THEN [sub[s] EXCEPT !.outcome = IF Verdict(s[1]).status = "abandoned"
                                  THEN "abandoned" ELSE "interrupted"]
  ELSE sub[s]

(* reconcileOrphanWorkflowsTx runs after the operations were settled.      *)
OrphanWorkflows(r) ==
  {w \in Workflow : /\ wf[w].status = "active" /\ Orphaned(r, wf[w].rt)
                    /\ \A o \in Operation : WorkflowOf[o] = w => SettledOp(r, o).status # "active"}

WorkflowVerdict(r, w) ==
  IF \E o \in Operation : WorkflowOf[o] = w /\ SettledOp(r, o).status = "blocked" THEN "blocked"
  ELSE IF w \in BestEffort THEN "abandoned" ELSE "interrupted"

(* Prune has deleted every operation row of w.                             *)
Hollow(w) == \A o \in Operation : WorkflowOf[o] = w => ~Present(op[o].status)

(* The whole recovery is one transaction.  orphanWorkflowOutcomeTx scans   *)
(* SUM over the workflow's operations, which is NULL when there are none:  *)
(* the scan fails and everything is rolled back.                           *)
ReconcileOrphans(r) ==
  /\ \A w \in OrphanWorkflows(r) : ~Hollow(w)
  /\ op' = [o \in Operation |-> SettledOp(r, o)]
  /\ att' = [s \in SubId |-> SettledAttempt(r, s)]
  /\ sub' = [s \in SubId |-> SettledSubmission(r, s)]
  /\ wf' = [w \in Workflow |-> IF w \in OrphanWorkflows(r)
                               THEN [wf[w] EXCEPT !.status = WorkflowVerdict(r, w)]
                               ELSE wf[w]]
  /\ UNCHANGED <<used, ledger, memVars, aged, wire>>

(* settleOnBoot: reconcile, carrying on if that fails, then prune.         *)
BootReconcile(r) ==
  /\ Up(r) /\ rt[r].lease = "open" /\ rt[r].boot = "reconcile"
  /\ ReconcileOrphans(r) \/ UNCHANGED <<rowVars, memVars, aged, wire>>
  /\ rt' = [rt EXCEPT ![r].boot = "prune"]

(* startInferenceJournalMaintenance: the periodic pass.                    *)
Maintain(r) ==
  /\ Up(r) /\ rt[r].lease = "open" /\ rt[r].boot = "done"
  /\ ReconcileOrphans(r)
  /\ UNCHANGED rt

(* inferenceJournalRetention (30 days) passes since the last update of a   *)
(* terminal row: nothing of it is in memory any more, and no server is in  *)
(* the middle of settleOnBoot, which reads the clock once.                 *)
Forgotten(o) ==
  /\ exec[o].pc \in {"done", "gone"}
  /\ \A u \in Updater : hand[o][u] = NoBatch
  /\ \A s \in SubId : s[1] = o =>
       /\ \A r \in Runtime : pending[r][s] = NoSub /\ batch[r][s] = NoSub
       /\ \A p \in Operation : exec[p].claimed[s] = NoSub

RetentionPasses ==
  /\ ~\E r \in Runtime : Booting(r)
  /\ \/ \E o \in Operation : op[o].status \in Settled /\ Forgotten(o) /\ aged' = aged \cup {o}
     \/ \E w \in Workflow : wf[w].status \in Settled /\ aged' = aged \cup {w}
  /\ UNCHANGED <<rt, rowVars, memVars, wire>>

(* Prune, first statement; attempts and submissions cascade.               *)
PruneOperations(r) ==
  /\ Up(r) /\ rt[r].lease = "open" /\ rt[r].boot = "prune"
  /\ op' = [o \in Operation |-> IF o \in aged THEN [op[o] EXCEPT !.status = "pruned"] ELSE op[o]]
  /\ att' = [s \in SubId |-> IF s[1] \in aged THEN NoAttempt ELSE att[s]]
  /\ sub' = [s \in SubId |-> IF s[1] \in aged THEN NoSub ELSE sub[s]]
  /\ rt' = [rt EXCEPT ![r].boot = "prune_workflows"]
  /\ UNCHANGED <<wf, used, ledger, memVars, aged, wire>>

(* Prune, second statement, a transaction of its own.                      *)
PruneWorkflows(r) ==
  /\ Up(r) /\ rt[r].lease = "open" /\ rt[r].boot = "prune_workflows"
  /\ wf' = [w \in Workflow |-> IF w \in aged /\ Hollow(w)
                               THEN [wf[w] EXCEPT !.status = "pruned"] ELSE wf[w]]
  /\ rt' = [rt EXCEPT ![r].boot = "done"]
  /\ UNCHANGED <<used, ledger, op, att, sub, memVars, aged, wire>>

-----------------------------------------------------------------------------
RuntimeStep(r) ==
  \/ NewRuntime(r) \/ StartServer(r) \/ CloseServer(r) \/ Heartbeat(r) \/ HeartbeatLapse(r)
  \/ BeginClose(r) \/ FinishClose(r) \/ Crash(r) \/ ReusePid(r)
  \/ FlusherClaim(r) \/ FlusherLand(r) \/ FlusherDrop(r)
  \/ BootReconcile(r) \/ Maintain(r) \/ PruneOperations(r) \/ PruneWorkflows(r)

ExecutionStep(o) ==
  \/ \E r \in Runtime : PrepareOperation(r, o)
  \/ BeginAttempt(o)
  \/ \E plan \in Plan : PrepareRecoveryAttempt(o, plan)
  \/ \E seed \in Seeds : RecordSubmission(o, seed)
  \/ Send(o)
  \/ \E u \in Updater : UpdateSubmission(o, u) \/ Enqueue(o, u)
  \/ MarkFirstEvent(o)
  \/ \E outcome \in Completed, network \in BOOLEAN : BeginCompleteAttempt(o, outcome, network)
  \/ \E outcome \in Completed : BeginCompleteOperation(o, outcome)
  \/ BarrierLand(o) \/ BarrierDrop(o)
  \/ CompleteAttempt(o) \/ CompleteOperation(o) \/ JournalFault(o)

Next ==
  \/ \E r \in Runtime : RuntimeStep(r)
  \/ \E o \in Operation : ExecutionStep(o)
  \/ \E w \in Workflow, outcome \in Completed : CompleteWorkflow(w, outcome)
  \/ RetentionPasses

Spec == Init /\ [][Next]_vars

(* Time passes for a dead process's heartbeat; a booted server runs through*)
(* settleOnBoot and its maintenance ticker keeps firing.  Nothing is       *)
(* assumed of executions, providers, flushers or of a process staying up.  *)
Fairness ==
  \A r \in Runtime :
    /\ WF_vars(~Up(r) /\ HeartbeatLapse(r))
    /\ WF_vars(BootReconcile(r))
    /\ WF_vars(PruneOperations(r))
    /\ WF_vars(PruneWorkflows(r))
    /\ WF_vars(Maintain(r))

FairSpec == Spec /\ Fairness

-----------------------------------------------------------------------------
(* Properties.                                                             *)

RuntimeRow == [lease : {"none", "open", "closing", "closed"}, stale : BOOLEAN,
               proc : {"none", "up", "gone", "reused"},
               boot : {"none", "reconcile", "prune", "prune_workflows", "done", "closed"}]
WorkflowRow == [status : RowStatus, rt : Runtime]
OperationRow == [status : RowStatus, recovery : Recovery, rt : Runtime]
AttemptRow == [phase : Phase, outcome : {""} \cup Settled, recovery : Recovery,
               network : BOOLEAN, event : BOOLEAN]
Execution == [pc : Pc, next : 0 .. AttemptLimit, ended : BOOLEAN, told : BOOLEAN,
              call : {"none", "attempt", "operation"}, outcome : {""} \cup Completed,
              network : BOOLEAN, claimed : Batches]

(* Every variable has its type.  The cost columns are left to             *)
(* LedgerMatchesRows, which says what they are.                            *)
TypeOK ==
  /\ rt \in [Runtime -> RuntimeRow]
  /\ wf \in [Workflow -> WorkflowRow]
  /\ used \in [Workflow -> [Dimension -> Nat]]
  /\ op \in [Operation -> OperationRow]
  /\ att \in [SubId -> AttemptRow]
  /\ sub \in [SubId -> Submission \cup {NoSub}]
  /\ exec \in [Operation -> Execution]
  /\ mem \in [SubId -> Submission \cup {NoSub}]
  /\ hand \in [Operation -> [Updater -> Batches]]
  /\ pending \in [Runtime -> Batches]
  /\ batch \in [Runtime -> Batches]
  /\ aged \subseteq Operation \cup Workflow
  /\ wire \subseteq SubId

(* A workflow is terminal only when nothing under it can still run: every  *)
(* active operation belongs to an active workflow of the same runtime.     *)
(* (prepareWorkflowTx, completeInferenceWorkflowTx, ReconcileOrphans)      *)
ActiveOperationHasActiveWorkflow ==
  \A o \in Operation : op[o].status = "active" =>
    wf[WorkflowOf[o]].status = "active" /\ wf[WorkflowOf[o]].rt = op[o].rt

(* A recovery action recorded on an attempt of a running operation always  *)
(* has the attempt it announces beside it: a crash cannot separate them.   *)
(* (PrepareRecoveryAttempt)                                                *)
RecoveryHasSuccessor ==
  \A s \in SubId : op[s[1]].status = "active" /\ att[s].recovery # "" =>
    s[2] < AttemptLimit /\ att[<<s[1], s[2] + 1>>].phase # "none"

(* Whatever was sent has a submission row, until Prune deletes it.         *)
(* (RecordSubmission before the protocol client's send)                    *)
WriteAhead ==
  \A s \in wire : op[s[1]].status # "pruned" => sub[s] # NoSub

(* An operation handed back as safe to reschedule has not put its latest   *)
(* attempt on the wire, neither before the verdict nor after it by an      *)
(* execution that outlived its runtime lease.  (ReconcileOrphans)          *)
RescheduleSafeNeverSent ==
  \A s \in SubId :
    op[s[1]].status \in Settled /\ op[s[1]].recovery = "reschedule_safe" /\ IsLast(s)
      => s \notin wire

(* The inductive strengthening of the invariants above.                    *)

Row(s) == sub[s] # NoSub
Deleted(o) == op[o].status = "pruned"

(* Only settled rows age, and only rows no execution can still touch.      *)
AgedRows ==
  /\ \A o \in Operation : o \in aged =>
       op[o].status \in Settled \cup {"pruned"} /\ exec[o].pc \in {"done", "gone"}
  /\ \A o \in Operation : Deleted(o) => o \in aged
  /\ \A w \in Workflow : w \in aged => wf[w].status \in Settled \cup {"pruned"}

(* Execution and rows agree: attempt rows are exactly 1 .. next, and the   *)
(* owner's own outcome ends the execution.                                 *)
ExecutionMatchesRows ==
  \A o \in Operation :
    /\ exec[o].pc = "none" <=> op[o].status = "none"
    /\ exec[o].pc = "none" => exec[o].next = 0
    /\ exec[o].pc \in {"flush", "write"} => exec[o].outcome \in Completed
    /\ exec[o].call = "attempt" => exec[o].next # 0
    /\ op[o].status \in Completed => exec[o].pc \in {"done", "gone"}
    /\ exec[o].pc # "gone" /\ ~Deleted(o) =>
         \A n \in Ordinal : att[<<o, n>>].phase # "none" <=> n <= exec[o].next
    /\ op[o].status # "none" => wf[WorkflowOf[o]].status # "none"

(* Wire, memory and rows agree: memory and the wire are backed by a row,   *)
(* and a row by an attempt that is at least sent.                          *)
WireMatchesRows ==
  \A s \in SubId :
    /\ mem[s] # NoSub \/ s \in wire => Row(s) \/ Deleted(s[1])
    /\ s \in wire => mem[s] # NoSub \/ exec[s[1]].pc = "gone"
    /\ att[s].phase = "none" => att[s].recovery = "" /\ ~Row(s)
    /\ Row(s) /\ op[s[1]].status = "active" => att[s].phase # "prepared"

(* A verdict of safety outlives its transaction: the workflow is closed to *)
(* new submissions and the latest attempt has none.                        *)
SafeVerdictIsFinal ==
  \A s \in SubId :
    op[s[1]].status \in Settled /\ op[s[1]].recovery = "reschedule_safe" =>
      /\ wf[WorkflowOf[s[1]]].status # "active"
      /\ IsLast(s) => ~Row(s)

JournalInvariant ==
  /\ ActiveOperationHasActiveWorkflow
  /\ RecoveryHasSuccessor
  /\ AgedRows
  /\ ExecutionMatchesRows
  /\ WireMatchesRows
  /\ SafeVerdictIsFinal

(* Workflows none of whose operations was deleted: their rows are complete.*)
Whole(w) == \A o \in Operation : WorkflowOf[o] = w => op[o].status # "pruned"

(* The cost columns are the sum over the submission rows, whatever order   *)
(* the direct writes, the flusher and the barriers landed them in.         *)
(* (applyWorkflowCostDeltaTx)                                              *)
LedgerMatchesRows ==
  \A w \in Workflow : Whole(w) => \A c \in CostColumn :
    ledger[w][c] = SumFunction([s \in Rows(w) |-> Contribution(sub[s])[c]])

(* The counters of operations, attempts, submissions and replays equal the *)
(* rows that spent them; a replay is charged exactly when the attempt      *)
(* before it was answered.                                                 *)
(* (reserveWorkflowCounterTx in the transaction of the row)                *)
CountersMatchRows ==
  \A w \in Workflow : Whole(w) =>
    /\ used[w]["operations"] = Cardinality({o \in Operation : WorkflowOf[o] = w /\ op[o].status # "none"})
    /\ used[w]["attempts"] = Cardinality({s \in Rows(w) : att[s].phase # "none"})
    /\ used[w]["submissions"] = Cardinality({s \in Rows(w) : sub[s] # NoSub})
    /\ used[w]["replays"] = Cardinality({s \in Rows(w) : att[s].phase # "none" /\ s[2] > 1
                                            /\ Answered(att[<<s[1], s[2] - 1>>])})

(* No other process settles an operation while its runtime holds the lease *)
(* and its process runs, however stale the heartbeat is: only its own      *)
(* execution does.  (ReconcileOrphans, process check)                      *)
LiveOwnerSettlesItself ==
  [][\A o \in Operation :
       op[o].status = "active" /\ op'[o].status # "active"
         /\ Up(op[o].rt) /\ rt[op[o].rt].lease \in {"open", "closing"}
       => exec[o].pc = "write" /\ exec[o].call = "operation"]_vars

(* Terminal outcomes are final for operations, attempts, workflows and     *)
(* submissions, and evidence of cost never gets worse, although a late     *)
(* flush, a late completion and a recovery race for the same rows.         *)
OutcomesAreFinal ==
  [][/\ \A o \in Operation : op[o].status \in Settled =>
          op'[o].status \in {op[o].status, "pruned"}
     /\ \A w \in Workflow : wf[w].status \in Settled =>
          wf'[w].status \in {wf[w].status, "pruned"}
     /\ \A s \in SubId : op'[s[1]].status # "pruned" =>
          /\ att[s].phase = "terminal" => att'[s].phase = "terminal" /\ att'[s].outcome = att[s].outcome
          /\ sub[s].outcome \notin {"none", "in_flight"} => sub'[s].outcome = sub[s].outcome
          /\ Rank(sub'[s].cost) >= Rank(sub[s].cost)]_vars

(* Under a usage limit no submission starts while the cost of another one  *)
(* of the workflow is unknown.  (assertWorkflowCostAdmissibleTx)           *)
HardLimitNeverBlind ==
  [][\A s \in SubId : MaxUsage >= 0 /\ sub[s] = NoSub /\ sub'[s] # NoSub =>
       \A t \in Rows(WorkflowOf[s[1]]) : sub[t] # NoSub => sub[t].cost # "unknown"]_vars

(* What the rows say of an operation in the terms of RequestRecovery.      *)
Standing(row) ==
  CASE row.status = "none"      -> "none"
    [] row.status = "active"    -> "running"
    [] row.status = "pruned"    -> "deleted"
    [] row.status \in Completed -> "ended"
    [] OTHER -> IF row.recovery = "reschedule_safe" THEN "safe" ELSE "unsafe"

Contract == INSTANCE RequestRecovery WITH
  state <- [o \in Operation |-> Standing(op[o])],
  tries <- {s \in SubId : att[s].phase # "none"},
  sent <- wire

(* The journal, its crashes, late writers, recoverers and retention, keeps *)
(* the recovery contract: attempts are sent at most once and in order, and *)
(* an operation judged safe to reschedule is never sent again.             *)
(* (the whole of inference_journal.go)                                     *)
KeepsRecoveryContract == Contract!Spec

(* A crashed process leaves its operation active.                          *)
OrphanOf(o) == op[o].status = "active" /\ rt[op[o].rt].proc = "gone"
Settles(o) == OrphanOf(o) ~> op[o].status # "active"

Maintained(r) == Up(r) /\ rt[r].boot \notin {"none", "closed"}
NoReusedPid == \A r \in Runtime : rt[r].proc # "reused"
NoHollowWorkflow == \A w \in Workflow : wf[w].status = "active" => ~Hollow(w)

(* Every operation of a crashed process is settled, provided some server of*)
(* the workspace stays up, dead pids are eventually no longer in use, and  *)
(* no unfinished workflow lost all its rows.  (ReconcileOrphans)           *)
OrphansSettle ==
  \A r \in Runtime, o \in Operation :
    <>[]Maintained(r) /\ <>[]NoReusedPid /\ []NoHollowWorkflow => Settles(o)

=============================================================================
