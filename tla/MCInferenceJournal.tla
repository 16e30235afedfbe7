------------------------ MODULE MCInferenceJournal ------------------------
(* Instances of InferenceJournal for TLC.                                  *)
EXTENDS InferenceJournalClaims, TLC

CONSTANTS r1, r2, w1, w2, o1, o2

Unlimited == -1
OneToken == 1
NoLimit == [d \in Dimension |-> -1]
OneReplay == [NoLimit EXCEPT !["replays"] = 1]
OneWorkflow == [o \in Operation |-> w1]
OneEach == [o \in Operation |-> IF o = o1 THEN w1 ELSE w2]
Replay == {[action |-> "replay_same", waits |-> TRUE]}
NoPlan == {}
NoParents == [o \in Operation |-> NoParent]
SecondIsChild == [o \in Operation |-> IF o = o1 THEN NoParent ELSE o1]

(* r1 does the work, without a server of its own, and may stop in any way; *)
(* r2 comes when the heartbeat of r1 has lapsed or its process is gone, it *)
(* serves: it settles, prunes and keeps maintaining.  A month passes when  *)
(* r1 is no more, its heartbeat is old and its pid is not in use.          *)
WorkerAndRecoverer ==
  /\ rt[r1].boot = "none"
  /\ rt[r2].lease \in {"none", "open"} /\ rt[r2].proc \in {"none", "up"} /\ ~rt[r2].stale
  /\ rt[r2].boot # "closed"
  /\ rt[r2].lease # "none" => rt[r1].stale \/ ~Up(r1)
  /\ aged # {} => rt[r1].proc = "gone" /\ rt[r1].stale
  /\ \A w \in Workflow : wf[w].status # "none" => wf[w].rt = r1

(* r1 crashes in the middle of its work, before r2 is there.               *)
CrashedWorker ==
  /\ WorkerAndRecoverer
  /\ rt[r1].lease \in {"none", "open"}
  /\ rt[r2].lease # "none" => ~Up(r1)

(* One process, which may stop.                                            *)
SingleWorker ==
  /\ rt[r1].boot = "none" /\ rt[r1].lease \in {"none", "open"} /\ ~rt[r1].stale
  /\ rt[r1].proc \in {"none", "up"}

(* Either r1 and r2 as above and one operation, or r1 alone and a second   *)
(* operation, and then no cost is reported and nothing waits for the       *)
(* flusher.  The smaller total is reported where no output was counted.    *)
LateOrSecond ==
  /\ \A s \in SubId : mem[s].out > 0 => mem[s].rep # 1
  /\ IF op[o2].status = "none"
     THEN WorkerAndRecoverer
     ELSE /\ SingleWorker /\ rt[r2].lease = "none" /\ batch[r1] = NoBatch
          /\ \A s \in SubId : mem[s].rep = 0 /\ mem[s].out = 0

=============================================================================
