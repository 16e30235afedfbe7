---------------------------- MODULE ResultDelivery ----------------------------
(***************************************************************************)
(* How the results of background workers reach the conversation of the     *)
(* thread that spawned them: agentcontrol/worker_terminal_ack.go,          *)
(* delivery.go, tree_freeze.go and the turn paths of                       *)
(* appserver/turn_handlers.go, for one thread that several app-servers     *)
(* serve.  A worker that ends leaves a terminal record; whoever finalises  *)
(* it enters the result in a durable ledger, announces it to the thread    *)
(* and removes the record.  An announced result waits as a steer of the    *)
(* running turn, or in a queue for a turn of its own; the turn that        *)
(* answers it claims it in the ledger.                                     *)
(*                                                                         *)
(* Queues are sets: their order decides nothing here.  A drain may run     *)
(* whenever its queue holds something; ExecutionRuns has the flag, the     *)
(* kicks and the retry timer that decide when it does.                     *)
(*                                                                         *)
(* The table of held messages is changed by reading all of it and writing  *)
(* all of it anew, and the mutex around the two is a server's own: what    *)
(* another server wrote in between is lost.                                *)
(***************************************************************************)
EXTENDS Naturals, FiniteSets

CONSTANTS Server, Result, Nobody

ASSUME DeliveryAssumption == Nobody \notin Server

VARIABLES
  record,   \* the terminal record of each worker: none, pending, removed
  ledger,   \* the result's entry in events.jsonl: absent, ready or its consumer
  chat,     \* what the history says of the result (agentCompletionMarkerAnswered)
  held,     \* completion steers in the table held_user_work
  lease,    \* who has the thread's execution lease
  worker,   \* how far the worker is, and whose execution it is
  alive,    \* servers that run
  mem,      \* what a server has in memory about the thread
  turn,     \* its turn
  request,  \* how far it is with a turn/steer of a held message
  edit,     \* heldUserWorkMu: what it read of the table, and what for
  answers,  \* history: durable answers to the result, up to 2
  excused,  \* history: results that were answered and could be answered again
  dropped,  \* history: results that some server let go of
  overwritten \* history: held results that the table loses to another write

durable == <<record, ledger, chat, held>>
history == <<answers, excused, dropped>>
editing == <<request, edit, overwritten>>
vars == <<durable, lease, worker, alive, mem, turn, history, editing>>

Consumer == {"auto_completion", "frozen_tree_snapshot"}
Stage == {"unborn", "working", "prepared", "noted", "vouched", "handed", "orphan", "lost", "done"}

Memory ==
  [open : BOOLEAN, final : SUBSET Result, steers : SUBSET Result, queue : SUBSET Result,
   leftover : SUBSET Result, taken : SUBSET Result, qtaken : SUBSET Result,
   folded : SUBSET Result, replay : BOOLEAN, frozen : BOOLEAN, stopping : BOOLEAN]
TurnState ==
  [pc : {"idle", "admitted", "started", "running", "persisted"}, about : SUBSET Result,
   ids : SUBSET Result, marks : SUBSET Result,
   stamped : SUBSET Result, good : BOOLEAN]
RequestState == [at : {"none", "found", "starting", "started"}, of : SUBSET Result]
EditState ==
  [job : {"none", "interrupt", "steer", "start", "delete", "other"}, of : SUBSET Result,
   view : SUBSET Result]

Blank == [open |-> FALSE, final |-> {}, steers |-> {}, queue |-> {}, leftover |-> {},
          taken |-> {}, qtaken |-> {}, folded |-> {}, replay |-> FALSE,
          frozen |-> FALSE, stopping |-> FALSE]
NoTurn == [pc |-> "idle", about |-> {}, ids |-> {}, marks |-> {},
           stamped |-> {}, good |-> FALSE]
NoRequest == [at |-> "none", of |-> {}]
NoEdit == [job |-> "none", of |-> {}, view |-> {}]

Init ==
  /\ record = [r \in Result |-> "none"] /\ ledger = [r \in Result |-> "absent"]
  /\ chat = [r \in Result |-> "none"] /\ held = {} /\ lease = Nobody
  /\ worker = [r \in Result |-> [at |-> "unborn", by |-> Nobody]]
  /\ alive = Server /\ mem = [s \in Server |-> Blank] /\ turn = [s \in Server |-> NoTurn]
  /\ request = [s \in Server |-> NoRequest] /\ edit = [s \in Server |-> NoEdit]
  /\ answers = [r \in Result |-> 0] /\ excused = {} /\ dropped = {} /\ overwritten = {}

TypeOK ==
  /\ record \in [Result -> {"none", "pending", "removed"}]
  /\ ledger \in [Result -> {"absent", "ready"} \cup Consumer]
  /\ chat \in [Result -> {"none", "open", "cut", "answered"}]
  /\ held \subseteq Result /\ lease \in Server \cup {Nobody}
  /\ worker \in [Result -> [at : Stage, by : Server \cup {Nobody}]]
  /\ alive \subseteq Server
  /\ mem \in [Server -> Memory] /\ turn \in [Server -> TurnState]
  /\ request \in [Server -> RequestState] /\ edit \in [Server -> EditState]
  /\ answers \in [Result -> 0 .. 2] /\ excused \subseteq Result /\ dropped \subseteq Result
  /\ overwritten \subseteq Result

(* th.running: from the start of a turn until its lease is given back.     *)
Running(s) == turn[s].pc \in {"started", "running", "persisted"}

(* th.mu is held from the read of the table to its replacement where the   *)
(* running turn is interrupted or steered.                                 *)
Unlocked(s) == edit[s].job \notin {"interrupt", "steer"}

(* PendingRootAgentCompletions.                                            *)
ReadyResults == {r \in Result : ledger[r] = "ready"}

(* steerAgentCompletion, else enqueueAgentCompletionTurn: both drop what   *)
(* they already hold.                                                      *)
Announced(m, running, results) ==
  IF running THEN [m EXCEPT !.steers = @ \cup results] ELSE [m EXCEPT !.queue = @ \cup results]

(* ensureThreadRuntime in an admission: opening the runtime replays every  *)
(* result that is still to be consumed.                                    *)
Opened(s) ==
  IF mem[s].open THEN mem[s] ELSE Announced([mem[s] EXCEPT !.open = TRUE], FALSE, ReadyResults)

(* A server's places for a result that it has yet to bring to an end.      *)
Carried(s) ==
  IF mem[s].replay THEN Result
  ELSE mem[s].steers \cup mem[s].queue \cup mem[s].leftover \cup mem[s].taken
       \cup mem[s].qtaken \cup mem[s].folded \cup turn[s].about \cup turn[s].ids
       \cup (IF edit[s].job = "interrupt" THEN edit[s].of ELSE {})

(***************************************************************************)
(* Workers and their finalisation.                                         *)
(***************************************************************************)
(* The running turn of s spawns a background worker.                       *)
Spawn(s, r) ==
  /\ turn[s].pc = "running" /\ worker[r].at = "unborn"
  /\ worker' = [worker EXCEPT ![r] = [at |-> "working", by |-> s]]
  /\ UNCHANGED <<durable, lease, alive, mem, turn, history, editing>>

Moves(s, r, from, to) ==
  /\ worker[r] = [at |-> from, by |-> s]
  /\ worker' = [worker EXCEPT ![r].at = to]

(* prepareWorkerTerminal: the record is durable before the worker's end    *)
(* is seen.                                                                *)
Prepare(s, r) ==
  /\ Moves(s, r, "working", "prepared")
  /\ record' = [record EXCEPT ![r] = "pending"]
  /\ UNCHANGED <<ledger, chat, held, lease, alive, mem, turn, history, editing>>

(* consumeWorkerNotification: the ready entry, unless there is one.        *)
MarkReady(s, r) ==
  /\ Moves(s, r, "prepared", "noted")
  /\ ledger' = [ledger EXCEPT ![r] = IF @ = "absent" THEN "ready" ELSE @]
  /\ UNCHANGED <<record, chat, held, lease, alive, mem, turn, history, editing>>

(* finalizeAgentTerminal up to its look at the consumer: one announcement  *)
(* per process, and none for a result that has a consumer.                 *)
Check(s, r) ==
  /\ IF r \in mem[s].final \/ ledger[r] # "ready"
     THEN Moves(s, r, "noted", "handed") ELSE Moves(s, r, "noted", "vouched")
  /\ mem' = [mem EXCEPT ![s].final = @ \cup {r}]
  /\ UNCHANGED <<durable, lease, alive, turn, history, editing>>

Hand(s, r) ==
  /\ Unlocked(s) /\ Moves(s, r, "vouched", "handed")
  /\ mem' = [mem EXCEPT ![s] = Announced(@, Running(s), {r})]
  /\ UNCHANGED <<durable, lease, alive, turn, history, editing>>

(* acknowledgeWorkerTerminalFinalization, and the worker is given up.      *)
Acknowledge(s, r) ==
  /\ worker[r] = [at |-> "handed", by |-> s]
  /\ worker' = [worker EXCEPT ![r] = [at |-> "done", by |-> Nobody]]
  /\ record' = [record EXCEPT ![r] = "removed"]
  /\ UNCHANGED <<ledger, chat, held, lease, alive, mem, turn, history, editing>>

(* startPendingWorkerTerminalRecovery: a record whose worker nobody has.   *)
Recover(s, r) ==
  /\ s \in alive /\ mem[s].open
  /\ record[r] = "pending" /\ worker[r].by = Nobody
  /\ worker' = [worker EXCEPT ![r] = [at |-> "prepared", by |-> s]]
  /\ UNCHANGED <<durable, lease, alive, mem, turn, history, editing>>

(***************************************************************************)
(* Admission of a turn.                                                    *)
(***************************************************************************)
(* drainAgentCompletionTurns takes one result, after everything the user   *)
(* has queued and not while the worker tree is frozen.                     *)
TakeResult(s, r) ==
  /\ ~Running(s) /\ ~mem[s].frozen /\ mem[s].leftover = {} /\ mem[s].qtaken = {}
  /\ mem[s].taken = {} /\ r \in mem[s].queue
  /\ mem' = [mem EXCEPT ![s].queue = @ \ {r}, ![s].taken = {r}]
  /\ UNCHANGED <<durable, lease, worker, alive, turn, history, editing>>

(* drainQueuedTurns takes a steer that a turn left behind.                 *)
TakeLeftover(s, r) ==
  /\ ~Running(s) /\ mem[s].qtaken = {} /\ r \in mem[s].leftover
  /\ mem' = [mem EXCEPT ![s].leftover = @ \ {r}, ![s].qtaken = {r}]
  /\ UNCHANGED <<durable, lease, worker, alive, turn, history, editing>>

(* The thread is busy, here or elsewhere: what was taken goes back.        *)
PutBack(s) ==
  /\ lease # Nobody /\ mem[s].taken \cup mem[s].qtaken # {}
  /\ \/ mem' = [mem EXCEPT ![s].queue = @ \cup mem[s].taken, ![s].taken = {}]
     \/ mem' = [mem EXCEPT ![s].leftover = @ \cup mem[s].qtaken, ![s].qtaken = {}]
  /\ UNCHANGED <<durable, lease, worker, alive, turn, history, editing>>

Admitted(about) == [NoTurn EXCEPT !.pc = "admitted", !.about = about]

(* Mutant: the gate looks at the history only.                             *)
DeliveredInHistory(r) == chat[r] = "answered"

(* gateAlreadyDeliveredCompletions: the result has a consumer, or the      *)
(* history already answers it.                                             *)
Delivered(r) == ledger[r] # "ready" \/ chat[r] = "answered"

(* Under the lease the runtime is opened and the result passes the gate;   *)
(* m is the server's memory without the entry the turn would be about.     *)
(* A delivered result is claimed if it was not, and forgotten.             *)
Gate(s, r, m) ==
  IF Delivered(r)
  THEN /\ ledger' = [ledger EXCEPT ![r] = IF @ = "ready" THEN "auto_completion" ELSE @]
       /\ mem' = [mem EXCEPT ![s] = m]
       /\ UNCHANGED <<lease, turn>>
  ELSE /\ lease' = s /\ turn' = [turn EXCEPT ![s] = Admitted({r})]
       /\ mem' = [mem EXCEPT ![s] = m]
       /\ UNCHANGED ledger

Admission(s) == s \in alive /\ lease = Nobody /\ ~Running(s)

AdmitResult(s, r) ==
  /\ Admission(s) /\ r \in mem[s].taken
  /\ Gate(s, r, [Opened(s) EXCEPT !.taken = {}])
  /\ UNCHANGED <<record, chat, held, worker, alive, history, editing>>

AdmitLeftover(s, r) ==
  /\ Admission(s) /\ r \in mem[s].qtaken
  /\ Gate(s, r, [Opened(s) EXCEPT !.qtaken = {}])
  /\ UNCHANGED <<record, chat, held, worker, alive, history, editing>>

(* handleTurnSteer begins with findHeldUserTurn.                           *)
Find(s, r) ==
  /\ s \in alive /\ request[s] = NoRequest /\ edit[s] = NoEdit /\ r \in held
  /\ request' = [request EXCEPT ![s] = [at |-> "found", of |-> {r}]]
  /\ UNCHANGED <<durable, lease, worker, alive, mem, turn, history, edit, overwritten>>

Answer(s, at) == request' = [request EXCEPT ![s] = [@ EXCEPT !.at = at]]
Refuse(s) == request' = [request EXCEPT ![s] = NoRequest]

(* The request is refused: a turn that stops, or another one than it       *)
(* expects, or a lease that somebody has.                                  *)
GiveUp(s) ==
  /\ request[s].at = "found" /\ Refuse(s)
  /\ UNCHANGED <<durable, lease, worker, alive, mem, turn, history, edit, overwritten>>

(* While no turn runs, the message that was found gets a turn, wherever it *)
(* is by now.  It leaves the table once its turn has been launched.        *)
AdmitHeld(s, r) ==
  /\ Admission(s) /\ request[s] = [at |-> "found", of |-> {r}]
  /\ Gate(s, r, Opened(s))
  /\ Answer(s, IF Delivered(r) THEN "started" ELSE "starting")
  /\ UNCHANGED <<record, chat, held, worker, alive, history, edit, overwritten>>

(* A claim of the gate that the store refuses: startSyntheticTurn retries, *)
(* drainQueuedTurns gives up, and so does handleTurnSteer.                 *)
GateFails(s, r) ==
  /\ Admission(s) /\ ledger[r] = "ready" /\ chat[r] = "answered"
  /\ \/ /\ r \in mem[s].taken
        /\ mem' = [mem EXCEPT ![s] = [Opened(s) EXCEPT !.taken = {}, !.queue = @ \cup {r}]]
        /\ UNCHANGED <<dropped, request>>
     \/ /\ r \in mem[s].qtaken
        /\ mem' = [mem EXCEPT ![s] = [Opened(s) EXCEPT !.qtaken = {}]]
        /\ dropped' = dropped \cup {r}
        /\ UNCHANGED request
     \/ /\ request[s] = [at |-> "found", of |-> {r}] /\ Refuse(s)
        /\ mem' = [mem EXCEPT ![s] = Opened(s)]
        /\ UNCHANGED dropped
  /\ UNCHANGED <<durable, lease, worker, alive, turn, answers, excused, edit, overwritten>>

(* Mutant: only a result that is ready is claimed.                         *)
SnapshottedReady(claimed) ==
  [r \in Result |-> IF r \in claimed /\ ledger[r] = "ready" THEN "frozen_tree_snapshot" ELSE ledger[r]]

(* Mutant: whoever claimed first loses the claim.                          *)
SnapshottedAll(claimed) ==
  [r \in Result |-> IF r \in claimed THEN "frozen_tree_snapshot" ELSE ledger[r]]

(* claimAgentResultDelivery for the snapshot: the entry is made if there   *)
(* is none, and claimed if nobody did.                                     *)
Snapshotted(claimed) ==
  [r \in Result |->
     IF r \in claimed /\ ledger[r] \in {"absent", "ready"} THEN "frozen_tree_snapshot" ELSE ledger[r]]

(* A turn of the user.  If the worker tree is frozen, foldFrozenWorkerTree *)
(* lifts the freeze: the waiting results join the turn, and the results of *)
(* the pending records are claimed for the snapshot it is shown, except    *)
(* where the claim fails.                                                  *)
AdmitUser(s) ==
  /\ Admission(s)
  /\ LET m == Opened(s) IN
       IF ~m.frozen
       THEN /\ mem' = [mem EXCEPT ![s] = m]
            /\ UNCHANGED <<record, ledger, dropped>>
       ELSE \E claimed \in SUBSET {r \in Result : record[r] = "pending"} :
              /\ ledger' = Snapshotted(claimed)
              /\ record' = [r \in Result |-> IF r \in claimed THEN "removed" ELSE record[r]]
              /\ mem' = [mem EXCEPT ![s] = [m EXCEPT !.frozen = FALSE, !.queue = {}, !.folded = m.queue]]
              /\ dropped' = dropped \cup m.folded
  /\ lease' = s /\ turn' = [turn EXCEPT ![s] = Admitted({})]
  /\ UNCHANGED <<chat, held, worker, alive, answers, excused, editing>>

(* The request that wanted the turn fails with it.                         *)
FailRequest(s) ==
  IF request[s].at = "starting" THEN Refuse(s) ELSE UNCHANGED request

(* The admission fails after the gate: a store error or a hook.  Nobody    *)
(* keeps the entry but the table of held messages.                         *)
AdmissionFails(s) ==
  /\ turn[s].pc = "admitted" /\ FailRequest(s)
  /\ dropped' = dropped \cup (turn[s].about \ IF request[s].at = "starting" THEN held ELSE {})
  /\ lease' = Nobody /\ turn' = [turn EXCEPT ![s] = NoTurn]
  /\ UNCHANGED <<durable, worker, alive, mem, answers, excused, edit, overwritten>>

(* The opening message is appended unless its id is in the history, and    *)
(* cuts every unanswered completion before it.                             *)
Opening(s, r) ==
  IF r \in turn[s].about THEN IF chat[r] = "none" THEN "open" ELSE chat[r]
  ELSE IF chat[r] = "open" /\ \A q \in turn[s].about : chat[q] = "none" THEN "cut"
  ELSE chat[r]

(* The end of startThreadUserTurnWithAdmission.  startTurnLocked clears    *)
(* the steers; results of a lifted freeze join any turn.                   *)
Start(s) ==
  /\ turn[s].pc = "admitted"
  /\ chat' = [r \in Result |-> Opening(s, r)]
  /\ turn' = [turn EXCEPT ![s].pc = "started", ![s].ids = turn[s].about \cup mem[s].folded]
  /\ excused' = excused \cup {r \in mem[s].folded : answers[r] > 0}
  /\ dropped' = dropped \cup mem[s].steers
  /\ mem' = [mem EXCEPT ![s].folded = {}, ![s].steers = {}]
  /\ UNCHANGED <<record, ledger, held, lease, worker, alive, answers, editing>>

(* abortStartedThreadTurnDurably: the run cannot be attached, the client   *)
(* is gone, or the server closes.                                          *)
Abort(s) ==
  /\ turn[s].pc = "started" /\ Unlocked(s) /\ FailRequest(s)
  /\ dropped' = dropped \cup turn[s].ids
  /\ lease' = Nobody /\ turn' = [turn EXCEPT ![s] = NoTurn]
  /\ UNCHANGED <<durable, worker, alive, mem, answers, excused, edit, overwritten>>

(* runTurn.                                                                *)
Launch(s) ==
  /\ turn[s].pc = "started"
  /\ turn' = [turn EXCEPT ![s].pc = "running"]
  /\ IF request[s].at = "starting" THEN Answer(s, "started") ELSE UNCHANGED request
  /\ UNCHANGED <<durable, lease, worker, alive, mem, history, edit, overwritten>>

(***************************************************************************)
(* A turn.                                                                 *)
(***************************************************************************)
(* BeforeStep takes every steer.                                           *)
TakeSteers(s) ==
  /\ turn[s].pc = "running" /\ Unlocked(s) /\ mem[s].steers # {}
  /\ turn' = [turn EXCEPT ![s].ids = @ \cup mem[s].steers, ![s].marks = @ \cup mem[s].steers]
  /\ excused' = excused \cup {r \in mem[s].steers : answers[r] > 0}
  /\ mem' = [mem EXCEPT ![s].steers = {}]
  /\ UNCHANGED <<durable, lease, worker, alive, answers, dropped, editing>>

(* The loop ends and its messages are stored, or the store refuses them.   *)
(* A loop that ends well with an answer stamps it with the results of the  *)
(* turn (markAgentCompletionAnswer); a steered result has its marker in    *)
(* the messages.  The turn is good unless it, the store, or the accounting *)
(* that follows fails.                                                     *)
Persist(s) ==
  /\ turn[s].pc = "running" /\ Unlocked(s)
  /\ \E outcome \in {"answered", "silent", "failed"}, saved, accounted \in BOOLEAN :
       LET stamped == IF outcome = "answered" /\ saved THEN turn[s].ids ELSE {} IN
         /\ turn' = [turn EXCEPT ![s].pc = "persisted", ![s].stamped = stamped,
                                 ![s].good = outcome = "answered" /\ saved /\ accounted]
         /\ chat' = [r \in Result |->
              IF r \in stamped /\ (chat[r] = "open" \/ r \in turn[s].marks) THEN "answered"
              ELSE IF saved /\ r \in turn[s].marks THEN "open" ELSE chat[r]]
         /\ answers' = [r \in Result |->
              IF r \in stamped /\ answers[r] < 2 THEN answers[r] + 1 ELSE answers[r]]
  /\ UNCHANGED <<record, ledger, held, lease, worker, alive, mem, excused, dropped, editing>>

(* Mutant: a turn that failed claims its results as well.                  *)
ClaimsOfAnyTurn(s) == {r \in turn[s].ids : ledger[r] = "ready"}

(* Mutant: only the result that the turn was started for is claimed.       *)
ClaimsOfOpening(s) == IF turn[s].good THEN {r \in turn[s].about : ledger[r] = "ready"} ELSE {}

(* What a turn claims when it ends: its results, if it is good.            *)
Claims(s) == IF turn[s].good THEN {r \in turn[s].ids : ledger[r] = "ready"} ELSE {}

(* Mutant: a turn that failed has nothing to replay.                       *)
UnclaimedRefused(s, refused) == IF turn[s].good THEN refused ELSE {}

(* What is still to be brought to an end after that.                       *)
Unclaimed(s, refused) == IF turn[s].good THEN refused ELSE turn[s].ids

(* The tail of runTurn: steers nobody took go to the queue of the user's   *)
(* turns, unless they are consumed; the results are claimed, where the     *)
(* store lets it; the lease is released.  What was not claimed is replayed *)
(* after a while.                                                          *)
Settle(s) ==
  /\ turn[s].pc = "persisted" /\ Unlocked(s)
  /\ \E refused \in SUBSET Claims(s) :
       LET failed == Unclaimed(s, refused) IN
         /\ ledger' = [r \in Result |->
              IF r \in Claims(s) \ refused THEN "auto_completion" ELSE ledger[r]]
         /\ mem' = [mem EXCEPT
              ![s].leftover = @ \cup {r \in mem[s].steers : ledger[r] = "ready"},
              ![s].steers = {}, ![s].stopping = FALSE, ![s].replay = @ \/ failed # {}]
         /\ excused' = excused \cup (failed \cap turn[s].stamped)
  /\ lease' = Nobody /\ turn' = [turn EXCEPT ![s] = NoTurn]
  /\ UNCHANGED <<record, chat, held, worker, alive, answers, dropped, editing>>

(* replayPendingAgentCompletions on the timer.                             *)
Replay(s) ==
  /\ mem[s].replay /\ Unlocked(s)
  /\ mem' = [mem EXCEPT ![s] = Announced([@ EXCEPT !.replay = FALSE], Running(s), ReadyResults)]
  /\ UNCHANGED <<durable, lease, worker, alive, turn, history, editing>>

(***************************************************************************)
(* The table of held messages.                                             *)
(***************************************************************************)
(* LoadHeldUserWork under heldUserWorkMu.                                  *)
Read(s, job, of) ==
  /\ edit[s] = NoEdit
  /\ edit' = [edit EXCEPT ![s] = [job |-> job, of |-> of, view |-> held]]

(* A message that got its turn here and is still to be removed, by its id. *)
Leaving(s) ==
  (IF request[s].at \in {"starting", "started"} THEN request[s].of ELSE {})
  \cup (IF edit[s].job = "start" THEN edit[s].of ELSE {})

(* ReplaceHeldUserWork: the rows take the place of all that is there.  One *)
(* that is held anew goes with a removal that is under way for it.         *)
Replace(s, rows) ==
  /\ held' = rows /\ edit' = [edit EXCEPT ![s] = NoEdit]
  /\ overwritten' = overwritten \cup ((held \ edit[s].view) \ rows)
                      \cup ((rows \ edit[s].view) \cap UNION {Leaving(x) : x \in Server})

(* interruptThreadExecution of a turn takes the queued turns out of their  *)
(* queue, to hold them together with the steers.                           *)
InterruptTurn(s) ==
  /\ Running(s) /\ Read(s, "interrupt", mem[s].leftover)
  /\ mem' = [mem EXCEPT ![s].leftover = {}]
  /\ UNCHANGED <<durable, lease, worker, alive, turn, history, request, overwritten>>

(* All of them or, when one is already in the table or is there twice,     *)
(* none; then the tree is frozen.  The turn ends as any turn may.          *)
Hold(s) ==
  /\ edit[s].job = "interrupt"
  /\ mem[s].steers \cap edit[s].of = {}
  /\ (mem[s].steers \cup edit[s].of) \cap edit[s].view = {}
  /\ Replace(s, edit[s].view \cup mem[s].steers \cup edit[s].of)
  /\ mem' = [mem EXCEPT ![s].steers = {}, ![s].stopping = TRUE, ![s].frozen = TRUE]
  /\ UNCHANGED <<record, ledger, chat, lease, worker, alive, turn, history, request>>

(* handleTurnSteer of a held message into the running turn.                *)
SteerHeld(s, r) ==
  /\ Running(s) /\ ~mem[s].stopping /\ request[s] = [at |-> "found", of |-> {r}]
  /\ r \in held /\ Read(s, "steer", {r}) /\ Refuse(s)
  /\ UNCHANGED <<durable, lease, worker, alive, mem, turn, history, overwritten>>

Steer(s) ==
  /\ edit[s].job = "steer" /\ Replace(s, edit[s].view \ edit[s].of)
  /\ mem' = [mem EXCEPT ![s].steers = @ \cup edit[s].of, ![s].leftover = @ \ edit[s].of]
  /\ UNCHANGED <<record, ledger, chat, lease, worker, alive, turn, history, request>>

(* A held message that got its turn is removed, if it is still there.      *)
RemoveStarted(s) ==
  /\ request[s].at = "started" /\ Refuse(s)
  /\ IF request[s].of \subseteq held THEN Read(s, "start", request[s].of)
     ELSE edit[s] = NoEdit /\ UNCHANGED edit
  /\ UNCHANGED <<durable, lease, worker, alive, mem, turn, history, overwritten>>

(* The user deletes it: turn/dequeue looks in the queue of turns and then  *)
(* at what is held, turn/unsteer at the steers and then at what is held.   *)
Delete(s, r) ==
  /\ s \in alive /\ request[s] = NoRequest /\ edit[s] = NoEdit
  /\ \/ /\ \/ r \in mem[s].leftover /\ mem' = [mem EXCEPT ![s].leftover = @ \ {r}]
           \/ r \in mem[s].steers /\ mem' = [mem EXCEPT ![s].steers = @ \ {r}]
        /\ dropped' = dropped \cup {r}
        /\ UNCHANGED edit
     \/ /\ r \in held \ (mem[s].leftover \cap mem[s].steers)
        /\ Read(s, "delete", {r})
        /\ UNCHANGED <<mem, dropped>>
  /\ UNCHANGED <<durable, lease, worker, alive, turn, answers, excused, request, overwritten>>

(* What the user does with a held message of his own (turn/updateQueued,   *)
(* turn/dequeue and the rest) writes the results anew as well.             *)
EditOther(s) ==
  /\ s \in alive /\ request[s] = NoRequest /\ Read(s, "other", {})
  /\ UNCHANGED <<durable, lease, worker, alive, mem, turn, history, request, overwritten>>

(* removeHeldUserTurn and updateHeldUserTurn.                              *)
WriteBack(s) ==
  /\ edit[s].job \in {"start", "delete", "other"}
  /\ Replace(s, edit[s].view \ edit[s].of)
  /\ dropped' = dropped \cup (IF edit[s].job = "delete" THEN edit[s].of ELSE {})
  /\ UNCHANGED <<record, ledger, chat, lease, worker, alive, mem, turn, answers, excused, request>>

(* The store refuses.  The interrupt puts the queued turns back.           *)
EditFails(s) ==
  /\ edit[s] # NoEdit /\ edit' = [edit EXCEPT ![s] = NoEdit]
  /\ mem' = [mem EXCEPT ![s].leftover = @ \cup (IF edit[s].job = "interrupt" THEN edit[s].of ELSE {})]
  /\ UNCHANGED <<durable, lease, worker, alive, turn, history, request, overwritten>>

(***************************************************************************)
(* The processes.                                                          *)
(***************************************************************************)
(* threadRuntimeHasOutstandingAgentWork.                                   *)
AgentWork(s) ==
  mem[s].open /\ \E r \in Result : record[r] = "pending" \/ worker[r].by = s

(* Between turns, the interrupt only freezes the workers.                  *)
InterruptBetween(s) ==
  /\ ~Running(s) /\ AgentWork(s)
  /\ mem' = [mem EXCEPT ![s].frozen = TRUE]
  /\ UNCHANGED <<durable, lease, worker, alive, turn, history, editing>>

(* A server dies.  Its workers die with it; a terminal record outlives it. *)
Crash(s) ==
  /\ s \in alive /\ alive' = alive \ {s}
  /\ lease' = IF lease = s THEN Nobody ELSE lease
  /\ worker' = [r \in Result |->
       IF worker[r].by # s THEN worker[r]
       ELSE [at |-> IF worker[r].at = "working" THEN "lost" ELSE "orphan", by |-> Nobody]]
  /\ excused' = excused \cup turn[s].stamped
  /\ dropped' = dropped \cup {r \in Carried(s) : \E x \in alive \ {s} : r \in mem[x].final}
  /\ mem' = [mem EXCEPT ![s] = Blank] /\ turn' = [turn EXCEPT ![s] = NoTurn]
  /\ request' = [request EXCEPT ![s] = NoRequest] /\ edit' = [edit EXCEPT ![s] = NoEdit]
  /\ UNCHANGED <<durable, answers, overwritten>>

Boot(s) ==
  /\ s \notin alive /\ alive' = alive \cup {s}
  /\ UNCHANGED <<durable, lease, worker, mem, turn, history, editing>>

Next ==
  \/ \E s \in Server, r \in Result :
       \/ Spawn(s, r) \/ Prepare(s, r) \/ MarkReady(s, r) \/ Check(s, r) \/ Hand(s, r)
       \/ Acknowledge(s, r) \/ Recover(s, r) \/ TakeResult(s, r) \/ TakeLeftover(s, r)
       \/ AdmitResult(s, r) \/ AdmitLeftover(s, r) \/ Find(s, r) \/ AdmitHeld(s, r)
       \/ GateFails(s, r) \/ SteerHeld(s, r) \/ Delete(s, r)
  \/ \E s \in Server :
       \/ PutBack(s) \/ GiveUp(s) \/ AdmitUser(s) \/ AdmissionFails(s) \/ Start(s) \/ Abort(s) \/ Launch(s)
       \/ TakeSteers(s) \/ Persist(s) \/ Settle(s) \/ Replay(s)
       \/ InterruptTurn(s) \/ Hold(s) \/ Steer(s) \/ RemoveStarted(s) \/ EditOther(s)
       \/ WriteBack(s) \/ EditFails(s) \/ InterruptBetween(s) \/ Crash(s) \/ Boot(s)

Spec == Init /\ [][Next]_vars

(***************************************************************************)
(* Properties.                                                             *)
(***************************************************************************)
(* A terminal record goes only when the ledger has the result: whatever    *)
(* dies in between, one of the two still knows it.                         *)
RemovedIsRecorded == \A r \in Result : record[r] = "removed" => ledger[r] # "absent"

(* A result that is claimed as automatically delivered has an answer in    *)
(* the stored conversation, whether a turn or a later gate claimed it.     *)
ClaimMeansAnswered == \A r \in Result : ledger[r] = "auto_completion" => answers[r] > 0

(* From the gate until it settles, nobody else takes the result that a     *)
(* turn was started for.                                                   *)
TurnOwnsItsResult ==
  \A s \in Server : turn[s].pc # "idle" => \A r \in turn[s].about : ledger[r] = "ready"

(* The first consumer of a result stays its consumer: no recovery, no      *)
(* later turn and no snapshot takes a claim over.                          *)
ClaimsAreFinal ==
  [][\A r \in Result : ledger[r] \in Consumer => ledger'[r] = ledger[r]]_vars

(* A result is answered twice only if its first answer was stored but not  *)
(* claimed (a crash or a failed claim in between), or if it was steered or *)
(* folded into a turn although it had an answer: neither path looks.       *)
AnsweredTwiceIsExcused == \A r \in Result : answers[r] > 1 => r \in excused

(* A result that a live server has announced and nobody consumed is still  *)
(* on its way: with a turn, in a queue, to be replayed or held for the     *)
(* user; only the paths that drop an entry lose it, until the thread is    *)
(* opened anew, and writes to the table of held messages: one over what    *)
(* another server put there since it was read, and a late removal of a     *)
(* message that is held anew.                                              *)
AnnouncedIsCarried ==
  \A s \in alive, r \in Result :
    r \in mem[s].final /\ ledger[r] = "ready" /\ worker[r] # [at |-> "vouched", by |-> s]
    => r \in held \cup dropped \cup overwritten \cup UNION {Carried(x) : x \in alive}

===============================================================================
