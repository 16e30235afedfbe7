------------------------------ MODULE SideThreads ------------------------------
(***************************************************************************)
(* The side conversation of one main thread and the deletion of that       *)
(* thread, with several app-servers on one session directory:              *)
(* sidethread/store.go, appserver/side_thread_handlers.go,                 *)
(* appserver/thread_delete.go and the leases of session/.  A server        *)
(* handles its requests one after the other; a side turn runs beside them  *)
(* in a goroutine of its own, and so does a turn of the main thread, of    *)
(* which only the lease matters here.                                      *)
(*                                                                         *)
(* Every write of the store is atomic: it runs under the store's file lock *)
(* and replaces the file by a rename.  A Load takes no lock and reads the  *)
(* two files one after the other; if a deletion moves the file meanwhile   *)
(* it fails or finds nothing, and its request ends (RequestFails, or Open  *)
(* that is not taken).  Texts, items and revisions are left out; a turn    *)
(* stands for its pair of messages.                                        *)
(***************************************************************************)
EXTENDS Naturals

CONSTANTS
  Server,  \* app-server instances: desktop, headless, one per paired device
  Turn,    \* ids of side turns, never used twice; bounds the conversation
  NoTurn

ASSUME TurnAssumption == NoTurn \notin Turn

VARIABLES
  main,    \* whether the row of the main thread exists
  live,    \* the side conversation's file
  staged,  \* the same file where a deletion has put it (.deleting/)
  exec,    \* who has the execution lease of the main thread
  side,    \* who has the execution lease of the side thread
  life,    \* who has the lifecycle lease of the main thread
  up,      \* servers that hold the shared presence lease
  req,     \* where each server is in the request it handles
  turn,    \* the side turn of each server
  work,    \* the main turn of each server
  used     \* ids that were given out

files == <<live, staged>>
leases == <<exec, side, life>>
vars == <<main, files, leases, up, req, turn, work, used>>

Final == {"completed", "failed", "interrupted"}
Reply == Final \cup {"absent", "streaming"}
File == [status : Final \cup {"none", "running"}, replies : [Turn -> Reply]]
NoFile == [status |-> "none", replies |-> [t \in Turn |-> "absent"]]

Holder == {"free", "request", "turn"}
SendPlace == {"lifecycle", "load", "begin"}
DeletePlace == {"claim", "enter", "stage", "row", "rollback", "commit"}
Place == {"idle", "interrupt", "reset", "erase", "recover", "settle", "closing", "draining"}
           \cup SendPlace \cup DeletePlace
TurnState == [pc : {"none", "streaming", "persist", "retry", "leave"},
              id : Turn \cup {NoTurn}, told : BOOLEAN, outcome : Final]
NoTurnState == [pc |-> "none", id |-> NoTurn, told |-> FALSE, outcome |-> "completed"]

(* A workspace with one main thread and no server; the side thread is made *)
(* by the first message.                                                   *)
Init ==
  /\ main = TRUE /\ live = NoFile /\ staged = NoFile
  /\ exec = [s \in Server |-> "free"] /\ side = [s \in Server |-> "free"] /\ life = {}
  /\ up = {} /\ req = [s \in Server |-> "idle"]
  /\ turn = [s \in Server |-> NoTurnState] /\ work = [s \in Server |-> "none"]
  /\ used = {}

-------------------------------------------------------------------------------
(* The store.                                                              *)

Exists(f) == f.status # "none"

(* Both files exist: every operation but a reset refuses.                  *)
Torn == Exists(live) /\ Exists(staged)

(* The file that is read and written (activePathFor, readRecord).          *)
Record == IF Exists(staged) THEN staged ELSE live

Put(f) ==
  \/ Exists(staged) /\ staged' = f /\ UNCHANGED live
  \/ ~Exists(staged) /\ live' = f /\ UNCHANGED staged

Settled(f) ==
  [status |-> "interrupted",
   replies |-> [t \in Turn |-> IF f.replies[t] = "streaming" THEN "interrupted" ELSE f.replies[t]]]

(* Interrupt, and RecoverRunning on the one record there is.               *)
InterruptRecord ==
  IF ~Torn /\ Record.status = "running" THEN Put(Settled(Record)) ELSE UNCHANGED files

(* BeginTurnWithSideThreadID: what was left running is settled first.      *)
Begun(f, t) ==
  [status |-> "running",
   replies |-> [(IF f.status = "running" THEN Settled(f) ELSE f).replies EXCEPT ![t] = "streaming"]]

(* Mutant of Finished: the late reply wins.                                *)
FinishedLate(f, t, outcome) == [status |-> outcome, replies |-> [f.replies EXCEPT ![t] = outcome]]

(* FinishTurnWithItems: an interrupt in the file wins over a late reply.   *)
Finished(f, t, outcome) ==
  LET effective == IF f.status = "interrupted" THEN "interrupted" ELSE outcome
  IN  [status |-> effective, replies |-> [f.replies EXCEPT ![t] = effective]]

-------------------------------------------------------------------------------
(* Leases and places.                                                      *)

Free(lease) == \A s \in Server : lease[s] = "free"
Handed(lease, s) == IF lease[s] = "request" THEN [lease EXCEPT ![s] = "free"] ELSE lease

Idle(s) == s \in up /\ req[s] = "idle"
Go(s, place) == req' = [req EXCEPT ![s] = place]

(* The deferred releases when a handler returns.                           *)
Return(s) ==
  /\ Go(s, "idle") /\ life' = life \ {s}
  /\ exec' = Handed(exec, s) /\ side' = Handed(side, s)

Active(s) == turn[s].pc # "none"
Tell(s) == turn' = [turn EXCEPT ![s].told = @ \/ Active(s)]

-------------------------------------------------------------------------------
(* side_thread/send_message.                                               *)

Send(s) ==
  /\ Idle(s) /\ ~Active(s) /\ Free(side)
  /\ side' = [side EXCEPT ![s] = "request"] /\ Go(s, "lifecycle")
  /\ UNCHANGED <<main, files, exec, life, up, turn, work, used>>

(* The lifecycle lease is waited for, here and by a deletion.              *)
EnterLifecycle(s) ==
  /\ req[s] \in {"lifecycle", "enter"} /\ life = {}
  /\ life' = {s} /\ Go(s, IF req[s] = "enter" THEN "stage" ELSE "load")
  /\ UNCHANGED <<main, files, exec, side, up, turn, work, used>>

(* Mutant of LoadMain: the main thread is not looked up again.             *)
LoadMainUnseen(s) ==
  /\ req[s] = "load" /\ ~Torn
  /\ Go(s, "begin")
  /\ UNCHANGED <<main, files, leases, up, turn, work, used>>

(* The main thread is looked up, and the conversation loaded, under both   *)
(* leases.                                                                 *)
LoadMain(s) ==
  /\ req[s] = "load" /\ main /\ ~Torn
  /\ Go(s, "begin")
  /\ UNCHANGED <<main, files, leases, up, turn, work, used>>

(* No lease, no main thread, a prompt that does not fit, no model, a       *)
(* failing write.                                                          *)
RefuseSend(s) ==
  /\ req[s] \in SendPlace
  /\ Return(s)
  /\ UNCHANGED <<main, files, up, turn, work, used>>

(* The turn is in the file before it is registered and launched.  Nothing  *)
(* of the server comes between, and what others do to the file in between  *)
(* the watcher sees.                                                       *)
BeginTurn(s, t) ==
  /\ req[s] = "begin" /\ ~Torn /\ t \in Turn \ used
  /\ Put(Begun(Record, t)) /\ used' = used \cup {t}
  /\ turn' = [turn EXCEPT ![s] = [pc |-> "streaming", id |-> t, told |-> FALSE, outcome |-> "completed"]]
  /\ side' = [side EXCEPT ![s] = "turn"] /\ life' = life \ {s} /\ Go(s, "idle")
  /\ UNCHANGED <<main, exec, up, work>>

-------------------------------------------------------------------------------
(* The goroutine of a side turn.                                           *)

Step(s, pc, outcome) == turn' = [turn EXCEPT ![s].pc = pc, ![s].outcome = outcome]

(* Mutant of Observe: only a missing record stops the turn.                *)
ObserveMissing(s) ==
  /\ turn[s].pc = "streaming" /\ ~turn[s].told
  /\ ~Torn /\ ~Exists(Record)
  /\ Tell(s)
  /\ UNCHANGED <<main, files, leases, up, req, work, used>>

(* The watcher's poll: whoever interrupted, reset or recovered the         *)
(* conversation left the file not running.                                 *)
Observe(s) ==
  /\ turn[s].pc = "streaming" /\ ~turn[s].told
  /\ ~Torn /\ Record.status # "running"
  /\ Tell(s)
  /\ UNCHANGED <<main, files, leases, up, req, work, used>>

(* The provider request ends: by itself, or because it was cancelled.      *)
EndReply(s) ==
  /\ turn[s].pc = "streaming" /\ ~turn[s].told
  /\ \E outcome \in {"completed", "failed"} : Step(s, "persist", outcome)
  /\ UNCHANGED <<main, files, leases, up, req, work, used>>

CancelReply(s) ==
  /\ turn[s].pc = "streaming" /\ turn[s].told
  /\ Step(s, "persist", "interrupted")
  /\ UNCHANGED <<main, files, leases, up, req, work, used>>

(* The reply is written unless its conversation was reset meanwhile.       *)
PersistReply(s) ==
  /\ turn[s].pc \in {"persist", "retry"} /\ ~Torn
  /\ IF Record.replies[turn[s].id] = "absent" THEN UNCHANGED files
                                              ELSE Put(Finished(Record, turn[s].id, turn[s].outcome))
  /\ Step(s, "leave", turn[s].outcome)
  /\ UNCHANGED <<main, leases, up, req, work, used>>

(* The store refuses to the last attempt.  A reply that was not            *)
(* interrupted is tried once more, as a failure.                           *)
PersistFails(s) ==
  /\ \/ turn[s].pc = "persist" /\ turn[s].outcome # "interrupted" /\ Step(s, "retry", "failed")
     \/ turn[s].pc = "persist" /\ turn[s].outcome = "interrupted" /\ Step(s, "leave", "interrupted")
     \/ turn[s].pc = "retry" /\ Step(s, "leave", turn[s].outcome)
  /\ UNCHANGED <<main, files, leases, up, req, work, used>>

LeaveTurn(s) ==
  /\ turn[s].pc = "leave"
  /\ turn' = [turn EXCEPT ![s] = NoTurnState] /\ side' = [side EXCEPT ![s] = "free"]
  /\ UNCHANGED <<main, files, exec, life, up, req, work, used>>

-------------------------------------------------------------------------------
(* side_thread/interrupt, reset, open and get_history.                     *)

(* The server's own turn is told at once, the file is settled later.       *)
Interrupt(s) ==
  /\ Idle(s) /\ Tell(s) /\ Go(s, "interrupt")
  /\ UNCHANGED <<main, files, leases, up, work, used>>

SettleInterrupted(s) ==
  /\ req[s] = "interrupt" /\ InterruptRecord /\ Go(s, "idle")
  /\ UNCHANGED <<main, leases, up, turn, work, used>>

Reset(s) ==
  /\ Idle(s) /\ main /\ Tell(s) /\ Go(s, "reset")
  /\ UNCHANGED <<main, files, leases, up, work, used>>

ResetLoad(s) ==
  /\ req[s] = "reset"
  /\ Go(s, IF Exists(Record) /\ ~Torn THEN "erase" ELSE "idle")
  /\ UNCHANGED <<main, files, leases, up, turn, work, used>>

Erase(s) ==
  /\ req[s] = "erase" /\ live' = NoFile /\ staged' = NoFile /\ Go(s, "idle")
  /\ UNCHANGED <<main, leases, up, turn, work, used>>

(* recoverStaleSideThread: a running file nobody has the lease for.        *)
Open(s) ==
  /\ Idle(s) /\ main /\ ~Torn /\ Record.status = "running"
  /\ Go(s, "recover")
  /\ UNCHANGED <<main, files, leases, up, turn, work, used>>

(* Mutant of ProbeLease: a busy lease stops nobody.                        *)
ProbeLeaseBusy(s) ==
  /\ req[s] = "recover" /\ Go(s, "settle")
  /\ UNCHANGED <<main, files, leases, up, turn, work, used>>

ProbeLease(s) ==
  /\ req[s] = "recover"
  /\ \/ Free(side) /\ side' = [side EXCEPT ![s] = "request"] /\ Go(s, "settle")
     \/ ~Free(side) /\ UNCHANGED side /\ Go(s, "idle")
  /\ UNCHANGED <<main, files, exec, life, up, turn, work, used>>

SettleStale(s) ==
  /\ req[s] = "settle" /\ InterruptRecord /\ Return(s)
  /\ UNCHANGED <<main, up, turn, work, used>>

(* The store or the lease's database refuses, or a Load missed the file:   *)
(* the request ends and changes nothing.                                   *)
RequestFails(s) ==
  /\ req[s] \in {"interrupt", "reset", "erase", "recover", "settle"} /\ Return(s)
  /\ UNCHANGED <<main, files, up, turn, work, used>>

-------------------------------------------------------------------------------
(* thread/delete.                                                          *)

Delete(s) ==
  /\ Idle(s) /\ work[s] = "none" /\ Free(exec)
  /\ exec' = [exec EXCEPT ![s] = "request"] /\ Go(s, "claim")
  /\ UNCHANGED <<main, files, side, life, up, turn, work, used>>

ClaimSide(s) ==
  /\ req[s] = "claim" /\ Free(side)
  /\ side' = [side EXCEPT ![s] = "request"] /\ Go(s, "enter")
  /\ UNCHANGED <<main, files, exec, life, up, turn, work, used>>

(* The side thread is running, or workers of the thread are.               *)
RefuseDelete(s) ==
  /\ \/ req[s] = "claim" /\ ~Free(side)
     \/ req[s] = "enter"
  /\ Return(s)
  /\ UNCHANGED <<main, files, up, turn, work, used>>

(* Mutant of Stage: what an earlier deletion has staged is dropped.        *)
StageAfresh(s) ==
  /\ req[s] = "stage" /\ ~Torn
  /\ staged' = live /\ live' = NoFile
  /\ Go(s, "row")
  /\ UNCHANGED <<main, leases, up, turn, work, used>>

(* BeginDelete, which finds the file of a deletion that crashed in place.  *)
Stage(s) ==
  /\ req[s] = "stage" /\ ~Torn
  /\ IF Exists(live) THEN staged' = live /\ live' = NoFile ELSE UNCHANGED files
  /\ Go(s, "row")
  /\ UNCHANGED <<main, leases, up, turn, work, used>>

DeleteRow(s) ==
  /\ req[s] = "row" /\ main
  /\ main' = FALSE /\ life' = life \ {s} /\ Go(s, "commit")
  /\ UNCHANGED <<files, exec, side, up, turn, work, used>>

(* The transaction fails, or the row is gone already.                      *)
DeleteRowFails(s) ==
  /\ req[s] = "row" /\ Go(s, "rollback")
  /\ UNCHANGED <<main, files, leases, up, turn, work, used>>

Rollback(s) ==
  /\ req[s] = "rollback"
  /\ IF Exists(staged) /\ ~Exists(live) THEN live' = staged /\ staged' = NoFile ELSE UNCHANGED files
  /\ Return(s)
  /\ UNCHANGED <<main, up, turn, work, used>>

Commit(s) ==
  /\ req[s] = "commit"
  /\ staged' = IF Exists(live) THEN staged ELSE NoFile
  /\ Return(s)
  /\ UNCHANGED <<main, live, up, turn, work, used>>

(* The store refuses to stage, to roll back or to commit.                  *)
DeleteFails(s) ==
  /\ req[s] \in {"stage", "rollback", "commit"} /\ Return(s)
  /\ UNCHANGED <<main, files, up, turn, work, used>>

-------------------------------------------------------------------------------
(* Turns of the main thread, as far as deletion meets them: the row is     *)
(* read again under the execution lease.                                   *)

AdmitWork(s) ==
  /\ s \in up /\ req[s] \notin {"closing", "draining"} /\ work[s] = "none" /\ Free(exec)
  /\ exec' = [exec EXCEPT ![s] = "turn"] /\ work' = [work EXCEPT ![s] = "admitted"]
  /\ UNCHANGED <<main, files, side, life, up, req, turn, used>>

StartWork(s) ==
  /\ work[s] = "admitted" /\ main
  /\ work' = [work EXCEPT ![s] = "running"]
  /\ UNCHANGED <<main, files, leases, up, req, turn, used>>

EndWork(s) ==
  /\ work[s] # "none"
  /\ work' = [work EXCEPT ![s] = "none"] /\ exec' = [exec EXCEPT ![s] = "free"]
  /\ UNCHANGED <<main, files, side, life, up, req, turn, used>>

-------------------------------------------------------------------------------
(* Servers.                                                                *)

(* The first server of the workspace recovers before it serves.  A store   *)
(* that fails is logged.                                                   *)
Boot(s) ==
  /\ s \notin up /\ ~Active(s)
  /\ up' = up \cup {s}
  /\ \/ up = {} /\ InterruptRecord
     \/ UNCHANGED files
  /\ UNCHANGED <<main, leases, req, turn, work, used>>

(* Close runs when the request loop has ended.                             *)
Close(s) ==
  /\ Idle(s) /\ Tell(s)
  /\ Go(s, IF Active(s) THEN "closing" ELSE "draining")
  /\ UNCHANGED <<main, files, leases, up, work, used>>

CancelSideThreads(s) ==
  /\ req[s] = "closing"
  /\ \/ InterruptRecord
     \/ UNCHANGED files
  /\ Go(s, "draining")
  /\ UNCHANGED <<main, leases, up, turn, work, used>>

Drained(s) ==
  /\ req[s] = "draining" /\ ~Active(s) /\ work[s] = "none"
  /\ up' = up \ {s} /\ Go(s, "idle")
  /\ UNCHANGED <<main, files, leases, turn, work, used>>

(* The drain gives up: the lease of a main turn is handed back for it, a   *)
(* side turn goes on and keeps its own.                                    *)
DrainTimesOut(s) ==
  /\ req[s] = "draining" /\ up' = up \ {s} /\ Go(s, "idle")
  /\ work' = [work EXCEPT ![s] = "none"] /\ exec' = [exec EXCEPT ![s] = "free"]
  /\ UNCHANGED <<main, files, side, life, turn, used>>

(* The process is gone, and the operating system drops its locks.          *)
Crash(s) ==
  /\ s \in up \/ Active(s)
  /\ up' = up \ {s} /\ Go(s, "idle") /\ life' = life \ {s}
  /\ turn' = [turn EXCEPT ![s] = NoTurnState] /\ work' = [work EXCEPT ![s] = "none"]
  /\ exec' = [exec EXCEPT ![s] = "free"] /\ side' = [side EXCEPT ![s] = "free"]
  /\ UNCHANGED <<main, files, used>>

-------------------------------------------------------------------------------
SendStep(s) ==
  Send(s) \/ EnterLifecycle(s) \/ LoadMain(s) \/ RefuseSend(s) \/ (\E t \in Turn : BeginTurn(s, t))
TurnStep(s) ==
  Observe(s) \/ EndReply(s) \/ CancelReply(s) \/ PersistReply(s) \/ PersistFails(s) \/ LeaveTurn(s)
RequestStep(s) ==
  \/ Interrupt(s) \/ SettleInterrupted(s) \/ Reset(s) \/ ResetLoad(s) \/ Erase(s)
  \/ Open(s) \/ ProbeLease(s) \/ SettleStale(s) \/ RequestFails(s)
DeleteStep(s) ==
  \/ Delete(s) \/ ClaimSide(s) \/ RefuseDelete(s) \/ Stage(s) \/ DeleteRow(s) \/ DeleteRowFails(s)
  \/ Rollback(s) \/ Commit(s) \/ DeleteFails(s)
WorkStep(s) == AdmitWork(s) \/ StartWork(s) \/ EndWork(s)
ServerStep(s) ==
  Boot(s) \/ Close(s) \/ CancelSideThreads(s) \/ Drained(s) \/ DrainTimesOut(s) \/ Crash(s)

Next == \E s \in Server :
  SendStep(s) \/ TurnStep(s) \/ RequestStep(s) \/ DeleteStep(s) \/ WorkStep(s) \/ ServerStep(s)

Spec == Init /\ [][Next]_vars

(* The watcher polls, and a cancelled request returns.  Nothing makes a    *)
(* client ask, a provider answer or a server stay up.                      *)
Fairness == \A s \in Server : WF_vars(Observe(s)) /\ WF_vars(CancelReply(s))
FairSpec == Spec /\ Fairness

-------------------------------------------------------------------------------
(* Properties.                                                             *)

TypeOK ==
  /\ main \in BOOLEAN /\ live \in File /\ staged \in File
  /\ exec \in [Server -> Holder] /\ side \in [Server -> Holder] /\ life \subseteq Server
  /\ up \subseteq Server /\ req \in [Server -> Place] /\ turn \in [Server -> TurnState]
  /\ work \in [Server -> {"none", "admitted", "running"}] /\ used \subseteq Turn

(* Once the row of a thread is gone, no server is answering in it: neither *)
(* a side turn, even one that its server's shutdown left behind, nor a     *)
(* turn of the thread itself (one that a shutdown gave up counts as dead,  *)
(* as in forceReleaseAbandonedThreadExecutions).  handleThreadDelete takes *)
(* both execution leases; sends and turns look the row up under theirs.    *)
DeletionStopsWork ==
  ~main => \A s \in Server : ~Active(s) /\ work[s] # "running"

(* A reply that has ended one way never ends another way, whichever of its *)
(* turn, an interrupt, a closing server, a recovery, a deletion and its    *)
(* rollback comes last.  (FinishTurnWithItems, settleInterrupted)          *)
RepliesAreFinal ==
  [][\A t \in Turn : Record.replies[t] \in Final =>
       Record'.replies[t] \in {Record.replies[t], "absent"}]_vars

(* While the thread exists, nothing but a reset takes a message out of its *)
(* side conversation: no new turn, recovery, crash, or deletion that is    *)
(* refused, fails or is repeated.  (BeginDelete, Rollback, Commit)         *)
HistoryIsKept ==
  [][\A t \in Turn : Record.replies[t] # "absent" /\ Record'.replies[t] = "absent" =>
       ~main \/ \E s \in Server : req[s] = "erase" /\ req'[s] # "erase"]_vars

(* The reply of a turn whose server is up is settled as interrupted only   *)
(* by the turn, by a client's interrupt or by a server that closes: no     *)
(* boot, open or send takes it for what a dead process left behind.        *)
(* (RecoverRunning, recoverStaleSideThread, BeginTurnWithSideThreadID)     *)
RecoverySparesTheLiving ==
  [][\A s \in up, t \in Turn :
       /\ Active(s) /\ turn[s].id = t
       /\ Record.replies[t] = "streaming" /\ Record'.replies[t] = "interrupted"
       => \/ turn'[s] # turn[s]
          \/ \E p \in Server : req[p] \in {"interrupt", "closing"} /\ req'[p] # req[p]]_vars

(* Streams(s, t): server s is asking a provider for the reply of turn t.   *)
Streams(s, t) == turn[s].pc = "streaming" /\ turn[s].id = t

(* A turn whose reply was settled or erased in the file, by whatever       *)
(* server, stops asking its provider.  (watchSideThreadInterrupt)          *)
InterruptReachesOwner ==
  \A s \in Server, t \in Turn :
    Streams(s, t) /\ Record.replies[t] # "streaming" ~> ~Streams(s, t)
================================================================================
