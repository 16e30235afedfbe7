--------------------------- MODULE SideThreadsProofs ---------------------------
(* Proofs about SideThreads for any servers and any side turns.            *)
EXTENDS SideThreads, TLAPS

(* There is one file, and what is not there is blank.                      *)
Whole ==
  /\ ~Torn
  /\ ~Exists(live) => live = NoFile
  /\ ~Exists(staged) => staged = NoFile

(* A lease has one holder.                                                 *)
Single(lease) == \A s, p \in Server : lease[s] # "free" /\ lease[p] # "free" => s = p
Exclusive == Single(exec) /\ Single(side) /\ \A s, p \in life : s = p

(* What is held at each place and by each turn.                            *)
SidePlace == {"lifecycle", "load", "begin", "settle", "enter", "stage", "row", "rollback", "commit"}
LifePlace == {"load", "begin", "stage", "row", "rollback"}
Held ==
  \A s \in Server :
    /\ (side[s] = "turn" <=> turn[s].pc # "none") /\ (side[s] = "request" <=> req[s] \in SidePlace)
    /\ (exec[s] = "turn" <=> work[s] # "none") /\ (exec[s] = "request" <=> req[s] \in DeletePlace)
    /\ s \in life <=> req[s] \in LifePlace

(* A send has seen the row of the main thread, and a commit its removal.   *)
Seen == \A s \in Server : (req[s] = "begin" => main) /\ (req[s] = "commit" => ~main)

(* The record, and the one turn that may still write to it.                *)
Written ==
  \A t \in Turn :
    /\ Record.replies[t] = "streaming" => Record.status = "running"
    /\ Record.replies[t] # "absent" => t \in used

Owing == {"streaming", "persist", "retry"}
Owned ==
  \A s \in Server : turn[s].pc # "none" =>
    /\ turn[s].id \in Turn
    /\ \A t \in Turn : Record.replies[t] = "streaming" => t = turn[s].id
    /\ turn[s].pc \in Owing =>
         \/ Record.replies[turn[s].id] \in {"absent", "streaming"}
         \/ Record.replies[turn[s].id] = "interrupted" /\ Record.status = "interrupted"

IInv == TypeOK /\ Whole /\ Exclusive /\ Held /\ Seen /\ DeletionStopsWork /\ Written /\ Owned

-------------------------------------------------------------------------------
(* What the operators return and what a step may do to the turns.          *)

(* No file is a record without replies.                                    *)
LEMMA BlankFile == NoFile \in File /\ NoFile.status = "none" /\ \A t \in Turn : NoFile.replies[t] = "absent"
BY DEF NoFile, File, Reply, Final

(* What a read finds has the type of a file.                               *)
LEMMA RecordFile == TypeOK => Record \in File
BY DEF TypeOK, Record

(* Settling interrupts the replies that stream and no other.               *)
LEMMA SettledFile ==
  ASSUME NEW f \in File
  PROVE  /\ Settled(f) \in File /\ Settled(f).status = "interrupted"
         /\ \A t \in Turn :
              Settled(f).replies[t] = IF f.replies[t] = "streaming" THEN "interrupted" ELSE f.replies[t]
BY DEF Settled, File, Reply, Final

(* A turn that begins adds its reply and settles an earlier one.           *)
LEMMA BegunFile ==
  ASSUME NEW f \in File, NEW t \in Turn
  PROVE  /\ Begun(f, t) \in File /\ Begun(f, t).status = "running" /\ Begun(f, t).replies[t] = "streaming"
         /\ \A u \in Turn \ {t} :
              Begun(f, t).replies[u] = IF f.status = "running" /\ f.replies[u] = "streaming"
                                       THEN "interrupted" ELSE f.replies[u]
<1>1. CASE f.status = "running"
  BY <1>1, SettledFile DEF Begun, File, Reply, Final
<1>2. CASE f.status # "running"
  BY <1>2 DEF Begun, File, Reply, Final
<1> QED
  BY <1>1, <1>2

(* Finishing ends the reply of one turn, as interrupted if the record is.  *)
LEMMA FinishedFile ==
  ASSUME NEW f \in File, NEW t \in Turn, NEW outcome \in Final
  PROVE  /\ Finished(f, t, outcome) \in File /\ Finished(f, t, outcome).status \in Final
         /\ f.status = "interrupted" => Finished(f, t, outcome).status = "interrupted"
         /\ Finished(f, t, outcome).replies[t] = Finished(f, t, outcome).status
         /\ \A u \in Turn \ {t} : Finished(f, t, outcome).replies[u] = f.replies[u]
BY DEF Finished, File, Reply, Final

(* A write goes to the one file there is.                                  *)
LEMMA PutRecord ==
  ASSUME TypeOK, Whole, NEW f \in File, f.status # "none", Put(f)
  PROVE  /\ Record' = f /\ Whole' /\ live' \in File /\ staged' \in File
BY BlankFile DEF TypeOK, Whole, Torn, Put, Exists, Record

(* No file is written.                                                     *)
LEMMA SameRecord ==
  ASSUME TypeOK, Whole, UNCHANGED files
  PROVE  /\ Record' = Record /\ Whole' /\ live' \in File /\ staged' \in File
BY DEF TypeOK, Whole, Torn, Exists, Record, files

(* An interrupt leaves the record or settles it.                           *)
LEMMA InterruptedRecord ==
  ASSUME TypeOK, Whole, InterruptRecord
  PROVE  /\ Whole' /\ live' \in File /\ staged' \in File
         /\ \/ Record' = Record
            \/ Record' = Settled(Record) /\ Record.status = "running"
<1>1. CASE ~Torn /\ Record.status = "running"
  BY <1>1, RecordFile, SettledFile, PutRecord DEF InterruptRecord
<1>2. CASE ~(~Torn /\ Record.status = "running")
  BY <1>2, SameRecord DEF InterruptRecord
<1> QED
  BY <1>1, <1>2

(* Turns may go on or end, but none begins.                                *)
NoneBegins ==
  \A p \in Server : turn'[p].pc # "none" =>
    /\ turn[p].pc # "none" /\ turn'[p].id = turn[p].id
    /\ turn'[p].pc \in Owing => turn[p].pc \in Owing

(* Telling the active turn to stop begins and ends none.                   *)
LEMMA TellKeeps ==
  ASSUME TypeOK, NEW s \in Server, Tell(s)
  PROVE  /\ turn' \in [Server -> TurnState] /\ NoneBegins
         /\ \A p \in Server : turn'[p].pc = turn[p].pc
BY DEF TypeOK, Tell, Active, TurnState, NoneBegins

(* A turn that moves on begins and ends none.                              *)
LEMMA StepKeeps ==
  ASSUME TypeOK, NEW s \in Server, NEW pc \in {"streaming", "persist", "retry", "leave"},
         NEW outcome \in Final, Step(s, pc, outcome), turn[s].pc \in Owing
  PROVE  /\ turn' \in [Server -> TurnState] /\ NoneBegins /\ turn'[s].pc = pc
         /\ \A p \in Server : turn'[p].pc = "none" <=> turn[p].pc = "none"
BY DEF TypeOK, Step, TurnState, NoneBegins, Owing

(* A turn that leaves changes no other.                                    *)
LEMMA EndKeeps ==
  ASSUME TypeOK, NEW s \in Server, turn' = [turn EXCEPT ![s] = NoTurnState]
  PROVE  /\ turn' \in [Server -> TurnState] /\ NoneBegins /\ turn'[s].pc = "none"
         /\ \A p \in Server \ {s} : turn'[p] = turn[p]
BY DEF TypeOK, NoTurnState, TurnState, NoneBegins, Final

(* What the record says stays true of a turn that goes on when the record  *)
(* stays, is interrupted or goes.                                          *)
LEMMA RecordKeeps ==
  ASSUME IInv, NoneBegins, UNCHANGED used,
         \/ Record' = Record
         \/ Record' = Settled(Record) /\ Record.status = "running"
         \/ Record' = NoFile
  PROVE  Written' /\ Owned'
<1>1. CASE Record' = Record
  BY <1>1 DEF IInv, Written, Owned, NoneBegins
<1>2. CASE Record' = Settled(Record)
  <2>1. /\ Record'.status = "interrupted"
        /\ \A t \in Turn :
             Record'.replies[t] = IF Record.replies[t] = "streaming" THEN "interrupted" ELSE Record.replies[t]
    BY <1>2, RecordFile, SettledFile DEF IInv
  <2>2. Written'
    BY <2>1 DEF IInv, Written
  <2> QED
    BY <2>1, <2>2 DEF IInv, Owned, NoneBegins
<1>3. CASE Record' = NoFile
  BY <1>3, BlankFile DEF IInv, Written, Owned, NoneBegins
<1> QED
  BY <1>1, <1>2, <1>3

(* What a handler's return leaves to it: the leases of its turns.          *)
LEMMA ReturnKeeps ==
  ASSUME IInv, NEW s \in Server, Return(s)
  PROVE  /\ req' = [req EXCEPT ![s] = "idle"] /\ life' = life \ {s}
         /\ exec' \in [Server -> Holder] /\ side' \in [Server -> Holder]
         /\ \A p \in Server \ {s} : exec'[p] = exec[p] /\ side'[p] = side[p]
         /\ exec'[s] = IF exec[s] = "request" THEN "free" ELSE exec[s]
         /\ side'[s] = IF side[s] = "request" THEN "free" ELSE side[s]
BY DEF IInv, TypeOK, Return, Handed, Go, Holder

(* A send starts with the lease of the side thread.                        *)
LEMMA SendKeeps ==
  ASSUME IInv, NEW s \in Server, Send(s) PROVE IInv'
<1>1. TypeOK /\ Whole
  BY DEF IInv
<1>2. /\ Whole' /\ live' \in File /\ staged' \in File
      /\ Record' = Record
  BY <1>1, SameRecord DEF Send, files
<1>3. /\ turn' \in [Server -> TurnState] /\ NoneBegins
      /\ UNCHANGED turn
  BY <1>1 DEF Send, TypeOK, NoneBegins
<1>4. Written' /\ Owned'
  BY <1>2, <1>3, RecordKeeps DEF Send
<1>5. TypeOK'
  BY <1>1, <1>2, <1>3 DEF TypeOK, Send, Go, Holder, Place, SendPlace, DeletePlace
<1>6. Exclusive'
  BY <1>1 DEF IInv, TypeOK, Exclusive, Single, Send, Free, Go
<1>7. Held'
  BY <1>1, <1>3 DEF IInv, TypeOK, Held, SidePlace, LifePlace, SendPlace, DeletePlace, Send,
       Idle, Free, Go, Active
<1>8. Seen' /\ DeletionStopsWork'
  BY <1>1, <1>3 DEF IInv, TypeOK, Seen, DeletionStopsWork, Active, Send, Idle, Free, Go
<1> QED
  BY <1>2, <1>4, <1>5, <1>6, <1>7, <1>8 DEF IInv

(* The lifecycle lease has one holder, a send or a deletion.               *)
LEMMA EnterLifecycleKeeps ==
  ASSUME IInv, NEW s \in Server, EnterLifecycle(s) PROVE IInv'
<1>1. TypeOK /\ Whole
  BY DEF IInv
<1>2. /\ Whole' /\ live' \in File /\ staged' \in File
      /\ Record' = Record
  BY <1>1, SameRecord DEF EnterLifecycle, files
<1>3. /\ turn' \in [Server -> TurnState] /\ NoneBegins
      /\ UNCHANGED turn
  BY <1>1 DEF EnterLifecycle, TypeOK, NoneBegins
<1>4. Written' /\ Owned'
  BY <1>2, <1>3, RecordKeeps DEF EnterLifecycle
<1>5. TypeOK'
  BY <1>1, <1>2, <1>3 DEF TypeOK, EnterLifecycle, Go, Place, SendPlace, DeletePlace
<1>6. Exclusive'
  BY <1>1 DEF IInv, TypeOK, Exclusive, Single, EnterLifecycle, Go
<1>7. Held'
  BY <1>1, <1>3 DEF IInv, TypeOK, Held, SidePlace, LifePlace, SendPlace, DeletePlace,
       EnterLifecycle, Go
<1>8. Seen' /\ DeletionStopsWork'
  BY <1>1, <1>3 DEF IInv, TypeOK, Seen, DeletionStopsWork, Active, EnterLifecycle, Go
<1> QED
  BY <1>2, <1>4, <1>5, <1>6, <1>7, <1>8 DEF IInv

(* The row that a send has seen is there.                                  *)
LEMMA LoadMainKeeps ==
  ASSUME IInv, NEW s \in Server, LoadMain(s) PROVE IInv'
<1>1. TypeOK /\ Whole
  BY DEF IInv
<1>2. /\ Whole' /\ live' \in File /\ staged' \in File
      /\ Record' = Record
  BY <1>1, SameRecord DEF LoadMain, files
<1>3. /\ turn' \in [Server -> TurnState] /\ NoneBegins
      /\ UNCHANGED turn
  BY <1>1 DEF LoadMain, TypeOK, NoneBegins
<1>4. Written' /\ Owned'
  BY <1>2, <1>3, RecordKeeps DEF LoadMain
<1>5. TypeOK'
  BY <1>1, <1>2, <1>3 DEF TypeOK, LoadMain, leases, Go, Place, SendPlace, DeletePlace
<1>6. Exclusive'
  BY <1>1 DEF IInv, TypeOK, Exclusive, Single, LoadMain, leases, Go
<1>7. Held'
  BY <1>1, <1>3 DEF IInv, TypeOK, Held, SidePlace, LifePlace, SendPlace, DeletePlace,
       LoadMain, leases, Go
<1>8. Seen' /\ DeletionStopsWork'
  BY <1>1, <1>3 DEF IInv, TypeOK, Seen, DeletionStopsWork, Active, LoadMain, leases, Go
<1> QED
  BY <1>2, <1>4, <1>5, <1>6, <1>7, <1>8 DEF IInv

(* A refused send hands its leases back.                                   *)
LEMMA RefuseSendKeeps ==
  ASSUME IInv, NEW s \in Server, RefuseSend(s) PROVE IInv'
<1>1. TypeOK /\ Whole
  BY DEF IInv
<1>2. /\ Whole' /\ live' \in File /\ staged' \in File
      /\ Record' = Record
  BY <1>1, SameRecord DEF RefuseSend, files
<1>3. /\ turn' \in [Server -> TurnState] /\ NoneBegins
      /\ UNCHANGED turn
  BY <1>1 DEF RefuseSend, TypeOK, NoneBegins
<1>4. Written' /\ Owned'
  BY <1>2, <1>3, RecordKeeps DEF RefuseSend
<1>5. TypeOK'
  BY <1>1, <1>2, <1>3, ReturnKeeps DEF TypeOK, Place, RefuseSend
<1>6. Exclusive'
  BY <1>1, ReturnKeeps DEF IInv, TypeOK, Exclusive, Single, RefuseSend
<1>7. Held'
  BY <1>1, <1>3, ReturnKeeps DEF IInv, TypeOK, Held, SidePlace, LifePlace, SendPlace,
       DeletePlace, RefuseSend
<1>8. Seen' /\ DeletionStopsWork'
  BY <1>1, <1>3, ReturnKeeps DEF IInv, TypeOK, Seen, DeletionStopsWork, Active, RefuseSend
<1> QED
  BY <1>2, <1>4, <1>5, <1>6, <1>7, <1>8 DEF IInv

(* The watcher tells its turn.                                             *)
LEMMA ObserveKeeps ==
  ASSUME IInv, NEW s \in Server, Observe(s) PROVE IInv'
<1>1. TypeOK /\ Whole
  BY DEF IInv
<1>2. /\ Whole' /\ live' \in File /\ staged' \in File
      /\ Record' = Record
  BY <1>1, SameRecord DEF Observe, files
<1>3. /\ turn' \in [Server -> TurnState] /\ NoneBegins
      /\ \A p \in Server : turn'[p].pc = turn[p].pc
  BY <1>1, TellKeeps DEF Observe
<1>4. Written' /\ Owned'
  BY <1>2, <1>3, RecordKeeps DEF Observe
<1>5. TypeOK'
  BY <1>1, <1>2, <1>3 DEF TypeOK, Observe, leases
<1>6. Exclusive'
  BY <1>1 DEF IInv, TypeOK, Exclusive, Single, Observe, leases
<1>7. Held'
  BY <1>1, <1>3 DEF IInv, TypeOK, Held, SidePlace, LifePlace, SendPlace, DeletePlace,
       Observe, leases
<1>8. Seen' /\ DeletionStopsWork'
  BY <1>1, <1>3 DEF IInv, TypeOK, Seen, DeletionStopsWork, Active, Observe, leases
<1> QED
  BY <1>2, <1>4, <1>5, <1>6, <1>7, <1>8 DEF IInv

(* A reply ends and is to be written.                                      *)
LEMMA EndReplyKeeps ==
  ASSUME IInv, NEW s \in Server, EndReply(s) PROVE IInv'
<1>1. TypeOK /\ Whole
  BY DEF IInv
<1>2. /\ Whole' /\ live' \in File /\ staged' \in File
      /\ Record' = Record
  BY <1>1, SameRecord DEF EndReply, files
<1>3. /\ turn' \in [Server -> TurnState] /\ NoneBegins
      /\ \A p \in Server : turn'[p].pc = "none" <=> turn[p].pc = "none"
  BY <1>1, StepKeeps DEF EndReply, TypeOK, TurnState, Owing, Final
<1>4. Written' /\ Owned'
  BY <1>2, <1>3, RecordKeeps DEF EndReply
<1>5. TypeOK'
  BY <1>1, <1>2, <1>3 DEF TypeOK, EndReply, leases
<1>6. Exclusive'
  BY <1>1 DEF IInv, TypeOK, Exclusive, Single, EndReply, leases
<1>7. Held'
  BY <1>1, <1>3 DEF IInv, TypeOK, Held, SidePlace, LifePlace, SendPlace, DeletePlace,
       EndReply, leases
<1>8. Seen' /\ DeletionStopsWork'
  BY <1>1, <1>3 DEF IInv, TypeOK, Seen, DeletionStopsWork, Active, EndReply, leases
<1> QED
  BY <1>2, <1>4, <1>5, <1>6, <1>7, <1>8 DEF IInv

(* A cancelled reply ends and is to be written.                            *)
LEMMA CancelReplyKeeps ==
  ASSUME IInv, NEW s \in Server, CancelReply(s) PROVE IInv'
<1>1. TypeOK /\ Whole
  BY DEF IInv
<1>2. /\ Whole' /\ live' \in File /\ staged' \in File
      /\ Record' = Record
  BY <1>1, SameRecord DEF CancelReply, files
<1>3. /\ turn' \in [Server -> TurnState] /\ NoneBegins
      /\ \A p \in Server : turn'[p].pc = "none" <=> turn[p].pc = "none"
  BY <1>1, StepKeeps DEF CancelReply, TypeOK, TurnState, Owing, Final
<1>4. Written' /\ Owned'
  BY <1>2, <1>3, RecordKeeps DEF CancelReply
<1>5. TypeOK'
  BY <1>1, <1>2, <1>3 DEF TypeOK, CancelReply, leases
<1>6. Exclusive'
  BY <1>1 DEF IInv, TypeOK, Exclusive, Single, CancelReply, leases
<1>7. Held'
  BY <1>1, <1>3 DEF IInv, TypeOK, Held, SidePlace, LifePlace, SendPlace, DeletePlace,
       CancelReply, leases
<1>8. Seen' /\ DeletionStopsWork'
  BY <1>1, <1>3 DEF IInv, TypeOK, Seen, DeletionStopsWork, Active, CancelReply, leases
<1> QED
  BY <1>2, <1>4, <1>5, <1>6, <1>7, <1>8 DEF IInv

(* A reply that cannot be written is tried again or given up.              *)
LEMMA PersistFailsKeeps ==
  ASSUME IInv, NEW s \in Server, PersistFails(s) PROVE IInv'
<1>1. TypeOK /\ Whole
  BY DEF IInv
<1>2. /\ Whole' /\ live' \in File /\ staged' \in File
      /\ Record' = Record
  BY <1>1, SameRecord DEF PersistFails, files
<1>3. /\ turn' \in [Server -> TurnState] /\ NoneBegins
      /\ \A p \in Server : turn'[p].pc = "none" <=> turn[p].pc = "none"
  BY <1>1, StepKeeps DEF PersistFails, TypeOK, TurnState, Owing, Final
<1>4. Written' /\ Owned'
  BY <1>2, <1>3, RecordKeeps DEF PersistFails
<1>5. TypeOK'
  BY <1>1, <1>2, <1>3 DEF TypeOK, PersistFails, leases
<1>6. Exclusive'
  BY <1>1 DEF IInv, TypeOK, Exclusive, Single, PersistFails, leases
<1>7. Held'
  BY <1>1, <1>3 DEF IInv, TypeOK, Held, SidePlace, LifePlace, SendPlace, DeletePlace,
       PersistFails, leases
<1>8. Seen' /\ DeletionStopsWork'
  BY <1>1, <1>3 DEF IInv, TypeOK, Seen, DeletionStopsWork, Active, PersistFails, leases
<1> QED
  BY <1>2, <1>4, <1>5, <1>6, <1>7, <1>8 DEF IInv

(* A turn that leaves gives its lease back.                                *)
LEMMA LeaveTurnKeeps ==
  ASSUME IInv, NEW s \in Server, LeaveTurn(s) PROVE IInv'
<1>1. TypeOK /\ Whole
  BY DEF IInv
<1>2. /\ Whole' /\ live' \in File /\ staged' \in File
      /\ Record' = Record
  BY <1>1, SameRecord DEF LeaveTurn, files
<1>3. /\ turn' \in [Server -> TurnState] /\ NoneBegins
      /\ turn'[s].pc = "none" /\ \A p \in Server \ {s} : turn'[p] = turn[p]
  BY <1>1, EndKeeps DEF LeaveTurn
<1>4. Written' /\ Owned'
  BY <1>2, <1>3, RecordKeeps DEF LeaveTurn
<1>5. TypeOK'
  BY <1>1, <1>2, <1>3 DEF TypeOK, LeaveTurn, Holder
<1>6. Exclusive'
  BY <1>1 DEF IInv, TypeOK, Exclusive, Single, LeaveTurn
<1>7. Held'
  BY <1>1, <1>3 DEF IInv, TypeOK, Held, SidePlace, LifePlace, SendPlace, DeletePlace,
       LeaveTurn
<1>8. Seen' /\ DeletionStopsWork'
  BY <1>1, <1>3 DEF IInv, TypeOK, Seen, DeletionStopsWork, Active, LeaveTurn
<1> QED
  BY <1>2, <1>4, <1>5, <1>6, <1>7, <1>8 DEF IInv

(* An interrupt tells the server's own turn.                               *)
LEMMA InterruptKeeps ==
  ASSUME IInv, NEW s \in Server, Interrupt(s) PROVE IInv'
<1>1. TypeOK /\ Whole
  BY DEF IInv
<1>2. /\ Whole' /\ live' \in File /\ staged' \in File
      /\ Record' = Record
  BY <1>1, SameRecord DEF Interrupt, files
<1>3. /\ turn' \in [Server -> TurnState] /\ NoneBegins
      /\ \A p \in Server : turn'[p].pc = turn[p].pc
  BY <1>1, TellKeeps DEF Interrupt
<1>4. Written' /\ Owned'
  BY <1>2, <1>3, RecordKeeps DEF Interrupt
<1>5. TypeOK'
  BY <1>1, <1>2, <1>3 DEF TypeOK, Interrupt, leases, Go, Place, SendPlace, DeletePlace
<1>6. Exclusive'
  BY <1>1 DEF IInv, TypeOK, Exclusive, Single, Interrupt, leases, Go
<1>7. Held'
  BY <1>1, <1>3 DEF IInv, TypeOK, Held, SidePlace, LifePlace, SendPlace, DeletePlace,
       Interrupt, leases, Idle, Go
<1>8. Seen' /\ DeletionStopsWork'
  BY <1>1, <1>3 DEF IInv, TypeOK, Seen, DeletionStopsWork, Active, Interrupt, leases, Idle,
       Go
<1> QED
  BY <1>2, <1>4, <1>5, <1>6, <1>7, <1>8 DEF IInv

(* An interrupt settles the record.                                        *)
LEMMA SettleInterruptedKeeps ==
  ASSUME IInv, NEW s \in Server, SettleInterrupted(s) PROVE IInv'
<1>1. TypeOK /\ Whole
  BY DEF IInv
<1>2. /\ Whole' /\ live' \in File /\ staged' \in File
      /\ \/ Record' = Record
         \/ Record' = Settled(Record) /\ Record.status = "running"
  BY <1>1, InterruptedRecord DEF SettleInterrupted
<1>3. /\ turn' \in [Server -> TurnState] /\ NoneBegins
      /\ UNCHANGED turn
  BY <1>1 DEF SettleInterrupted, TypeOK, NoneBegins
<1>4. Written' /\ Owned'
  BY <1>2, <1>3, RecordKeeps DEF SettleInterrupted
<1>5. TypeOK'
  BY <1>1, <1>2, <1>3 DEF TypeOK, SettleInterrupted, leases, Go, Place, SendPlace,
       DeletePlace
<1>6. Exclusive'
  BY <1>1 DEF IInv, TypeOK, Exclusive, Single, SettleInterrupted, leases, Go
<1>7. Held'
  BY <1>1, <1>3 DEF IInv, TypeOK, Held, SidePlace, LifePlace, SendPlace, DeletePlace,
       SettleInterrupted, leases, Go
<1>8. Seen' /\ DeletionStopsWork'
  BY <1>1, <1>3 DEF IInv, TypeOK, Seen, DeletionStopsWork, Active, SettleInterrupted,
       leases, Go
<1> QED
  BY <1>2, <1>4, <1>5, <1>6, <1>7, <1>8 DEF IInv

(* A reset tells the server's own turn.                                    *)
LEMMA ResetKeeps ==
  ASSUME IInv, NEW s \in Server, Reset(s) PROVE IInv'
<1>1. TypeOK /\ Whole
  BY DEF IInv
<1>2. /\ Whole' /\ live' \in File /\ staged' \in File
      /\ Record' = Record
  BY <1>1, SameRecord DEF Reset, files
<1>3. /\ turn' \in [Server -> TurnState] /\ NoneBegins
      /\ \A p \in Server : turn'[p].pc = turn[p].pc
  BY <1>1, TellKeeps DEF Reset
<1>4. Written' /\ Owned'
  BY <1>2, <1>3, RecordKeeps DEF Reset
<1>5. TypeOK'
  BY <1>1, <1>2, <1>3 DEF TypeOK, Reset, leases, Go, Place, SendPlace, DeletePlace
<1>6. Exclusive'
  BY <1>1 DEF IInv, TypeOK, Exclusive, Single, Reset, leases, Go
<1>7. Held'
  BY <1>1, <1>3 DEF IInv, TypeOK, Held, SidePlace, LifePlace, SendPlace, DeletePlace, Reset,
       leases, Idle, Go
<1>8. Seen' /\ DeletionStopsWork'
  BY <1>1, <1>3 DEF IInv, TypeOK, Seen, DeletionStopsWork, Active, Reset, leases, Idle, Go
<1> QED
  BY <1>2, <1>4, <1>5, <1>6, <1>7, <1>8 DEF IInv

(* A reset looks at the record first.                                      *)
LEMMA ResetLoadKeeps ==
  ASSUME IInv, NEW s \in Server, ResetLoad(s) PROVE IInv'
<1>1. TypeOK /\ Whole
  BY DEF IInv
<1>2. /\ Whole' /\ live' \in File /\ staged' \in File
      /\ Record' = Record
  BY <1>1, SameRecord DEF ResetLoad, files
<1>3. /\ turn' \in [Server -> TurnState] /\ NoneBegins
      /\ UNCHANGED turn
  BY <1>1 DEF ResetLoad, TypeOK, NoneBegins
<1>4. Written' /\ Owned'
  BY <1>2, <1>3, RecordKeeps DEF ResetLoad
<1>5. TypeOK'
  BY <1>1, <1>2, <1>3 DEF TypeOK, ResetLoad, leases, Go, Place, SendPlace, DeletePlace
<1>6. Exclusive'
  BY <1>1 DEF IInv, TypeOK, Exclusive, Single, ResetLoad, leases, Go
<1>7. Held'
  BY <1>1, <1>3 DEF IInv, TypeOK, Held, SidePlace, LifePlace, SendPlace, DeletePlace,
       ResetLoad, leases, Go
<1>8. Seen' /\ DeletionStopsWork'
  BY <1>1, <1>3 DEF IInv, TypeOK, Seen, DeletionStopsWork, Active, ResetLoad, leases, Go
<1> QED
  BY <1>2, <1>4, <1>5, <1>6, <1>7, <1>8 DEF IInv

(* A reset leaves a blank record.                                          *)
LEMMA EraseKeeps ==
  ASSUME IInv, NEW s \in Server, Erase(s) PROVE IInv'
<1>1. TypeOK /\ Whole
  BY DEF IInv
<1>2. /\ Whole' /\ live' \in File /\ staged' \in File
      /\ Record' = NoFile
  BY <1>1, BlankFile DEF Erase, TypeOK, Whole, Torn, Exists, Record
<1>3. /\ turn' \in [Server -> TurnState] /\ NoneBegins
      /\ UNCHANGED turn
  BY <1>1 DEF Erase, TypeOK, NoneBegins
<1>4. Written' /\ Owned'
  BY <1>2, <1>3, RecordKeeps DEF Erase
<1>5. TypeOK'
  BY <1>1, <1>2, <1>3 DEF TypeOK, Erase, leases, Go, Place, SendPlace, DeletePlace
<1>6. Exclusive'
  BY <1>1 DEF IInv, TypeOK, Exclusive, Single, Erase, leases, Go
<1>7. Held'
  BY <1>1, <1>3 DEF IInv, TypeOK, Held, SidePlace, LifePlace, SendPlace, DeletePlace, Erase,
       leases, Go
<1>8. Seen' /\ DeletionStopsWork'
  BY <1>1, <1>3 DEF IInv, TypeOK, Seen, DeletionStopsWork, Active, Erase, leases, Go
<1> QED
  BY <1>2, <1>4, <1>5, <1>6, <1>7, <1>8 DEF IInv

(* A client opens a running conversation.                                  *)
LEMMA OpenKeeps ==
  ASSUME IInv, NEW s \in Server, Open(s) PROVE IInv'
<1>1. TypeOK /\ Whole
  BY DEF IInv
<1>2. /\ Whole' /\ live' \in File /\ staged' \in File
      /\ Record' = Record
  BY <1>1, SameRecord DEF Open, files
<1>3. /\ turn' \in [Server -> TurnState] /\ NoneBegins
      /\ UNCHANGED turn
  BY <1>1 DEF Open, TypeOK, NoneBegins
<1>4. Written' /\ Owned'
  BY <1>2, <1>3, RecordKeeps DEF Open
<1>5. TypeOK'
  BY <1>1, <1>2, <1>3 DEF TypeOK, Open, leases, Go, Place, SendPlace, DeletePlace
<1>6. Exclusive'
  BY <1>1 DEF IInv, TypeOK, Exclusive, Single, Open, leases, Go
<1>7. Held'
  BY <1>1, <1>3 DEF IInv, TypeOK, Held, SidePlace, LifePlace, SendPlace, DeletePlace, Open,
       leases, Idle, Go
<1>8. Seen' /\ DeletionStopsWork'
  BY <1>1, <1>3 DEF IInv, TypeOK, Seen, DeletionStopsWork, Active, Open, leases, Idle, Go
<1> QED
  BY <1>2, <1>4, <1>5, <1>6, <1>7, <1>8 DEF IInv

(* A recovery needs the lease of the side thread.                          *)
LEMMA ProbeLeaseKeeps ==
  ASSUME IInv, NEW s \in Server, ProbeLease(s) PROVE IInv'
<1>1. TypeOK /\ Whole
  BY DEF IInv
<1>2. /\ Whole' /\ live' \in File /\ staged' \in File
      /\ Record' = Record
  BY <1>1, SameRecord DEF ProbeLease, files
<1>3. /\ turn' \in [Server -> TurnState] /\ NoneBegins
      /\ UNCHANGED turn
  BY <1>1 DEF ProbeLease, TypeOK, NoneBegins
<1>4. Written' /\ Owned'
  BY <1>2, <1>3, RecordKeeps DEF ProbeLease
<1>5. TypeOK'
  BY <1>1, <1>2, <1>3 DEF TypeOK, ProbeLease, Go, Holder, Place, SendPlace, DeletePlace
<1>6. Exclusive'
  BY <1>1 DEF IInv, TypeOK, Exclusive, Single, ProbeLease, Free, Go
<1>7. Held'
  BY <1>1, <1>3 DEF IInv, TypeOK, Held, SidePlace, LifePlace, SendPlace, DeletePlace,
       ProbeLease, Free, Go
<1>8. Seen' /\ DeletionStopsWork'
  BY <1>1, <1>3 DEF IInv, TypeOK, Seen, DeletionStopsWork, Active, ProbeLease, Free, Go
<1> QED
  BY <1>2, <1>4, <1>5, <1>6, <1>7, <1>8 DEF IInv

(* A recovery settles the record.                                          *)
LEMMA SettleStaleKeeps ==
  ASSUME IInv, NEW s \in Server, SettleStale(s) PROVE IInv'
<1>1. TypeOK /\ Whole
  BY DEF IInv
<1>2. /\ Whole' /\ live' \in File /\ staged' \in File
      /\ \/ Record' = Record
         \/ Record' = Settled(Record) /\ Record.status = "running"
  BY <1>1, InterruptedRecord DEF SettleStale
<1>3. /\ turn' \in [Server -> TurnState] /\ NoneBegins
      /\ UNCHANGED turn
  BY <1>1 DEF SettleStale, TypeOK, NoneBegins
<1>4. Written' /\ Owned'
  BY <1>2, <1>3, RecordKeeps DEF SettleStale
<1>5. TypeOK'
  BY <1>1, <1>2, <1>3, ReturnKeeps DEF TypeOK, Place, SettleStale
<1>6. Exclusive'
  BY <1>1, ReturnKeeps DEF IInv, TypeOK, Exclusive, Single, SettleStale
<1>7. Held'
  BY <1>1, <1>3, ReturnKeeps DEF IInv, TypeOK, Held, SidePlace, LifePlace, SendPlace,
       DeletePlace, SettleStale
<1>8. Seen' /\ DeletionStopsWork'
  BY <1>1, <1>3, ReturnKeeps DEF IInv, TypeOK, Seen, DeletionStopsWork, Active, SettleStale
<1> QED
  BY <1>2, <1>4, <1>5, <1>6, <1>7, <1>8 DEF IInv

(* A failed request hands its leases back.                                 *)
LEMMA RequestFailsKeeps ==
  ASSUME IInv, NEW s \in Server, RequestFails(s) PROVE IInv'
<1>1. TypeOK /\ Whole
  BY DEF IInv
<1>2. /\ Whole' /\ live' \in File /\ staged' \in File
      /\ Record' = Record
  BY <1>1, SameRecord DEF RequestFails, files
<1>3. /\ turn' \in [Server -> TurnState] /\ NoneBegins
      /\ UNCHANGED turn
  BY <1>1 DEF RequestFails, TypeOK, NoneBegins
<1>4. Written' /\ Owned'
  BY <1>2, <1>3, RecordKeeps DEF RequestFails
<1>5. TypeOK'
  BY <1>1, <1>2, <1>3, ReturnKeeps DEF TypeOK, Place, RequestFails
<1>6. Exclusive'
  BY <1>1, ReturnKeeps DEF IInv, TypeOK, Exclusive, Single, RequestFails
<1>7. Held'
  BY <1>1, <1>3, ReturnKeeps DEF IInv, TypeOK, Held, SidePlace, LifePlace, SendPlace,
       DeletePlace, RequestFails
<1>8. Seen' /\ DeletionStopsWork'
  BY <1>1, <1>3, ReturnKeeps DEF IInv, TypeOK, Seen, DeletionStopsWork, Active, RequestFails
<1> QED
  BY <1>2, <1>4, <1>5, <1>6, <1>7, <1>8 DEF IInv

(* A deletion starts with the lease of the main thread.                    *)
LEMMA DeleteKeeps ==
  ASSUME IInv, NEW s \in Server, Delete(s) PROVE IInv'
<1>1. TypeOK /\ Whole
  BY DEF IInv
<1>2. /\ Whole' /\ live' \in File /\ staged' \in File
      /\ Record' = Record
  BY <1>1, SameRecord DEF Delete, files
<1>3. /\ turn' \in [Server -> TurnState] /\ NoneBegins
      /\ UNCHANGED turn
  BY <1>1 DEF Delete, TypeOK, NoneBegins
<1>4. Written' /\ Owned'
  BY <1>2, <1>3, RecordKeeps DEF Delete
<1>5. TypeOK'
  BY <1>1, <1>2, <1>3 DEF TypeOK, Delete, Go, Holder, Place, SendPlace, DeletePlace
<1>6. Exclusive'
  BY <1>1 DEF IInv, TypeOK, Exclusive, Single, Delete, Free, Go
<1>7. Held'
  BY <1>1, <1>3 DEF IInv, TypeOK, Held, SidePlace, LifePlace, SendPlace, DeletePlace,
       Delete, Idle, Free, Go
<1>8. Seen' /\ DeletionStopsWork'
  BY <1>1, <1>3 DEF IInv, TypeOK, Seen, DeletionStopsWork, Active, Delete, Idle, Free, Go
<1> QED
  BY <1>2, <1>4, <1>5, <1>6, <1>7, <1>8 DEF IInv

(* A deletion takes the lease of the side thread.                          *)
LEMMA ClaimSideKeeps ==
  ASSUME IInv, NEW s \in Server, ClaimSide(s) PROVE IInv'
<1>1. TypeOK /\ Whole
  BY DEF IInv
<1>2. /\ Whole' /\ live' \in File /\ staged' \in File
      /\ Record' = Record
  BY <1>1, SameRecord DEF ClaimSide, files
<1>3. /\ turn' \in [Server -> TurnState] /\ NoneBegins
      /\ UNCHANGED turn
  BY <1>1 DEF ClaimSide, TypeOK, NoneBegins
<1>4. Written' /\ Owned'
  BY <1>2, <1>3, RecordKeeps DEF ClaimSide
<1>5. TypeOK'
  BY <1>1, <1>2, <1>3 DEF TypeOK, ClaimSide, Go, Holder, Place, SendPlace, DeletePlace
<1>6. Exclusive'
  BY <1>1 DEF IInv, TypeOK, Exclusive, Single, ClaimSide, Free, Go
<1>7. Held'
  BY <1>1, <1>3 DEF IInv, TypeOK, Held, SidePlace, LifePlace, SendPlace, DeletePlace,
       ClaimSide, Free, Go
<1>8. Seen' /\ DeletionStopsWork'
  BY <1>1, <1>3 DEF IInv, TypeOK, Seen, DeletionStopsWork, Active, ClaimSide, Free, Go
<1> QED
  BY <1>2, <1>4, <1>5, <1>6, <1>7, <1>8 DEF IInv

(* A refused deletion hands its leases back.                               *)
LEMMA RefuseDeleteKeeps ==
  ASSUME IInv, NEW s \in Server, RefuseDelete(s) PROVE IInv'
<1>1. TypeOK /\ Whole
  BY DEF IInv
<1>2. /\ Whole' /\ live' \in File /\ staged' \in File
      /\ Record' = Record
  BY <1>1, SameRecord DEF RefuseDelete, files
<1>3. /\ turn' \in [Server -> TurnState] /\ NoneBegins
      /\ UNCHANGED turn
  BY <1>1 DEF RefuseDelete, TypeOK, NoneBegins
<1>4. Written' /\ Owned'
  BY <1>2, <1>3, RecordKeeps DEF RefuseDelete
<1>5. TypeOK'
  BY <1>1, <1>2, <1>3, ReturnKeeps DEF TypeOK, Place, RefuseDelete
<1>6. Exclusive'
  BY <1>1, ReturnKeeps DEF IInv, TypeOK, Exclusive, Single, RefuseDelete, Free
<1>7. Held'
  BY <1>1, <1>3, ReturnKeeps DEF IInv, TypeOK, Held, SidePlace, LifePlace, SendPlace,
       DeletePlace, RefuseDelete, Free
<1>8. Seen' /\ DeletionStopsWork'
  BY <1>1, <1>3, ReturnKeeps DEF IInv, TypeOK, Seen, DeletionStopsWork, Active,
       RefuseDelete, Free
<1> QED
  BY <1>2, <1>4, <1>5, <1>6, <1>7, <1>8 DEF IInv

(* Staging moves the file.                                                 *)
LEMMA StageKeeps ==
  ASSUME IInv, NEW s \in Server, Stage(s) PROVE IInv'
<1>1. TypeOK /\ Whole
  BY DEF IInv
<1>2. /\ Whole' /\ live' \in File /\ staged' \in File
      /\ Record' = Record
  BY <1>1, BlankFile DEF Stage, TypeOK, Whole, Torn, Exists, Record, files
<1>3. /\ turn' \in [Server -> TurnState] /\ NoneBegins
      /\ UNCHANGED turn
  BY <1>1 DEF Stage, TypeOK, NoneBegins
<1>4. Written' /\ Owned'
  BY <1>2, <1>3, RecordKeeps DEF Stage
<1>5. TypeOK'
  BY <1>1, <1>2, <1>3 DEF TypeOK, Stage, leases, Go, Place, SendPlace, DeletePlace
<1>6. Exclusive'
  BY <1>1 DEF IInv, TypeOK, Exclusive, Single, Stage, leases, Go
<1>7. Held'
  BY <1>1, <1>3 DEF IInv, TypeOK, Held, SidePlace, LifePlace, SendPlace, DeletePlace, Stage,
       leases, Go
<1>8. Seen' /\ DeletionStopsWork'
  BY <1>1, <1>3 DEF IInv, TypeOK, Seen, DeletionStopsWork, Active, Stage, leases, Go
<1> QED
  BY <1>2, <1>4, <1>5, <1>6, <1>7, <1>8 DEF IInv

(* The row goes while the deletion has both leases, so nobody works.       *)
LEMMA DeleteRowKeeps ==
  ASSUME IInv, NEW s \in Server, DeleteRow(s) PROVE IInv'
<1>1. TypeOK /\ Whole
  BY DEF IInv
<1>2. /\ Whole' /\ live' \in File /\ staged' \in File
      /\ Record' = Record
  BY <1>1, SameRecord DEF DeleteRow, files
<1>3. /\ turn' \in [Server -> TurnState] /\ NoneBegins
      /\ UNCHANGED turn
  BY <1>1 DEF DeleteRow, TypeOK, NoneBegins
<1>4. Written' /\ Owned'
  BY <1>2, <1>3, RecordKeeps DEF DeleteRow
<1>5. TypeOK'
  BY <1>1, <1>2, <1>3 DEF TypeOK, DeleteRow, Go, Place, SendPlace, DeletePlace
<1>6. Exclusive'
  BY <1>1 DEF IInv, TypeOK, Exclusive, Single, DeleteRow, Go
<1>7. Held'
  BY <1>1, <1>3 DEF IInv, TypeOK, Held, SidePlace, LifePlace, SendPlace, DeletePlace,
       DeleteRow, Go
<1>8. Seen' /\ DeletionStopsWork'
  BY <1>1, <1>3 DEF IInv, TypeOK, Seen, DeletionStopsWork, Active, Exclusive, Single, Held,
       SidePlace, DeletePlace, DeleteRow, Go
<1> QED
  BY <1>2, <1>4, <1>5, <1>6, <1>7, <1>8 DEF IInv

(* A row that stays is followed by a rollback.                             *)
LEMMA DeleteRowFailsKeeps ==
  ASSUME IInv, NEW s \in Server, DeleteRowFails(s) PROVE IInv'
<1>1. TypeOK /\ Whole
  BY DEF IInv
<1>2. /\ Whole' /\ live' \in File /\ staged' \in File
      /\ Record' = Record
  BY <1>1, SameRecord DEF DeleteRowFails, files
<1>3. /\ turn' \in [Server -> TurnState] /\ NoneBegins
      /\ UNCHANGED turn
  BY <1>1 DEF DeleteRowFails, TypeOK, NoneBegins
<1>4. Written' /\ Owned'
  BY <1>2, <1>3, RecordKeeps DEF DeleteRowFails
<1>5. TypeOK'
  BY <1>1, <1>2, <1>3 DEF TypeOK, DeleteRowFails, leases, Go, Place, SendPlace, DeletePlace
<1>6. Exclusive'
  BY <1>1 DEF IInv, TypeOK, Exclusive, Single, DeleteRowFails, leases, Go
<1>7. Held'
  BY <1>1, <1>3 DEF IInv, TypeOK, Held, SidePlace, LifePlace, SendPlace, DeletePlace,
       DeleteRowFails, leases, Go
<1>8. Seen' /\ DeletionStopsWork'
  BY <1>1, <1>3 DEF IInv, TypeOK, Seen, DeletionStopsWork, Active, DeleteRowFails, leases,
       Go
<1> QED
  BY <1>2, <1>4, <1>5, <1>6, <1>7, <1>8 DEF IInv

(* A rollback moves the file back.                                         *)
LEMMA RollbackKeeps ==
  ASSUME IInv, NEW s \in Server, Rollback(s) PROVE IInv'
<1>1. TypeOK /\ Whole
  BY DEF IInv
<1>2. /\ Whole' /\ live' \in File /\ staged' \in File
      /\ Record' = Record
  BY <1>1, BlankFile DEF Rollback, TypeOK, Whole, Torn, Exists, Record, files
<1>3. /\ turn' \in [Server -> TurnState] /\ NoneBegins
      /\ UNCHANGED turn
  BY <1>1 DEF Rollback, TypeOK, NoneBegins
<1>4. Written' /\ Owned'
  BY <1>2, <1>3, RecordKeeps DEF Rollback
<1>5. TypeOK'
  BY <1>1, <1>2, <1>3, ReturnKeeps DEF TypeOK, Place, Rollback
<1>6. Exclusive'
  BY <1>1, ReturnKeeps DEF IInv, TypeOK, Exclusive, Single, Rollback
<1>7. Held'
  BY <1>1, <1>3, ReturnKeeps DEF IInv, TypeOK, Held, SidePlace, LifePlace, SendPlace,
       DeletePlace, Rollback
<1>8. Seen' /\ DeletionStopsWork'
  BY <1>1, <1>3, ReturnKeeps DEF IInv, TypeOK, Seen, DeletionStopsWork, Active, Rollback
<1> QED
  BY <1>2, <1>4, <1>5, <1>6, <1>7, <1>8 DEF IInv

(* A commit erases the staged file.                                        *)
LEMMA CommitKeeps ==
  ASSUME IInv, NEW s \in Server, Commit(s) PROVE IInv'
<1>1. TypeOK /\ Whole
  BY DEF IInv
<1>2. /\ Whole' /\ live' \in File /\ staged' \in File
      /\ Record' = Record \/ Record' = NoFile
  BY <1>1, BlankFile DEF Commit, TypeOK, Whole, Torn, Exists, Record
<1>3. /\ turn' \in [Server -> TurnState] /\ NoneBegins
      /\ UNCHANGED turn
  BY <1>1 DEF Commit, TypeOK, NoneBegins
<1>4. Written' /\ Owned'
  BY <1>2, <1>3, RecordKeeps DEF Commit
<1>5. TypeOK'
  BY <1>1, <1>2, <1>3, ReturnKeeps DEF TypeOK, Place, Commit
<1>6. Exclusive'
  BY <1>1, ReturnKeeps DEF IInv, TypeOK, Exclusive, Single, Commit
<1>7. Held'
  BY <1>1, <1>3, ReturnKeeps DEF IInv, TypeOK, Held, SidePlace, LifePlace, SendPlace,
       DeletePlace, Commit
<1>8. Seen' /\ DeletionStopsWork'
  BY <1>1, <1>3, ReturnKeeps DEF IInv, TypeOK, Seen, DeletionStopsWork, Active, Commit
<1> QED
  BY <1>2, <1>4, <1>5, <1>6, <1>7, <1>8 DEF IInv

(* A deletion that fails hands its leases back.                            *)
LEMMA DeleteFailsKeeps ==
  ASSUME IInv, NEW s \in Server, DeleteFails(s) PROVE IInv'
<1>1. TypeOK /\ Whole
  BY DEF IInv
<1>2. /\ Whole' /\ live' \in File /\ staged' \in File
      /\ Record' = Record
  BY <1>1, SameRecord DEF DeleteFails, files
<1>3. /\ turn' \in [Server -> TurnState] /\ NoneBegins
      /\ UNCHANGED turn
  BY <1>1 DEF DeleteFails, TypeOK, NoneBegins
<1>4. Written' /\ Owned'
  BY <1>2, <1>3, RecordKeeps DEF DeleteFails
<1>5. TypeOK'
  BY <1>1, <1>2, <1>3, ReturnKeeps DEF TypeOK, Place, DeleteFails
<1>6. Exclusive'
  BY <1>1, ReturnKeeps DEF IInv, TypeOK, Exclusive, Single, DeleteFails
<1>7. Held'
  BY <1>1, <1>3, ReturnKeeps DEF IInv, TypeOK, Held, SidePlace, LifePlace, SendPlace,
       DeletePlace, DeleteFails
<1>8. Seen' /\ DeletionStopsWork'
  BY <1>1, <1>3, ReturnKeeps DEF IInv, TypeOK, Seen, DeletionStopsWork, Active, DeleteFails
<1> QED
  BY <1>2, <1>4, <1>5, <1>6, <1>7, <1>8 DEF IInv

(* A main turn takes the lease of its thread.                              *)
LEMMA AdmitWorkKeeps ==
  ASSUME IInv, NEW s \in Server, AdmitWork(s) PROVE IInv'
<1>1. TypeOK /\ Whole
  BY DEF IInv
<1>2. /\ Whole' /\ live' \in File /\ staged' \in File
      /\ Record' = Record
  BY <1>1, SameRecord DEF AdmitWork, files
<1>3. /\ turn' \in [Server -> TurnState] /\ NoneBegins
      /\ UNCHANGED turn
  BY <1>1 DEF AdmitWork, TypeOK, NoneBegins
<1>4. Written' /\ Owned'
  BY <1>2, <1>3, RecordKeeps DEF AdmitWork
<1>5. TypeOK'
  BY <1>1, <1>2, <1>3 DEF TypeOK, AdmitWork, Holder
<1>6. Exclusive'
  BY <1>1 DEF IInv, TypeOK, Exclusive, Single, AdmitWork, Free
<1>7. Held'
  BY <1>1, <1>3 DEF IInv, TypeOK, Held, SidePlace, LifePlace, SendPlace, DeletePlace,
       AdmitWork, Free
<1>8. Seen' /\ DeletionStopsWork'
  BY <1>1, <1>3 DEF IInv, TypeOK, Seen, DeletionStopsWork, Active, AdmitWork, Free
<1> QED
  BY <1>2, <1>4, <1>5, <1>6, <1>7, <1>8 DEF IInv

(* A main turn starts when it has seen the row.                            *)
LEMMA StartWorkKeeps ==
  ASSUME IInv, NEW s \in Server, StartWork(s) PROVE IInv'
<1>1. TypeOK /\ Whole
  BY DEF IInv
<1>2. /\ Whole' /\ live' \in File /\ staged' \in File
      /\ Record' = Record
  BY <1>1, SameRecord DEF StartWork, files
<1>3. /\ turn' \in [Server -> TurnState] /\ NoneBegins
      /\ UNCHANGED turn
  BY <1>1 DEF StartWork, TypeOK, NoneBegins
<1>4. Written' /\ Owned'
  BY <1>2, <1>3, RecordKeeps DEF StartWork
<1>5. TypeOK'
  BY <1>1, <1>2, <1>3 DEF TypeOK, StartWork, leases
<1>6. Exclusive'
  BY <1>1 DEF IInv, TypeOK, Exclusive, Single, StartWork, leases
<1>7. Held'
  BY <1>1, <1>3 DEF IInv, TypeOK, Held, SidePlace, LifePlace, SendPlace, DeletePlace,
       StartWork, leases
<1>8. Seen' /\ DeletionStopsWork'
  BY <1>1, <1>3 DEF IInv, TypeOK, Seen, DeletionStopsWork, Active, StartWork, leases
<1> QED
  BY <1>2, <1>4, <1>5, <1>6, <1>7, <1>8 DEF IInv

(* A main turn gives its lease back.                                       *)
LEMMA EndWorkKeeps ==
  ASSUME IInv, NEW s \in Server, EndWork(s) PROVE IInv'
<1>1. TypeOK /\ Whole
  BY DEF IInv
<1>2. /\ Whole' /\ live' \in File /\ staged' \in File
      /\ Record' = Record
  BY <1>1, SameRecord DEF EndWork, files
<1>3. /\ turn' \in [Server -> TurnState] /\ NoneBegins
      /\ UNCHANGED turn
  BY <1>1 DEF EndWork, TypeOK, NoneBegins
<1>4. Written' /\ Owned'
  BY <1>2, <1>3, RecordKeeps DEF EndWork
<1>5. TypeOK'
  BY <1>1, <1>2, <1>3 DEF TypeOK, EndWork, Holder
<1>6. Exclusive'
  BY <1>1 DEF IInv, TypeOK, Exclusive, Single, EndWork
<1>7. Held'
  BY <1>1, <1>3 DEF IInv, TypeOK, Held, SidePlace, LifePlace, SendPlace, DeletePlace,
       EndWork
<1>8. Seen' /\ DeletionStopsWork'
  BY <1>1, <1>3 DEF IInv, TypeOK, Seen, DeletionStopsWork, Active, EndWork
<1> QED
  BY <1>2, <1>4, <1>5, <1>6, <1>7, <1>8 DEF IInv

(* The first server settles the record.                                    *)
LEMMA BootKeeps ==
  ASSUME IInv, NEW s \in Server, Boot(s) PROVE IInv'
<1>1. TypeOK /\ Whole
  BY DEF IInv
<1>2. /\ Whole' /\ live' \in File /\ staged' \in File
      /\ \/ Record' = Record
         \/ Record' = Settled(Record) /\ Record.status = "running"
  BY <1>1, InterruptedRecord, SameRecord DEF Boot
<1>3. /\ turn' \in [Server -> TurnState] /\ NoneBegins
      /\ UNCHANGED turn
  BY <1>1 DEF Boot, TypeOK, NoneBegins
<1>4. Written' /\ Owned'
  BY <1>2, <1>3, RecordKeeps DEF Boot
<1>5. TypeOK'
  BY <1>1, <1>2, <1>3 DEF TypeOK, Boot, leases
<1>6. Exclusive'
  BY <1>1 DEF IInv, TypeOK, Exclusive, Single, Boot, leases
<1>7. Held'
  BY <1>1, <1>3 DEF IInv, TypeOK, Held, SidePlace, LifePlace, SendPlace, DeletePlace, Boot,
       leases, Active
<1>8. Seen' /\ DeletionStopsWork'
  BY <1>1, <1>3 DEF IInv, TypeOK, Seen, DeletionStopsWork, Active, Boot, leases
<1> QED
  BY <1>2, <1>4, <1>5, <1>6, <1>7, <1>8 DEF IInv

(* A closing server tells its turn.                                        *)
LEMMA CloseKeeps ==
  ASSUME IInv, NEW s \in Server, Close(s) PROVE IInv'
<1>1. TypeOK /\ Whole
  BY DEF IInv
<1>2. /\ Whole' /\ live' \in File /\ staged' \in File
      /\ Record' = Record
  BY <1>1, SameRecord DEF Close, files
<1>3. /\ turn' \in [Server -> TurnState] /\ NoneBegins
      /\ \A p \in Server : turn'[p].pc = turn[p].pc
  BY <1>1, TellKeeps DEF Close
<1>4. Written' /\ Owned'
  BY <1>2, <1>3, RecordKeeps DEF Close
<1>5. TypeOK'
  BY <1>1, <1>2, <1>3 DEF TypeOK, Close, leases, Go, Place, SendPlace, DeletePlace
<1>6. Exclusive'
  BY <1>1 DEF IInv, TypeOK, Exclusive, Single, Close, leases, Go
<1>7. Held'
  BY <1>1, <1>3 DEF IInv, TypeOK, Held, SidePlace, LifePlace, SendPlace, DeletePlace, Close,
       leases, Idle, Go, Active
<1>8. Seen' /\ DeletionStopsWork'
  BY <1>1, <1>3 DEF IInv, TypeOK, Seen, DeletionStopsWork, Active, Close, leases, Idle, Go
<1> QED
  BY <1>2, <1>4, <1>5, <1>6, <1>7, <1>8 DEF IInv

(* A closing server settles the record.                                    *)
LEMMA CancelSideThreadsKeeps ==
  ASSUME IInv, NEW s \in Server, CancelSideThreads(s) PROVE IInv'
<1>1. TypeOK /\ Whole
  BY DEF IInv
<1>2. /\ Whole' /\ live' \in File /\ staged' \in File
      /\ \/ Record' = Record
         \/ Record' = Settled(Record) /\ Record.status = "running"
  BY <1>1, InterruptedRecord, SameRecord DEF CancelSideThreads
<1>3. /\ turn' \in [Server -> TurnState] /\ NoneBegins
      /\ UNCHANGED turn
  BY <1>1 DEF CancelSideThreads, TypeOK, NoneBegins
<1>4. Written' /\ Owned'
  BY <1>2, <1>3, RecordKeeps DEF CancelSideThreads
<1>5. TypeOK'
  BY <1>1, <1>2, <1>3 DEF TypeOK, CancelSideThreads, leases, Go, Place, SendPlace,
       DeletePlace
<1>6. Exclusive'
  BY <1>1 DEF IInv, TypeOK, Exclusive, Single, CancelSideThreads, leases, Go
<1>7. Held'
  BY <1>1, <1>3 DEF IInv, TypeOK, Held, SidePlace, LifePlace, SendPlace, DeletePlace,
       CancelSideThreads, leases, Go
<1>8. Seen' /\ DeletionStopsWork'
  BY <1>1, <1>3 DEF IInv, TypeOK, Seen, DeletionStopsWork, Active, CancelSideThreads,
       leases, Go
<1> QED
  BY <1>2, <1>4, <1>5, <1>6, <1>7, <1>8 DEF IInv

(* A server without turns goes.                                            *)
LEMMA DrainedKeeps ==
  ASSUME IInv, NEW s \in Server, Drained(s) PROVE IInv'
<1>1. TypeOK /\ Whole
  BY DEF IInv
<1>2. /\ Whole' /\ live' \in File /\ staged' \in File
      /\ Record' = Record
  BY <1>1, SameRecord DEF Drained, files
<1>3. /\ turn' \in [Server -> TurnState] /\ NoneBegins
      /\ UNCHANGED turn
  BY <1>1 DEF Drained, TypeOK, NoneBegins
<1>4. Written' /\ Owned'
  BY <1>2, <1>3, RecordKeeps DEF Drained
<1>5. TypeOK'
  BY <1>1, <1>2, <1>3 DEF TypeOK, Drained, leases, Go, Place, SendPlace, DeletePlace
<1>6. Exclusive'
  BY <1>1 DEF IInv, TypeOK, Exclusive, Single, Drained, leases, Go
<1>7. Held'
  BY <1>1, <1>3 DEF IInv, TypeOK, Held, SidePlace, LifePlace, SendPlace, DeletePlace,
       Drained, leases, Go, Active
<1>8. Seen' /\ DeletionStopsWork'
  BY <1>1, <1>3 DEF IInv, TypeOK, Seen, DeletionStopsWork, Active, Drained, leases, Go
<1> QED
  BY <1>2, <1>4, <1>5, <1>6, <1>7, <1>8 DEF IInv

(* A server that gives up gives the lease of its main turn back.           *)
LEMMA DrainTimesOutKeeps ==
  ASSUME IInv, NEW s \in Server, DrainTimesOut(s) PROVE IInv'
<1>1. TypeOK /\ Whole
  BY DEF IInv
<1>2. /\ Whole' /\ live' \in File /\ staged' \in File
      /\ Record' = Record
  BY <1>1, SameRecord DEF DrainTimesOut, files
<1>3. /\ turn' \in [Server -> TurnState] /\ NoneBegins
      /\ UNCHANGED turn
  BY <1>1 DEF DrainTimesOut, TypeOK, NoneBegins
<1>4. Written' /\ Owned'
  BY <1>2, <1>3, RecordKeeps DEF DrainTimesOut
<1>5. TypeOK'
  BY <1>1, <1>2, <1>3 DEF TypeOK, DrainTimesOut, Go, Holder, Place, SendPlace, DeletePlace
<1>6. Exclusive'
  BY <1>1 DEF IInv, TypeOK, Exclusive, Single, DrainTimesOut, Go
<1>7. Held'
  BY <1>1, <1>3 DEF IInv, TypeOK, Held, SidePlace, LifePlace, SendPlace, DeletePlace,
       DrainTimesOut, Go
<1>8. Seen' /\ DeletionStopsWork'
  BY <1>1, <1>3 DEF IInv, TypeOK, Seen, DeletionStopsWork, Active, DrainTimesOut, Go
<1> QED
  BY <1>2, <1>4, <1>5, <1>6, <1>7, <1>8 DEF IInv

(* A process that dies loses its leases.                                   *)
LEMMA CrashKeeps ==
  ASSUME IInv, NEW s \in Server, Crash(s) PROVE IInv'
<1>1. TypeOK /\ Whole
  BY DEF IInv
<1>2. /\ Whole' /\ live' \in File /\ staged' \in File
      /\ Record' = Record
  BY <1>1, SameRecord DEF Crash, files
<1>3. /\ turn' \in [Server -> TurnState] /\ NoneBegins
      /\ turn'[s].pc = "none" /\ \A p \in Server \ {s} : turn'[p] = turn[p]
  BY <1>1, EndKeeps DEF Crash
<1>4. Written' /\ Owned'
  BY <1>2, <1>3, RecordKeeps DEF Crash
<1>5. TypeOK'
  BY <1>1, <1>2, <1>3 DEF TypeOK, Crash, Go, Holder, Place, SendPlace, DeletePlace
<1>6. Exclusive'
  BY <1>1 DEF IInv, TypeOK, Exclusive, Single, Crash, Go
<1>7. Held'
  BY <1>1, <1>3 DEF IInv, TypeOK, Held, SidePlace, LifePlace, SendPlace, DeletePlace, Crash,
       Go, Active
<1>8. Seen' /\ DeletionStopsWork'
  BY <1>1, <1>3 DEF IInv, TypeOK, Seen, DeletionStopsWork, Active, Crash, Go
<1> QED
  BY <1>2, <1>4, <1>5, <1>6, <1>7, <1>8 DEF IInv

(* A turn begins where no other one is active, and with a new id.          *)
LEMMA BeginTurnKeeps ==
  ASSUME IInv, NEW s \in Server, NEW t \in Turn, BeginTurn(s, t) PROVE IInv'
<1>1. TypeOK /\ Whole
  BY DEF IInv
<1>2. /\ t \notin used /\ used' = used \cup {t}
      /\ req[s] = "begin" /\ req' = [req EXCEPT ![s] = "idle"]
      /\ turn' = [turn EXCEPT ![s] = [pc |-> "streaming", id |-> t, told |-> FALSE, outcome |-> "completed"]]
      /\ side' = [side EXCEPT ![s] = "turn"] /\ life' = life \ {s}
      /\ UNCHANGED <<main, exec, up, work>>
  BY DEF BeginTurn, Go
<1>3. /\ Begun(Record, t) \in File /\ Begun(Record, t).status = "running"
      /\ Begun(Record, t).replies[t] = "streaming"
      /\ \A u \in Turn \ {t} :
           Begun(Record, t).replies[u] = IF Record.status = "running" /\ Record.replies[u] = "streaming"
                                         THEN "interrupted" ELSE Record.replies[u]
  BY <1>1, RecordFile, BegunFile
<1>4. Whole' /\ live' \in File /\ staged' \in File /\ Record' = Begun(Record, t)
  BY <1>1, <1>3, PutRecord DEF BeginTurn
<1>5. \A p \in Server : turn[p].pc = "none"
  BY <1>1, <1>2 DEF IInv, TypeOK, Exclusive, Single, Held, SidePlace
<1>6. /\ turn' \in [Server -> TurnState] /\ turn'[s].pc = "streaming" /\ turn'[s].id = t
      /\ \A p \in Server \ {s} : turn'[p].pc = "none"
  BY <1>1, <1>2, <1>5 DEF TypeOK, TurnState, Final
<1>7. Written'
  BY <1>2, <1>3, <1>4 DEF IInv, Written
<1>8. Owned'
  <2>1. \A u \in Turn : Record'.replies[u] = "streaming" => u = t
    BY <1>3, <1>4 DEF IInv, Written
  <2> QED
    BY <1>3, <1>4, <1>6, <2>1 DEF Owned
<1>9. TypeOK'
  BY <1>1, <1>2, <1>4, <1>6 DEF TypeOK, Holder, Place
<1>10. Exclusive'
  BY <1>1, <1>2 DEF IInv, TypeOK, Exclusive, Single, Held, SidePlace
<1>11. Held'
  BY <1>1, <1>2, <1>6 DEF IInv, TypeOK, Held, SidePlace, LifePlace, DeletePlace
<1>12. Seen' /\ DeletionStopsWork'
  BY <1>1, <1>2 DEF IInv, TypeOK, Seen, DeletionStopsWork
<1> QED
  BY <1>4, <1>7, <1>8, <1>9, <1>10, <1>11, <1>12 DEF IInv

(* What a reply writes: nothing, or its own status and the record's.       *)
LEMMA PersistedRecord ==
  ASSUME IInv, NEW s \in Server, PersistReply(s)
  PROVE  /\ Whole' /\ live' \in File /\ staged' \in File
         /\ turn[s].pc \in {"persist", "retry"} /\ turn[s].id \in Turn
         /\ \/ Record' = Record
            \/ /\ Record.replies[turn[s].id] # "absent"
               /\ Record'.status \in Final /\ Record'.replies[turn[s].id] = Record'.status
               /\ Record.status = "interrupted" => Record'.status = "interrupted"
               /\ \A u \in Turn \ {turn[s].id} : Record'.replies[u] = Record.replies[u]
<1> DEFINE t == turn[s].id
           f == Finished(Record, t, turn[s].outcome)
<1>1. TypeOK /\ Whole
  BY DEF IInv
<1>2. turn[s].pc \in {"persist", "retry"} /\ t \in Turn /\ turn[s].outcome \in Final
  BY <1>1 DEF IInv, PersistReply, TypeOK, TurnState, Owned
<1>3. CASE Record.replies[t] = "absent"
  BY <1>1, <1>2, <1>3, SameRecord DEF PersistReply
<1>4. CASE Record.replies[t] # "absent"
  <2>1. /\ f \in File /\ f.status \in Final /\ f.replies[t] = f.status
        /\ Record.status = "interrupted" => f.status = "interrupted"
        /\ \A u \in Turn \ {t} : f.replies[u] = Record.replies[u]
    BY <1>1, <1>2, RecordFile, FinishedFile
  <2>2. Put(f)
    BY <1>4 DEF PersistReply
  <2>3. /\ Record' = f /\ Whole' /\ live' \in File /\ staged' \in File
    BY <1>1, <2>1, <2>2, PutRecord DEF Final
  <2> QED
    BY <1>2, <1>4, <2>1, <2>3
<1> QED
  BY <1>3, <1>4

(* A reply is written by the only active turn.                             *)
LEMMA PersistReplyKeeps ==
  ASSUME IInv, NEW s \in Server, PersistReply(s) PROVE IInv'
<1>1. TypeOK /\ Whole
  BY DEF IInv
<1>2. turn[s].pc \in Owing /\ turn[s].outcome \in Final /\ Step(s, "leave", turn[s].outcome)
  BY <1>1 DEF PersistReply, Owing, TypeOK, TurnState
<1>3. /\ turn' \in [Server -> TurnState] /\ NoneBegins /\ turn'[s].pc = "leave"
      /\ \A p \in Server : turn'[p].pc = "none" <=> turn[p].pc = "none"
  BY <1>1, <1>2, StepKeeps
<1>4. \A p \in Server : turn'[p].pc # "none" => p = s
  BY <1>1, <1>2, <1>3 DEF IInv, TypeOK, Exclusive, Single, Held, Owing
<1>5. UNCHANGED <<main, leases, up, req, work, used>>
  BY DEF PersistReply
<1>6. Whole' /\ live' \in File /\ staged' \in File
  BY PersistedRecord
<1>7. Written' /\ Owned'
  <2>1. CASE Record' = Record
    BY <1>3, <1>5, <2>1, RecordKeeps
  <2>2. CASE Record' # Record
    <3>1. /\ Record.replies[turn[s].id] # "absent" /\ turn[s].id \in Turn
          /\ Record'.status \in Final /\ Record'.replies[turn[s].id] = Record'.status
          /\ \A u \in Turn \ {turn[s].id} : Record'.replies[u] = Record.replies[u]
      BY <2>2, PersistedRecord
    <3>2. \A u \in Turn : Record'.replies[u] # "streaming"
      BY <1>2, <3>1 DEF IInv, Owned, Owing, Final
    <3>3. Written'
      BY <1>5, <3>1, <3>2 DEF IInv, Written
    <3>4. Owned'
      BY <1>2, <1>3, <1>4, <3>1, <3>2 DEF IInv, Owned, NoneBegins, Owing
    <3> QED
      BY <3>3, <3>4
  <2> QED
    BY <2>1, <2>2
<1>8. TypeOK'
  BY <1>1, <1>3, <1>5, <1>6 DEF TypeOK, leases
<1>9. Exclusive'
  BY <1>5 DEF IInv, Exclusive, Single, leases
<1>10. Held'
  BY <1>3, <1>5 DEF IInv, Held, leases
<1>11. Seen' /\ DeletionStopsWork'
  BY <1>3, <1>5 DEF IInv, Seen, DeletionStopsWork, Active
<1> QED
  BY <1>6, <1>7, <1>8, <1>9, <1>10, <1>11 DEF IInv

-------------------------------------------------------------------------------
(* The invariant.                                                          *)

(* The invariant holds before anyone has asked anything.                   *)
LEMMA InitFacts == Init => IInv
<1> SUFFICES ASSUME Init PROVE IInv
  OBVIOUS
<1>1. Record = NoFile /\ live = NoFile /\ staged = NoFile
  BY DEF Init, Record
<1>2. TypeOK
  BY <1>1, BlankFile DEF Init, TypeOK, Holder, Place, TurnState, NoTurnState, Final
<1>3. Whole /\ Written
  BY <1>1, BlankFile DEF Whole, Torn, Exists, Written
<1>4. Exclusive /\ Held /\ Seen
  BY DEF Init, Exclusive, Single, Held, Seen, NoTurnState, SidePlace, LifePlace, DeletePlace
<1>5. DeletionStopsWork /\ Owned
  BY DEF Init, DeletionStopsWork, Owned, NoTurnState
<1> QED
  BY <1>2, <1>3, <1>4, <1>5 DEF IInv

(* It holds when nothing happens.                                          *)
LEMMA StutterKeeps == IInv /\ UNCHANGED vars => IInv'
<1> SUFFICES ASSUME IInv, UNCHANGED vars PROVE IInv'
  OBVIOUS
<1>1. TypeOK /\ Whole /\ UNCHANGED <<main, files, exec, side, life, up, req, turn, work, used>>
  BY DEF IInv, vars, leases
<1>2. Record' = Record /\ Whole' /\ live' \in File /\ staged' \in File
  BY <1>1, SameRecord
<1>3. Written' /\ Owned'
  BY <1>1, <1>2, RecordKeeps DEF NoneBegins
<1>4. TypeOK' /\ Exclusive' /\ Held' /\ Seen' /\ DeletionStopsWork'
  BY <1>1, <1>2 DEF IInv, TypeOK, Exclusive, Single, Held, Seen, DeletionStopsWork, Active
<1> QED
  BY <1>2, <1>3, <1>4 DEF IInv

(* Every step keeps it.                                                    *)
LEMMA NextKeeps == IInv /\ [Next]_vars => IInv'
<1> SUFFICES ASSUME IInv, [Next]_vars PROVE IInv'
  OBVIOUS
<1>1. ASSUME NEW s \in Server, SendStep(s) PROVE IInv'
  BY <1>1, SendKeeps, EnterLifecycleKeeps, LoadMainKeeps, RefuseSendKeeps, BeginTurnKeeps DEF SendStep
<1>2. ASSUME NEW s \in Server, TurnStep(s) PROVE IInv'
  BY <1>2, ObserveKeeps, EndReplyKeeps, CancelReplyKeeps, PersistReplyKeeps, PersistFailsKeeps,
     LeaveTurnKeeps DEF TurnStep
<1>3. ASSUME NEW s \in Server, RequestStep(s) PROVE IInv'
  BY <1>3, InterruptKeeps, SettleInterruptedKeeps, ResetKeeps, ResetLoadKeeps, EraseKeeps, OpenKeeps,
     ProbeLeaseKeeps, SettleStaleKeeps, RequestFailsKeeps DEF RequestStep
<1>4. ASSUME NEW s \in Server, DeleteStep(s) PROVE IInv'
  BY <1>4, DeleteKeeps, ClaimSideKeeps, RefuseDeleteKeeps, StageKeeps, DeleteRowKeeps,
     DeleteRowFailsKeeps, RollbackKeeps, CommitKeeps, DeleteFailsKeeps DEF DeleteStep
<1>5. ASSUME NEW s \in Server, WorkStep(s) PROVE IInv'
  BY <1>5, AdmitWorkKeeps, StartWorkKeeps, EndWorkKeeps DEF WorkStep
<1>6. ASSUME NEW s \in Server, ServerStep(s) PROVE IInv'
  BY <1>6, BootKeeps, CloseKeeps, CancelSideThreadsKeeps, DrainedKeeps, DrainTimesOutKeeps,
     CrashKeeps DEF ServerStep
<1> QED
  BY <1>1, <1>2, <1>3, <1>4, <1>5, <1>6, StutterKeeps DEF Next

(* The invariant of every reachable state, for any servers and any turns.  *)
THEOREM SideInvariant == Spec => []IInv
<1>1. IInv /\ [Next]_vars => IInv'
  BY NextKeeps
<1> QED
  BY <1>1, InitFacts, PTL DEF Spec

(* Every reachable state is well typed.                                    *)
THEOREM SideTypes == Spec => []TypeOK
<1>1. IInv => TypeOK
  BY DEF IInv
<1> QED
  BY <1>1, SideInvariant, PTL

(* No server works in a thread whose row is gone, whatever sends, deletes, *)
(* closes, gives up or crashes.                                            *)
THEOREM DeletionIsSafe == Spec => []DeletionStopsWork
<1>1. IInv => DeletionStopsWork
  BY DEF IInv
<1> QED
  BY <1>1, SideInvariant, PTL

-------------------------------------------------------------------------------
(* What one step may do to the record.                                     *)

(* The file as a step leaves it: erased, committed, settled, begun or      *)
(* finished.                                                               *)
Erases == Record' = NoFile /\ \E s \in Server : req[s] = "erase" /\ req'[s] # "erase"
Commits == Record' = NoFile /\ ~main
Settles ==
  /\ Record' = Settled(Record)
  /\ \/ \E p \in Server : req[p] \in {"interrupt", "closing"} /\ req'[p] # req[p]
     \/ \A s \in up : turn[s].pc = "none"
Begins ==
  /\ \A s \in Server : turn[s].pc = "none"
  /\ \E t \in Turn \ used : Record' = Begun(Record, t)
Finishes ==
  \E s \in Server :
    /\ turn[s].pc \in {"persist", "retry"} /\ turn'[s] # turn[s] /\ turn[s].id \in Turn
    /\ \A p \in Server : turn[p].pc # "none" => p = s
    /\ Record.status = "interrupted" => Record'.status = "interrupted"
    /\ Record.replies[turn[s].id] # "absent"
    /\ Record'.status \in Final /\ Record'.replies[turn[s].id] = Record'.status
    /\ \A u \in Turn \ {turn[s].id} : Record'.replies[u] = Record.replies[u]

(* All that a step can do to the record.                                   *)
LEMMA RecordSteps ==
  ASSUME IInv, [Next]_vars
  PROVE  Record' = Record \/ Erases \/ Commits \/ Settles \/ Begins \/ Finishes
<1> DEFINE Goal == Record' = Record \/ Erases \/ Commits \/ Settles \/ Begins \/ Finishes
<1>1. TypeOK /\ Whole
  BY DEF IInv
<1>2. CASE UNCHANGED files
  BY <1>1, <1>2, SameRecord
<1>3. ASSUME NEW s \in Server, SendStep(s) PROVE Goal
  <2>1. ASSUME NEW t \in Turn, BeginTurn(s, t) PROVE Begins
    <3>1. \A p \in Server : turn[p].pc = "none"
      BY <1>1, <2>1 DEF BeginTurn, IInv, TypeOK, Exclusive, Single, Held, SidePlace
    <3>2. Begun(Record, t) \in File /\ Begun(Record, t).status = "running"
      BY <1>1, RecordFile, BegunFile
    <3>3. Record' = Begun(Record, t) /\ t \in Turn \ used
      BY <1>1, <2>1, <3>2, PutRecord DEF BeginTurn
    <3> QED
      BY <3>1, <3>3 DEF Begins
  <2> QED
    BY <1>2, <1>3, <2>1 DEF SendStep, Send, EnterLifecycle, LoadMain, RefuseSend
<1>4. ASSUME NEW s \in Server, TurnStep(s) PROVE Goal
  <2>1. ASSUME PersistReply(s), Record' # Record PROVE Finishes
    <3>1. \A p \in Server : turn[p].pc # "none" => p = s
      BY <1>1, <2>1 DEF PersistReply, IInv, TypeOK, Exclusive, Single, Held
    <3>2. turn'[s].pc = "leave" /\ turn[s].pc \in {"persist", "retry"}
      BY <1>1, <2>1 DEF PersistReply, Step, TypeOK, TurnState
    <3> QED
      BY <2>1, <3>1, <3>2, PersistedRecord DEF Finishes
  <2> QED
    BY <1>2, <1>4, <2>1 DEF TurnStep, Observe, EndReply, CancelReply, PersistFails, LeaveTurn
<1>5. ASSUME NEW s \in Server, RequestStep(s) PROVE Goal
  <2>1. ASSUME SettleInterrupted(s), Record' # Record PROVE Settles
    <3>1. Record' = Settled(Record)
      BY <1>1, <2>1, InterruptedRecord DEF SettleInterrupted
    <3>2. req[s] = "interrupt" /\ req'[s] = "idle"
      BY <1>1, <2>1 DEF SettleInterrupted, Go, TypeOK
    <3> QED
      BY <3>1, <3>2 DEF Settles
  <2>2. ASSUME SettleStale(s), Record' # Record PROVE Settles
    <3>1. Record' = Settled(Record)
      BY <1>1, <2>2, InterruptedRecord DEF SettleStale
    <3>2. \A p \in up : turn[p].pc = "none"
      BY <1>1, <2>2 DEF SettleStale, IInv, TypeOK, Exclusive, Single, Held, SidePlace
    <3> QED
      BY <3>1, <3>2 DEF Settles
  <2>3. ASSUME Erase(s) PROVE Erases
    <3>1. Record' = NoFile
      BY <2>3 DEF Erase, Record
    <3>2. req[s] = "erase" /\ req'[s] = "idle"
      BY <1>1, <2>3 DEF Erase, Go, TypeOK
    <3> QED
      BY <3>1, <3>2 DEF Erases
  <2> QED
    BY <1>2, <1>5, <2>1, <2>2, <2>3 DEF RequestStep, Interrupt, Reset, ResetLoad, Open, ProbeLease, RequestFails
<1>6. ASSUME NEW s \in Server, DeleteStep(s) PROVE Goal
  <2>1. ASSUME Stage(s) \/ Rollback(s) PROVE Record' = Record
    BY <1>1, <2>1, BlankFile DEF Stage, Rollback, Whole, Torn, Exists, Record, files
  <2>2. ASSUME Commit(s) PROVE Record' = Record \/ Commits
    BY <1>1, <2>2, BlankFile DEF Commit, IInv, Seen, Commits, Whole, Torn, Exists, Record
  <2> QED
    BY <1>2, <1>6, <2>1, <2>2 DEF DeleteStep, Delete, ClaimSide, RefuseDelete, DeleteRow, DeleteRowFails, DeleteFails
<1>7. ASSUME NEW s \in Server, WorkStep(s) PROVE Goal
  BY <1>2, <1>7 DEF WorkStep, AdmitWork, StartWork, EndWork
<1>8. ASSUME NEW s \in Server, ServerStep(s) PROVE Goal
  <2>1. ASSUME Boot(s), Record' # Record PROVE Settles
    <3>1. up = {} /\ Record' = Settled(Record)
      BY <1>1, <2>1, InterruptedRecord, SameRecord DEF Boot
    <3> QED
      BY <3>1 DEF Settles
  <2>2. ASSUME CancelSideThreads(s), Record' # Record PROVE Settles
    <3>1. Record' = Settled(Record)
      BY <1>1, <2>2, InterruptedRecord, SameRecord DEF CancelSideThreads
    <3>2. req[s] = "closing" /\ req'[s] = "draining"
      BY <1>1, <2>2 DEF CancelSideThreads, Go, TypeOK
    <3> QED
      BY <3>1, <3>2 DEF Settles
  <2> QED
    BY <1>2, <1>8, <2>1, <2>2 DEF ServerStep, Close, Drained, DrainTimesOut, Crash
<1>9. CASE UNCHANGED vars
  BY <1>2, <1>9 DEF vars
<1> QED
  BY <1>3, <1>4, <1>5, <1>6, <1>7, <1>8, <1>9 DEF Next

(* A reply that has ended stays as it ended until it is erased: the late   *)
(* writer finds the interrupt in the file, and a new turn settles only what*)
(* is still streaming.                                                     *)
THEOREM RepliesStay == Spec => RepliesAreFinal
<1> DEFINE Kept == \A t \in Turn : Record.replies[t] \in Final =>
                     Record'.replies[t] \in {Record.replies[t], "absent"}
<1>1. ASSUME IInv, [Next]_vars PROVE Kept
  <2>1. TypeOK
    BY <1>1 DEF IInv
  <2>2. CASE Record' = Record
    BY <2>2
  <2>3. CASE Erases \/ Commits
    BY <2>3, BlankFile DEF Erases, Commits
  <2>4. CASE Settles
    BY <2>1, <2>4, RecordFile, SettledFile DEF Settles, Final
  <2>5. CASE Begins
    <3>1. PICK t \in Turn \ used : Record' = Begun(Record, t)
      BY <2>5 DEF Begins
    <3>2. \A u \in Turn \ {t} :
            Record'.replies[u] = IF Record.status = "running" /\ Record.replies[u] = "streaming"
                                 THEN "interrupted" ELSE Record.replies[u]
      BY <2>1, <3>1, RecordFile, BegunFile
    <3>3. Record.replies[t] = "absent"
      BY <1>1, <3>1 DEF IInv, Written
    <3> QED
      BY <3>2, <3>3 DEF Final
  <2>6. CASE Finishes
    <3>1. PICK s \in Server :
            /\ turn[s].pc \in {"persist", "retry"} /\ turn[s].id \in Turn
            /\ Record.status = "interrupted" => Record'.status = "interrupted"
            /\ Record'.replies[turn[s].id] = Record'.status
            /\ \A u \in Turn \ {turn[s].id} : Record'.replies[u] = Record.replies[u]
      BY <2>6 DEF Finishes
    <3>2. Record.replies[turn[s].id] \in Final =>
            Record.replies[turn[s].id] = "interrupted" /\ Record.status = "interrupted"
      BY <1>1, <3>1 DEF IInv, Owned, Owing, Final
    <3> QED
      BY <3>1, <3>2
  <2> QED
    BY <1>1, <2>2, <2>3, <2>4, <2>5, <2>6, RecordSteps
<1>2. IInv /\ [Next]_vars => [Kept]_vars
  BY <1>1
<1> QED
  BY <1>2, SideInvariant, PTL DEF Spec, RepliesAreFinal

(* As long as the thread exists, only a reset removes a message: moving the*)
(* file, settling, beginning and finishing keep all of them.               *)
THEOREM HistoryStays == Spec => HistoryIsKept
<1> DEFINE Kept == \A t \in Turn : Record.replies[t] # "absent" /\ Record'.replies[t] = "absent" =>
                     ~main \/ \E s \in Server : req[s] = "erase" /\ req'[s] # "erase"
<1>1. ASSUME IInv, [Next]_vars PROVE Kept
  <2>1. TypeOK
    BY <1>1 DEF IInv
  <2>2. CASE Record' = Record
    BY <2>2
  <2>3. CASE Erases \/ Commits
    BY <2>3 DEF Erases, Commits
  <2>4. CASE Settles
    BY <2>1, <2>4, RecordFile, SettledFile DEF Settles
  <2>5. CASE Begins
    <3>1. PICK t \in Turn \ used : Record' = Begun(Record, t)
      BY <2>5 DEF Begins
    <3> QED
      BY <2>1, <3>1, RecordFile, BegunFile
  <2>6. CASE Finishes
    BY <2>6 DEF Finishes, Final
  <2> QED
    BY <1>1, <2>2, <2>3, <2>4, <2>5, <2>6, RecordSteps
<1>2. IInv /\ [Next]_vars => [Kept]_vars
  BY <1>1
<1> QED
  BY <1>2, SideInvariant, PTL DEF Spec, HistoryIsKept

(* The turn of a server that is up is settled from outside only by an      *)
(* interrupt or a shutdown: a recovery has the lease that the turn would   *)
(* have, and the first server to boot finds no other.                      *)
THEOREM LivingIsSpared == Spec => RecoverySparesTheLiving
<1> DEFINE Spared == \A s \in up, t \in Turn :
                       /\ Active(s) /\ turn[s].id = t
                       /\ Record.replies[t] = "streaming" /\ Record'.replies[t] = "interrupted"
                       => \/ turn'[s] # turn[s]
                          \/ \E p \in Server : req[p] \in {"interrupt", "closing"} /\ req'[p] # req[p]
<1>1. ASSUME IInv, [Next]_vars PROVE Spared
  <2>1. up \subseteq Server
    BY <1>1 DEF IInv, TypeOK
  <2>2. CASE Record' = Record
    BY <2>2
  <2>3. CASE Erases \/ Commits
    BY <2>3, BlankFile DEF Erases, Commits
  <2>4. CASE Settles
    BY <2>4 DEF Settles, Active
  <2>5. CASE Begins
    BY <2>1, <2>5 DEF Begins, Active
  <2>6. CASE Finishes
    BY <2>1, <2>6 DEF Finishes, Active
  <2> QED
    BY <1>1, <2>2, <2>3, <2>4, <2>5, <2>6, RecordSteps
<1>2. IInv /\ [Next]_vars => [Spared]_vars
  BY <1>1
<1> QED
  BY <1>2, SideInvariant, PTL DEF Spec, RecoverySparesTheLiving
================================================================================
