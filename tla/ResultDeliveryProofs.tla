------------------------ MODULE ResultDeliveryProofs ------------------------
(* Proofs about ResultDelivery for any servers and any results.            *)
EXTENDS ResultDelivery, TLAPS

(* Where a server has an entry for a result.                               *)
Placed(m, t, r) ==
  \/ r \in m.steers \/ r \in m.queue \/ r \in m.leftover \/ r \in m.taken
  \/ r \in m.qtaken \/ r \in m.folded \/ r \in t.about \/ r \in t.ids

(* Only a result that is in the ledger is passed on.                       *)
Entered ==
  /\ \A r \in Result : worker[r].at \in {"noted", "vouched", "handed"} => ledger[r] # "absent"
  /\ \A r \in held : ledger[r] # "absent"
  /\ \A s \in Server, r \in Result :
       r \in mem[s].final \/ Placed(mem[s], turn[s], r) => ledger[r] # "absent"

(* A turn has the lease, and a server that is down has nothing.            *)
Leased == \A s \in Server : turn[s].pc # "idle" => lease = s
Living ==
  /\ \A s \in Server : s \notin alive => turn[s].pc = "idle" /\ mem[s].final = {}
  /\ \A r \in Result : worker[r].by \in alive \cup {Nobody}

(* A drain takes one entry at a time.                                      *)
Single ==
  \A s \in Server :
    /\ \A q, r \in mem[s].taken : q = r
    /\ \A q, r \in mem[s].qtaken : q = r

(* What a turn holds at each stage.                                        *)
Staged ==
  \A s \in Server :
    /\ turn[s].pc = "idle" => turn[s].about = {}
    /\ turn[s].pc \in {"idle", "admitted"} => turn[s].ids = {}
    /\ turn[s].pc \in {"started", "running", "persisted"} => turn[s].about \subseteq turn[s].ids
    /\ turn[s].pc # "persisted" => turn[s].stamped = {} /\ ~turn[s].good
    /\ turn[s].stamped \subseteq turn[s].ids
    /\ turn[s].good => turn[s].ids \subseteq turn[s].stamped

(* An answer in the history or a stamp has been counted.                   *)
Counted ==
  /\ \A r \in Result : chat[r] = "answered" => answers[r] > 0
  /\ \A s \in Server, r \in Result : r \in turn[s].stamped => answers[r] > 0

(* A result that has an answer and no consumer is excused, but for the     *)
(* turn that has just answered it; so is one that a turn is about to       *)
(* answer again.                                                           *)
Excusable ==
  /\ \A r \in Result : answers[r] > 0 /\ ledger[r] \in {"absent", "ready"}
       => r \in excused \/ \E s \in Server : r \in turn[s].stamped
  /\ \A s \in Server, r \in Result :
       /\ turn[s].pc \in {"admitted", "started", "running"}
       /\ r \in turn[s].about \/ r \in turn[s].ids
       /\ answers[r] > 0
       => r \in excused

(* What a server is doing to the table: a server that is down does nothing;*)
(* the mutex of the running turn is held until the table is replaced; a    *)
(* turn that is asked for is the one that was admitted; one edit or one    *)
(* request at a time; only results of the ledger are asked for or written. *)
Edited ==
  \A s \in Server :
    /\ s \notin alive => request[s] = NoRequest /\ edit[s] = NoEdit
    /\ ~Unlocked(s) => Running(s)
    /\ request[s].at = "starting" =>
         turn[s].pc \in {"admitted", "started"} /\ request[s].of \subseteq turn[s].about
    /\ edit[s].job \in {"steer", "start", "delete", "other"} => request[s] = NoRequest
    /\ edit[s].job = "other" => edit[s].of = {}
    /\ \A r \in Result : r \in request[s].of \cup edit[s].of \cup edit[s].view => ledger[r] # "absent"

(* A message that is to leave the table because its turn was started is    *)
(* consumed or still with the server that started it.                      *)
StartedIsCarried ==
  \A s \in Server, r \in Result :
    r \in Leaving(s) /\ ledger[r] = "ready" => r \in dropped \cup overwritten \cup Carried(s)

Safe ==
  /\ RemovedIsRecorded /\ ClaimMeansAnswered /\ TurnOwnsItsResult
  /\ AnsweredTwiceIsExcused /\ AnnouncedIsCarried

IInv ==
  /\ TypeOK /\ Entered /\ Leased /\ Living /\ Single /\ Staged /\ Counted /\ Excusable
  /\ Edited /\ StartedIsCarried /\ Safe

(* The fields of a server's memory and of a turn.                          *)
MemoryIs(n, open, final, steers, queue, leftover, taken, qtaken, folded, replay, frozen, stopping) ==
  /\ n \in Memory /\ n.open = open /\ n.final = final /\ n.steers = steers /\ n.queue = queue
  /\ n.leftover = leftover /\ n.taken = taken /\ n.qtaken = qtaken /\ n.folded = folded
  /\ n.replay = replay /\ n.frozen = frozen /\ n.stopping = stopping

TurnIs(u, pc, about, ids, stamped, good) ==
  /\ u \in TurnState /\ u.pc = pc /\ u.about = about /\ u.ids = ids
  /\ u.stamped = stamped /\ u.good = good

(* The empty request and the empty edit.                                   *)
LEMMA Blanks ==
  /\ NoRequest \in RequestState /\ NoRequest.at = "none" /\ NoRequest.of = {}
  /\ NoEdit \in EditState /\ NoEdit.job = "none" /\ NoEdit.of = {} /\ NoEdit.view = {}
BY DEF NoRequest, NoEdit, RequestState, EditState

(* A spawn only gives the result a worker.                                 *)
LEMMA SpawnKeeps ==
  ASSUME IInv, NEW s \in Server, NEW r \in Result, Spawn(s, r) PROVE IInv'
<1>1. TypeOK
  BY DEF IInv
<1>2. /\ turn[s].pc = "running"
      /\ worker[r].at = "unborn"
      /\ worker' = [worker EXCEPT ![r] = [at |-> "working", by |-> s]]
      /\ UNCHANGED <<record, ledger, chat, held, lease, alive, mem, turn, answers, excused,
                     dropped, request, edit, overwritten>>
  BY <1>1 DEF Spawn, TypeOK, Memory, TurnState, durable, history, editing
<1>3. TypeOK'
  BY <1>1, <1>2 DEF TypeOK, Consumer, Stage
<1>4. Entered'
  BY <1>1, <1>2 DEF IInv, TypeOK, Entered, Placed
<1>5. Leased'
  BY <1>2 DEF IInv, Leased
<1>6. Living'
  BY <1>1, <1>2 DEF IInv, TypeOK, Living
<1>7. Single'
  BY <1>2 DEF IInv, Single
<1>8. Staged'
  BY <1>2 DEF IInv, Staged
<1>9. Counted'
  BY <1>2 DEF IInv, Counted
<1>10. Excusable'
  BY <1>2 DEF IInv, Excusable, Staged
<1>11. RemovedIsRecorded'
  BY <1>2 DEF IInv, Safe, RemovedIsRecorded, Entered
<1>12. ClaimMeansAnswered'
  BY <1>2 DEF IInv, Safe, ClaimMeansAnswered, Counted
<1>13. TurnOwnsItsResult'
  BY <1>2 DEF IInv, Safe, TurnOwnsItsResult, Leased
<1>14. AnsweredTwiceIsExcused'
  BY <1>2 DEF IInv, Safe, AnsweredTwiceIsExcused, Excusable
<1>15. AnnouncedIsCarried'
  BY SMTT(40), <1>1, <1>2 DEF IInv, Safe, AnnouncedIsCarried, Carried, Staged, TypeOK
<1>16. Edited'
  BY <1>1, <1>2 DEF IInv, TypeOK, Edited, Unlocked, Running
<1>17. StartedIsCarried'
  BY <1>1, <1>2 DEF IInv, StartedIsCarried, Leaving, Carried, Staged, TypeOK
<1> QED
  BY <1>3, <1>4, <1>5, <1>6, <1>7, <1>8, <1>9, <1>10, <1>11, <1>12, <1>13, <1>14, <1>15, <1>16,
       <1>17 DEF IInv, Safe

(* A pending record says nothing of the ledger.                            *)
LEMMA PrepareKeeps ==
  ASSUME IInv, NEW s \in Server, NEW r \in Result, Prepare(s, r) PROVE IInv'
<1>1. TypeOK
  BY DEF IInv
<1>2. /\ worker[r].at = "working" /\ worker[r].by = s
      /\ worker' = [worker EXCEPT ![r].at = "prepared"]
      /\ record' = [record EXCEPT ![r] = "pending"]
      /\ UNCHANGED <<ledger, chat, held, lease, alive, mem, turn, answers, excused, dropped,
                     request, edit, overwritten>>
  BY <1>1 DEF Prepare, TypeOK, Memory, TurnState, durable, history, editing, Moves
<1>3. TypeOK'
  BY <1>1, <1>2 DEF TypeOK, Consumer, Stage
<1>4. Entered'
  BY <1>1, <1>2 DEF IInv, TypeOK, Entered, Placed
<1>5. Leased'
  BY <1>2 DEF IInv, Leased
<1>6. Living'
  BY <1>1, <1>2 DEF IInv, TypeOK, Living
<1>7. Single'
  BY <1>2 DEF IInv, Single
<1>8. Staged'
  BY <1>2 DEF IInv, Staged
<1>9. Counted'
  BY <1>2 DEF IInv, Counted
<1>10. Excusable'
  BY <1>2 DEF IInv, Excusable, Staged
<1>11. RemovedIsRecorded'
  BY <1>1, <1>2 DEF IInv, Safe, RemovedIsRecorded, Entered, TypeOK
<1>12. ClaimMeansAnswered'
  BY <1>2 DEF IInv, Safe, ClaimMeansAnswered, Counted
<1>13. TurnOwnsItsResult'
  BY <1>2 DEF IInv, Safe, TurnOwnsItsResult, Leased
<1>14. AnsweredTwiceIsExcused'
  BY <1>2 DEF IInv, Safe, AnsweredTwiceIsExcused, Excusable
<1>15. AnnouncedIsCarried'
  BY SMTT(40), <1>1, <1>2 DEF IInv, Safe, AnnouncedIsCarried, Carried, Staged, TypeOK
<1>16. Edited'
  BY <1>1, <1>2 DEF IInv, TypeOK, Edited, Unlocked, Running
<1>17. StartedIsCarried'
  BY <1>1, <1>2 DEF IInv, StartedIsCarried, Leaving, Carried, Staged, TypeOK
<1> QED
  BY <1>3, <1>4, <1>5, <1>6, <1>7, <1>8, <1>9, <1>10, <1>11, <1>12, <1>13, <1>14, <1>15, <1>16,
       <1>17 DEF IInv, Safe

(* An entry that becomes ready has no answer and no turn yet.              *)
LEMMA MarkReadyKeeps ==
  ASSUME IInv, NEW s \in Server, NEW r \in Result, MarkReady(s, r) PROVE IInv'
<1>1. TypeOK
  BY DEF IInv
<1>2. /\ worker[r].at = "prepared" /\ worker[r].by = s
      /\ worker' = [worker EXCEPT ![r].at = "noted"]
      /\ ledger' = [ledger EXCEPT ![r] = IF @ = "absent" THEN "ready" ELSE @]
      /\ UNCHANGED <<record, chat, held, lease, alive, mem, turn, answers, excused, dropped,
                     request, edit, overwritten>>
  BY <1>1 DEF MarkReady, TypeOK, Memory, TurnState, durable, history, editing, Moves
<1>3. TypeOK'
  BY <1>1, <1>2 DEF TypeOK, Consumer, Stage
<1>4. Entered'
  BY <1>1, <1>2 DEF IInv, TypeOK, Entered, Placed
<1>5. Leased'
  BY <1>2 DEF IInv, Leased
<1>6. Living'
  BY <1>1, <1>2 DEF IInv, TypeOK, Living
<1>7. Single'
  BY <1>2 DEF IInv, Single
<1>8. Staged'
  BY <1>2 DEF IInv, Staged
<1>9. Counted'
  BY <1>2 DEF IInv, Counted
<1>10. Excusable'
  BY <1>1, <1>2 DEF IInv, Excusable, Staged, TypeOK
<1>11. RemovedIsRecorded'
  BY <1>1, <1>2 DEF IInv, Safe, RemovedIsRecorded, Entered, TypeOK
<1>12. ClaimMeansAnswered'
  BY <1>1, <1>2 DEF IInv, Safe, ClaimMeansAnswered, Counted, TypeOK
<1>13. TurnOwnsItsResult'
  BY <1>1, <1>2 DEF IInv, Safe, TurnOwnsItsResult, Leased, TypeOK, Entered, Placed
<1>14. AnsweredTwiceIsExcused'
  BY <1>2 DEF IInv, Safe, AnsweredTwiceIsExcused, Excusable
<1>15. AnnouncedIsCarried'
  BY SMTT(40), <1>1, <1>2 DEF IInv, Safe, AnnouncedIsCarried, Carried, Staged, TypeOK, Entered
<1>16. Edited'
  BY <1>1, <1>2 DEF IInv, TypeOK, Edited, Unlocked, Running
<1>17. StartedIsCarried'
  BY <1>1, <1>2 DEF IInv, StartedIsCarried, Leaving, Carried, Staged, TypeOK, Edited
<1> QED
  BY <1>3, <1>4, <1>5, <1>6, <1>7, <1>8, <1>9, <1>10, <1>11, <1>12, <1>13, <1>14, <1>15, <1>16,
       <1>17 DEF IInv, Safe

(* Whoever looks at the consumer has seen the entry.                       *)
LEMMA CheckKeeps ==
  ASSUME IInv, NEW s \in Server, NEW r \in Result, Check(s, r) PROVE IInv'
<1>1. CASE r \in mem[s].final \/ ledger[r] # "ready"
  <2> DEFINE m == mem[s]
             n == [m EXCEPT !.final = @ \cup {r}]
  <2>1. TypeOK
    BY DEF IInv
  <2>2. /\ worker[r].at = "noted" /\ worker[r].by = s
        /\ r \in m.final \/ ledger[r] # "ready"
        /\ mem' = [mem EXCEPT ![s] = n]
        /\ worker' = [worker EXCEPT ![r].at = "handed"]
        /\ UNCHANGED <<record, ledger, chat, held, lease, alive, turn, answers, excused, dropped,
                       request, edit, overwritten>>
    BY <1>1, <2>1 DEF Check, TypeOK, Memory, TurnState, durable, history, editing, Moves
  <2>3. m \in Memory
    BY <2>1 DEF TypeOK
  <2>4. MemoryIs(n, m.open, m.final \cup {r}, m.steers, m.queue,
                 m.leftover, m.taken, m.qtaken, m.folded, m.replay, m.frozen, m.stopping)
    BY <2>1, <2>3 DEF MemoryIs, Memory
  <2>5. mem' \in [Server -> Memory]
    BY <2>1, <2>2, <2>4 DEF TypeOK, MemoryIs
  <2>6. \A x \in Server : mem'[x] = IF x = s THEN n ELSE mem[x]
    BY <2>1, <2>2 DEF TypeOK
  <2> HIDE DEF n
  <2>7. worker' \in [Result -> [at : Stage, by : Server \cup {Nobody}]]
    BY <2>1, <2>2 DEF TypeOK, Stage
  <2>8. \A q \in Result : worker'[q].by = worker[q].by
    BY <2>1, <2>2 DEF TypeOK
  <2>9. TypeOK'
    BY <2>1, <2>2, <2>3, <2>4, <2>5, <2>6, <2>7, <2>8 DEF TypeOK, Consumer, Stage, Memory
  <2>10. Entered'
    BY <2>1, <2>2, <2>3, <2>4, <2>6, <2>7, <2>8 DEF IInv, TypeOK, Entered, Placed, MemoryIs, Memory
  <2>11. Leased'
    BY <2>2 DEF IInv, Leased
  <2>12. Living'
    BY <2>1, <2>2, <2>3, <2>4, <2>6, <2>7, <2>8, DeliveryAssumption DEF IInv, TypeOK, Living,
         MemoryIs
  <2>13. Single'
    BY <2>2, <2>3, <2>4, <2>6 DEF IInv, Single, MemoryIs
  <2>14. Staged'
    BY <2>2 DEF IInv, Staged
  <2>15. Counted'
    BY <2>2 DEF IInv, Counted
  <2>16. Excusable'
    BY <2>2 DEF IInv, Excusable, Staged
  <2>17. RemovedIsRecorded'
    BY <2>2 DEF IInv, Safe, RemovedIsRecorded, Entered
  <2>18. ClaimMeansAnswered'
    BY <2>2 DEF IInv, Safe, ClaimMeansAnswered, Counted
  <2>19. TurnOwnsItsResult'
    BY <2>2 DEF IInv, Safe, TurnOwnsItsResult, Leased
  <2>20. AnsweredTwiceIsExcused'
    BY <2>2 DEF IInv, Safe, AnsweredTwiceIsExcused, Excusable
  <2>21. AnnouncedIsCarried'
    BY SMTT(40), <2>1, <2>2, <2>3, <2>4, <2>6, <2>7, <2>8 DEF IInv, Safe, AnnouncedIsCarried, Carried,
         Staged, TypeOK, MemoryIs
  <2>22. Edited'
    BY <2>1, <2>2, <2>3, <2>4, <2>6, <2>7, <2>8 DEF IInv, TypeOK, Edited, Unlocked, Running
  <2>23. StartedIsCarried'
    BY <2>1, <2>2, <2>3, <2>4, <2>6, <2>7, <2>8 DEF IInv, StartedIsCarried, Leaving, Carried,
         Staged, TypeOK, MemoryIs
  <2> QED
    BY <2>9, <2>10, <2>11, <2>12, <2>13, <2>14, <2>15, <2>16, <2>17, <2>18, <2>19, <2>20, <2>21,
         <2>22, <2>23 DEF IInv, Safe
<1>2. CASE ~(r \in mem[s].final \/ ledger[r] # "ready")
  <2> DEFINE m == mem[s]
             n == [m EXCEPT !.final = @ \cup {r}]
  <2>1. TypeOK
    BY DEF IInv
  <2>2. /\ worker[r].at = "noted" /\ worker[r].by = s
        /\ mem' = [mem EXCEPT ![s] = n]
        /\ worker' = [worker EXCEPT ![r].at = "vouched"]
        /\ UNCHANGED <<record, ledger, chat, held, lease, alive, turn, answers, excused, dropped,
                       request, edit, overwritten>>
    BY <1>2, <2>1 DEF Check, TypeOK, Memory, TurnState, durable, history, editing, Moves
  <2>3. m \in Memory
    BY <2>1 DEF TypeOK
  <2>4. MemoryIs(n, m.open, m.final \cup {r}, m.steers, m.queue,
                 m.leftover, m.taken, m.qtaken, m.folded, m.replay, m.frozen, m.stopping)
    BY <2>1, <2>3 DEF MemoryIs, Memory
  <2>5. mem' \in [Server -> Memory]
    BY <2>1, <2>2, <2>4 DEF TypeOK, MemoryIs
  <2>6. \A x \in Server : mem'[x] = IF x = s THEN n ELSE mem[x]
    BY <2>1, <2>2 DEF TypeOK
  <2> HIDE DEF n
  <2>7. worker' \in [Result -> [at : Stage, by : Server \cup {Nobody}]]
    BY <2>1, <2>2 DEF TypeOK, Stage
  <2>8. \A q \in Result : worker'[q].by = worker[q].by
    BY <2>1, <2>2 DEF TypeOK
  <2>9. TypeOK'
    BY <2>1, <2>2, <2>3, <2>4, <2>5, <2>6, <2>7, <2>8 DEF TypeOK, Consumer, Stage, Memory
  <2>10. Entered'
    BY <2>1, <2>2, <2>3, <2>4, <2>6, <2>7, <2>8 DEF IInv, TypeOK, Entered, Placed, MemoryIs, Memory
  <2>11. Leased'
    BY <2>2 DEF IInv, Leased
  <2>12. Living'
    BY <2>1, <2>2, <2>3, <2>4, <2>6, <2>7, <2>8, DeliveryAssumption DEF IInv, TypeOK, Living,
         MemoryIs
  <2>13. Single'
    BY <2>2, <2>3, <2>4, <2>6 DEF IInv, Single, MemoryIs
  <2>14. Staged'
    BY <2>2 DEF IInv, Staged
  <2>15. Counted'
    BY <2>2 DEF IInv, Counted
  <2>16. Excusable'
    BY <2>2 DEF IInv, Excusable, Staged
  <2>17. RemovedIsRecorded'
    BY <2>2 DEF IInv, Safe, RemovedIsRecorded, Entered
  <2>18. ClaimMeansAnswered'
    BY <2>2 DEF IInv, Safe, ClaimMeansAnswered, Counted
  <2>19. TurnOwnsItsResult'
    BY <2>2 DEF IInv, Safe, TurnOwnsItsResult, Leased
  <2>20. AnsweredTwiceIsExcused'
    BY <2>2 DEF IInv, Safe, AnsweredTwiceIsExcused, Excusable
  <2>21. AnnouncedIsCarried'
    BY SMTT(40), <2>1, <2>2, <2>3, <2>4, <2>6, <2>7, <2>8 DEF IInv, Safe, AnnouncedIsCarried, Carried,
         Staged, TypeOK, MemoryIs
  <2>22. Edited'
    BY <2>1, <2>2, <2>3, <2>4, <2>6, <2>7, <2>8 DEF IInv, TypeOK, Edited, Unlocked, Running
  <2>23. StartedIsCarried'
    BY <2>1, <2>2, <2>3, <2>4, <2>6, <2>7, <2>8 DEF IInv, StartedIsCarried, Leaving, Carried,
         Staged, TypeOK, MemoryIs
  <2> QED
    BY <2>9, <2>10, <2>11, <2>12, <2>13, <2>14, <2>15, <2>16, <2>17, <2>18, <2>19, <2>20, <2>21,
         <2>22, <2>23 DEF IInv, Safe
<1> QED
  BY <1>1, <1>2 DEF Check

(* The hand-over puts the result where its server carries it.              *)
LEMMA HandKeeps ==
  ASSUME IInv, NEW s \in Server, NEW r \in Result, Hand(s, r) PROVE IInv'
<1> DEFINE m == mem[s]
           n == Announced(m, Running(s), {r})
<1>1. TypeOK
  BY DEF IInv
<1>2. /\ worker[r].at = "vouched" /\ worker[r].by = s
      /\ mem' = [mem EXCEPT ![s] = n]
      /\ worker' = [worker EXCEPT ![r].at = "handed"]
      /\ UNCHANGED <<record, ledger, chat, held, lease, alive, turn, answers, excused, dropped,
                     request, edit, overwritten>>
  BY <1>1 DEF Hand, TypeOK, Memory, TurnState, durable, history, editing, Moves
<1>3. m \in Memory
  BY <1>1 DEF TypeOK
<1>4. MemoryIs(n, m.open, m.final, IF Running(s) THEN m.steers \cup {r} ELSE m.steers,
               IF Running(s) THEN m.queue ELSE m.queue \cup {r}, m.leftover, m.taken, m.qtaken, m.folded, m.replay, m.frozen, m.stopping)
  BY <1>1, <1>3 DEF MemoryIs, Memory, Announced
<1>5. mem' \in [Server -> Memory]
  BY <1>1, <1>2, <1>4 DEF TypeOK, MemoryIs
<1>6. \A x \in Server : mem'[x] = IF x = s THEN n ELSE mem[x]
  BY <1>1, <1>2 DEF TypeOK
<1> HIDE DEF n
<1>7. TypeOK'
  BY SMTT(40), <1>1, <1>2, <1>3, <1>4, <1>5, <1>6 DEF TypeOK, Consumer, Stage, Memory
<1>8. Entered'
  BY <1>1, <1>2, <1>3, <1>4, <1>6 DEF IInv, TypeOK, Entered, Placed, MemoryIs, Memory
<1>9. Leased'
  BY <1>2 DEF IInv, Leased
<1>10. Living'
  BY <1>1, <1>2, <1>3, <1>4, <1>6 DEF IInv, TypeOK, Living, MemoryIs
<1>11. Single'
  BY <1>2, <1>3, <1>4, <1>6 DEF IInv, Single, MemoryIs
<1>12. Staged'
  BY <1>2 DEF IInv, Staged
<1>13. Counted'
  BY <1>2 DEF IInv, Counted
<1>14. Excusable'
  BY <1>2 DEF IInv, Excusable, Staged
<1>15. RemovedIsRecorded'
  BY <1>2 DEF IInv, Safe, RemovedIsRecorded, Entered
<1>16. ClaimMeansAnswered'
  BY <1>2 DEF IInv, Safe, ClaimMeansAnswered, Counted
<1>17. TurnOwnsItsResult'
  BY <1>2 DEF IInv, Safe, TurnOwnsItsResult, Leased
<1>18. AnsweredTwiceIsExcused'
  BY <1>2 DEF IInv, Safe, AnsweredTwiceIsExcused, Excusable
<1>19. AnnouncedIsCarried'
  BY SMTT(40), <1>1, <1>2, <1>3, <1>4, <1>6 DEF IInv, Safe, AnnouncedIsCarried, Carried, Staged, TypeOK,
       MemoryIs
<1>20. Edited'
  BY <1>1, <1>2, <1>3, <1>4, <1>6 DEF IInv, TypeOK, Edited, Unlocked, Running
<1>21. StartedIsCarried'
  BY <1>1, <1>2, <1>3, <1>4, <1>6 DEF IInv, StartedIsCarried, Leaving, Carried, Staged, TypeOK,
       MemoryIs
<1> QED
  BY <1>7, <1>8, <1>9, <1>10, <1>11, <1>12, <1>13, <1>14, <1>15, <1>16, <1>17, <1>18, <1>19,
       <1>20, <1>21 DEF IInv, Safe

(* Only a result of the ledger is handed, so the record may go.            *)
LEMMA AcknowledgeKeeps ==
  ASSUME IInv, NEW s \in Server, NEW r \in Result, Acknowledge(s, r) PROVE IInv'
<1>1. TypeOK
  BY DEF IInv
<1>2. /\ worker[r].at = "handed" /\ worker[r].by = s
      /\ worker' = [worker EXCEPT ![r] = [at |-> "done", by |-> Nobody]]
      /\ record' = [record EXCEPT ![r] = "removed"]
      /\ UNCHANGED <<ledger, chat, held, lease, alive, mem, turn, answers, excused, dropped,
                     request, edit, overwritten>>
  BY <1>1 DEF Acknowledge, TypeOK, Memory, TurnState, durable, history, editing
<1>3. TypeOK'
  BY <1>1, <1>2 DEF TypeOK, Consumer, Stage
<1>4. Entered'
  BY <1>1, <1>2 DEF IInv, TypeOK, Entered, Placed
<1>5. Leased'
  BY <1>2 DEF IInv, Leased
<1>6. Living'
  BY <1>1, <1>2 DEF IInv, TypeOK, Living
<1>7. Single'
  BY <1>2 DEF IInv, Single
<1>8. Staged'
  BY <1>2 DEF IInv, Staged
<1>9. Counted'
  BY <1>2 DEF IInv, Counted
<1>10. Excusable'
  BY <1>2 DEF IInv, Excusable, Staged
<1>11. RemovedIsRecorded'
  BY <1>1, <1>2 DEF IInv, Safe, RemovedIsRecorded, Entered, TypeOK
<1>12. ClaimMeansAnswered'
  BY <1>2 DEF IInv, Safe, ClaimMeansAnswered, Counted
<1>13. TurnOwnsItsResult'
  BY <1>2 DEF IInv, Safe, TurnOwnsItsResult, Leased
<1>14. AnsweredTwiceIsExcused'
  BY <1>2 DEF IInv, Safe, AnsweredTwiceIsExcused, Excusable
<1>15. AnnouncedIsCarried'
  BY SMTT(40), <1>1, <1>2 DEF IInv, Safe, AnnouncedIsCarried, Carried, Staged, TypeOK
<1>16. Edited'
  BY <1>1, <1>2 DEF IInv, TypeOK, Edited, Unlocked, Running
<1>17. StartedIsCarried'
  BY <1>1, <1>2 DEF IInv, StartedIsCarried, Leaving, Carried, Staged, TypeOK
<1> QED
  BY <1>3, <1>4, <1>5, <1>6, <1>7, <1>8, <1>9, <1>10, <1>11, <1>12, <1>13, <1>14, <1>15, <1>16,
       <1>17 DEF IInv, Safe

(* A recovered record starts over and has announced nothing.               *)
LEMMA RecoverKeeps ==
  ASSUME IInv, NEW s \in Server, NEW r \in Result, Recover(s, r) PROVE IInv'
<1>1. TypeOK
  BY DEF IInv
<1>2. /\ s \in alive
      /\ worker[r].by = Nobody
      /\ record[r] = "pending"
      /\ worker' = [worker EXCEPT ![r] = [at |-> "prepared", by |-> s]]
      /\ UNCHANGED <<record, ledger, chat, held, lease, alive, mem, turn, answers, excused,
                     dropped, request, edit, overwritten>>
  BY <1>1 DEF Recover, TypeOK, Memory, TurnState, durable, history, editing
<1>3. TypeOK'
  BY <1>1, <1>2 DEF TypeOK, Consumer, Stage
<1>4. Entered'
  BY <1>1, <1>2 DEF IInv, TypeOK, Entered, Placed
<1>5. Leased'
  BY <1>2 DEF IInv, Leased
<1>6. Living'
  BY <1>1, <1>2 DEF IInv, TypeOK, Living
<1>7. Single'
  BY <1>2 DEF IInv, Single
<1>8. Staged'
  BY <1>2 DEF IInv, Staged
<1>9. Counted'
  BY <1>2 DEF IInv, Counted
<1>10. Excusable'
  BY <1>2 DEF IInv, Excusable, Staged
<1>11. RemovedIsRecorded'
  BY <1>2 DEF IInv, Safe, RemovedIsRecorded, Entered
<1>12. ClaimMeansAnswered'
  BY <1>2 DEF IInv, Safe, ClaimMeansAnswered, Counted
<1>13. TurnOwnsItsResult'
  BY <1>2 DEF IInv, Safe, TurnOwnsItsResult, Leased
<1>14. AnsweredTwiceIsExcused'
  BY <1>2 DEF IInv, Safe, AnsweredTwiceIsExcused, Excusable
<1>15. AnnouncedIsCarried'
  BY SMTT(40), <1>1, <1>2, DeliveryAssumption DEF IInv, Safe, AnnouncedIsCarried, Carried, Staged, TypeOK
<1>16. Edited'
  BY <1>1, <1>2, DeliveryAssumption DEF IInv, TypeOK, Edited, Unlocked, Running
<1>17. StartedIsCarried'
  BY <1>1, <1>2, DeliveryAssumption DEF IInv, StartedIsCarried, Leaving, Carried, Staged, TypeOK
<1> QED
  BY <1>3, <1>4, <1>5, <1>6, <1>7, <1>8, <1>9, <1>10, <1>11, <1>12, <1>13, <1>14, <1>15, <1>16,
       <1>17 DEF IInv, Safe

(* A drain holds one entry between the queue and the admission.            *)
LEMMA TakeResultKeeps ==
  ASSUME IInv, NEW s \in Server, NEW r \in Result, TakeResult(s, r) PROVE IInv'
<1> DEFINE m == mem[s]
           n == [m EXCEPT !.queue = @ \ {r}, !.taken = {r}]
<1>1. TypeOK
  BY DEF IInv
<1>2. /\ r \in m.queue
      /\ m.taken = {}
      /\ mem' = [mem EXCEPT ![s] = n]
      /\ UNCHANGED <<record, ledger, chat, held, lease, worker, alive, turn, answers, excused,
                     dropped, request, edit, overwritten>>
  BY <1>1 DEF TakeResult, TypeOK, Memory, TurnState, durable, history, editing
<1>3. m \in Memory
  BY <1>1 DEF TypeOK
<1>4. MemoryIs(n, m.open, m.final, m.steers, m.queue \ {r}, m.leftover,
               {r}, m.qtaken, m.folded, m.replay, m.frozen, m.stopping)
  BY <1>1, <1>3 DEF MemoryIs, Memory
<1>5. mem' \in [Server -> Memory]
  BY <1>1, <1>2, <1>4 DEF TypeOK, MemoryIs
<1>6. \A x \in Server : mem'[x] = IF x = s THEN n ELSE mem[x]
  BY <1>1, <1>2 DEF TypeOK
<1> HIDE DEF n
<1>7. TypeOK'
  BY <1>1, <1>2, <1>3, <1>4, <1>5, <1>6 DEF TypeOK, Consumer, Stage, Memory
<1>8. Entered'
  BY <1>1, <1>2, <1>3, <1>4, <1>6 DEF IInv, TypeOK, Entered, Placed, MemoryIs, Memory
<1>9. Leased'
  BY <1>2 DEF IInv, Leased
<1>10. Living'
  BY <1>1, <1>2, <1>3, <1>4, <1>6 DEF IInv, TypeOK, Living, MemoryIs
<1>11. Single'
  BY <1>2, <1>3, <1>4, <1>6 DEF IInv, Single, MemoryIs
<1>12. Staged'
  BY <1>2 DEF IInv, Staged
<1>13. Counted'
  BY <1>2 DEF IInv, Counted
<1>14. Excusable'
  BY <1>2 DEF IInv, Excusable, Staged
<1>15. RemovedIsRecorded'
  BY <1>2 DEF IInv, Safe, RemovedIsRecorded, Entered
<1>16. ClaimMeansAnswered'
  BY <1>2 DEF IInv, Safe, ClaimMeansAnswered, Counted
<1>17. TurnOwnsItsResult'
  BY <1>2 DEF IInv, Safe, TurnOwnsItsResult, Leased
<1>18. AnsweredTwiceIsExcused'
  BY <1>2 DEF IInv, Safe, AnsweredTwiceIsExcused, Excusable
<1>19. AnnouncedIsCarried'
  BY SMTT(40), <1>1, <1>2, <1>3, <1>4, <1>6 DEF IInv, Safe, AnnouncedIsCarried, Carried, Staged, TypeOK,
       MemoryIs
<1>20. Edited'
  BY <1>1, <1>2, <1>3, <1>4, <1>6 DEF IInv, TypeOK, Edited, Unlocked, Running
<1>21. StartedIsCarried'
  BY <1>1, <1>2, <1>3, <1>4, <1>6 DEF IInv, StartedIsCarried, Leaving, Carried, Staged, TypeOK,
       MemoryIs
<1> QED
  BY <1>7, <1>8, <1>9, <1>10, <1>11, <1>12, <1>13, <1>14, <1>15, <1>16, <1>17, <1>18, <1>19,
       <1>20, <1>21 DEF IInv, Safe

(* The same of the queue of the user's turns.                              *)
LEMMA TakeLeftoverKeeps ==
  ASSUME IInv, NEW s \in Server, NEW r \in Result, TakeLeftover(s, r) PROVE IInv'
<1> DEFINE m == mem[s]
           n == [m EXCEPT !.leftover = @ \ {r}, !.qtaken = {r}]
<1>1. TypeOK
  BY DEF IInv
<1>2. /\ r \in m.leftover
      /\ m.qtaken = {}
      /\ mem' = [mem EXCEPT ![s] = n]
      /\ UNCHANGED <<record, ledger, chat, held, lease, worker, alive, turn, answers, excused,
                     dropped, request, edit, overwritten>>
  BY <1>1 DEF TakeLeftover, TypeOK, Memory, TurnState, durable, history, editing
<1>3. m \in Memory
  BY <1>1 DEF TypeOK
<1>4. MemoryIs(n, m.open, m.final, m.steers, m.queue, m.leftover \ {r},
               m.taken, {r}, m.folded, m.replay, m.frozen, m.stopping)
  BY <1>1, <1>3 DEF MemoryIs, Memory
<1>5. mem' \in [Server -> Memory]
  BY <1>1, <1>2, <1>4 DEF TypeOK, MemoryIs
<1>6. \A x \in Server : mem'[x] = IF x = s THEN n ELSE mem[x]
  BY <1>1, <1>2 DEF TypeOK
<1> HIDE DEF n
<1>7. TypeOK'
  BY <1>1, <1>2, <1>3, <1>4, <1>5, <1>6 DEF TypeOK, Consumer, Stage, Memory
<1>8. Entered'
  BY <1>1, <1>2, <1>3, <1>4, <1>6 DEF IInv, TypeOK, Entered, Placed, MemoryIs, Memory
<1>9. Leased'
  BY <1>2 DEF IInv, Leased
<1>10. Living'
  BY <1>1, <1>2, <1>3, <1>4, <1>6 DEF IInv, TypeOK, Living, MemoryIs
<1>11. Single'
  BY <1>2, <1>3, <1>4, <1>6 DEF IInv, Single, MemoryIs
<1>12. Staged'
  BY <1>2 DEF IInv, Staged
<1>13. Counted'
  BY <1>2 DEF IInv, Counted
<1>14. Excusable'
  BY <1>2 DEF IInv, Excusable, Staged
<1>15. RemovedIsRecorded'
  BY <1>2 DEF IInv, Safe, RemovedIsRecorded, Entered
<1>16. ClaimMeansAnswered'
  BY <1>2 DEF IInv, Safe, ClaimMeansAnswered, Counted
<1>17. TurnOwnsItsResult'
  BY <1>2 DEF IInv, Safe, TurnOwnsItsResult, Leased
<1>18. AnsweredTwiceIsExcused'
  BY <1>2 DEF IInv, Safe, AnsweredTwiceIsExcused, Excusable
<1>19. AnnouncedIsCarried'
  BY SMTT(40), <1>1, <1>2, <1>3, <1>4, <1>6 DEF IInv, Safe, AnnouncedIsCarried, Carried, Staged, TypeOK,
       MemoryIs
<1>20. Edited'
  BY <1>1, <1>2, <1>3, <1>4, <1>6 DEF IInv, TypeOK, Edited, Unlocked, Running
<1>21. StartedIsCarried'
  BY <1>1, <1>2, <1>3, <1>4, <1>6 DEF IInv, StartedIsCarried, Leaving, Carried, Staged, TypeOK,
       MemoryIs
<1> QED
  BY <1>7, <1>8, <1>9, <1>10, <1>11, <1>12, <1>13, <1>14, <1>15, <1>16, <1>17, <1>18, <1>19,
       <1>20, <1>21 DEF IInv, Safe

(* Opening the runtime only adds results that are ready.                   *)
LEMMA OpenedFacts ==
  ASSUME TypeOK, NEW s \in Server
  PROVE  LET m == mem[s] IN
         MemoryIs(Opened(s), TRUE, m.final, m.steers, IF m.open THEN m.queue ELSE m.queue \cup ReadyResults,
                  m.leftover, m.taken, m.qtaken, m.folded, m.replay, m.frozen, m.stopping)
<1> DEFINE m == mem[s]
           n == [m EXCEPT !.open = TRUE, !.queue = @ \cup ReadyResults]
<1>1. m \in Memory /\ ReadyResults \subseteq Result
  BY DEF TypeOK, ReadyResults
<1>2. MemoryIs(m, m.open, m.final, m.steers, m.queue, m.leftover,
               m.taken, m.qtaken, m.folded, m.replay, m.frozen, m.stopping)
  BY <1>1 DEF MemoryIs
<1>3. MemoryIs(n, TRUE, m.final, m.steers, m.queue \cup ReadyResults,
               m.leftover, m.taken, m.qtaken, m.folded, m.replay, m.frozen, m.stopping)
  BY <1>1 DEF MemoryIs, Memory
<1>4. Opened(s) = IF m.open THEN m ELSE n
  BY <1>1 DEF Opened, Announced, Memory
<1> HIDE DEF m, n
<1> QED
  BY <1>2, <1>3, <1>4 DEF m, MemoryIs

(* Steps that only ask for the table or read it.                           *)
LEMMA QuietKeeps ==
  ASSUME IInv, NEW s \in Server,
         UNCHANGED <<record, ledger, chat, held, lease, worker, alive, mem, turn, answers, excused, dropped, overwritten>>,
         request' \in [Server -> RequestState], edit' \in [Server -> EditState],
         \A x \in Server : x # s => request'[x] = request[x] /\ edit'[x] = edit[x],
         edit'[s] = edit[s] \/ (edit[s].job # "interrupt" /\ edit'[s].job # "interrupt"),
         Edited', StartedIsCarried'
  PROVE  IInv'
<1>1. TypeOK'
  BY DEF IInv, TypeOK
<1>2. Entered' /\ Leased' /\ Living' /\ Single'
  BY DEF IInv, TypeOK, Entered, Placed, Leased, Living, Single
<1>3. Staged' /\ Counted' /\ Excusable'
  BY DEF IInv, Staged, Counted, Excusable
<1>4. RemovedIsRecorded' /\ ClaimMeansAnswered' /\ TurnOwnsItsResult' /\ AnsweredTwiceIsExcused'
  BY DEF IInv, Safe, RemovedIsRecorded, ClaimMeansAnswered, TurnOwnsItsResult, AnsweredTwiceIsExcused
<1>5. \A x \in Server : Carried(x)' = Carried(x)
  BY DEF Carried
<1>6. AnnouncedIsCarried'
  BY SMTT(40), <1>5 DEF IInv, TypeOK, Safe, AnnouncedIsCarried
<1> QED
  BY <1>1, <1>2, <1>3, <1>4, <1>6 DEF IInv, Safe

(* A read remembers what is in the table; what it is for was asked for or  *)
(* was in it.                                                              *)
LEMMA ReadKeeps ==
  ASSUME IInv, NEW s \in Server, s \in alive,
         NEW job \in {"steer", "start", "delete", "other"}, NEW of \in SUBSET Result,
         Read(s, job, of), of \subseteq held,
         job = "steer" => Running(s), job = "other" => of = {},
         job = "start" => of \subseteq Leaving(s),
         request' \in [Server -> RequestState], request'[s] = NoRequest,
         \A x \in Server : x # s => request'[x] = request[x],
         UNCHANGED <<record, ledger, chat, held, lease, worker, alive, mem, turn, answers,
                     excused, dropped, overwritten>>
  PROVE  IInv'
<1> DEFINE e == [job |-> job, of |-> of, view |-> held]
<1>1. TypeOK
  BY DEF IInv
<1>2. e \in EditState /\ e.job = job /\ e.of = of /\ e.view = held
  BY <1>1 DEF EditState, TypeOK
<1>3. /\ edit[s] = NoEdit /\ edit' \in [Server -> EditState] /\ edit'[s] = e
      /\ \A x \in Server : x # s => edit'[x] = edit[x]
  BY <1>1, <1>2 DEF Read, TypeOK
<1> HIDE DEF e
<1>4. Edited'
  BY <1>1, <1>2, <1>3, Blanks DEF IInv, TypeOK, Edited, Unlocked, Running, Entered
<1>5. \A x \in Server : Carried(x)' = Carried(x)
  BY <1>2, <1>3, Blanks DEF Carried
<1>6. \A x \in Server : \A q \in Leaving(x)' : q \in Leaving(x)
  BY <1>2, <1>3, Blanks DEF Leaving
<1>7. StartedIsCarried'
  BY <1>5, <1>6 DEF IInv, StartedIsCarried
<1>8. edit[s].job # "interrupt" /\ edit'[s].job # "interrupt"
  BY <1>2, <1>3, Blanks
<1> QED
  BY <1>3, <1>4, <1>7, <1>8, QuietKeeps

(* A request for a held message begins and ends.                           *)
LEMMA FindKeeps ==
  ASSUME IInv, NEW s \in Server, NEW r \in Result, Find(s, r) PROVE IInv'
<1>1. TypeOK
  BY DEF IInv
<1>2. [at |-> "found", of |-> {r}] \in RequestState
  BY DEF RequestState
<1>3. /\ s \in alive /\ edit[s] = NoEdit /\ r \in held
      /\ request' \in [Server -> RequestState]
      /\ request'[s].at = "found" /\ request'[s].of = {r}
      /\ \A x \in Server : x # s => request'[x] = request[x]
  BY <1>1, <1>2 DEF Find, TypeOK
<1>4. UNCHANGED <<record, ledger, chat, held, lease, worker, alive, mem, turn, answers, excused,
                  dropped, overwritten, edit>>
  BY DEF Find, durable, history
<1>5. Edited'
  BY <1>1, <1>3, <1>4, Blanks DEF IInv, TypeOK, Edited, Unlocked, Running, Entered
<1>6. StartedIsCarried'
  BY <1>3, <1>4, Blanks DEF IInv, StartedIsCarried, Leaving, Carried
<1>7. edit' \in [Server -> EditState]
  BY <1>1, <1>4 DEF TypeOK
<1> QED
  BY <1>3, <1>4, <1>5, <1>6, <1>7, QuietKeeps

(* A request that ends leaves nothing behind.                              *)
LEMMA RefuseKeeps ==
  ASSUME IInv, NEW s \in Server, Refuse(s), request[s].at \in {"found", "started"},
         UNCHANGED <<record, ledger, chat, held, lease, worker, alive, mem, turn, answers,
                     excused, dropped, overwritten, edit>>
  PROVE  IInv'
<1>1. TypeOK
  BY DEF IInv
<1>2. /\ request' \in [Server -> RequestState] /\ request'[s] = NoRequest
      /\ \A x \in Server : x # s => request'[x] = request[x]
  BY <1>1, Blanks DEF Refuse, TypeOK
<1>3. Edited'
  BY <1>1, <1>2, Blanks DEF IInv, TypeOK, Edited, Unlocked, Running
<1>4. StartedIsCarried'
  BY <1>2, Blanks DEF IInv, StartedIsCarried, Leaving, Carried
<1>5. edit' \in [Server -> EditState]
  BY <1>1 DEF TypeOK
<1> QED
  BY <1>2, <1>3, <1>4, <1>5, QuietKeeps

(* Giving up is such an end.                                               *)
LEMMA GiveUpKeeps ==
  ASSUME IInv, NEW s \in Server, GiveUp(s) PROVE IInv'
<1>1. Refuse(s) /\ request[s].at \in {"found", "started"}
  BY DEF GiveUp
<1>2. UNCHANGED <<record, ledger, chat, held, lease, worker, alive, mem, turn, answers, excused,
                  dropped, overwritten, edit>>
  BY DEF GiveUp, durable, history
<1> QED
  BY <1>1, <1>2, RefuseKeeps

(* A held result is to be steered.                                         *)
LEMMA SteerHeldKeeps ==
  ASSUME IInv, NEW s \in Server, NEW r \in Result, SteerHeld(s, r) PROVE IInv'
<1>1. TypeOK
  BY DEF IInv
<1>2. UNCHANGED <<record, ledger, chat, held, lease, worker, alive, mem, turn, answers, excused,
                  dropped, overwritten>>
  BY DEF SteerHeld, durable, history
<1>3. /\ request' \in [Server -> RequestState] /\ request'[s] = NoRequest
      /\ \A x \in Server : x # s => request'[x] = request[x]
  BY <1>1, Blanks DEF SteerHeld, Refuse, TypeOK
<1>4. Running(s) /\ r \in held /\ Read(s, "steer", {r})
  BY DEF SteerHeld
<1>5. s \in alive
  BY <1>4 DEF IInv, Living, Running
<1> QED
  BY <1>2, <1>3, <1>4, <1>5, ReadKeeps

(* A message that got its turn is to be removed.                           *)
LEMMA RemoveStartedKeeps ==
  ASSUME IInv, NEW s \in Server, RemoveStarted(s) PROVE IInv'
<1>1. TypeOK
  BY DEF IInv
<1>2. UNCHANGED <<record, ledger, chat, held, lease, worker, alive, mem, turn, answers, excused,
                  dropped, overwritten>>
  BY DEF RemoveStarted, durable, history
<1>3. /\ request' \in [Server -> RequestState] /\ request'[s] = NoRequest
      /\ \A x \in Server : x # s => request'[x] = request[x]
      /\ request[s].at = "started" /\ request[s].of \in SUBSET Result /\ Refuse(s)
  BY <1>1, Blanks DEF RemoveStarted, Refuse, TypeOK, RequestState
<1>4. CASE request[s].of \subseteq held
  <2>1. Read(s, "start", request[s].of)
    BY <1>4 DEF RemoveStarted
  <2>2. s \in alive
    BY <1>3, Blanks DEF IInv, Edited
  <2>3. request[s].of \subseteq Leaving(s)
    BY <1>3 DEF Leaving
  <2> DEFINE of == request[s].of
  <2>4. of \in SUBSET Result /\ of \subseteq held /\ of \subseteq Leaving(s) /\ Read(s, "start", of)
    BY <1>3, <1>4, <2>1, <2>3
  <2> HIDE DEF of
  <2> QED
    BY <1>2, <1>3, <2>2, <2>4, ReadKeeps
<1>5. CASE ~(request[s].of \subseteq held)
  <2>1. UNCHANGED edit
    BY <1>5 DEF RemoveStarted
  <2> QED
    BY <1>2, <1>3, <2>1, RefuseKeeps
<1> QED
  BY <1>4, <1>5

(* An edit of something else.                                              *)
LEMMA EditOtherKeeps ==
  ASSUME IInv, NEW s \in Server, EditOther(s) PROVE IInv'
<1>1. request \in [Server -> RequestState]
  BY DEF IInv, TypeOK
<1>2. UNCHANGED <<record, ledger, chat, held, lease, worker, alive, mem, turn, answers, excused,
                  dropped, overwritten, request>>
  BY DEF EditOther, durable, history
<1>3. s \in alive /\ request[s] = NoRequest /\ Read(s, "other", {})
  BY DEF EditOther
<1>4. {} \in SUBSET Result /\ {} \subseteq held
  OBVIOUS
<1> QED
  BY <1>1, <1>2, <1>3, <1>4, ReadKeeps

(* What a replacement removes without meaning to is counted.               *)
LEMMA ReplaceFacts ==
  ASSUME TypeOK, Edited, NEW s \in Server, NEW rows \in SUBSET Result, Replace(s, rows)
  PROVE  /\ held' = rows
         /\ edit' \in [Server -> EditState] /\ edit'[s] = NoEdit
         /\ \A x \in Server : x # s => edit'[x] = edit[x]
         /\ overwritten' \subseteq Result
         /\ \A q \in overwritten : q \in overwritten'
         /\ \A q \in held : q \in rows \/ q \in edit[s].view \/ q \in overwritten'
         /\ \A x \in Server : \A q \in Leaving(x) :
              q \in rows => q \in edit[s].view \/ q \in overwritten'
<1>1. held' = rows /\ edit' = [edit EXCEPT ![s] = NoEdit]
  BY DEF Replace
<1>2. overwritten' = overwritten \cup ((held \ edit[s].view) \ rows)
                        \cup ((rows \ edit[s].view) \cap UNION {Leaving(x) : x \in Server})
  BY DEF Replace
<1>3. edit' \in [Server -> EditState] /\ edit'[s] = NoEdit
      /\ \A x \in Server : x # s => edit'[x] = edit[x]
  BY <1>1, Blanks DEF TypeOK
<1>4. overwritten' \subseteq Result
  BY <1>2 DEF TypeOK
<1>5. \A x \in Server : \A q \in Leaving(x) : q \in rows => q \in edit[s].view \/ q \in overwritten'
  BY <1>2
<1> QED
  BY <1>1, <1>2, <1>3, <1>4, <1>5

(* A gate that fails puts the entry back, drops it or refuses the request. *)
LEMMA GateFailsKeeps ==
  ASSUME IInv, NEW s \in Server, NEW r \in Result, GateFails(s, r) PROVE IInv'
<1>1. CASE r \in mem[s].taken /\ UNCHANGED <<dropped, request>>
         /\ mem' = [mem EXCEPT ![s] = [Opened(s) EXCEPT !.taken = {}, !.queue = @ \cup {r}]]
  <2> DEFINE m == mem[s]
             Q == IF m.open THEN m.queue ELSE m.queue \cup ReadyResults
             n == [Opened(s) EXCEPT !.taken = {}, !.queue = @ \cup {r}]
  <2>1. TypeOK
    BY DEF IInv
  <2>2. /\ r \in m.taken
        /\ mem' = [mem EXCEPT ![s] = n]
        /\ UNCHANGED <<record, ledger, chat, held, lease, worker, alive, turn, answers, excused,
                       dropped, request, edit, overwritten>>
    BY <1>1, <2>1 DEF GateFails, TypeOK, Memory, TurnState, durable, history, editing
  <2>3. m \in Memory
    BY <2>1 DEF TypeOK
  <2>4. MemoryIs(n, TRUE, m.final, m.steers, Q \cup {r}, m.leftover,
                 {}, m.qtaken, m.folded, m.replay, m.frozen, m.stopping)
    BY <2>1, <2>3, OpenedFacts DEF MemoryIs, Memory
  <2>5. mem' \in [Server -> Memory]
    BY <2>1, <2>2, <2>4 DEF TypeOK, MemoryIs
  <2>6. \A x \in Server : mem'[x] = IF x = s THEN n ELSE mem[x]
    BY <2>1, <2>2 DEF TypeOK
  <2> HIDE DEF n
  <2>7. Q \subseteq Result /\ \A q \in Q : q \in m.queue \/ ledger[q] = "ready"
    BY <2>1, <2>3 DEF Memory, ReadyResults
  <2>8. \A q \in m.queue : q \in Q
    BY <2>3
  <2> HIDE DEF Q
  <2>9. TypeOK'
    BY <2>1, <2>2, <2>3, <2>4, <2>5, <2>6, <2>7, <2>8 DEF TypeOK, Consumer, Stage, Memory
  <2>10. Entered'
    <3>1. Entered
      BY DEF IInv
    <3>2. \A x \in Server, q \in Result :
            Placed(mem'[x], turn'[x], q) => Placed(mem[x], turn[x], q) \/ ledger[q] = "ready"
      BY <2>2, <2>4, <2>6, <2>7 DEF Placed, MemoryIs
    <3>3. \A x \in Server : mem'[x].final = mem[x].final
      BY <2>4, <2>6 DEF MemoryIs
    <3> QED
      BY <2>2, <3>1, <3>2, <3>3 DEF Entered
  <2>11. Leased'
    BY <2>2 DEF IInv, Leased
  <2>12. Living'
    BY <2>1, <2>2, <2>3, <2>4, <2>6, <2>7, <2>8 DEF IInv, TypeOK, Living, MemoryIs
  <2>13. Single'
    BY <2>2, <2>3, <2>4, <2>6 DEF IInv, Single, MemoryIs
  <2>14. Staged'
    BY <2>2 DEF IInv, Staged
  <2>15. Counted'
    BY <2>2 DEF IInv, Counted
  <2>16. Excusable'
    BY <2>2 DEF IInv, Excusable, Staged
  <2>17. RemovedIsRecorded'
    BY <2>2 DEF IInv, Safe, RemovedIsRecorded, Entered
  <2>18. ClaimMeansAnswered'
    BY <2>2 DEF IInv, Safe, ClaimMeansAnswered, Counted
  <2>19. TurnOwnsItsResult'
    BY <2>2 DEF IInv, Safe, TurnOwnsItsResult, Leased
  <2>20. AnsweredTwiceIsExcused'
    BY <2>2 DEF IInv, Safe, AnsweredTwiceIsExcused, Excusable
  <2>21. AnnouncedIsCarried'
    BY SMTT(40), <2>1, <2>2, <2>3, <2>4, <2>6, <2>7, <2>8 DEF IInv, Safe, AnnouncedIsCarried, Carried,
         Staged, TypeOK, MemoryIs, Single
  <2>22. Edited'
    BY <2>1, <2>2, <2>3, <2>4, <2>6, <2>7, <2>8 DEF IInv, TypeOK, Edited, Unlocked, Running
  <2>23. StartedIsCarried'
    BY <2>1, <2>2, <2>3, <2>4, <2>6, <2>7, <2>8 DEF IInv, StartedIsCarried, Leaving, Carried,
         Staged, TypeOK, MemoryIs, Single
  <2> QED
    BY <2>9, <2>10, <2>11, <2>12, <2>13, <2>14, <2>15, <2>16, <2>17, <2>18, <2>19, <2>20, <2>21,
         <2>22, <2>23 DEF IInv, Safe
<1>2. CASE r \in mem[s].qtaken /\ dropped' = dropped \cup {r} /\ UNCHANGED request
         /\ mem' = [mem EXCEPT ![s] = [Opened(s) EXCEPT !.qtaken = {}]]
  <2> DEFINE m == mem[s]
             Q == IF m.open THEN m.queue ELSE m.queue \cup ReadyResults
             n == [Opened(s) EXCEPT !.qtaken = {}]
  <2>1. TypeOK
    BY DEF IInv
  <2>2. /\ r \in m.qtaken
        /\ mem' = [mem EXCEPT ![s] = n]
        /\ dropped' = dropped \cup {r}
        /\ UNCHANGED <<record, ledger, chat, held, lease, worker, alive, turn, answers, excused,
                       request, edit, overwritten>>
    BY <1>2, <2>1 DEF GateFails, TypeOK, Memory, TurnState, durable, history, editing
  <2>3. m \in Memory
    BY <2>1 DEF TypeOK
  <2>4. MemoryIs(n, TRUE, m.final, m.steers, Q, m.leftover, m.taken,
                 {}, m.folded, m.replay, m.frozen, m.stopping)
    BY <2>1, <2>3, OpenedFacts DEF MemoryIs, Memory
  <2>5. mem' \in [Server -> Memory]
    BY <2>1, <2>2, <2>4 DEF TypeOK, MemoryIs
  <2>6. \A x \in Server : mem'[x] = IF x = s THEN n ELSE mem[x]
    BY <2>1, <2>2 DEF TypeOK
  <2> HIDE DEF n
  <2>7. Q \subseteq Result /\ \A q \in Q : q \in m.queue \/ ledger[q] = "ready"
    BY <2>1, <2>3 DEF Memory, ReadyResults
  <2>8. \A q \in m.queue : q \in Q
    BY <2>3
  <2> HIDE DEF Q
  <2>9. TypeOK'
    BY <2>1, <2>2, <2>3, <2>4, <2>5, <2>6, <2>7, <2>8 DEF TypeOK, Consumer, Stage, Memory
  <2>10. Entered'
    BY <2>1, <2>2, <2>3, <2>4, <2>6, <2>7, <2>8 DEF IInv, TypeOK, Entered, Placed, MemoryIs, Memory
  <2>11. Leased'
    BY <2>2 DEF IInv, Leased
  <2>12. Living'
    BY <2>1, <2>2, <2>3, <2>4, <2>6, <2>7, <2>8 DEF IInv, TypeOK, Living, MemoryIs
  <2>13. Single'
    BY <2>2, <2>3, <2>4, <2>6 DEF IInv, Single, MemoryIs
  <2>14. Staged'
    BY <2>2 DEF IInv, Staged
  <2>15. Counted'
    BY <2>2 DEF IInv, Counted
  <2>16. Excusable'
    BY <2>2 DEF IInv, Excusable, Staged
  <2>17. RemovedIsRecorded'
    BY <2>2 DEF IInv, Safe, RemovedIsRecorded, Entered
  <2>18. ClaimMeansAnswered'
    BY <2>2 DEF IInv, Safe, ClaimMeansAnswered, Counted
  <2>19. TurnOwnsItsResult'
    BY <2>2 DEF IInv, Safe, TurnOwnsItsResult, Leased
  <2>20. AnsweredTwiceIsExcused'
    BY <2>2 DEF IInv, Safe, AnsweredTwiceIsExcused, Excusable
  <2>21. AnnouncedIsCarried'
    BY SMTT(40), <2>1, <2>2, <2>3, <2>4, <2>6, <2>7, <2>8 DEF IInv, Safe, AnnouncedIsCarried, Carried,
         Staged, TypeOK, MemoryIs, Single
  <2>22. Edited'
    BY <2>1, <2>2, <2>3, <2>4, <2>6, <2>7, <2>8 DEF IInv, TypeOK, Edited, Unlocked, Running
  <2>23. StartedIsCarried'
    BY <2>1, <2>2, <2>3, <2>4, <2>6, <2>7, <2>8 DEF IInv, StartedIsCarried, Leaving, Carried,
         Staged, TypeOK, MemoryIs, Single
  <2> QED
    BY <2>9, <2>10, <2>11, <2>12, <2>13, <2>14, <2>15, <2>16, <2>17, <2>18, <2>19, <2>20, <2>21,
         <2>22, <2>23 DEF IInv, Safe
<1>3. CASE request[s] = [at |-> "found", of |-> {r}] /\ Refuse(s)
         /\ mem' = [mem EXCEPT ![s] = Opened(s)] /\ UNCHANGED dropped
  <2> DEFINE m == mem[s]
             Q == IF m.open THEN m.queue ELSE m.queue \cup ReadyResults
             n == Opened(s)
  <2>1. TypeOK
    BY DEF IInv
  <2>2. /\ request' \in [Server -> RequestState] /\ request'[s] = NoRequest
        /\ \A x \in Server : x # s => request'[x] = request[x]
        /\ mem' = [mem EXCEPT ![s] = n]
        /\ UNCHANGED <<record, ledger, chat, held, lease, worker, alive, turn, answers, excused,
                       dropped, edit, overwritten>>
    BY <1>3, <2>1, Blanks DEF Refuse, GateFails, TypeOK, Memory, TurnState, durable, history, editing
  <2>3. m \in Memory
    BY <2>1 DEF TypeOK
  <2>4. MemoryIs(n, TRUE, m.final, m.steers, Q, m.leftover, m.taken,
                 m.qtaken, m.folded, m.replay, m.frozen, m.stopping)
    BY <2>1, <2>3, OpenedFacts DEF MemoryIs, Memory
  <2>5. mem' \in [Server -> Memory]
    BY <2>1, <2>2, <2>4 DEF TypeOK, MemoryIs
  <2>6. \A x \in Server : mem'[x] = IF x = s THEN n ELSE mem[x]
    BY <2>1, <2>2 DEF TypeOK
  <2> HIDE DEF n
  <2>7. Q \subseteq Result /\ \A q \in Q : q \in m.queue \/ ledger[q] = "ready"
    BY <2>1, <2>3 DEF Memory, ReadyResults
  <2>8. \A q \in m.queue : q \in Q
    BY <2>3
  <2> HIDE DEF Q
  <2>9. TypeOK'
    BY <2>1, <2>2, <2>3, <2>4, <2>5, <2>6, <2>7, <2>8 DEF TypeOK, Consumer, Stage, Memory
  <2>10. Entered'
    BY <2>1, <2>2, <2>4, <2>6, <2>7 DEF IInv, TypeOK, Entered, Placed, MemoryIs
  <2>11. Leased'
    BY <2>2 DEF IInv, Leased
  <2>12. Living'
    BY <2>1, <2>2, <2>3, <2>4, <2>6, <2>7, <2>8 DEF IInv, TypeOK, Living, MemoryIs
  <2>13. Single'
    BY <2>2, <2>3, <2>4, <2>6 DEF IInv, Single, MemoryIs
  <2>14. Staged'
    BY <2>2 DEF IInv, Staged
  <2>15. Counted'
    BY <2>2 DEF IInv, Counted
  <2>16. Excusable'
    BY <2>2 DEF IInv, Excusable, Staged
  <2>17. RemovedIsRecorded'
    BY <2>2 DEF IInv, Safe, RemovedIsRecorded, Entered
  <2>18. ClaimMeansAnswered'
    BY <2>2 DEF IInv, Safe, ClaimMeansAnswered, Counted
  <2>19. TurnOwnsItsResult'
    BY <2>2 DEF IInv, Safe, TurnOwnsItsResult, Leased
  <2>20. AnsweredTwiceIsExcused'
    BY <2>2 DEF IInv, Safe, AnsweredTwiceIsExcused, Excusable
  <2>21. AnnouncedIsCarried'
    BY SMTT(40), <2>1, <2>2, <2>3, <2>4, <2>6, <2>7, <2>8 DEF IInv, Safe, AnnouncedIsCarried, Carried,
         Staged, TypeOK, MemoryIs, Single
  <2>22. Edited'
    BY Blanks, <2>1, <2>2, <2>3, <2>4, <2>6, <2>7, <2>8 DEF IInv, TypeOK, Edited, Unlocked, Running
  <2>23. StartedIsCarried'
    BY Blanks, <2>1, <2>2, <2>3, <2>4, <2>6, <2>7, <2>8 DEF IInv, StartedIsCarried, Edited, Leaving, Carried,
         Staged, TypeOK, MemoryIs, Single
  <2> QED
    BY <2>9, <2>10, <2>11, <2>12, <2>13, <2>14, <2>15, <2>16, <2>17, <2>18, <2>19, <2>20, <2>21,
         <2>22, <2>23 DEF IInv, Safe
<1> QED
  BY <1>1, <1>2, <1>3 DEF GateFails

(* What was taken goes back to where it was.                               *)
LEMMA PutBackKeeps ==
  ASSUME IInv, NEW s \in Server, PutBack(s) PROVE IInv'
<1>1. CASE mem' = [mem EXCEPT ![s].queue = @ \cup mem[s].taken, ![s].taken = {}]
  <2> DEFINE m == mem[s]
             n == [m EXCEPT !.queue = @ \cup m.taken, !.taken = {}]
  <2>1. TypeOK
    BY DEF IInv
  <2>2. /\ mem' = [mem EXCEPT ![s] = n]
        /\ UNCHANGED <<record, ledger, chat, held, lease, worker, alive, turn, answers, excused,
                       dropped, request, edit, overwritten>>
    BY <1>1, <2>1 DEF PutBack, TypeOK, Memory, TurnState, durable, history, editing
  <2>3. m \in Memory
    BY <2>1 DEF TypeOK
  <2>4. MemoryIs(n, m.open, m.final, m.steers, m.queue \cup m.taken,
                 m.leftover, {}, m.qtaken, m.folded, m.replay, m.frozen, m.stopping)
    BY <2>1, <2>3 DEF MemoryIs, Memory
  <2>5. mem' \in [Server -> Memory]
    BY <2>1, <2>2, <2>4 DEF TypeOK, MemoryIs
  <2>6. \A x \in Server : mem'[x] = IF x = s THEN n ELSE mem[x]
    BY <2>1, <2>2 DEF TypeOK
  <2> HIDE DEF n
  <2>7. TypeOK'
    BY <2>1, <2>2, <2>3, <2>4, <2>5, <2>6 DEF TypeOK, Consumer, Stage, Memory
  <2>8. Entered'
    BY <2>1, <2>2, <2>3, <2>4, <2>6 DEF IInv, TypeOK, Entered, Placed, MemoryIs, Memory
  <2>9. Leased'
    BY <2>2 DEF IInv, Leased
  <2>10. Living'
    BY <2>1, <2>2, <2>3, <2>4, <2>6 DEF IInv, TypeOK, Living, MemoryIs
  <2>11. Single'
    BY <2>2, <2>3, <2>4, <2>6 DEF IInv, Single, MemoryIs
  <2>12. Staged'
    BY <2>2 DEF IInv, Staged
  <2>13. Counted'
    BY <2>2 DEF IInv, Counted
  <2>14. Excusable'
    BY <2>2 DEF IInv, Excusable, Staged
  <2>15. RemovedIsRecorded'
    BY <2>2 DEF IInv, Safe, RemovedIsRecorded, Entered
  <2>16. ClaimMeansAnswered'
    BY <2>2 DEF IInv, Safe, ClaimMeansAnswered, Counted
  <2>17. TurnOwnsItsResult'
    BY <2>2 DEF IInv, Safe, TurnOwnsItsResult, Leased
  <2>18. AnsweredTwiceIsExcused'
    BY <2>2 DEF IInv, Safe, AnsweredTwiceIsExcused, Excusable
  <2>19. AnnouncedIsCarried'
    <3>1. \A x \in Server : \A q \in Carried(x) : q \in Carried(x)'
      BY <2>1, <2>2, <2>3, <2>4, <2>6 DEF Carried, TypeOK, MemoryIs
    <3> QED
      BY <2>1, <2>2, <2>4, <2>6, <3>1 DEF IInv, Safe, AnnouncedIsCarried, TypeOK, MemoryIs
  <2>20. Edited'
    BY <2>1, <2>2, <2>3, <2>4, <2>6 DEF IInv, TypeOK, Edited, Unlocked, Running
  <2>21. StartedIsCarried'
    BY <2>1, <2>2, <2>3, <2>4, <2>6 DEF IInv, StartedIsCarried, Leaving, Carried, Staged, TypeOK,
         MemoryIs
  <2> QED
    BY <2>7, <2>8, <2>9, <2>10, <2>11, <2>12, <2>13, <2>14, <2>15, <2>16, <2>17, <2>18, <2>19,
         <2>20, <2>21 DEF IInv, Safe
<1>2. CASE mem' = [mem EXCEPT ![s].leftover = @ \cup mem[s].qtaken, ![s].qtaken = {}]
  <2> DEFINE m == mem[s]
             n == [m EXCEPT !.leftover = @ \cup m.qtaken, !.qtaken = {}]
  <2>1. TypeOK
    BY DEF IInv
  <2>2. /\ mem' = [mem EXCEPT ![s] = n]
        /\ UNCHANGED <<record, ledger, chat, held, lease, worker, alive, turn, answers, excused,
                       dropped, request, edit, overwritten>>
    BY <1>2, <2>1 DEF PutBack, TypeOK, Memory, TurnState, durable, history, editing
  <2>3. m \in Memory
    BY <2>1 DEF TypeOK
  <2>4. MemoryIs(n, m.open, m.final, m.steers, m.queue, m.leftover \cup m.qtaken,
                 m.taken, {}, m.folded, m.replay, m.frozen, m.stopping)
    BY <2>1, <2>3 DEF MemoryIs, Memory
  <2>5. mem' \in [Server -> Memory]
    BY <2>1, <2>2, <2>4 DEF TypeOK, MemoryIs
  <2>6. \A x \in Server : mem'[x] = IF x = s THEN n ELSE mem[x]
    BY <2>1, <2>2 DEF TypeOK
  <2> HIDE DEF n
  <2>7. TypeOK'
    BY <2>1, <2>2, <2>3, <2>4, <2>5, <2>6 DEF TypeOK, Consumer, Stage, Memory
  <2>8. Entered'
    BY <2>1, <2>2, <2>3, <2>4, <2>6 DEF IInv, TypeOK, Entered, Placed, MemoryIs, Memory
  <2>9. Leased'
    BY <2>2 DEF IInv, Leased
  <2>10. Living'
    BY <2>1, <2>2, <2>3, <2>4, <2>6 DEF IInv, TypeOK, Living, MemoryIs
  <2>11. Single'
    BY <2>2, <2>3, <2>4, <2>6 DEF IInv, Single, MemoryIs
  <2>12. Staged'
    BY <2>2 DEF IInv, Staged
  <2>13. Counted'
    BY <2>2 DEF IInv, Counted
  <2>14. Excusable'
    BY <2>2 DEF IInv, Excusable, Staged
  <2>15. RemovedIsRecorded'
    BY <2>2 DEF IInv, Safe, RemovedIsRecorded, Entered
  <2>16. ClaimMeansAnswered'
    BY <2>2 DEF IInv, Safe, ClaimMeansAnswered, Counted
  <2>17. TurnOwnsItsResult'
    BY <2>2 DEF IInv, Safe, TurnOwnsItsResult, Leased
  <2>18. AnsweredTwiceIsExcused'
    BY <2>2 DEF IInv, Safe, AnsweredTwiceIsExcused, Excusable
  <2>19. AnnouncedIsCarried'
    <3>1. \A x \in Server : \A q \in Carried(x) : q \in Carried(x)'
      BY <2>1, <2>2, <2>3, <2>4, <2>6 DEF Carried, TypeOK, MemoryIs
    <3> QED
      BY <2>1, <2>2, <2>4, <2>6, <3>1 DEF IInv, Safe, AnnouncedIsCarried, TypeOK, MemoryIs
  <2>20. Edited'
    BY <2>1, <2>2, <2>3, <2>4, <2>6 DEF IInv, TypeOK, Edited, Unlocked, Running
  <2>21. StartedIsCarried'
    BY <2>1, <2>2, <2>3, <2>4, <2>6 DEF IInv, StartedIsCarried, Leaving, Carried, Staged, TypeOK,
         MemoryIs
  <2> QED
    BY <2>7, <2>8, <2>9, <2>10, <2>11, <2>12, <2>13, <2>14, <2>15, <2>16, <2>17, <2>18, <2>19,
         <2>20, <2>21 DEF IInv, Safe
<1> QED
  BY <1>1, <1>2 DEF PutBack

(* A turn that is not started had no answer.                               *)
LEMMA AdmissionFailsKeeps ==
  ASSUME IInv, NEW s \in Server, AdmissionFails(s) PROVE IInv'
<1> DEFINE t == turn[s]
           u == NoTurn
<1>1. TypeOK
  BY DEF IInv
<1>2. /\ t.pc = "admitted"
      /\ turn' = [turn EXCEPT ![s] = u]
      /\ lease' = Nobody
      /\ request' \in [Server -> RequestState]
      /\ \A x \in Server : x # s => request'[x] = request[x]
      /\ \/ /\ request[s].at = "starting" /\ request'[s] = NoRequest
            /\ dropped' = dropped \cup (t.about \ held)
         \/ /\ request[s].at # "starting" /\ request'[s] = request[s]
            /\ dropped' = dropped \cup t.about
      /\ UNCHANGED <<record, ledger, chat, held, worker, alive, mem, answers, excused, edit,
                     overwritten>>
  BY <1>1, Blanks DEF AdmissionFails, TypeOK, Memory, TurnState, durable, history, editing, FailRequest,
       Refuse
<1>3. t \in TurnState
  BY <1>1 DEF TypeOK
<1>4. TurnIs(u, "idle", {}, {}, {}, FALSE)
  BY <1>1, <1>2, <1>3 DEF TurnIs, TurnState, NoTurn
<1>5. turn' \in [Server -> TurnState]
  BY <1>1, <1>2, <1>4 DEF TypeOK, TurnIs
<1>6. \A x \in Server : turn'[x] = IF x = s THEN u ELSE turn[x]
  BY <1>1, <1>2 DEF TypeOK
<1> HIDE DEF u
<1>7. TypeOK'
  BY <1>1, <1>2, <1>3, <1>4, <1>5, <1>6 DEF TypeOK, Consumer, Stage, TurnState
<1>8. Entered'
  BY <1>1, <1>2, <1>3, <1>4, <1>6 DEF IInv, TypeOK, Entered, Placed, TurnIs
<1>9. Leased'
  BY <1>2, <1>3, <1>4, <1>6 DEF IInv, Leased, TurnIs
<1>10. Living'
  BY <1>1, <1>2, <1>3, <1>4, <1>6 DEF IInv, TypeOK, Living, TurnIs
<1>11. Single'
  BY <1>2 DEF IInv, Single
<1>12. Staged'
  BY <1>2, <1>3, <1>4, <1>6 DEF IInv, Staged, TurnIs
<1>13. Counted'
  BY <1>1, <1>2, <1>3, <1>4, <1>6 DEF IInv, Counted, TypeOK, TurnIs
<1>14. Excusable'
  BY <1>1, <1>2, <1>3, <1>4, <1>6 DEF IInv, Excusable, Staged, TypeOK, TurnIs
<1>15. RemovedIsRecorded'
  BY <1>2 DEF IInv, Safe, RemovedIsRecorded, Entered
<1>16. ClaimMeansAnswered'
  BY <1>2 DEF IInv, Safe, ClaimMeansAnswered, Counted
<1>17. TurnOwnsItsResult'
  BY <1>1, <1>2, <1>3, <1>4, <1>6 DEF IInv, Safe, TurnOwnsItsResult, Leased, TypeOK, TurnIs
<1>18. AnsweredTwiceIsExcused'
  BY <1>2 DEF IInv, Safe, AnsweredTwiceIsExcused, Excusable
<1>19. AnnouncedIsCarried'
  BY SMTT(40), <1>1, <1>2, <1>3, <1>4, <1>6 DEF IInv, Safe, AnnouncedIsCarried, Carried, Staged, TypeOK,
       TurnIs
<1>20. Edited'
  BY <1>1, Blanks, <1>2, <1>3, <1>4, <1>6 DEF IInv, TypeOK, Edited, Unlocked, Running, TurnIs, Leased
<1>21. StartedIsCarried'
  BY <1>1, Blanks, <1>2, <1>3, <1>4, <1>6 DEF IInv, StartedIsCarried, Edited, Leaving, Carried, Staged, TypeOK,
       TurnIs
<1> QED
  BY <1>7, <1>8, <1>9, <1>10, <1>11, <1>12, <1>13, <1>14, <1>15, <1>16, <1>17, <1>18, <1>19,
       <1>20, <1>21 DEF IInv, Safe

(* So had one that is not launched.                                        *)
LEMMA AbortKeeps ==
  ASSUME IInv, NEW s \in Server, Abort(s) PROVE IInv'
<1> DEFINE t == turn[s]
           u == NoTurn
<1>1. TypeOK
  BY DEF IInv
<1>2. /\ t.pc = "started"
      /\ turn' = [turn EXCEPT ![s] = u]
      /\ lease' = Nobody
      /\ edit[s].job \notin {"interrupt", "steer"}
      /\ dropped' = dropped \cup t.ids
      /\ request' \in [Server -> RequestState]
      /\ \A x \in Server : x # s => request'[x] = request[x]
      /\ \/ request[s].at = "starting" /\ request'[s] = NoRequest
         \/ request[s].at # "starting" /\ request'[s] = request[s]
      /\ UNCHANGED <<record, ledger, chat, held, worker, alive, mem, answers, excused, edit,
                     overwritten>>
  BY <1>1, Blanks DEF Abort, TypeOK, Memory, TurnState, durable, history, editing, FailRequest,
       Refuse, Unlocked
<1>3. t \in TurnState
  BY <1>1 DEF TypeOK
<1>4. TurnIs(u, "idle", {}, {}, {}, FALSE)
  BY <1>1, <1>2, <1>3 DEF TurnIs, TurnState, NoTurn
<1>5. turn' \in [Server -> TurnState]
  BY <1>1, <1>2, <1>4 DEF TypeOK, TurnIs
<1>6. \A x \in Server : turn'[x] = IF x = s THEN u ELSE turn[x]
  BY <1>1, <1>2 DEF TypeOK
<1> HIDE DEF u
<1>7. TypeOK'
  BY <1>1, <1>2, <1>3, <1>4, <1>5, <1>6 DEF TypeOK, Consumer, Stage, TurnState
<1>8. Entered'
  BY <1>1, <1>2, <1>3, <1>4, <1>6 DEF IInv, TypeOK, Entered, Placed, TurnIs
<1>9. Leased'
  BY <1>2, <1>3, <1>4, <1>6 DEF IInv, Leased, TurnIs
<1>10. Living'
  BY <1>1, <1>2, <1>3, <1>4, <1>6 DEF IInv, TypeOK, Living, TurnIs
<1>11. Single'
  BY <1>2 DEF IInv, Single
<1>12. Staged'
  BY <1>2, <1>3, <1>4, <1>6 DEF IInv, Staged, TurnIs
<1>13. Counted'
  BY <1>1, <1>2, <1>3, <1>4, <1>6 DEF IInv, Counted, TypeOK, TurnIs
<1>14. Excusable'
  BY <1>1, <1>2, <1>3, <1>4, <1>6 DEF IInv, Excusable, Staged, TypeOK, TurnIs
<1>15. RemovedIsRecorded'
  BY <1>2 DEF IInv, Safe, RemovedIsRecorded, Entered
<1>16. ClaimMeansAnswered'
  BY <1>2 DEF IInv, Safe, ClaimMeansAnswered, Counted
<1>17. TurnOwnsItsResult'
  BY <1>1, <1>2, <1>3, <1>4, <1>6 DEF IInv, Safe, TurnOwnsItsResult, Leased, TypeOK, TurnIs
<1>18. AnsweredTwiceIsExcused'
  BY <1>2 DEF IInv, Safe, AnsweredTwiceIsExcused, Excusable
<1>19. AnnouncedIsCarried'
  BY SMTT(40), <1>1, <1>2, <1>3, <1>4, <1>6 DEF IInv, Safe, AnnouncedIsCarried, Carried, Staged, TypeOK,
       TurnIs
<1>20. Edited'
  BY <1>1, Blanks, <1>2, <1>3, <1>4, <1>6 DEF IInv, TypeOK, Edited, Unlocked, Running, TurnIs, Leased
<1>21. StartedIsCarried'
  BY <1>1, Blanks, <1>2, <1>3, <1>4, <1>6 DEF IInv, StartedIsCarried, Edited, Leaving, Carried, Staged, TypeOK,
       TurnIs
<1> QED
  BY <1>7, <1>8, <1>9, <1>10, <1>11, <1>12, <1>13, <1>14, <1>15, <1>16, <1>17, <1>18, <1>19,
       <1>20, <1>21 DEF IInv, Safe

(* Folded results join the turn, excused if they have an answer.           *)
LEMMA StartKeeps ==
  ASSUME IInv, NEW s \in Server, Start(s) PROVE IInv'
<1> DEFINE m == mem[s]
           t == turn[s]
           n == [m EXCEPT !.folded = {}, !.steers = {}]
           u == [t EXCEPT !.pc = "started", !.ids = t.about \cup m.folded]
<1>1. TypeOK
  BY DEF IInv
<1>2. /\ t.pc = "admitted"
      /\ mem' = [mem EXCEPT ![s] = n]
      /\ turn' = [turn EXCEPT ![s] = u]
      /\ chat' = [q \in Result |-> Opening(s, q)]
      /\ excused' = excused \cup {q \in m.folded : answers[q] > 0}
      /\ dropped' = dropped \cup m.steers
      /\ UNCHANGED <<record, ledger, held, lease, worker, alive, answers, request, edit,
                     overwritten>>
  BY <1>1 DEF Start, TypeOK, Memory, TurnState, durable, history, editing
<1>3. m \in Memory
  BY <1>1 DEF TypeOK
<1>4. MemoryIs(n, m.open, m.final, {}, m.queue, m.leftover, m.taken,
               m.qtaken, {}, m.replay, m.frozen, m.stopping)
  BY <1>1, <1>3 DEF MemoryIs, Memory
<1>5. mem' \in [Server -> Memory]
  BY <1>1, <1>2, <1>4 DEF TypeOK, MemoryIs
<1>6. \A x \in Server : mem'[x] = IF x = s THEN n ELSE mem[x]
  BY <1>1, <1>2 DEF TypeOK
<1>7. t \in TurnState
  BY <1>1 DEF TypeOK
<1>8. TurnIs(u, "started", t.about, t.about \cup m.folded, t.stamped, t.good)
  BY <1>1, <1>2, <1>3, <1>4, <1>6, <1>7 DEF TurnIs, TurnState, Memory
<1>9. turn' \in [Server -> TurnState]
  BY <1>1, <1>2, <1>8 DEF TypeOK, TurnIs
<1>10. \A x \in Server : turn'[x] = IF x = s THEN u ELSE turn[x]
  BY <1>1, <1>2 DEF TypeOK
<1> HIDE DEF n, u
<1>11. TypeOK'
  BY <1>1, <1>2, <1>3, <1>4, <1>5, <1>6, <1>7, <1>8, <1>9, <1>10 DEF TypeOK, Consumer, Stage,
       Memory, TurnState, Opening
<1>12. Entered'
  BY <1>1, <1>2, <1>3, <1>4, <1>6, <1>7, <1>8, <1>10 DEF IInv, TypeOK, Entered, Placed, MemoryIs,
       TurnIs, Memory
<1>13. Leased'
  BY <1>2, <1>7, <1>8, <1>10 DEF IInv, Leased, TurnIs
<1>14. Living'
  BY <1>1, <1>2, <1>3, <1>4, <1>6, <1>7, <1>8, <1>10 DEF IInv, TypeOK, Living, MemoryIs, TurnIs
<1>15. Single'
  BY <1>2, <1>3, <1>4, <1>6 DEF IInv, Single, MemoryIs
<1>16. Staged'
  BY <1>2, <1>7, <1>8, <1>10 DEF IInv, Staged, TurnIs
<1>17. Counted'
  BY <1>1, <1>2, <1>7, <1>8, <1>10 DEF IInv, Counted, TypeOK, TurnIs, Opening
<1>18. Excusable'
  BY <1>1, <1>2, <1>7, <1>8, <1>10 DEF IInv, Excusable, Staged, TypeOK, TurnIs
<1>19. RemovedIsRecorded'
  BY <1>2 DEF IInv, Safe, RemovedIsRecorded, Entered
<1>20. ClaimMeansAnswered'
  BY <1>2 DEF IInv, Safe, ClaimMeansAnswered, Counted
<1>21. TurnOwnsItsResult'
  BY <1>1, <1>2, <1>7, <1>8, <1>10 DEF IInv, Safe, TurnOwnsItsResult, Leased, TypeOK, TurnIs
<1>22. AnsweredTwiceIsExcused'
  BY <1>1, <1>2 DEF IInv, Safe, AnsweredTwiceIsExcused, Excusable, TypeOK
<1>23. AnnouncedIsCarried'
  BY SMTT(40), <1>1, <1>2, <1>3, <1>4, <1>6, <1>7, <1>8, <1>10 DEF IInv, Safe, AnnouncedIsCarried, Carried,
       Staged, TypeOK, MemoryIs, TurnIs, Living
<1>24. Edited'
  BY <1>1, <1>2, <1>3, <1>4, <1>6, <1>7, <1>8, <1>10 DEF IInv, TypeOK, Edited, Unlocked, Running,
       TurnIs
<1>25. StartedIsCarried'
  BY <1>1, <1>2, <1>3, <1>4, <1>6, <1>7, <1>8, <1>10 DEF IInv, StartedIsCarried, Leaving, Carried,
       Staged, TypeOK, MemoryIs, TurnIs, Living
<1> QED
  BY <1>11, <1>12, <1>13, <1>14, <1>15, <1>16, <1>17, <1>18, <1>19, <1>20, <1>21, <1>22, <1>23,
       <1>24, <1>25 DEF IInv, Safe

(* The request that wanted the turn has it.                                *)
LEMMA LaunchKeeps ==
  ASSUME IInv, NEW s \in Server, Launch(s) PROVE IInv'
<1> DEFINE t == turn[s]
           u == [t EXCEPT !.pc = "running"]
<1>1. TypeOK
  BY DEF IInv
<1>2. /\ t.pc = "started"
      /\ request' \in [Server -> RequestState]
      /\ \A x \in Server : x # s => request'[x] = request[x]
      /\ \/ /\ request[s].at = "starting" /\ request'[s].at = "started"
            /\ request'[s].of = request[s].of /\ request[s] # NoRequest
         \/ request[s].at # "starting" /\ request'[s] = request[s]
      /\ turn' = [turn EXCEPT ![s] = u]
      /\ UNCHANGED <<record, ledger, chat, held, lease, worker, alive, mem, answers, excused,
                     dropped, edit, overwritten>>
  <2> DEFINE a == [request[s] EXCEPT !.at = "started"]
  <2>1. request[s] \in RequestState
    BY <1>1 DEF TypeOK
  <2>2. a \in RequestState /\ a.at = "started" /\ a.of = request[s].of
    BY <2>1 DEF RequestState
  <2>3. \/ request[s].at = "starting" /\ request' = [request EXCEPT ![s] = a]
        \/ request[s].at # "starting" /\ request' = request
    BY DEF Launch, Answer
  <2> HIDE DEF a
  <2> QED
    BY <1>1, <2>2, <2>3, Blanks DEF Launch, TypeOK, durable, history
<1>3. t \in TurnState
  BY <1>1 DEF TypeOK
<1>4. TurnIs(u, "running", t.about, t.ids, t.stamped, t.good)
  BY <1>1, <1>2, <1>3 DEF TurnIs, TurnState
<1>5. turn' \in [Server -> TurnState]
  BY <1>1, <1>2, <1>4 DEF TypeOK, TurnIs
<1>6. \A x \in Server : turn'[x] = IF x = s THEN u ELSE turn[x]
  BY <1>1, <1>2 DEF TypeOK
<1> HIDE DEF u
<1>7. TypeOK'
  BY <1>1, <1>2, <1>3, <1>4, <1>5, <1>6 DEF TypeOK, Consumer, Stage, TurnState
<1>8. Entered'
  BY <1>1, <1>2, <1>3, <1>4, <1>6 DEF IInv, TypeOK, Entered, Placed, TurnIs
<1>9. Leased'
  BY <1>2, <1>3, <1>4, <1>6 DEF IInv, Leased, TurnIs
<1>10. Living'
  BY <1>1, <1>2, <1>3, <1>4, <1>6 DEF IInv, TypeOK, Living, TurnIs
<1>11. Single'
  BY <1>2 DEF IInv, Single
<1>12. Staged'
  BY <1>2, <1>3, <1>4, <1>6 DEF IInv, Staged, TurnIs
<1>13. Counted'
  BY <1>1, <1>2, <1>3, <1>4, <1>6 DEF IInv, Counted, TypeOK, TurnIs
<1>14. Excusable'
  BY <1>1, <1>2, <1>3, <1>4, <1>6 DEF IInv, Excusable, Staged, TypeOK, TurnIs
<1>15. RemovedIsRecorded'
  BY <1>2 DEF IInv, Safe, RemovedIsRecorded, Entered
<1>16. ClaimMeansAnswered'
  BY <1>2 DEF IInv, Safe, ClaimMeansAnswered, Counted
<1>17. TurnOwnsItsResult'
  BY <1>1, <1>2, <1>3, <1>4, <1>6 DEF IInv, Safe, TurnOwnsItsResult, Leased, TypeOK, TurnIs
<1>18. AnsweredTwiceIsExcused'
  BY <1>2 DEF IInv, Safe, AnsweredTwiceIsExcused, Excusable
<1>19. AnnouncedIsCarried'
  BY SMTT(40), <1>1, <1>2, <1>3, <1>4, <1>6 DEF IInv, Safe, AnnouncedIsCarried, Carried, Staged, TypeOK,
       TurnIs, Living
<1>20. Edited'
  BY <1>1, <1>2, <1>3, <1>4, <1>6 DEF IInv, TypeOK, Edited, Unlocked, Running, TurnIs, Living
<1>21. StartedIsCarried'
  BY <1>1, <1>2, <1>3, <1>4, <1>6 DEF IInv, StartedIsCarried, Leaving, Carried, Staged, TypeOK,
       TurnIs, Living
<1> QED
  BY <1>7, <1>8, <1>9, <1>10, <1>11, <1>12, <1>13, <1>14, <1>15, <1>16, <1>17, <1>18, <1>19,
       <1>20, <1>21 DEF IInv, Safe

(* So do the steers.                                                       *)
LEMMA TakeSteersKeeps ==
  ASSUME IInv, NEW s \in Server, TakeSteers(s) PROVE IInv'
<1> DEFINE m == mem[s]
           t == turn[s]
           n == [m EXCEPT !.steers = {}]
           u == [t EXCEPT !.ids = @ \cup m.steers, !.marks = @ \cup m.steers]
<1>1. TypeOK
  BY DEF IInv
<1>2. /\ t.pc = "running"
      /\ mem' = [mem EXCEPT ![s] = n]
      /\ turn' = [turn EXCEPT ![s] = u]
      /\ excused' = excused \cup {q \in m.steers : answers[q] > 0}
      /\ UNCHANGED <<record, ledger, chat, held, lease, worker, alive, answers, dropped, request,
                     edit, overwritten>>
  BY <1>1 DEF TakeSteers, TypeOK, Memory, TurnState, durable, history, editing
<1>3. m \in Memory
  BY <1>1 DEF TypeOK
<1>4. MemoryIs(n, m.open, m.final, {}, m.queue, m.leftover, m.taken,
               m.qtaken, m.folded, m.replay, m.frozen, m.stopping)
  BY <1>1, <1>3 DEF MemoryIs, Memory
<1>5. mem' \in [Server -> Memory]
  BY <1>1, <1>2, <1>4 DEF TypeOK, MemoryIs
<1>6. \A x \in Server : mem'[x] = IF x = s THEN n ELSE mem[x]
  BY <1>1, <1>2 DEF TypeOK
<1>7. t \in TurnState
  BY <1>1 DEF TypeOK
<1>8. TurnIs(u, t.pc, t.about, t.ids \cup m.steers, t.stamped, t.good)
  BY <1>1, <1>2, <1>3, <1>4, <1>6, <1>7 DEF TurnIs, TurnState, Memory
<1>9. turn' \in [Server -> TurnState]
  BY <1>1, <1>2, <1>8 DEF TypeOK, TurnIs
<1>10. \A x \in Server : turn'[x] = IF x = s THEN u ELSE turn[x]
  BY <1>1, <1>2 DEF TypeOK
<1> HIDE DEF n, u
<1>11. TypeOK'
  BY <1>1, <1>2, <1>3, <1>4, <1>5, <1>6, <1>7, <1>8, <1>9, <1>10 DEF TypeOK, Consumer, Stage,
       Memory, TurnState
<1>12. Entered'
  BY <1>1, <1>2, <1>3, <1>4, <1>6, <1>7, <1>8, <1>10 DEF IInv, TypeOK, Entered, Placed, MemoryIs,
       TurnIs, Memory
<1>13. Leased'
  BY <1>2, <1>7, <1>8, <1>10 DEF IInv, Leased, TurnIs
<1>14. Living'
  BY <1>1, <1>2, <1>3, <1>4, <1>6, <1>7, <1>8, <1>10 DEF IInv, TypeOK, Living, MemoryIs, TurnIs
<1>15. Single'
  BY <1>2, <1>3, <1>4, <1>6 DEF IInv, Single, MemoryIs
<1>16. Staged'
  BY <1>2, <1>7, <1>8, <1>10 DEF IInv, Staged, TurnIs
<1>17. Counted'
  BY <1>1, <1>2, <1>7, <1>8, <1>10 DEF IInv, Counted, TypeOK, TurnIs
<1>18. Excusable'
  BY <1>1, <1>2, <1>7, <1>8, <1>10 DEF IInv, Excusable, Staged, TypeOK, TurnIs
<1>19. RemovedIsRecorded'
  BY <1>2 DEF IInv, Safe, RemovedIsRecorded, Entered
<1>20. ClaimMeansAnswered'
  BY <1>2 DEF IInv, Safe, ClaimMeansAnswered, Counted
<1>21. TurnOwnsItsResult'
  BY <1>1, <1>2, <1>7, <1>8, <1>10 DEF IInv, Safe, TurnOwnsItsResult, Leased, TypeOK, TurnIs
<1>22. AnsweredTwiceIsExcused'
  BY <1>1, <1>2 DEF IInv, Safe, AnsweredTwiceIsExcused, Excusable, TypeOK
<1>23. AnnouncedIsCarried'
  BY SMTT(40), <1>1, <1>2, <1>3, <1>4, <1>6, <1>7, <1>8, <1>10 DEF IInv, Safe, AnnouncedIsCarried, Carried,
       Staged, TypeOK, MemoryIs, TurnIs
<1>24. Edited'
  BY <1>1, <1>2, <1>3, <1>4, <1>6, <1>7, <1>8, <1>10 DEF IInv, TypeOK, Edited, Unlocked, Running,
       TurnIs
<1>25. StartedIsCarried'
  BY <1>1, <1>2, <1>3, <1>4, <1>6, <1>7, <1>8, <1>10 DEF IInv, StartedIsCarried, Leaving, Carried,
       Staged, TypeOK, MemoryIs, TurnIs
<1> QED
  BY <1>11, <1>12, <1>13, <1>14, <1>15, <1>16, <1>17, <1>18, <1>19, <1>20, <1>21, <1>22, <1>23,
       <1>24, <1>25 DEF IInv, Safe

(* A replay announces what is ready.                                       *)
LEMMA ReplayKeeps ==
  ASSUME IInv, NEW s \in Server, Replay(s) PROVE IInv'
<1> DEFINE m == mem[s]
           n == Announced([m EXCEPT !.replay = FALSE], Running(s), ReadyResults)
<1>1. TypeOK
  BY DEF IInv
<1>2. /\ m.replay
      /\ mem' = [mem EXCEPT ![s] = n]
      /\ UNCHANGED <<record, ledger, chat, held, lease, worker, alive, turn, answers, excused,
                     dropped, request, edit, overwritten>>
  BY <1>1 DEF Replay, TypeOK, Memory, TurnState, durable, history, editing
<1>3. m \in Memory
  BY <1>1 DEF TypeOK
<1>4. MemoryIs(n, m.open, m.final, IF Running(s) THEN m.steers \cup ReadyResults ELSE m.steers,
               IF Running(s) THEN m.queue ELSE m.queue \cup ReadyResults, m.leftover, m.taken, m.qtaken, m.folded, FALSE, m.frozen, m.stopping)
  BY <1>1, <1>3 DEF MemoryIs, Memory, Announced, ReadyResults
<1>5. mem' \in [Server -> Memory]
  BY <1>1, <1>2, <1>4 DEF TypeOK, MemoryIs
<1>6. \A x \in Server : mem'[x] = IF x = s THEN n ELSE mem[x]
  BY <1>1, <1>2 DEF TypeOK
<1> HIDE DEF n
<1>7. TypeOK'
  BY <1>1, <1>2, <1>3, <1>4, <1>5, <1>6 DEF TypeOK, Consumer, Stage, Memory
<1>8. Entered'
  BY <1>1, <1>2, <1>3, <1>4, <1>6 DEF IInv, TypeOK, Entered, Placed, MemoryIs, Memory, ReadyResults
<1>9. Leased'
  BY <1>2 DEF IInv, Leased
<1>10. Living'
  BY <1>1, <1>2, <1>3, <1>4, <1>6 DEF IInv, TypeOK, Living, MemoryIs
<1>11. Single'
  BY <1>2, <1>3, <1>4, <1>6 DEF IInv, Single, MemoryIs
<1>12. Staged'
  BY <1>2 DEF IInv, Staged
<1>13. Counted'
  BY <1>2 DEF IInv, Counted
<1>14. Excusable'
  BY <1>2 DEF IInv, Excusable, Staged
<1>15. RemovedIsRecorded'
  BY <1>2 DEF IInv, Safe, RemovedIsRecorded, Entered
<1>16. ClaimMeansAnswered'
  BY <1>2 DEF IInv, Safe, ClaimMeansAnswered, Counted
<1>17. TurnOwnsItsResult'
  BY <1>2 DEF IInv, Safe, TurnOwnsItsResult, Leased
<1>18. AnsweredTwiceIsExcused'
  BY <1>2 DEF IInv, Safe, AnsweredTwiceIsExcused, Excusable
<1>19. AnnouncedIsCarried'
  BY SMTT(40), <1>1, <1>2, <1>3, <1>4, <1>6 DEF IInv, Safe, AnnouncedIsCarried, Carried, Staged, TypeOK,
       MemoryIs, ReadyResults
<1>20. Edited'
  BY <1>1, <1>2, <1>3, <1>4, <1>6 DEF IInv, TypeOK, Edited, Unlocked, Running
<1>21. StartedIsCarried'
  BY <1>1, <1>2, <1>3, <1>4, <1>6 DEF IInv, StartedIsCarried, Leaving, Carried, Staged, TypeOK,
       MemoryIs, ReadyResults
<1> QED
  BY <1>7, <1>8, <1>9, <1>10, <1>11, <1>12, <1>13, <1>14, <1>15, <1>16, <1>17, <1>18, <1>19,
       <1>20, <1>21 DEF IInv, Safe

(* An interrupt has the queued turns in hand.                              *)
LEMMA InterruptTurnKeeps ==
  ASSUME IInv, NEW s \in Server, InterruptTurn(s) PROVE IInv'
<1> DEFINE m == mem[s]
           n == [m EXCEPT !.leftover = {}]
<1>1. TypeOK
  BY DEF IInv
<1>2. /\ Running(s)
      /\ mem' = [mem EXCEPT ![s] = n]
      /\ edit[s] = NoEdit /\ edit' \in [Server -> EditState]
      /\ edit'[s].job = "interrupt" /\ edit'[s].of = m.leftover /\ edit'[s].view = held
      /\ \A x \in Server : x # s => edit'[x] = edit[x]
      /\ UNCHANGED <<record, ledger, chat, held, lease, worker, alive, turn, answers, excused,
                     dropped, request, overwritten>>
  BY <1>1 DEF InterruptTurn, TypeOK, Memory, TurnState, durable, history, editing, Read, EditState
<1>3. m \in Memory
  BY <1>1 DEF TypeOK
<1>4. MemoryIs(n, m.open, m.final, m.steers, m.queue, {}, m.taken, m.qtaken,
               m.folded, m.replay, m.frozen, m.stopping)
  BY <1>1, <1>3 DEF MemoryIs, Memory
<1>5. mem' \in [Server -> Memory]
  BY <1>1, <1>2, <1>4 DEF TypeOK, MemoryIs
<1>6. \A x \in Server : mem'[x] = IF x = s THEN n ELSE mem[x]
  BY <1>1, <1>2 DEF TypeOK
<1> HIDE DEF n
<1>7. TypeOK'
  BY <1>1, <1>2, <1>3, <1>4, <1>5, <1>6 DEF TypeOK, Consumer, Stage, Memory
<1>8. Entered'
  BY <1>1, <1>2, <1>3, <1>4, <1>6 DEF IInv, TypeOK, Entered, Placed, MemoryIs, Memory
<1>9. Leased'
  BY <1>2 DEF IInv, Leased
<1>10. Living'
  BY <1>1, <1>2, <1>3, <1>4, <1>6 DEF IInv, TypeOK, Living, MemoryIs
<1>11. Single'
  BY <1>2, <1>3, <1>4, <1>6 DEF IInv, Single, MemoryIs
<1>12. Staged'
  BY <1>2 DEF IInv, Staged
<1>13. Counted'
  BY <1>2 DEF IInv, Counted
<1>14. Excusable'
  BY <1>2 DEF IInv, Excusable, Staged
<1>15. RemovedIsRecorded'
  BY <1>2 DEF IInv, Safe, RemovedIsRecorded, Entered
<1>16. ClaimMeansAnswered'
  BY <1>2 DEF IInv, Safe, ClaimMeansAnswered, Counted
<1>17. TurnOwnsItsResult'
  BY <1>2 DEF IInv, Safe, TurnOwnsItsResult, Leased
<1>18. AnsweredTwiceIsExcused'
  BY <1>2 DEF IInv, Safe, AnsweredTwiceIsExcused, Excusable
<1>19. AnnouncedIsCarried'
  BY SMTT(40), Blanks, <1>1, <1>2, <1>3, <1>4, <1>6 DEF IInv, Safe, AnnouncedIsCarried, Carried, Staged, TypeOK,
       MemoryIs
<1>20. Edited'
  BY Blanks, <1>1, <1>2, <1>3, <1>4, <1>6 DEF IInv, TypeOK, Edited, Unlocked, Running, Living, Entered, Placed
<1>21. StartedIsCarried'
  BY Blanks, <1>1, <1>2, <1>3, <1>4, <1>6 DEF IInv, StartedIsCarried, Leaving, Carried, Staged, TypeOK,
       MemoryIs
<1> QED
  BY <1>7, <1>8, <1>9, <1>10, <1>11, <1>12, <1>13, <1>14, <1>15, <1>16, <1>17, <1>18, <1>19,
       <1>20, <1>21 DEF IInv, Safe

(* What an interrupt holds is in the table, or lost there.                 *)
LEMMA HoldKeeps ==
  ASSUME IInv, NEW s \in Server, Hold(s) PROVE IInv'
<1> DEFINE m == mem[s]
           v == edit[s].view
           o == edit[s].of
           rows == v \cup m.steers \cup o
           n == [m EXCEPT !.steers = {}, !.stopping = TRUE, !.frozen = TRUE]
<1>1. TypeOK
  BY DEF IInv
<1>2. m \in Memory /\ v \in SUBSET Result /\ o \in SUBSET Result /\ rows \in SUBSET Result
  BY <1>1 DEF TypeOK, EditState, Memory
<1>3. /\ edit[s].job = "interrupt" /\ (m.steers \cup o) \cap v = {}
      /\ Replace(s, rows) /\ mem' = [mem EXCEPT ![s] = n]
      /\ UNCHANGED <<record, ledger, chat, lease, worker, alive, turn, answers, excused, dropped,
                     request>>
  BY <1>1, <1>2 DEF Hold, history, TypeOK, Memory
<1>4. MemoryIs(n, m.open, m.final, {}, m.queue, m.leftover,
               m.taken, m.qtaken, m.folded, m.replay, TRUE, TRUE)
  BY <1>2 DEF MemoryIs, Memory
<1>5. mem' \in [Server -> Memory] /\ \A x \in Server : mem'[x] = IF x = s THEN n ELSE mem[x]
  BY <1>1, <1>3, <1>4 DEF TypeOK, MemoryIs
<1>6. Edited
  BY DEF IInv
<1>7. /\ held' = rows
      /\ edit' \in [Server -> EditState] /\ edit'[s] = NoEdit
      /\ \A x \in Server : x # s => edit'[x] = edit[x]
      /\ overwritten' \subseteq Result
      /\ \A q \in overwritten : q \in overwritten'
      /\ \A q \in held : q \in rows \/ q \in v \/ q \in overwritten'
      /\ \A x \in Server : \A q \in Leaving(x) : q \in rows => q \in v \/ q \in overwritten'
  BY <1>1, <1>2, <1>3, <1>6, ReplaceFacts
<1>8. \A x \in Server : \A q \in Leaving(x)' : q \in Leaving(x)
  BY <1>3, <1>7, Blanks DEF Leaving
<1>9. \A x \in Server : x # s => Carried(x)' = Carried(x)
  BY <1>3, <1>4, <1>5, <1>7 DEF Carried
<1>10. \A q \in Result : q \in Carried(s) => q \in Carried(s)' \/ q \in m.steers \/ q \in o
  BY <1>3, <1>4, <1>5, <1>7, Blanks DEF Carried, MemoryIs
<1>11. s \in alive
  BY <1>3, Blanks DEF IInv, Edited
<1> HIDE DEF n, rows
<1>12. TypeOK'
  BY <1>1, <1>2, <1>3, <1>4, <1>5, <1>7 DEF TypeOK, MemoryIs
<1>13. Entered'
  BY <1>1, <1>2, <1>3, <1>4, <1>5, <1>7 DEF IInv, TypeOK, Entered, Placed, Edited, MemoryIs, rows
<1>14. Leased' /\ Staged' /\ Counted' /\ Excusable'
  BY <1>3 DEF IInv, Leased, Staged, Counted, Excusable
<1>15. Living'
  BY <1>1, <1>3, <1>4, <1>5 DEF IInv, TypeOK, Living, MemoryIs
<1>16. Single'
  BY <1>3, <1>4, <1>5 DEF IInv, Single, MemoryIs
<1>17. RemovedIsRecorded' /\ ClaimMeansAnswered'
  BY <1>3 DEF IInv, Safe, RemovedIsRecorded, ClaimMeansAnswered
<1>18. TurnOwnsItsResult' /\ AnsweredTwiceIsExcused'
  BY <1>3 DEF IInv, Safe, TurnOwnsItsResult, AnsweredTwiceIsExcused
<1>19. AnnouncedIsCarried'
  BY SMTT(40), <1>1, <1>2, <1>3, <1>4, <1>5, <1>7, <1>9, <1>10, <1>11 DEF IInv, TypeOK, Safe,
       AnnouncedIsCarried, MemoryIs, rows
<1>20. Edited'
  BY <1>1, <1>2, <1>3, <1>7, Blanks DEF IInv, TypeOK, Edited, Unlocked, Running
<1>21. StartedIsCarried'
  BY <1>1, <1>2, <1>3, <1>7, <1>8, <1>9, <1>10 DEF IInv, TypeOK, StartedIsCarried, rows
<1> QED
  BY <1>12, <1>13, <1>14, <1>15, <1>16, <1>17, <1>18, <1>19, <1>20, <1>21 DEF IInv, Safe

(* A steered result is in the turn when it leaves the table.               *)
LEMMA SteerKeeps ==
  ASSUME IInv, NEW s \in Server, Steer(s) PROVE IInv'
<1> DEFINE m == mem[s]
           v == edit[s].view
           o == edit[s].of
           rows == v \ o
           n == [m EXCEPT !.steers = @ \cup o, !.leftover = @ \ o]
<1>1. TypeOK
  BY DEF IInv
<1>2. m \in Memory /\ v \in SUBSET Result /\ o \in SUBSET Result /\ rows \in SUBSET Result
  BY <1>1 DEF TypeOK, EditState, Memory
<1>3. /\ edit[s].job = "steer"
      /\ Replace(s, rows) /\ mem' = [mem EXCEPT ![s] = n]
      /\ UNCHANGED <<record, ledger, chat, lease, worker, alive, turn, answers, excused, dropped,
                     request>>
  BY <1>1, <1>2 DEF Steer, history, TypeOK, Memory
<1>4. MemoryIs(n, m.open, m.final, m.steers \cup o, m.queue, m.leftover \ o,
               m.taken, m.qtaken, m.folded, m.replay, m.frozen, m.stopping)
  BY <1>2 DEF MemoryIs, Memory
<1>5. mem' \in [Server -> Memory] /\ \A x \in Server : mem'[x] = IF x = s THEN n ELSE mem[x]
  BY <1>1, <1>3, <1>4 DEF TypeOK, MemoryIs
<1>6. Edited
  BY DEF IInv
<1>7. /\ held' = rows
      /\ edit' \in [Server -> EditState] /\ edit'[s] = NoEdit
      /\ \A x \in Server : x # s => edit'[x] = edit[x]
      /\ overwritten' \subseteq Result
      /\ \A q \in overwritten : q \in overwritten'
      /\ \A q \in held : q \in rows \/ q \in v \/ q \in overwritten'
      /\ \A x \in Server : \A q \in Leaving(x) : q \in rows => q \in v \/ q \in overwritten'
  BY <1>1, <1>2, <1>3, <1>6, ReplaceFacts
<1>8. \A x \in Server : \A q \in Leaving(x)' : q \in Leaving(x)
  BY <1>3, <1>7, Blanks DEF Leaving
<1>9. \A x \in Server : x # s => Carried(x)' = Carried(x)
  BY <1>3, <1>4, <1>5, <1>7 DEF Carried
<1>10. \A q \in Result : q \in Carried(s) => q \in Carried(s)'
  BY <1>3, <1>4, <1>5, <1>7, Blanks DEF Carried, MemoryIs
<1>11. s \in alive
  BY <1>3, Blanks DEF IInv, Edited
<1>12. \A q \in o : q \in Carried(s)'
  BY <1>2, <1>3, <1>4, <1>5 DEF Carried, MemoryIs
<1> HIDE DEF n, rows
<1>13. TypeOK'
  BY <1>1, <1>2, <1>3, <1>4, <1>5, <1>7 DEF TypeOK, MemoryIs
<1>14. Entered'
  BY <1>1, <1>2, <1>3, <1>4, <1>5, <1>7 DEF IInv, TypeOK, Entered, Placed, Edited, MemoryIs, rows
<1>15. Leased' /\ Staged' /\ Counted' /\ Excusable'
  BY <1>3 DEF IInv, Leased, Staged, Counted, Excusable
<1>16. Living'
  BY <1>1, <1>3, <1>4, <1>5 DEF IInv, TypeOK, Living, MemoryIs
<1>17. Single'
  BY <1>3, <1>4, <1>5 DEF IInv, Single, MemoryIs
<1>18. RemovedIsRecorded' /\ ClaimMeansAnswered'
  BY <1>3 DEF IInv, Safe, RemovedIsRecorded, ClaimMeansAnswered
<1>19. TurnOwnsItsResult' /\ AnsweredTwiceIsExcused'
  BY <1>3 DEF IInv, Safe, TurnOwnsItsResult, AnsweredTwiceIsExcused
<1>20. AnnouncedIsCarried'
  BY SMTT(40), <1>1, <1>2, <1>3, <1>4, <1>5, <1>7, <1>9, <1>10, <1>11, <1>12 DEF IInv, TypeOK, Safe,
       AnnouncedIsCarried, MemoryIs, rows
<1>21. Edited'
  BY <1>1, <1>2, <1>3, <1>7, Blanks DEF IInv, TypeOK, Edited, Unlocked, Running
<1>22. StartedIsCarried'
  BY <1>1, <1>2, <1>3, <1>7, <1>8, <1>9, <1>10, <1>12 DEF IInv, TypeOK, StartedIsCarried
<1> QED
  BY <1>13, <1>14, <1>15, <1>16, <1>17, <1>18, <1>19, <1>20, <1>21, <1>22 DEF IInv, Safe

(* What an edit removes is dropped, or was started.                        *)
LEMMA WriteBackKeeps ==
  ASSUME IInv, NEW s \in Server, WriteBack(s) PROVE IInv'
<1> DEFINE v == edit[s].view
           o == edit[s].of
           rows == v \ o
<1>1. TypeOK
  BY DEF IInv
<1>2. v \in SUBSET Result /\ o \in SUBSET Result /\ rows \in SUBSET Result
  BY <1>1 DEF TypeOK, EditState
<1>3. /\ edit[s].job \in {"start", "delete", "other"} /\ Replace(s, rows)
      /\ dropped' = dropped \cup (IF edit[s].job = "delete" THEN o ELSE {})
      /\ UNCHANGED <<record, ledger, chat, lease, worker, alive, mem, turn, answers, excused,
                     request>>
  BY DEF WriteBack
<1>4. Edited
  BY DEF IInv
<1>5. /\ held' = rows
      /\ edit' \in [Server -> EditState] /\ edit'[s] = NoEdit
      /\ \A x \in Server : x # s => edit'[x] = edit[x]
      /\ overwritten' \subseteq Result
      /\ \A q \in overwritten : q \in overwritten'
      /\ \A q \in held : q \in rows \/ q \in v \/ q \in overwritten'
      /\ \A x \in Server : \A q \in Leaving(x) : q \in rows => q \in v \/ q \in overwritten'
  BY <1>1, <1>2, <1>3, <1>4, ReplaceFacts
<1>6. \A x \in Server : \A q \in Leaving(x)' : q \in Leaving(x)
  BY <1>3, <1>5, Blanks DEF Leaving
<1>7. \A x \in Server : x # s => Carried(x)' = Carried(x)
  BY <1>3, <1>5 DEF Carried
<1>8. \A q \in Result : q \in Carried(s) => q \in Carried(s)'
  BY <1>3, <1>5, Blanks DEF Carried
<1>9. s \in alive
  BY <1>3, Blanks DEF IInv, Edited
<1>10. \A q \in o : ledger[q] = "ready" => q \in dropped' \cup overwritten \cup Carried(s)
  BY <1>2, <1>3 DEF IInv, Edited, StartedIsCarried, Leaving
<1> HIDE DEF rows
<1>11. TypeOK'
  BY <1>1, <1>2, <1>3, <1>5 DEF TypeOK
<1>12. Entered'
  BY <1>1, <1>2, <1>3, <1>5 DEF IInv, TypeOK, Entered, Placed, Edited, rows
<1>13. Leased' /\ Staged' /\ Counted' /\ Excusable'
  BY <1>3 DEF IInv, Leased, Staged, Counted, Excusable
<1>14. Living'
  BY <1>1, <1>3 DEF IInv, TypeOK, Living
<1>15. Single'
  BY <1>3 DEF IInv, Single
<1>16. RemovedIsRecorded' /\ ClaimMeansAnswered'
  BY <1>3 DEF IInv, Safe, RemovedIsRecorded, ClaimMeansAnswered
<1>17. TurnOwnsItsResult' /\ AnsweredTwiceIsExcused'
  BY <1>3 DEF IInv, Safe, TurnOwnsItsResult, AnsweredTwiceIsExcused
<1>18. AnnouncedIsCarried'
  BY SMTT(40), <1>1, <1>2, <1>3, <1>5, <1>7, <1>8, <1>9, <1>10 DEF IInv, TypeOK, Safe, AnnouncedIsCarried,
       rows
<1>19. Edited'
  BY <1>1, <1>2, <1>3, <1>5, Blanks DEF IInv, TypeOK, Edited, Unlocked, Running
<1>20. StartedIsCarried'
  BY <1>1, <1>2, <1>3, <1>5, <1>6, <1>7, <1>8, <1>10 DEF IInv, TypeOK, StartedIsCarried
<1> QED
  BY <1>11, <1>12, <1>13, <1>14, <1>15, <1>16, <1>17, <1>18, <1>19, <1>20 DEF IInv, Safe

(* An edit that fails leaves the table as it is.                           *)
LEMMA EditFailsKeeps ==
  ASSUME IInv, NEW s \in Server, EditFails(s) PROVE IInv'
<1> DEFINE m == mem[s]
           o == IF edit[s].job = "interrupt" THEN edit[s].of ELSE {}
           n == [m EXCEPT !.leftover = @ \cup o]
<1>1. TypeOK
  BY DEF IInv
<1>2. m \in Memory /\ o \in SUBSET Result
  BY <1>1 DEF TypeOK, EditState, Memory
<1>3. /\ mem' = [mem EXCEPT ![s] = n] /\ edit' = [edit EXCEPT ![s] = NoEdit]
      /\ UNCHANGED <<record, ledger, chat, held, lease, worker, alive, turn, answers, excused,
                     dropped, request, overwritten>>
  BY <1>1, <1>2 DEF EditFails, durable, history, TypeOK, Memory
<1>4. MemoryIs(n, m.open, m.final, m.steers, m.queue, m.leftover \cup o,
               m.taken, m.qtaken, m.folded, m.replay, m.frozen, m.stopping)
  BY <1>2 DEF MemoryIs, Memory
<1>5. mem' \in [Server -> Memory] /\ \A x \in Server : mem'[x] = IF x = s THEN n ELSE mem[x]
  BY <1>1, <1>3, <1>4 DEF TypeOK, MemoryIs
<1>6. /\ edit' \in [Server -> EditState] /\ edit'[s] = NoEdit
      /\ \A x \in Server : x # s => edit'[x] = edit[x]
  BY <1>1, <1>3, Blanks DEF TypeOK
<1>7. \A x \in Server : \A q \in Leaving(x)' : q \in Leaving(x)
  BY <1>3, <1>6, Blanks DEF Leaving
<1>8. \A x \in Server : x # s => Carried(x)' = Carried(x)
  BY <1>3, <1>4, <1>5, <1>6 DEF Carried
<1>9. \A q \in Result : q \in Carried(s) => q \in Carried(s)'
  BY <1>3, <1>4, <1>5, <1>6, Blanks DEF Carried, MemoryIs
<1>10. s \in alive
  BY <1>3, Blanks DEF IInv, Edited, EditFails
<1> HIDE DEF n, o
<1>11. TypeOK'
  BY <1>1, <1>2, <1>3, <1>4, <1>5, <1>6 DEF TypeOK, MemoryIs
<1>12. Entered'
  BY <1>1, <1>2, <1>3, <1>4, <1>5, <1>6 DEF IInv, TypeOK, Entered, Placed, Edited, MemoryIs, o
<1>13. Leased' /\ Staged' /\ Counted' /\ Excusable'
  BY <1>3 DEF IInv, Leased, Staged, Counted, Excusable
<1>14. Living'
  BY <1>1, <1>3, <1>4, <1>5 DEF IInv, TypeOK, Living, MemoryIs
<1>15. Single'
  BY <1>3, <1>4, <1>5 DEF IInv, Single, MemoryIs
<1>16. RemovedIsRecorded' /\ ClaimMeansAnswered'
  BY <1>3 DEF IInv, Safe, RemovedIsRecorded, ClaimMeansAnswered
<1>17. TurnOwnsItsResult' /\ AnsweredTwiceIsExcused'
  BY <1>3 DEF IInv, Safe, TurnOwnsItsResult, AnsweredTwiceIsExcused
<1>18. AnnouncedIsCarried'
  BY SMTT(40), <1>1, <1>2, <1>3, <1>4, <1>5, <1>6, <1>8, <1>9, <1>10 DEF IInv, TypeOK, Safe,
       AnnouncedIsCarried, MemoryIs
<1>19. Edited'
  BY <1>1, <1>2, <1>3, <1>6, Blanks DEF IInv, TypeOK, Edited, Unlocked, Running
<1>20. StartedIsCarried'
  BY <1>1, <1>2, <1>3, <1>6, <1>7, <1>8, <1>9 DEF IInv, TypeOK, StartedIsCarried
<1> QED
  BY <1>11, <1>12, <1>13, <1>14, <1>15, <1>16, <1>17, <1>18, <1>19, <1>20 DEF IInv, Safe

(* A freeze moves no result.                                               *)
LEMMA InterruptBetweenKeeps ==
  ASSUME IInv, NEW s \in Server, InterruptBetween(s) PROVE IInv'
<1> DEFINE m == mem[s]
           n == [m EXCEPT !.frozen = TRUE]
<1>1. TypeOK
  BY DEF IInv
<1>2. /\ mem' = [mem EXCEPT ![s] = n]
      /\ UNCHANGED <<record, ledger, chat, held, lease, worker, alive, turn, answers, excused,
                     dropped, request, edit, overwritten>>
  BY <1>1 DEF InterruptBetween, TypeOK, Memory, TurnState, durable, history, editing
<1>3. m \in Memory
  BY <1>1 DEF TypeOK
<1>4. MemoryIs(n, m.open, m.final, m.steers, m.queue, m.leftover,
               m.taken, m.qtaken, m.folded, m.replay, TRUE, m.stopping)
  BY <1>1, <1>3 DEF MemoryIs, Memory
<1>5. mem' \in [Server -> Memory]
  BY <1>1, <1>2, <1>4 DEF TypeOK, MemoryIs
<1>6. \A x \in Server : mem'[x] = IF x = s THEN n ELSE mem[x]
  BY <1>1, <1>2 DEF TypeOK
<1> HIDE DEF n
<1>7. TypeOK'
  BY <1>1, <1>2, <1>3, <1>4, <1>5, <1>6 DEF TypeOK, Consumer, Stage, Memory
<1>8. Entered'
  BY <1>1, <1>2, <1>3, <1>4, <1>6 DEF IInv, TypeOK, Entered, Placed, MemoryIs, Memory
<1>9. Leased'
  BY <1>2 DEF IInv, Leased
<1>10. Living'
  BY <1>1, <1>2, <1>3, <1>4, <1>6 DEF IInv, TypeOK, Living, MemoryIs
<1>11. Single'
  BY <1>2, <1>3, <1>4, <1>6 DEF IInv, Single, MemoryIs
<1>12. Staged'
  BY <1>2 DEF IInv, Staged
<1>13. Counted'
  BY <1>2 DEF IInv, Counted
<1>14. Excusable'
  BY <1>2 DEF IInv, Excusable, Staged
<1>15. RemovedIsRecorded'
  BY <1>2 DEF IInv, Safe, RemovedIsRecorded, Entered
<1>16. ClaimMeansAnswered'
  BY <1>2 DEF IInv, Safe, ClaimMeansAnswered, Counted
<1>17. TurnOwnsItsResult'
  BY <1>2 DEF IInv, Safe, TurnOwnsItsResult, Leased
<1>18. AnsweredTwiceIsExcused'
  BY <1>2 DEF IInv, Safe, AnsweredTwiceIsExcused, Excusable
<1>19. AnnouncedIsCarried'
  BY SMTT(40), <1>1, <1>2, <1>3, <1>4, <1>6 DEF IInv, Safe, AnnouncedIsCarried, Carried, Staged, TypeOK,
       MemoryIs
<1>20. Edited'
  BY <1>1, <1>2, <1>3, <1>4, <1>6 DEF IInv, TypeOK, Edited, Unlocked, Running
<1>21. StartedIsCarried'
  BY <1>1, <1>2, <1>3, <1>4, <1>6 DEF IInv, StartedIsCarried, Leaving, Carried, Staged, TypeOK,
       MemoryIs
<1> QED
  BY <1>7, <1>8, <1>9, <1>10, <1>11, <1>12, <1>13, <1>14, <1>15, <1>16, <1>17, <1>18, <1>19,
       <1>20, <1>21 DEF IInv, Safe

(* A server that boots has announced nothing.                              *)
LEMMA BootKeeps ==
  ASSUME IInv, NEW s \in Server, Boot(s) PROVE IInv'
<1>1. TypeOK
  BY DEF IInv
<1>2. /\ s \notin alive
      /\ alive' = alive \cup {s}
      /\ UNCHANGED <<record, ledger, chat, held, lease, worker, mem, turn, answers, excused,
                     dropped, request, edit, overwritten>>
  BY <1>1 DEF Boot, TypeOK, Memory, TurnState, durable, history, editing
<1>3. TypeOK'
  BY <1>1, <1>2 DEF TypeOK, Consumer, Stage
<1>4. Entered'
  BY <1>2 DEF IInv, Entered, Placed
<1>5. Leased'
  BY <1>2 DEF IInv, Leased
<1>6. Living'
  BY <1>1, <1>2 DEF IInv, TypeOK, Living
<1>7. Single'
  BY <1>2 DEF IInv, Single
<1>8. Staged'
  BY <1>2 DEF IInv, Staged
<1>9. Counted'
  BY <1>2 DEF IInv, Counted
<1>10. Excusable'
  BY <1>2 DEF IInv, Excusable, Staged
<1>11. RemovedIsRecorded'
  BY <1>2 DEF IInv, Safe, RemovedIsRecorded, Entered
<1>12. ClaimMeansAnswered'
  BY <1>2 DEF IInv, Safe, ClaimMeansAnswered, Counted
<1>13. TurnOwnsItsResult'
  BY <1>2 DEF IInv, Safe, TurnOwnsItsResult, Leased
<1>14. AnsweredTwiceIsExcused'
  BY <1>2 DEF IInv, Safe, AnsweredTwiceIsExcused, Excusable
<1>15. AnnouncedIsCarried'
  BY SMTT(40), <1>1, <1>2 DEF IInv, Safe, AnnouncedIsCarried, Carried, Staged, TypeOK, Living
<1>16. Edited'
  BY <1>1, <1>2 DEF IInv, TypeOK, Edited, Unlocked, Running
<1>17. StartedIsCarried'
  BY <1>1, <1>2 DEF IInv, StartedIsCarried, Leaving, Carried, Staged, TypeOK, Living
<1> QED
  BY <1>3, <1>4, <1>5, <1>6, <1>7, <1>8, <1>9, <1>10, <1>11, <1>12, <1>13, <1>14, <1>15, <1>16,
       <1>17 DEF IInv, Safe

(* A deletion is one of the ways to drop an entry.                         *)
LEMMA DeleteKeeps ==
  ASSUME IInv, NEW s \in Server, NEW r \in Result, Delete(s, r) PROVE IInv'
<1>1. CASE UNCHANGED edit /\ dropped' = dropped \cup {r} /\ mem' = [mem EXCEPT ![s].leftover = @ \ {r}]
  <2> DEFINE m == mem[s]
             n == [m EXCEPT !.leftover = @ \ {r}]
  <2>1. TypeOK
    BY DEF IInv
  <2>2. /\ mem' = [mem EXCEPT ![s] = n]
        /\ dropped' = dropped \cup {r}
        /\ UNCHANGED <<record, ledger, chat, held, lease, worker, alive, turn, answers, excused,
                       request, edit, overwritten>>
    BY <1>1, <2>1 DEF Delete, TypeOK, Memory, TurnState, durable, history, editing
  <2>3. m \in Memory
    BY <2>1 DEF TypeOK
  <2>4. MemoryIs(n, m.open, m.final, m.steers, m.queue, m.leftover \ {r},
                 m.taken, m.qtaken, m.folded, m.replay, m.frozen, m.stopping)
    BY <2>1, <2>3 DEF MemoryIs, Memory
  <2>5. mem' \in [Server -> Memory]
    BY <2>1, <2>2, <2>4 DEF TypeOK, MemoryIs
  <2>6. \A x \in Server : mem'[x] = IF x = s THEN n ELSE mem[x]
    BY <2>1, <2>2 DEF TypeOK
  <2> HIDE DEF n
  <2>7. TypeOK'
    BY <2>1, <2>2, <2>3, <2>4, <2>5, <2>6 DEF TypeOK, Consumer, Stage, Memory
  <2>8. Entered'
    BY <2>1, <2>2, <2>3, <2>4, <2>6 DEF IInv, TypeOK, Entered, Placed, MemoryIs, Memory
  <2>9. Leased'
    BY <2>2 DEF IInv, Leased
  <2>10. Living'
    BY <2>1, <2>2, <2>3, <2>4, <2>6 DEF IInv, TypeOK, Living, MemoryIs
  <2>11. Single'
    BY <2>2, <2>3, <2>4, <2>6 DEF IInv, Single, MemoryIs
  <2>12. Staged'
    BY <2>2 DEF IInv, Staged
  <2>13. Counted'
    BY <2>2 DEF IInv, Counted
  <2>14. Excusable'
    BY <2>2 DEF IInv, Excusable, Staged
  <2>15. RemovedIsRecorded'
    BY <2>2 DEF IInv, Safe, RemovedIsRecorded, Entered
  <2>16. ClaimMeansAnswered'
    BY <2>2 DEF IInv, Safe, ClaimMeansAnswered, Counted
  <2>17. TurnOwnsItsResult'
    BY <2>2 DEF IInv, Safe, TurnOwnsItsResult, Leased
  <2>18. AnsweredTwiceIsExcused'
    BY <2>2 DEF IInv, Safe, AnsweredTwiceIsExcused, Excusable
  <2>19. AnnouncedIsCarried'
    BY SMTT(40), <2>1, <2>2, <2>3, <2>4, <2>6 DEF IInv, Safe, AnnouncedIsCarried, Carried, Staged, TypeOK,
         MemoryIs
  <2>20. Edited'
    BY <2>1, <2>2, <2>3, <2>4, <2>6 DEF IInv, TypeOK, Edited, Unlocked, Running
  <2>21. StartedIsCarried'
    BY <2>1, <2>2, <2>3, <2>4, <2>6 DEF IInv, StartedIsCarried, Leaving, Carried, Staged, TypeOK,
         MemoryIs
  <2> QED
    BY <2>7, <2>8, <2>9, <2>10, <2>11, <2>12, <2>13, <2>14, <2>15, <2>16, <2>17, <2>18, <2>19,
         <2>20, <2>21 DEF IInv, Safe
<1>2. CASE UNCHANGED edit /\ dropped' = dropped \cup {r} /\ mem' = [mem EXCEPT ![s].steers = @ \ {r}]
  <2> DEFINE m == mem[s]
             n == [m EXCEPT !.steers = @ \ {r}]
  <2>1. TypeOK
    BY DEF IInv
  <2>2. /\ mem' = [mem EXCEPT ![s] = n]
        /\ dropped' = dropped \cup {r}
        /\ UNCHANGED <<record, ledger, chat, held, lease, worker, alive, turn, answers, excused,
                       request, edit, overwritten>>
    BY <1>2, <2>1 DEF Delete, TypeOK, Memory, TurnState, durable, history, editing
  <2>3. m \in Memory
    BY <2>1 DEF TypeOK
  <2>4. MemoryIs(n, m.open, m.final, m.steers \ {r}, m.queue,
                 m.leftover, m.taken, m.qtaken, m.folded, m.replay, m.frozen, m.stopping)
    BY <2>1, <2>3 DEF MemoryIs, Memory
  <2>5. mem' \in [Server -> Memory]
    BY <2>1, <2>2, <2>4 DEF TypeOK, MemoryIs
  <2>6. \A x \in Server : mem'[x] = IF x = s THEN n ELSE mem[x]
    BY <2>1, <2>2 DEF TypeOK
  <2> HIDE DEF n
  <2>7. TypeOK'
    BY <2>1, <2>2, <2>3, <2>4, <2>5, <2>6 DEF TypeOK, Consumer, Stage, Memory
  <2>8. Entered'
    BY <2>1, <2>2, <2>3, <2>4, <2>6 DEF IInv, TypeOK, Entered, Placed, MemoryIs, Memory
  <2>9. Leased'
    BY <2>2 DEF IInv, Leased
  <2>10. Living'
    BY <2>1, <2>2, <2>3, <2>4, <2>6 DEF IInv, TypeOK, Living, MemoryIs
  <2>11. Single'
    BY <2>2, <2>3, <2>4, <2>6 DEF IInv, Single, MemoryIs
  <2>12. Staged'
    BY <2>2 DEF IInv, Staged
  <2>13. Counted'
    BY <2>2 DEF IInv, Counted
  <2>14. Excusable'
    BY <2>2 DEF IInv, Excusable, Staged
  <2>15. RemovedIsRecorded'
    BY <2>2 DEF IInv, Safe, RemovedIsRecorded, Entered
  <2>16. ClaimMeansAnswered'
    BY <2>2 DEF IInv, Safe, ClaimMeansAnswered, Counted
  <2>17. TurnOwnsItsResult'
    BY <2>2 DEF IInv, Safe, TurnOwnsItsResult, Leased
  <2>18. AnsweredTwiceIsExcused'
    BY <2>2 DEF IInv, Safe, AnsweredTwiceIsExcused, Excusable
  <2>19. AnnouncedIsCarried'
    BY SMTT(40), <2>1, <2>2, <2>3, <2>4, <2>6 DEF IInv, Safe, AnnouncedIsCarried, Carried, Staged, TypeOK,
         MemoryIs
  <2>20. Edited'
    BY <2>1, <2>2, <2>3, <2>4, <2>6 DEF IInv, TypeOK, Edited, Unlocked, Running
  <2>21. StartedIsCarried'
    BY <2>1, <2>2, <2>3, <2>4, <2>6 DEF IInv, StartedIsCarried, Leaving, Carried, Staged, TypeOK,
         MemoryIs
  <2> QED
    BY <2>7, <2>8, <2>9, <2>10, <2>11, <2>12, <2>13, <2>14, <2>15, <2>16, <2>17, <2>18, <2>19,
         <2>20, <2>21 DEF IInv, Safe
<1>3. CASE r \in held /\ Read(s, "delete", {r}) /\ UNCHANGED <<mem, dropped>>
  <2>1. request[s] = NoRequest /\ s \in alive
    BY DEF Delete
  <2>2. UNCHANGED <<record, ledger, chat, held, lease, worker, alive, mem, turn, answers, excused,
                    dropped, request, overwritten>>
    BY <1>3 DEF Delete, durable
  <2>3. {r} \in SUBSET Result /\ {r} \subseteq held /\ Read(s, "delete", {r})
    BY <1>3
  <2>4. request' \in [Server -> RequestState]
    BY <2>2 DEF IInv, TypeOK
  <2> QED
    BY <2>1, <2>2, <2>3, <2>4, ReadKeeps
<1> QED
  BY <1>1, <1>2, <1>3 DEF Delete

(* The admissions: the lease was free, so no other turn is under way.      *)
LEMMA AdmitResultKeeps ==
  ASSUME IInv, NEW s \in Server, NEW r \in Result, AdmitResult(s, r) PROVE IInv'
<1>1. CASE Delivered(r)
  <2> DEFINE m == mem[s]
             Q == IF m.open THEN m.queue ELSE m.queue \cup ReadyResults
             n == [Opened(s) EXCEPT !.taken = {}]
  <2>1. TypeOK
    BY DEF IInv
  <2>2. /\ lease = Nobody
        /\ r \in m.taken
        /\ ledger[r] # "ready" \/ chat[r] = "answered"
        /\ mem' = [mem EXCEPT ![s] = n]
        /\ ledger' = [ledger EXCEPT ![r] = IF @ = "ready" THEN "auto_completion" ELSE @]
        /\ UNCHANGED <<record, chat, held, lease, worker, alive, turn, answers, excused, dropped,
                       request, edit, overwritten>>
    BY <1>1, <2>1 DEF AdmitResult, TypeOK, Memory, TurnState, durable, history, editing, Admission, Gate,
         Delivered
  <2>3. m \in Memory
    BY <2>1 DEF TypeOK
  <2>4. MemoryIs(n, TRUE, m.final, m.steers, Q, m.leftover, {},
                 m.qtaken, m.folded, m.replay, m.frozen, m.stopping)
    BY <2>1, <2>3, OpenedFacts DEF MemoryIs, Memory
  <2>5. mem' \in [Server -> Memory]
    BY <2>1, <2>2, <2>4 DEF TypeOK, MemoryIs
  <2>6. \A x \in Server : mem'[x] = IF x = s THEN n ELSE mem[x]
    BY <2>1, <2>2 DEF TypeOK
  <2> HIDE DEF n
  <2>7. Q \subseteq Result /\ \A q \in Q : q \in m.queue \/ ledger[q] = "ready"
    BY <2>1, <2>3 DEF Memory, ReadyResults
  <2>8. \A q \in m.queue : q \in Q
    BY <2>3
  <2>9. \A x \in Server : turn[x].pc = "idle" /\ turn[x].stamped = {} /\ turn[x].about = {} /\ turn[x].ids = {}
    BY <2>2, DeliveryAssumption DEF IInv, Leased, Staged
  <2> HIDE DEF Q
  <2>10. TypeOK'
    BY <2>1, <2>2, <2>3, <2>4, <2>5, <2>6, <2>7, <2>8, <2>9 DEF TypeOK, Consumer, Stage, Memory
  <2>11. Entered'
    BY <2>1, <2>2, <2>3, <2>4, <2>6, <2>7, <2>8, <2>9 DEF IInv, TypeOK, Entered, Placed, MemoryIs,
         Memory, Consumer
  <2>12. Leased'
    BY <2>2 DEF IInv, Leased
  <2>13. Living'
    BY <2>1, <2>2, <2>3, <2>4, <2>6, <2>7, <2>8, <2>9 DEF IInv, TypeOK, Living, MemoryIs
  <2>14. Single'
    BY <2>2, <2>3, <2>4, <2>6 DEF IInv, Single, MemoryIs
  <2>15. Staged'
    BY <2>2 DEF IInv, Staged
  <2>16. Counted'
    BY <2>2 DEF IInv, Counted
  <2>17. Excusable'
    BY <2>1, <2>2, <2>7, <2>8, <2>9 DEF IInv, Excusable, Staged, TypeOK
  <2>18. RemovedIsRecorded'
    BY <2>1, <2>2, <2>7, <2>8, <2>9 DEF IInv, Safe, RemovedIsRecorded, Entered, TypeOK
  <2>19. ClaimMeansAnswered'
    BY <2>1, <2>2, <2>7, <2>8, <2>9 DEF IInv, Safe, ClaimMeansAnswered, Counted, TypeOK
  <2>20. TurnOwnsItsResult'
    BY <2>1, <2>2, <2>7, <2>8, <2>9 DEF IInv, Safe, TurnOwnsItsResult, Leased, TypeOK
  <2>21. AnsweredTwiceIsExcused'
    BY <2>2 DEF IInv, Safe, AnsweredTwiceIsExcused, Excusable
  <2>22. AnnouncedIsCarried'
    BY SMTT(40), <2>1, <2>2, <2>3, <2>4, <2>6, <2>7, <2>8, <2>9 DEF IInv, Safe, AnnouncedIsCarried, Carried,
         Staged, TypeOK, MemoryIs, Single
  <2>23. Edited'
    BY <2>1, <2>2, <2>3, <2>4, <2>6, <2>7, <2>8, <2>9 DEF IInv, TypeOK, Edited, Unlocked, Running
  <2>24. StartedIsCarried'
    BY <2>1, <2>2, <2>3, <2>4, <2>6, <2>7, <2>8, <2>9 DEF IInv, StartedIsCarried, Leaving,
         Carried, Staged, TypeOK, MemoryIs, Single
  <2> QED
    BY <2>10, <2>11, <2>12, <2>13, <2>14, <2>15, <2>16, <2>17, <2>18, <2>19, <2>20, <2>21, <2>22,
         <2>23, <2>24 DEF IInv, Safe
<1>2. CASE ~Delivered(r)
  <2> DEFINE m == mem[s]
             t == turn[s]
             Q == IF m.open THEN m.queue ELSE m.queue \cup ReadyResults
             n == [Opened(s) EXCEPT !.taken = {}]
             u == Admitted({r})
  <2>1. TypeOK
    BY DEF IInv
  <2>2. /\ lease = Nobody
        /\ s \in alive
        /\ r \in m.taken
        /\ ledger[r] = "ready" /\ chat[r] # "answered"
        /\ mem' = [mem EXCEPT ![s] = n]
        /\ turn' = [turn EXCEPT ![s] = u]
        /\ lease' = s
        /\ UNCHANGED <<record, ledger, chat, held, worker, alive, answers, excused, dropped,
                       request, edit, overwritten>>
    BY <1>2, <2>1 DEF AdmitResult, TypeOK, Memory, TurnState, durable, history, editing, Admission, Gate,
         Delivered
  <2>3. m \in Memory
    BY <2>1 DEF TypeOK
  <2>4. MemoryIs(n, TRUE, m.final, m.steers, Q, m.leftover, {},
                 m.qtaken, m.folded, m.replay, m.frozen, m.stopping)
    BY <2>1, <2>3, OpenedFacts DEF MemoryIs, Memory
  <2>5. mem' \in [Server -> Memory]
    BY <2>1, <2>2, <2>4 DEF TypeOK, MemoryIs
  <2>6. \A x \in Server : mem'[x] = IF x = s THEN n ELSE mem[x]
    BY <2>1, <2>2 DEF TypeOK
  <2>7. t \in TurnState
    BY <2>1 DEF TypeOK
  <2>8. TurnIs(u, "admitted", {r}, {}, {}, FALSE)
    BY <2>1, <2>2, <2>3, <2>4, <2>6, <2>7 DEF TurnIs, TurnState, Memory, Admitted, NoTurn
  <2>9. turn' \in [Server -> TurnState]
    BY <2>1, <2>2, <2>8 DEF TypeOK, TurnIs
  <2>10. \A x \in Server : turn'[x] = IF x = s THEN u ELSE turn[x]
    BY <2>1, <2>2 DEF TypeOK
  <2> HIDE DEF n, u
  <2>11. Q \subseteq Result /\ \A q \in Q : q \in m.queue \/ ledger[q] = "ready"
    BY <2>1, <2>3 DEF Memory, ReadyResults
  <2>12. \A q \in m.queue : q \in Q
    BY <2>3
  <2>13. \A x \in Server : turn[x].pc = "idle" /\ turn[x].stamped = {} /\ turn[x].about = {} /\ turn[x].ids = {}
    BY <2>2, DeliveryAssumption DEF IInv, Leased, Staged
  <2>14. \A q \in Result : answers[q] > 0 /\ ledger[q] \in {"absent", "ready"} => q \in excused
    BY <2>13 DEF IInv, Excusable
  <2> HIDE DEF Q
  <2>15. TypeOK'
    BY <2>1, <2>2, <2>3, <2>4, <2>5, <2>6, <2>7, <2>8, <2>9, <2>10, <2>11, <2>12, <2>13, <2>14 DEF
         TypeOK, Consumer, Stage, Memory, TurnState
  <2>16. Entered'
    BY <2>1, <2>2, <2>3, <2>4, <2>6, <2>7, <2>8, <2>10, <2>11, <2>12, <2>13, <2>14 DEF IInv,
         TypeOK, Entered, Placed, MemoryIs, TurnIs, Memory
  <2>17. Leased'
    BY <2>2, <2>7, <2>8, <2>10, DeliveryAssumption DEF IInv, Leased, TurnIs
  <2>18. Living'
    BY <2>1, <2>2, <2>3, <2>4, <2>6, <2>7, <2>8, <2>10, <2>11, <2>12, <2>13, <2>14 DEF IInv,
         TypeOK, Living, MemoryIs, TurnIs
  <2>19. Single'
    BY <2>2, <2>3, <2>4, <2>6 DEF IInv, Single, MemoryIs
  <2>20. Staged'
    BY <2>2, <2>7, <2>8, <2>10 DEF IInv, Staged, TurnIs
  <2>21. Counted'
    BY <2>1, <2>2, <2>7, <2>8, <2>10, <2>11, <2>12, <2>13, <2>14 DEF IInv, Counted, TypeOK, TurnIs
  <2>22. Excusable'
    BY <2>1, <2>2, <2>7, <2>8, <2>10, <2>11, <2>12, <2>13, <2>14, DeliveryAssumption DEF IInv,
         Excusable, Staged, TypeOK, TurnIs, Leased
  <2>23. RemovedIsRecorded'
    BY <2>2 DEF IInv, Safe, RemovedIsRecorded, Entered
  <2>24. ClaimMeansAnswered'
    BY <2>2 DEF IInv, Safe, ClaimMeansAnswered, Counted
  <2>25. TurnOwnsItsResult'
    BY <2>1, <2>2, <2>7, <2>8, <2>10, <2>11, <2>12, <2>13, <2>14 DEF IInv, Safe,
         TurnOwnsItsResult, Leased, TypeOK, TurnIs
  <2>26. AnsweredTwiceIsExcused'
    BY <2>2 DEF IInv, Safe, AnsweredTwiceIsExcused, Excusable
  <2>27. AnnouncedIsCarried'
    BY SMTT(40), <2>1, <2>2, <2>3, <2>4, <2>6, <2>7, <2>8, <2>10, <2>11, <2>12, <2>13, <2>14 DEF IInv, Safe,
         AnnouncedIsCarried, Carried, Staged, TypeOK, MemoryIs, TurnIs, Single
  <2>28. Edited'
    BY <2>1, <2>2, <2>3, <2>4, <2>6, <2>7, <2>8, <2>10, <2>11, <2>12, <2>13, <2>14 DEF IInv,
         TypeOK, Edited, Unlocked, Running, TurnIs
  <2>29. StartedIsCarried'
    BY <2>1, <2>2, <2>3, <2>4, <2>6, <2>7, <2>8, <2>10, <2>11, <2>12, <2>13, <2>14 DEF IInv,
         StartedIsCarried, Leaving, Carried, Staged, TypeOK, MemoryIs, TurnIs, Single
  <2> QED
    BY <2>15, <2>16, <2>17, <2>18, <2>19, <2>20, <2>21, <2>22, <2>23, <2>24, <2>25, <2>26, <2>27,
         <2>28, <2>29 DEF IInv, Safe
<1> QED
  BY <1>1, <1>2 DEF AdmitResult

(* A result that the queue took with it is admitted, or found delivered.   *)
LEMMA AdmitLeftoverKeeps ==
  ASSUME IInv, NEW s \in Server, NEW r \in Result, AdmitLeftover(s, r) PROVE IInv'
<1>1. CASE Delivered(r)
  <2> DEFINE m == mem[s]
             Q == IF m.open THEN m.queue ELSE m.queue \cup ReadyResults
             n == [Opened(s) EXCEPT !.qtaken = {}]
  <2>1. TypeOK
    BY DEF IInv
  <2>2. /\ lease = Nobody
        /\ r \in m.qtaken
        /\ ledger[r] # "ready" \/ chat[r] = "answered"
        /\ mem' = [mem EXCEPT ![s] = n]
        /\ ledger' = [ledger EXCEPT ![r] = IF @ = "ready" THEN "auto_completion" ELSE @]
        /\ UNCHANGED <<record, chat, held, lease, worker, alive, turn, answers, excused, dropped,
                       request, edit, overwritten>>
    BY <1>1, <2>1 DEF AdmitLeftover, TypeOK, Memory, TurnState, durable, history, editing, Admission, Gate,
         Delivered
  <2>3. m \in Memory
    BY <2>1 DEF TypeOK
  <2>4. MemoryIs(n, TRUE, m.final, m.steers, Q, m.leftover, m.taken,
                 {}, m.folded, m.replay, m.frozen, m.stopping)
    BY <2>1, <2>3, OpenedFacts DEF MemoryIs, Memory
  <2>5. mem' \in [Server -> Memory]
    BY <2>1, <2>2, <2>4 DEF TypeOK, MemoryIs
  <2>6. \A x \in Server : mem'[x] = IF x = s THEN n ELSE mem[x]
    BY <2>1, <2>2 DEF TypeOK
  <2> HIDE DEF n
  <2>7. Q \subseteq Result /\ \A q \in Q : q \in m.queue \/ ledger[q] = "ready"
    BY <2>1, <2>3 DEF Memory, ReadyResults
  <2>8. \A q \in m.queue : q \in Q
    BY <2>3
  <2>9. \A x \in Server : turn[x].pc = "idle" /\ turn[x].stamped = {} /\ turn[x].about = {} /\ turn[x].ids = {}
    BY <2>2, DeliveryAssumption DEF IInv, Leased, Staged
  <2> HIDE DEF Q
  <2>10. TypeOK'
    BY <2>1, <2>2, <2>3, <2>4, <2>5, <2>6, <2>7, <2>8, <2>9 DEF TypeOK, Consumer, Stage, Memory
  <2>11. Entered'
    BY <2>1, <2>2, <2>3, <2>4, <2>6, <2>7, <2>8, <2>9 DEF IInv, TypeOK, Entered, Placed, MemoryIs,
         Memory, Consumer
  <2>12. Leased'
    BY <2>2 DEF IInv, Leased
  <2>13. Living'
    BY <2>1, <2>2, <2>3, <2>4, <2>6, <2>7, <2>8, <2>9 DEF IInv, TypeOK, Living, MemoryIs
  <2>14. Single'
    BY <2>2, <2>3, <2>4, <2>6 DEF IInv, Single, MemoryIs
  <2>15. Staged'
    BY <2>2 DEF IInv, Staged
  <2>16. Counted'
    BY <2>2 DEF IInv, Counted
  <2>17. Excusable'
    BY <2>1, <2>2, <2>7, <2>8, <2>9 DEF IInv, Excusable, Staged, TypeOK
  <2>18. RemovedIsRecorded'
    BY <2>1, <2>2, <2>7, <2>8, <2>9 DEF IInv, Safe, RemovedIsRecorded, Entered, TypeOK
  <2>19. ClaimMeansAnswered'
    BY <2>1, <2>2, <2>7, <2>8, <2>9 DEF IInv, Safe, ClaimMeansAnswered, Counted, TypeOK
  <2>20. TurnOwnsItsResult'
    BY <2>1, <2>2, <2>7, <2>8, <2>9 DEF IInv, Safe, TurnOwnsItsResult, Leased, TypeOK
  <2>21. AnsweredTwiceIsExcused'
    BY <2>2 DEF IInv, Safe, AnsweredTwiceIsExcused, Excusable
  <2>22. AnnouncedIsCarried'
    BY SMTT(40), <2>1, <2>2, <2>3, <2>4, <2>6, <2>7, <2>8, <2>9 DEF IInv, Safe, AnnouncedIsCarried, Carried,
         Staged, TypeOK, MemoryIs, Single
  <2>23. Edited'
    BY <2>1, <2>2, <2>3, <2>4, <2>6, <2>7, <2>8, <2>9 DEF IInv, TypeOK, Edited, Unlocked, Running
  <2>24. StartedIsCarried'
    BY <2>1, <2>2, <2>3, <2>4, <2>6, <2>7, <2>8, <2>9 DEF IInv, StartedIsCarried, Leaving,
         Carried, Staged, TypeOK, MemoryIs, Single
  <2> QED
    BY <2>10, <2>11, <2>12, <2>13, <2>14, <2>15, <2>16, <2>17, <2>18, <2>19, <2>20, <2>21, <2>22,
         <2>23, <2>24 DEF IInv, Safe
<1>2. CASE ~Delivered(r)
  <2> DEFINE m == mem[s]
             t == turn[s]
             Q == IF m.open THEN m.queue ELSE m.queue \cup ReadyResults
             n == [Opened(s) EXCEPT !.qtaken = {}]
             u == Admitted({r})
  <2>1. TypeOK
    BY DEF IInv
  <2>2. /\ lease = Nobody
        /\ s \in alive
        /\ r \in m.qtaken
        /\ ledger[r] = "ready" /\ chat[r] # "answered"
        /\ mem' = [mem EXCEPT ![s] = n]
        /\ turn' = [turn EXCEPT ![s] = u]
        /\ lease' = s
        /\ UNCHANGED <<record, ledger, chat, held, worker, alive, answers, excused, dropped,
                       request, edit, overwritten>>
    BY <1>2, <2>1 DEF AdmitLeftover, TypeOK, Memory, TurnState, durable, history, editing, Admission, Gate,
         Delivered
  <2>3. m \in Memory
    BY <2>1 DEF TypeOK
  <2>4. MemoryIs(n, TRUE, m.final, m.steers, Q, m.leftover, m.taken,
                 {}, m.folded, m.replay, m.frozen, m.stopping)
    BY <2>1, <2>3, OpenedFacts DEF MemoryIs, Memory
  <2>5. mem' \in [Server -> Memory]
    BY <2>1, <2>2, <2>4 DEF TypeOK, MemoryIs
  <2>6. \A x \in Server : mem'[x] = IF x = s THEN n ELSE mem[x]
    BY <2>1, <2>2 DEF TypeOK
  <2>7. t \in TurnState
    BY <2>1 DEF TypeOK
  <2>8. TurnIs(u, "admitted", {r}, {}, {}, FALSE)
    BY <2>1, <2>2, <2>3, <2>4, <2>6, <2>7 DEF TurnIs, TurnState, Memory, Admitted, NoTurn
  <2>9. turn' \in [Server -> TurnState]
    BY <2>1, <2>2, <2>8 DEF TypeOK, TurnIs
  <2>10. \A x \in Server : turn'[x] = IF x = s THEN u ELSE turn[x]
    BY <2>1, <2>2 DEF TypeOK
  <2> HIDE DEF n, u
  <2>11. Q \subseteq Result /\ \A q \in Q : q \in m.queue \/ ledger[q] = "ready"
    BY <2>1, <2>3 DEF Memory, ReadyResults
  <2>12. \A q \in m.queue : q \in Q
    BY <2>3
  <2>13. \A x \in Server : turn[x].pc = "idle" /\ turn[x].stamped = {} /\ turn[x].about = {} /\ turn[x].ids = {}
    BY <2>2, DeliveryAssumption DEF IInv, Leased, Staged
  <2>14. \A q \in Result : answers[q] > 0 /\ ledger[q] \in {"absent", "ready"} => q \in excused
    BY <2>13 DEF IInv, Excusable
  <2> HIDE DEF Q
  <2>15. TypeOK'
    BY <2>1, <2>2, <2>3, <2>4, <2>5, <2>6, <2>7, <2>8, <2>9, <2>10, <2>11, <2>12, <2>13, <2>14 DEF
         TypeOK, Consumer, Stage, Memory, TurnState
  <2>16. Entered'
    BY <2>1, <2>2, <2>3, <2>4, <2>6, <2>7, <2>8, <2>10, <2>11, <2>12, <2>13, <2>14 DEF IInv,
         TypeOK, Entered, Placed, MemoryIs, TurnIs, Memory
  <2>17. Leased'
    BY <2>2, <2>7, <2>8, <2>10, DeliveryAssumption DEF IInv, Leased, TurnIs
  <2>18. Living'
    BY <2>1, <2>2, <2>3, <2>4, <2>6, <2>7, <2>8, <2>10, <2>11, <2>12, <2>13, <2>14 DEF IInv,
         TypeOK, Living, MemoryIs, TurnIs
  <2>19. Single'
    BY <2>2, <2>3, <2>4, <2>6 DEF IInv, Single, MemoryIs
  <2>20. Staged'
    BY <2>2, <2>7, <2>8, <2>10 DEF IInv, Staged, TurnIs
  <2>21. Counted'
    BY <2>1, <2>2, <2>7, <2>8, <2>10, <2>11, <2>12, <2>13, <2>14 DEF IInv, Counted, TypeOK, TurnIs
  <2>22. Excusable'
    BY <2>1, <2>2, <2>7, <2>8, <2>10, <2>11, <2>12, <2>13, <2>14, DeliveryAssumption DEF IInv,
         Excusable, Staged, TypeOK, TurnIs, Leased
  <2>23. RemovedIsRecorded'
    BY <2>2 DEF IInv, Safe, RemovedIsRecorded, Entered
  <2>24. ClaimMeansAnswered'
    BY <2>2 DEF IInv, Safe, ClaimMeansAnswered, Counted
  <2>25. TurnOwnsItsResult'
    BY <2>1, <2>2, <2>7, <2>8, <2>10, <2>11, <2>12, <2>13, <2>14 DEF IInv, Safe,
         TurnOwnsItsResult, Leased, TypeOK, TurnIs
  <2>26. AnsweredTwiceIsExcused'
    BY <2>2 DEF IInv, Safe, AnsweredTwiceIsExcused, Excusable
  <2>27. AnnouncedIsCarried'
    BY SMTT(40), <2>1, <2>2, <2>3, <2>4, <2>6, <2>7, <2>8, <2>10, <2>11, <2>12, <2>13, <2>14 DEF IInv, Safe,
         AnnouncedIsCarried, Carried, Staged, TypeOK, MemoryIs, TurnIs, Single
  <2>28. Edited'
    BY <2>1, <2>2, <2>3, <2>4, <2>6, <2>7, <2>8, <2>10, <2>11, <2>12, <2>13, <2>14 DEF IInv,
         TypeOK, Edited, Unlocked, Running, TurnIs
  <2>29. StartedIsCarried'
    BY <2>1, <2>2, <2>3, <2>4, <2>6, <2>7, <2>8, <2>10, <2>11, <2>12, <2>13, <2>14 DEF IInv,
         StartedIsCarried, Leaving, Carried, Staged, TypeOK, MemoryIs, TurnIs, Single
  <2> QED
    BY <2>15, <2>16, <2>17, <2>18, <2>19, <2>20, <2>21, <2>22, <2>23, <2>24, <2>25, <2>26, <2>27,
         <2>28, <2>29 DEF IInv, Safe
<1> QED
  BY <1>1, <1>2 DEF AdmitLeftover

(* A held result that is steered is admitted, or found delivered.          *)
LEMMA AdmitHeldKeeps ==
  ASSUME IInv, NEW s \in Server, NEW r \in Result, AdmitHeld(s, r) PROVE IInv'
<1>1. CASE Delivered(r)
  <2> DEFINE m == mem[s]
             Q == IF m.open THEN m.queue ELSE m.queue \cup ReadyResults
             n == Opened(s)
  <2>1. TypeOK
    BY DEF IInv
  <2>2. /\ lease = Nobody
        /\ request[s].at = "found" /\ request[s].of = {r} /\ request[s] # NoRequest
        /\ request' \in [Server -> RequestState]
        /\ \A x \in Server : x # s => request'[x] = request[x]
        /\ request'[s].at = "started" /\ request'[s].of = {r}
        /\ ledger[r] # "ready" \/ chat[r] = "answered"
        /\ mem' = [mem EXCEPT ![s] = n]
        /\ ledger' = [ledger EXCEPT ![r] = IF @ = "ready" THEN "auto_completion" ELSE @]
        /\ s \in alive
        /\ UNCHANGED <<record, chat, held, lease, worker, alive, turn, answers, excused, dropped,
                       edit, overwritten>>
    BY SMTT(40), <1>1, <2>1, Blanks DEF AdmitHeld, TypeOK, Memory, TurnState, durable, history, editing, Admission,
         Gate, Delivered, Answer, RequestState
  <2>3. m \in Memory
    BY <2>1 DEF TypeOK
  <2>4. MemoryIs(n, TRUE, m.final, m.steers, Q, m.leftover, m.taken,
                 m.qtaken, m.folded, m.replay, m.frozen, m.stopping)
    BY <2>1, <2>3, OpenedFacts DEF MemoryIs, Memory
  <2>5. mem' \in [Server -> Memory]
    BY <2>1, <2>2, <2>4 DEF TypeOK, MemoryIs
  <2>6. \A x \in Server : mem'[x] = IF x = s THEN n ELSE mem[x]
    BY <2>1, <2>2 DEF TypeOK
  <2> HIDE DEF n
  <2>7. Q \subseteq Result /\ \A q \in Q : q \in m.queue \/ ledger[q] = "ready"
    BY <2>1, <2>3 DEF Memory, ReadyResults
  <2>8. \A q \in m.queue : q \in Q
    BY <2>3
  <2>9. \A x \in Server : turn[x].pc = "idle" /\ turn[x].stamped = {} /\ turn[x].about = {} /\ turn[x].ids = {}
    BY <2>2, DeliveryAssumption DEF IInv, Leased, Staged
  <2> HIDE DEF Q
  <2>10. TypeOK'
    BY <2>1, <2>2, <2>3, <2>4, <2>5, <2>6, <2>7, <2>8, <2>9 DEF TypeOK, Consumer, Stage, Memory
  <2>11. Entered'
    BY <2>1, <2>2, <2>3, <2>4, <2>6, <2>7, <2>8, <2>9 DEF IInv, TypeOK, Entered, Placed, MemoryIs,
         Memory, Consumer
  <2>12. Leased'
    BY <2>2 DEF IInv, Leased
  <2>13. Living'
    BY <2>1, <2>2, <2>3, <2>4, <2>6, <2>7, <2>8, <2>9 DEF IInv, TypeOK, Living, MemoryIs
  <2>14. Single'
    BY <2>2, <2>3, <2>4, <2>6 DEF IInv, Single, MemoryIs
  <2>15. Staged'
    BY <2>2 DEF IInv, Staged
  <2>16. Counted'
    BY <2>2 DEF IInv, Counted
  <2>17. Excusable'
    BY <2>1, <2>2, <2>7, <2>8, <2>9 DEF IInv, Excusable, Staged, TypeOK
  <2>18. RemovedIsRecorded'
    BY <2>1, <2>2, <2>7, <2>8, <2>9 DEF IInv, Safe, RemovedIsRecorded, Entered, TypeOK
  <2>19. ClaimMeansAnswered'
    BY <2>1, <2>2, <2>7, <2>8, <2>9 DEF IInv, Safe, ClaimMeansAnswered, Counted, TypeOK
  <2>20. TurnOwnsItsResult'
    BY <2>1, <2>2, <2>7, <2>8, <2>9 DEF IInv, Safe, TurnOwnsItsResult, Leased, TypeOK
  <2>21. AnsweredTwiceIsExcused'
    BY <2>2 DEF IInv, Safe, AnsweredTwiceIsExcused, Excusable
  <2>22. AnnouncedIsCarried'
    BY SMTT(40), <2>1, <2>2, <2>3, <2>4, <2>6, <2>7, <2>8, <2>9 DEF IInv, Safe, AnnouncedIsCarried, Carried,
         Staged, TypeOK, MemoryIs, Single
  <2>23. Edited'
    BY <2>1, <2>2, <2>3, <2>4, <2>6, <2>7, <2>8, <2>9 DEF IInv, TypeOK, Edited, Unlocked, Running
  <2>24. StartedIsCarried'
    BY <2>1, <2>2, <2>3, <2>4, <2>6, <2>7, <2>8, <2>9 DEF IInv, StartedIsCarried, Leaving,
         Carried, Staged, TypeOK, MemoryIs, Single
  <2> QED
    BY <2>10, <2>11, <2>12, <2>13, <2>14, <2>15, <2>16, <2>17, <2>18, <2>19, <2>20, <2>21, <2>22,
         <2>23, <2>24 DEF IInv, Safe
<1>2. CASE ~Delivered(r)
  <2> DEFINE m == mem[s]
             t == turn[s]
             Q == IF m.open THEN m.queue ELSE m.queue \cup ReadyResults
             n == Opened(s)
             u == Admitted({r})
  <2>1. TypeOK
    BY DEF IInv
  <2>2. /\ lease = Nobody
        /\ s \in alive
        /\ request[s].at = "found" /\ request[s].of = {r} /\ request[s] # NoRequest
        /\ request' \in [Server -> RequestState]
        /\ \A x \in Server : x # s => request'[x] = request[x]
        /\ request'[s].at = "starting" /\ request'[s].of = {r}
        /\ ledger[r] = "ready" /\ chat[r] # "answered"
        /\ mem' = [mem EXCEPT ![s] = n]
        /\ turn' = [turn EXCEPT ![s] = u]
        /\ lease' = s
        /\ UNCHANGED <<record, ledger, chat, held, worker, alive, answers, excused, dropped, edit,
                       overwritten>>
    BY <1>2, <2>1, Blanks DEF AdmitHeld, TypeOK, Memory, TurnState, durable, history, editing, Admission,
         Gate, Delivered, Answer, RequestState
  <2>3. m \in Memory
    BY <2>1 DEF TypeOK
  <2>4. MemoryIs(n, TRUE, m.final, m.steers, Q, m.leftover, m.taken,
                 m.qtaken, m.folded, m.replay, m.frozen, m.stopping)
    BY <2>1, <2>3, OpenedFacts DEF MemoryIs, Memory
  <2>5. mem' \in [Server -> Memory]
    BY <2>1, <2>2, <2>4 DEF TypeOK, MemoryIs
  <2>6. \A x \in Server : mem'[x] = IF x = s THEN n ELSE mem[x]
    BY <2>1, <2>2 DEF TypeOK
  <2>7. t \in TurnState
    BY <2>1 DEF TypeOK
  <2>8. TurnIs(u, "admitted", {r}, {}, {}, FALSE)
    BY <2>1, <2>2, <2>3, <2>4, <2>6, <2>7 DEF TurnIs, TurnState, Memory, Admitted, NoTurn
  <2>9. turn' \in [Server -> TurnState]
    BY <2>1, <2>2, <2>8 DEF TypeOK, TurnIs
  <2>10. \A x \in Server : turn'[x] = IF x = s THEN u ELSE turn[x]
    BY <2>1, <2>2 DEF TypeOK
  <2> HIDE DEF n, u
  <2>11. Q \subseteq Result /\ \A q \in Q : q \in m.queue \/ ledger[q] = "ready"
    BY <2>1, <2>3 DEF Memory, ReadyResults
  <2>12. \A q \in m.queue : q \in Q
    BY <2>3
  <2>13. \A x \in Server : turn[x].pc = "idle" /\ turn[x].stamped = {} /\ turn[x].about = {} /\ turn[x].ids = {}
    BY <2>2, DeliveryAssumption DEF IInv, Leased, Staged
  <2>14. \A q \in Result : answers[q] > 0 /\ ledger[q] \in {"absent", "ready"} => q \in excused
    BY <2>13 DEF IInv, Excusable
  <2> HIDE DEF Q
  <2>15. TypeOK'
    BY <2>1, <2>2, <2>3, <2>4, <2>5, <2>6, <2>7, <2>8, <2>9, <2>10, <2>11, <2>12, <2>13, <2>14 DEF
         TypeOK, Consumer, Stage, Memory, TurnState
  <2>16. Entered'
    BY <2>1, <2>2, <2>3, <2>4, <2>6, <2>7, <2>8, <2>10, <2>11, <2>12, <2>13, <2>14 DEF IInv,
         TypeOK, Entered, Placed, MemoryIs, TurnIs, Memory
  <2>17. Leased'
    BY <2>2, <2>7, <2>8, <2>10, DeliveryAssumption DEF IInv, Leased, TurnIs
  <2>18. Living'
    BY <2>1, <2>2, <2>3, <2>4, <2>6, <2>7, <2>8, <2>10, <2>11, <2>12, <2>13, <2>14 DEF IInv,
         TypeOK, Living, MemoryIs, TurnIs
  <2>19. Single'
    BY <2>2, <2>3, <2>4, <2>6 DEF IInv, Single, MemoryIs
  <2>20. Staged'
    BY <2>2, <2>7, <2>8, <2>10 DEF IInv, Staged, TurnIs
  <2>21. Counted'
    BY <2>1, <2>2, <2>7, <2>8, <2>10, <2>11, <2>12, <2>13, <2>14 DEF IInv, Counted, TypeOK, TurnIs
  <2>22. Excusable'
    BY <2>1, <2>2, <2>7, <2>8, <2>10, <2>11, <2>12, <2>13, <2>14, DeliveryAssumption DEF IInv,
         Excusable, Staged, TypeOK, TurnIs, Leased
  <2>23. RemovedIsRecorded'
    BY <2>2 DEF IInv, Safe, RemovedIsRecorded, Entered
  <2>24. ClaimMeansAnswered'
    BY <2>2 DEF IInv, Safe, ClaimMeansAnswered, Counted
  <2>25. TurnOwnsItsResult'
    BY <2>1, <2>2, <2>7, <2>8, <2>10, <2>11, <2>12, <2>13, <2>14 DEF IInv, Safe,
         TurnOwnsItsResult, Leased, TypeOK, TurnIs
  <2>26. AnsweredTwiceIsExcused'
    BY <2>2 DEF IInv, Safe, AnsweredTwiceIsExcused, Excusable
  <2>27. AnnouncedIsCarried'
    <3>1. \A x \in Server : \A q \in Carried(x) : q \in Carried(x)'
      BY <2>1, <2>2, <2>3, <2>4, <2>6, <2>8, <2>10, <2>12, <2>13 DEF Carried, TypeOK, MemoryIs, TurnIs
    <3> QED
      BY <2>1, <2>2, <2>4, <2>6, <3>1 DEF IInv, Safe, AnnouncedIsCarried, TypeOK, MemoryIs
  <2>28. Edited'
    BY <2>1, <2>2, <2>3, <2>4, <2>6, <2>7, <2>8, <2>10, <2>11, <2>12, <2>13, <2>14 DEF IInv,
         TypeOK, Edited, Unlocked, Running, TurnIs
  <2>29. StartedIsCarried'
    BY <2>1, <2>2, <2>3, <2>4, <2>6, <2>7, <2>8, <2>10, <2>11, <2>12, <2>13, <2>14 DEF IInv,
         StartedIsCarried, Leaving, Carried, Staged, TypeOK, MemoryIs, TurnIs, Single
  <2> QED
    BY <2>15, <2>16, <2>17, <2>18, <2>19, <2>20, <2>21, <2>22, <2>23, <2>24, <2>25, <2>26, <2>27,
         <2>28, <2>29 DEF IInv, Safe
<1> QED
  BY <1>1, <1>2 DEF AdmitHeld

(* A turn of the user folds the queue of a frozen tree; the snapshot       *)
(* claims only entries that nobody has claimed.                            *)
LEMMA AdmitUserKeeps ==
  ASSUME IInv, NEW s \in Server, AdmitUser(s) PROVE IInv'
<1>1. CASE ~mem[s].frozen
  <2> DEFINE m == mem[s]
             t == turn[s]
             Q == IF m.open THEN m.queue ELSE m.queue \cup ReadyResults
             n == Opened(s)
             u == Admitted({})
  <2>1. TypeOK
    BY DEF IInv
  <2>2. Opened(s).frozen = mem[s].frozen
    BY <2>1, OpenedFacts DEF MemoryIs
  <2>3. /\ lease = Nobody
        /\ s \in alive
        /\ mem' = [mem EXCEPT ![s] = n]
        /\ turn' = [turn EXCEPT ![s] = u]
        /\ lease' = s
        /\ UNCHANGED <<record, ledger, chat, held, worker, alive, answers, excused, dropped,
                       request, edit, overwritten>>
    BY <1>1, <2>1, <2>2 DEF AdmitUser, TypeOK, Memory, TurnState, durable, history, editing, Admission
  <2>4. m \in Memory
    BY <2>1 DEF TypeOK
  <2>5. MemoryIs(n, TRUE, m.final, m.steers, Q, m.leftover, m.taken,
                 m.qtaken, m.folded, m.replay, m.frozen, m.stopping)
    BY <2>1, <2>2, <2>4, OpenedFacts DEF MemoryIs, Memory
  <2>6. mem' \in [Server -> Memory]
    BY <2>1, <2>3, <2>5 DEF TypeOK, MemoryIs
  <2>7. \A x \in Server : mem'[x] = IF x = s THEN n ELSE mem[x]
    BY <2>1, <2>3 DEF TypeOK
  <2>8. t \in TurnState
    BY <2>1 DEF TypeOK
  <2>9. TurnIs(u, "admitted", {}, {}, {}, FALSE)
    BY <2>1, <2>2, <2>3, <2>4, <2>5, <2>7, <2>8 DEF TurnIs, TurnState, Memory, Admitted, NoTurn
  <2>10. turn' \in [Server -> TurnState]
    BY <2>1, <2>3, <2>9 DEF TypeOK, TurnIs
  <2>11. \A x \in Server : turn'[x] = IF x = s THEN u ELSE turn[x]
    BY <2>1, <2>3 DEF TypeOK
  <2> HIDE DEF n, u
  <2>12. Q \subseteq Result /\ \A q \in Q : q \in m.queue \/ ledger[q] = "ready"
    BY <2>1, <2>4 DEF Memory, ReadyResults
  <2>13. \A q \in m.queue : q \in Q
    BY <2>4
  <2>14. \A x \in Server : turn[x].pc = "idle" /\ turn[x].stamped = {} /\ turn[x].about = {} /\ turn[x].ids = {}
    BY <2>3, DeliveryAssumption DEF IInv, Leased, Staged
  <2> HIDE DEF Q
  <2>15. TypeOK'
    BY <2>1, <2>2, <2>3, <2>4, <2>5, <2>6, <2>7, <2>8, <2>9, <2>10, <2>11, <2>12, <2>13, <2>14 DEF
         TypeOK, Consumer, Stage, Memory, TurnState
  <2>16. Entered'
    BY <2>1, <2>2, <2>3, <2>4, <2>5, <2>7, <2>8, <2>9, <2>11, <2>12, <2>13, <2>14 DEF IInv,
         TypeOK, Entered, Placed, MemoryIs, TurnIs, Memory
  <2>17. Leased'
    BY <2>3, <2>8, <2>9, <2>11, DeliveryAssumption DEF IInv, Leased, TurnIs
  <2>18. Living'
    BY <2>1, <2>2, <2>3, <2>4, <2>5, <2>7, <2>8, <2>9, <2>11, <2>12, <2>13, <2>14 DEF IInv,
         TypeOK, Living, MemoryIs, TurnIs
  <2>19. Single'
    BY <2>3, <2>4, <2>5, <2>7 DEF IInv, Single, MemoryIs
  <2>20. Staged'
    BY <2>3, <2>8, <2>9, <2>11 DEF IInv, Staged, TurnIs
  <2>21. Counted'
    BY <2>1, <2>2, <2>3, <2>8, <2>9, <2>11, <2>12, <2>13, <2>14 DEF IInv, Counted, TypeOK, TurnIs
  <2>22. Excusable'
    BY <2>1, <2>2, <2>3, <2>8, <2>9, <2>11, <2>12, <2>13, <2>14 DEF IInv, Excusable, Staged,
         TypeOK, TurnIs
  <2>23. RemovedIsRecorded'
    BY <2>3 DEF IInv, Safe, RemovedIsRecorded, Entered
  <2>24. ClaimMeansAnswered'
    BY <2>3 DEF IInv, Safe, ClaimMeansAnswered, Counted
  <2>25. TurnOwnsItsResult'
    BY <2>1, <2>2, <2>3, <2>8, <2>9, <2>11, <2>12, <2>13, <2>14 DEF IInv, Safe, TurnOwnsItsResult,
         Leased, TypeOK, TurnIs
  <2>26. AnsweredTwiceIsExcused'
    BY <2>3 DEF IInv, Safe, AnsweredTwiceIsExcused, Excusable
  <2>27. AnnouncedIsCarried'
    BY SMTT(40), <2>1, <2>2, <2>3, <2>4, <2>5, <2>7, <2>8, <2>9, <2>11, <2>12, <2>13, <2>14 DEF IInv, Safe,
         AnnouncedIsCarried, Carried, Staged, TypeOK, MemoryIs, TurnIs
  <2>28. Edited'
    BY <2>1, <2>2, <2>3, <2>4, <2>5, <2>7, <2>8, <2>9, <2>11, <2>12, <2>13, <2>14 DEF IInv,
         TypeOK, Edited, Unlocked, Running, TurnIs
  <2>29. StartedIsCarried'
    BY <2>1, <2>2, <2>3, <2>4, <2>5, <2>7, <2>8, <2>9, <2>11, <2>12, <2>13, <2>14 DEF IInv,
         StartedIsCarried, Leaving, Carried, Staged, TypeOK, MemoryIs, TurnIs
  <2> QED
    BY <2>15, <2>16, <2>17, <2>18, <2>19, <2>20, <2>21, <2>22, <2>23, <2>24, <2>25, <2>26, <2>27,
         <2>28, <2>29 DEF IInv, Safe
<1>2. CASE mem[s].frozen
  <2>1. PICK claimed \in SUBSET {r \in Result : record[r] = "pending"} :
           /\ ledger' = Snapshotted(claimed)
           /\ record' = [r \in Result |-> IF r \in claimed THEN "removed" ELSE record[r]]
           /\ mem' = [mem EXCEPT ![s] = [Opened(s) EXCEPT !.frozen = FALSE, !.queue = {}, !.folded = Opened(s).queue]]
           /\ dropped' = dropped \cup Opened(s).folded
    BY <1>2, OpenedFacts DEF AdmitUser, IInv, MemoryIs
  <2> DEFINE m == mem[s]
             t == turn[s]
             Q == IF m.open THEN m.queue ELSE m.queue \cup ReadyResults
             n == [Opened(s) EXCEPT !.frozen = FALSE, !.queue = {}, !.folded = Opened(s).queue]
             u == Admitted({})
  <2>2. TypeOK
    BY DEF IInv
  <2>3. Opened(s).frozen = mem[s].frozen /\ Opened(s).folded = mem[s].folded
    BY <2>2, OpenedFacts DEF MemoryIs
  <2>4. /\ lease = Nobody
        /\ s \in alive
        /\ mem' = [mem EXCEPT ![s] = n]
        /\ turn' = [turn EXCEPT ![s] = u]
        /\ lease' = s
        /\ ledger' = Snapshotted(claimed)
        /\ record' = [r \in Result |-> IF r \in claimed THEN "removed" ELSE record[r]]
        /\ dropped' = dropped \cup m.folded
        /\ UNCHANGED <<chat, held, worker, alive, answers, excused, request, edit, overwritten>>
    BY <1>2, <2>1, <2>2, <2>3 DEF AdmitUser, TypeOK, Memory, TurnState, durable, history, editing, Admission
  <2>5. m \in Memory
    BY <2>2 DEF TypeOK
  <2>6. MemoryIs(n, TRUE, m.final, m.steers, {}, m.leftover, m.taken,
                 m.qtaken, Q, m.replay, FALSE, m.stopping)
    BY <2>2, <2>3, <2>5, OpenedFacts DEF MemoryIs, Memory
  <2>7. mem' \in [Server -> Memory]
    BY <2>2, <2>4, <2>6 DEF TypeOK, MemoryIs
  <2>8. \A x \in Server : mem'[x] = IF x = s THEN n ELSE mem[x]
    BY <2>2, <2>4 DEF TypeOK
  <2>9. t \in TurnState
    BY <2>2 DEF TypeOK
  <2>10. TurnIs(u, "admitted", {}, {}, {}, FALSE)
    BY <2>2, <2>3, <2>4, <2>5, <2>6, <2>8, <2>9 DEF TurnIs, TurnState, Memory, Admitted, NoTurn
  <2>11. turn' \in [Server -> TurnState]
    BY <2>2, <2>4, <2>10 DEF TypeOK, TurnIs
  <2>12. \A x \in Server : turn'[x] = IF x = s THEN u ELSE turn[x]
    BY <2>2, <2>4 DEF TypeOK
  <2> HIDE DEF n, u
  <2>13. Q \subseteq Result /\ \A q \in Q : q \in m.queue \/ ledger[q] = "ready"
    BY <2>2, <2>5 DEF Memory, ReadyResults
  <2>14. \A q \in m.queue : q \in Q
    BY <2>5
  <2>15. \A x \in Server : turn[x].pc = "idle" /\ turn[x].stamped = {} /\ turn[x].about = {} /\ turn[x].ids = {}
    BY <2>4, DeliveryAssumption DEF IInv, Leased, Staged
  <2>16. ledger' \in [Result -> {"absent", "ready"} \cup Consumer]
        /\ \A r \in Result : \/ ledger'[r] = ledger[r]
                             \/ r \in claimed /\ ledger[r] \in {"absent", "ready"} /\ ledger'[r] = "frozen_tree_snapshot"
    BY <2>2, <2>4 DEF Snapshotted, Consumer, TypeOK
  <2>17. \A r \in Result : r \in claimed => ledger'[r] # "absent"
    BY <2>2, <2>4 DEF Snapshotted, TypeOK, Consumer
  <2>18. \A x \in Server : x # s => Carried(x)' = Carried(x)
    BY <2>3, <2>4, <2>5, <2>6, <2>8, <2>9, <2>10, <2>12, <2>13, <2>14, <2>15, <2>16, <2>17 DEF
         TypeOK, Carried
  <2>19. \A q \in Result : q \in Carried(s) => q \in Carried(s)' \/ q \in dropped'
    BY <2>2, <2>3, <2>4, <2>5, <2>6, <2>8, <2>9, <2>10, <2>12, <2>13, <2>14, <2>15, <2>16, <2>17,
         <2>18 DEF TypeOK, Carried, MemoryIs, TurnIs
  <2> HIDE DEF Q
  <2>20. TypeOK'
    BY <2>2, <2>3, <2>4, <2>5, <2>6, <2>7, <2>8, <2>9, <2>10, <2>11, <2>12, <2>13, <2>14, <2>15,
         <2>16, <2>17, <2>18, <2>19 DEF TypeOK, Consumer, Stage, Memory, TurnState
  <2>21. Entered'
    BY <2>2, <2>3, <2>4, <2>5, <2>6, <2>8, <2>9, <2>10, <2>12, <2>13, <2>14, <2>15, <2>16, <2>17,
         <2>18, <2>19 DEF IInv, TypeOK, Entered, Placed, MemoryIs, TurnIs, Memory
  <2>22. Leased'
    BY <2>4, <2>9, <2>10, <2>12, DeliveryAssumption DEF IInv, Leased, TurnIs
  <2>23. Living'
    BY <2>2, <2>3, <2>4, <2>5, <2>6, <2>8, <2>9, <2>10, <2>12, <2>13, <2>14, <2>15, <2>16, <2>17,
         <2>18, <2>19 DEF IInv, TypeOK, Living, MemoryIs, TurnIs
  <2>24. Single'
    BY <2>4, <2>5, <2>6, <2>8 DEF IInv, Single, MemoryIs
  <2>25. Staged'
    BY <2>4, <2>9, <2>10, <2>12 DEF IInv, Staged, TurnIs
  <2>26. Counted'
    BY <2>2, <2>3, <2>4, <2>9, <2>10, <2>12, <2>13, <2>14, <2>15, <2>16, <2>17, <2>18, <2>19 DEF
         IInv, Counted, TypeOK, TurnIs
  <2>27. Excusable'
    BY <2>2, <2>3, <2>4, <2>9, <2>10, <2>12, <2>13, <2>14, <2>15, <2>16, <2>17, <2>18, <2>19 DEF
         IInv, Excusable, Staged, TypeOK, TurnIs
  <2>28. RemovedIsRecorded'
    BY <2>2, <2>3, <2>4, <2>13, <2>14, <2>15, <2>16, <2>17, <2>18, <2>19 DEF IInv, Safe,
         RemovedIsRecorded, Entered, TypeOK
  <2>29. ClaimMeansAnswered'
    BY <2>2, <2>3, <2>4, <2>13, <2>14, <2>15, <2>16, <2>17, <2>18, <2>19 DEF IInv, Safe,
         ClaimMeansAnswered, Counted, TypeOK
  <2>30. TurnOwnsItsResult'
    BY <2>2, <2>3, <2>4, <2>9, <2>10, <2>12, <2>13, <2>14, <2>15, <2>16, <2>17, <2>18, <2>19 DEF
         IInv, Safe, TurnOwnsItsResult, Leased, TypeOK, TurnIs
  <2>31. AnsweredTwiceIsExcused'
    BY <2>4 DEF IInv, Safe, AnsweredTwiceIsExcused, Excusable
  <2>32. AnnouncedIsCarried'
    <3>1. AnnouncedIsCarried
      BY DEF IInv, Safe
    <3>2. \A x \in Server : mem'[x].final = mem[x].final
      BY <2>6, <2>8 DEF MemoryIs
    <3>3. \A q \in Result : ledger'[q] = "ready" => ledger[q] = "ready"
      BY <2>16
    <3>4. \A x \in Server : \A q \in Result : q \in Carried(x) => q \in Carried(x)' \/ q \in dropped'
      BY <2>18, <2>19
    <3> QED
      BY <2>2, <2>4, <3>1, <3>2, <3>3, <3>4 DEF TypeOK, AnnouncedIsCarried
  <2>33. Edited'
    BY <2>2, <2>3, <2>4, <2>5, <2>6, <2>8, <2>9, <2>10, <2>12, <2>13, <2>14, <2>15, <2>16, <2>17,
         <2>18, <2>19 DEF IInv, TypeOK, Edited, Unlocked, Running
  <2>34. StartedIsCarried'
    BY <2>2, <2>4, <2>16, <2>18, <2>19 DEF IInv, TypeOK, StartedIsCarried, Edited, Leaving
  <2> QED
    BY <2>20, <2>21, <2>22, <2>23, <2>24, <2>25, <2>26, <2>27, <2>28, <2>29, <2>30, <2>31, <2>32,
         <2>33, <2>34 DEF IInv, Safe
<1> QED
  BY <1>1, <1>2 DEF AdmitUser

(* The turn that stores its answer is the only one, and it stamps what it  *)
(* answered.                                                               *)
LEMMA PersistKeeps ==
  ASSUME IInv, NEW s \in Server, Persist(s) PROVE IInv'
<1>1. PICK outcome \in {"answered", "silent", "failed"}, saved \in BOOLEAN, accounted \in BOOLEAN :
       LET stamped == IF outcome = "answered" /\ saved THEN turn[s].ids ELSE {} IN
         /\ turn' = [turn EXCEPT ![s].pc = "persisted", ![s].stamped = stamped,
                                 ![s].good = outcome = "answered" /\ saved /\ accounted]
         /\ chat' = [r \in Result |->
              IF r \in stamped /\ (chat[r] = "open" \/ r \in turn[s].marks) THEN "answered"
              ELSE IF saved /\ r \in turn[s].marks THEN "open" ELSE chat[r]]
         /\ answers' = [r \in Result |->
              IF r \in stamped /\ answers[r] < 2 THEN answers[r] + 1 ELSE answers[r]]
  BY DEF Persist
<1> DEFINE t == turn[s]
           S == IF outcome = "answered" /\ saved THEN turn[s].ids ELSE {}
           G == outcome = "answered" /\ saved /\ accounted
           u == [t EXCEPT !.pc = "persisted", !.stamped = S, !.good = G]
<1>2. TypeOK
  BY DEF IInv
<1>3. S \subseteq turn[s].ids /\ G \in BOOLEAN /\ (G => turn[s].ids \subseteq S)
  OBVIOUS
<1>4. chat' \in [Result -> {"none", "open", "cut", "answered"}]
      /\ \A r \in Result : chat'[r] = "answered" => chat[r] = "answered" \/ r \in S
  BY <1>1, <1>2 DEF TypeOK
<1>5. answers' \in [Result -> 0 .. 2]
      /\ \A r \in Result : /\ r \in S => answers'[r] > 0 /\ answers'[r] <= answers[r] + 1
                           /\ r \notin S => answers'[r] = answers[r]
                           /\ answers[r] > 0 => answers'[r] > 0
  BY <1>1, <1>2 DEF TypeOK
<1>6. /\ t.pc = "running"
      /\ turn' = [turn EXCEPT ![s] = u]
      /\ UNCHANGED <<record, ledger, held, lease, worker, alive, mem, excused, dropped, request,
                     edit, overwritten>>
  <2>1. t.pc = "running"
    BY DEF Persist
  <2>2. turn' = [turn EXCEPT ![s] = u]
    BY <1>1, <1>2 DEF TypeOK, TurnState
  <2>3. UNCHANGED <<record, ledger, held, lease, worker, alive, mem, excused, dropped, editing>>
    BY DEF Persist
  <2> QED
    BY <2>1, <2>2, <2>3 DEF editing
<1>7. t \in TurnState
  BY <1>2 DEF TypeOK
<1>8. TurnIs(u, "persisted", t.about, t.ids, S, G)
  BY <1>2, <1>3, <1>4, <1>5, <1>6, <1>7 DEF TurnIs, TurnState
<1>9. turn' \in [Server -> TurnState]
  BY <1>2, <1>6, <1>8 DEF TypeOK, TurnIs
<1>10. \A x \in Server : turn'[x] = IF x = s THEN u ELSE turn[x]
  BY <1>2, <1>6 DEF TypeOK
<1> HIDE DEF u
<1>11. \A x \in Server : x # s => turn[x].pc = "idle" /\ turn[x].stamped = {} /\ turn[x].about = {} /\ turn[x].ids = {}
  BY <1>6, DeliveryAssumption DEF IInv, Leased, Staged
<1>12. S \subseteq Result
  BY <1>3, <1>4, <1>5, <1>6, <1>7, <1>8, <1>10, <1>11 DEF TurnState
<1> HIDE DEF S, G
<1>13. TypeOK'
  BY <1>2, <1>3, <1>4, <1>5, <1>6, <1>7, <1>8, <1>9, <1>10, <1>11, <1>12 DEF TypeOK, Consumer,
       Stage, TurnState
<1>14. Entered'
  BY <1>2, <1>3, <1>4, <1>5, <1>6, <1>7, <1>8, <1>10, <1>11, <1>12 DEF IInv, TypeOK, Entered,
       Placed, TurnIs
<1>15. Leased'
  BY <1>6, <1>7, <1>8, <1>10 DEF IInv, Leased, TurnIs
<1>16. Living'
  BY <1>2, <1>3, <1>4, <1>5, <1>6, <1>7, <1>8, <1>10, <1>11, <1>12 DEF IInv, TypeOK, Living, TurnIs
<1>17. Single'
  BY <1>6 DEF IInv, Single
<1>18. Staged'
  BY <1>3, <1>4, <1>5, <1>6, <1>7, <1>8, <1>10, <1>11, <1>12 DEF IInv, Staged, TurnIs
<1>19. Counted'
  BY <1>2, <1>3, <1>4, <1>5, <1>6, <1>7, <1>8, <1>10, <1>11, <1>12 DEF IInv, Counted, TypeOK, TurnIs
<1>20. Excusable'
  BY <1>2, <1>3, <1>4, <1>5, <1>6, <1>7, <1>8, <1>10, <1>11, <1>12 DEF IInv, Excusable, Staged,
       TypeOK, TurnIs
<1>21. RemovedIsRecorded'
  BY <1>6 DEF IInv, Safe, RemovedIsRecorded, Entered
<1>22. ClaimMeansAnswered'
  BY <1>2, <1>3, <1>4, <1>5, <1>6, <1>11, <1>12 DEF IInv, Safe, ClaimMeansAnswered, Counted, TypeOK
<1>23. TurnOwnsItsResult'
  BY <1>2, <1>3, <1>4, <1>5, <1>6, <1>7, <1>8, <1>10, <1>11, <1>12 DEF IInv, Safe,
       TurnOwnsItsResult, Leased, TypeOK, TurnIs
<1>24. AnsweredTwiceIsExcused'
  <2>1. /\ \A r \in Result : answers[r] \in 0 .. 2 /\ answers'[r] \in 0 .. 2
        /\ excused' = excused /\ t.pc = "running" /\ S \subseteq turn[s].ids
    BY <1>2, <1>3, <1>5, <1>6 DEF TypeOK
  <2>2. \A r \in Result : answers[r] > 1 => r \in excused
    BY DEF IInv, Safe, AnsweredTwiceIsExcused
  <2>3. \A r \in Result : answers[r] > 0 /\ r \in turn[s].ids => r \in excused
    BY <2>1 DEF IInv, Excusable
  <2> SUFFICES ASSUME NEW r \in Result, answers'[r] > 1 PROVE r \in excused'
    BY DEF AnsweredTwiceIsExcused
  <2>4. CASE r \in S
    BY <1>5, <2>1, <2>3, <2>4
  <2>5. CASE r \notin S
    BY <1>5, <2>1, <2>2, <2>5
  <2> QED
    BY <2>4, <2>5
<1>25. AnnouncedIsCarried'
  BY SMTT(40), <1>2, <1>3, <1>4, <1>5, <1>6, <1>7, <1>8, <1>10, <1>11, <1>12 DEF IInv, Safe,
       AnnouncedIsCarried, Carried, Staged, TypeOK, TurnIs
<1>26. Edited'
  BY <1>2, <1>3, <1>4, <1>5, <1>6, <1>7, <1>8, <1>10, <1>11, <1>12 DEF IInv, TypeOK, Edited,
       Unlocked, Running, TurnIs
<1>27. StartedIsCarried'
  BY <1>2, <1>3, <1>4, <1>5, <1>6, <1>7, <1>8, <1>10, <1>11, <1>12 DEF IInv, StartedIsCarried,
       Leaving, Carried, Staged, TypeOK, TurnIs
<1> QED
  BY <1>13, <1>14, <1>15, <1>16, <1>17, <1>18, <1>19, <1>20, <1>21, <1>22, <1>23, <1>24, <1>25,
       <1>26, <1>27 DEF IInv, Safe

(* What a turn does not claim it replays, and what it had answered is      *)
(* excused.                                                                *)
LEMMA SettleKeeps ==
  ASSUME IInv, NEW s \in Server, Settle(s) PROVE IInv'
<1>1. PICK refused \in SUBSET Claims(s) :
         /\ ledger' = [r \in Result |->
              IF r \in Claims(s) \ refused THEN "auto_completion" ELSE ledger[r]]
         /\ mem' = [mem EXCEPT
              ![s].leftover = @ \cup {r \in mem[s].steers : ledger[r] = "ready"},
              ![s].steers = {}, ![s].stopping = FALSE, ![s].replay = @ \/ Unclaimed(s, refused) # {}]
         /\ excused' = excused \cup (Unclaimed(s, refused) \cap turn[s].stamped)
  BY DEF Settle
<1> DEFINE m == mem[s]
           t == turn[s]
           L == {r \in m.steers : ledger[r] = "ready"}
           F == Unclaimed(s, refused)
           f == F # {}
           n == [m EXCEPT !.leftover = @ \cup L, !.steers = {}, !.stopping = FALSE, !.replay = @ \/ f]
           u == NoTurn
<1>2. TypeOK
  BY DEF IInv
<1>3. turn[s].ids \subseteq Result
  BY <1>2 DEF TypeOK, TurnState
<1>4. L \subseteq mem[s].steers /\ (\A q \in mem[s].steers : ledger[q] = "ready" => q \in L)
  OBVIOUS
<1>5. /\ ledger' \in [Result -> {"absent", "ready"} \cup Consumer]
      /\ \A r \in Result : \/ ledger'[r] = ledger[r]
                           \/ r \in turn[s].ids /\ turn[s].good /\ ledger[r] = "ready" /\ ledger'[r] = "auto_completion"
      /\ F = {} => \A r \in turn[s].ids : ledger'[r] # "ready"
      /\ \A r \in turn[s].ids : r \notin F => ledger'[r] # "ready"
      /\ F \subseteq turn[s].ids
  BY <1>1, <1>2, <1>3 DEF TypeOK, Claims, Unclaimed, Consumer
<1>6. /\ t.pc = "persisted" /\ edit[s].job \notin {"interrupt", "steer"}
      /\ mem' = [mem EXCEPT ![s] = n]
      /\ turn' = [turn EXCEPT ![s] = u]
      /\ excused' = excused \cup (F \cap t.stamped)
      /\ lease' = Nobody
      /\ UNCHANGED <<record, chat, held, worker, alive, answers, dropped, request, edit,
                     overwritten>>
  <2>1. /\ t.pc = "persisted" /\ edit[s].job \notin {"interrupt", "steer"}
        /\ turn' = [turn EXCEPT ![s] = u] /\ lease' = Nobody
    BY DEF Settle, Unlocked
  <2>2. mem' = [mem EXCEPT ![s] = n]
    BY <1>1, <1>2 DEF TypeOK, Memory
  <2>3. UNCHANGED <<record, chat, held, worker, alive, answers, dropped, editing>>
    BY DEF Settle
  <2>4. excused' = excused \cup (F \cap t.stamped)
    BY <1>1
  <2> QED
    BY <2>1, <2>2, <2>3, <2>4 DEF editing
<1>7. m \in Memory
  BY <1>2 DEF TypeOK
<1>8. MemoryIs(n, m.open, m.final, {}, m.queue, m.leftover \cup L,
               m.taken, m.qtaken, m.folded, (m.replay \/ f), m.frozen, FALSE)
  BY <1>2, <1>3, <1>4, <1>5, <1>7 DEF MemoryIs, Memory
<1>9. mem' \in [Server -> Memory]
  BY <1>2, <1>6, <1>8 DEF TypeOK, MemoryIs
<1>10. \A x \in Server : mem'[x] = IF x = s THEN n ELSE mem[x]
  BY <1>2, <1>6 DEF TypeOK
<1>11. t \in TurnState
  BY <1>2 DEF TypeOK
<1>12. TurnIs(u, "idle", {}, {}, {}, FALSE)
  BY <1>2, <1>3, <1>4, <1>5, <1>6, <1>7, <1>8, <1>10, <1>11 DEF TurnIs, TurnState, Memory, NoTurn
<1>13. turn' \in [Server -> TurnState]
  BY <1>2, <1>6, <1>12 DEF TypeOK, TurnIs
<1>14. \A x \in Server : turn'[x] = IF x = s THEN u ELSE turn[x]
  BY <1>2, <1>6 DEF TypeOK
<1> HIDE DEF n, u
<1>15. \A x \in Server : x # s => turn[x].pc = "idle" /\ turn[x].stamped = {} /\ turn[x].about = {} /\ turn[x].ids = {}
  BY <1>6, DeliveryAssumption DEF IInv, Leased, Staged
<1>16. \A x \in Server : x # s => Carried(x)' = Carried(x)
  BY <1>3, <1>4, <1>5, <1>6, <1>7, <1>8, <1>10, <1>11, <1>12, <1>14, <1>15 DEF TypeOK, Carried
<1>17. F # {} => mem'[s].replay
  BY <1>8, <1>10 DEF MemoryIs
<1>18. ~mem'[s].replay => ~mem[s].replay
  BY <1>2, <1>3, <1>4, <1>5, <1>6, <1>7, <1>8, <1>10, <1>11, <1>12, <1>14, <1>15, <1>16, <1>17 DEF
       MemoryIs
<1>19. mem'[s].replay => Carried(s)' = Result
  BY DEF Carried
<1>20. \A q \in Result : q \in Carried(s) /\ ledger'[q] = "ready" => q \in Carried(s)'
  BY <1>2, <1>3, <1>4, <1>5, <1>6, <1>7, <1>8, <1>10, <1>11, <1>12, <1>14, <1>15, <1>16, <1>17,
       <1>18, <1>19 DEF IInv, Staged, TypeOK, Carried, MemoryIs, TurnIs
<1> HIDE DEF L, F, f
<1>21. TypeOK'
  BY <1>2, <1>3, <1>4, <1>5, <1>6, <1>7, <1>8, <1>9, <1>10, <1>11, <1>12, <1>13, <1>14, <1>15,
       <1>16, <1>17, <1>18, <1>19, <1>20 DEF TypeOK, Consumer, Stage, Memory, TurnState
<1>22. Entered'
  BY <1>2, <1>3, <1>4, <1>5, <1>6, <1>7, <1>8, <1>10, <1>11, <1>12, <1>14, <1>15, <1>16, <1>17,
       <1>18, <1>19, <1>20 DEF IInv, TypeOK, Entered, Placed, MemoryIs, TurnIs, Memory
<1>23. Leased'
  BY <1>6, <1>11, <1>12, <1>14, DeliveryAssumption DEF IInv, Leased, TurnIs
<1>24. Living'
  BY <1>2, <1>3, <1>4, <1>5, <1>6, <1>7, <1>8, <1>10, <1>11, <1>12, <1>14, <1>15, <1>16, <1>17,
       <1>18, <1>19, <1>20 DEF IInv, TypeOK, Living, MemoryIs, TurnIs
<1>25. Single'
  BY <1>6, <1>7, <1>8, <1>10 DEF IInv, Single, MemoryIs
<1>26. Staged'
  BY <1>6, <1>11, <1>12, <1>14 DEF IInv, Staged, TurnIs
<1>27. Counted'
  BY <1>2, <1>3, <1>4, <1>5, <1>6, <1>11, <1>12, <1>14, <1>15, <1>16, <1>17, <1>18, <1>19,
       <1>20 DEF IInv, Counted, TypeOK, TurnIs
<1>28. Excusable'
  BY <1>2, <1>3, <1>4, <1>5, <1>6, <1>11, <1>12, <1>14, <1>15, <1>16, <1>17, <1>18, <1>19,
       <1>20 DEF IInv, Excusable, Staged, TypeOK, TurnIs, Entered, Placed
<1>29. RemovedIsRecorded'
  BY <1>2, <1>3, <1>4, <1>5, <1>6, <1>15, <1>16, <1>17, <1>18, <1>19, <1>20 DEF IInv, Safe,
       RemovedIsRecorded, Entered, TypeOK
<1>30. ClaimMeansAnswered'
  BY <1>2, <1>3, <1>4, <1>5, <1>6, <1>15, <1>16, <1>17, <1>18, <1>19, <1>20 DEF IInv, Safe,
       ClaimMeansAnswered, Counted, TypeOK, Staged
<1>31. TurnOwnsItsResult'
  BY <1>2, <1>3, <1>4, <1>5, <1>6, <1>11, <1>12, <1>14, <1>15, <1>16, <1>17, <1>18, <1>19,
       <1>20 DEF IInv, Safe, TurnOwnsItsResult, Leased, TypeOK, TurnIs
<1>32. AnsweredTwiceIsExcused'
  BY <1>2, <1>3, <1>4, <1>5, <1>6, <1>15, <1>16, <1>17, <1>18, <1>19, <1>20 DEF IInv, Safe,
       AnsweredTwiceIsExcused, Excusable, TypeOK
<1>33. AnnouncedIsCarried'
  BY SMTT(40), <1>2, <1>3, <1>4, <1>5, <1>6, <1>7, <1>8, <1>10, <1>11, <1>12, <1>14, <1>15, <1>16, <1>17,
       <1>18, <1>19, <1>20 DEF IInv, TypeOK, Safe, AnnouncedIsCarried, MemoryIs
<1>34. Edited'
  BY <1>2, <1>5, <1>6, <1>12, <1>14, <1>15 DEF IInv, TypeOK, Edited, Unlocked, Running, TurnIs
<1>35. StartedIsCarried'
  BY <1>2, <1>5, <1>6, <1>16, <1>20 DEF IInv, TypeOK, StartedIsCarried, Leaving
<1> QED
  BY <1>21, <1>22, <1>23, <1>24, <1>25, <1>26, <1>27, <1>28, <1>29, <1>30, <1>31, <1>32, <1>33,
       <1>34, <1>35 DEF IInv, Safe

(* A crash empties a server; what it had answered is excused.              *)
LEMMA CrashKeeps ==
  ASSUME IInv, NEW s \in Server, Crash(s) PROVE IInv'
<1> DEFINE m == mem[s]
           t == turn[s]
           n == Blank
           u == NoTurn
<1>1. TypeOK
  BY DEF IInv
<1>2. worker' \in [Result -> [at : Stage, by : Server \cup {Nobody}]]
      /\ \A r \in Result : \/ worker[r].by # s /\ worker'[r] = worker[r]
                           \/ worker[r].by = s /\ worker'[r].by = Nobody /\ worker'[r].at \in {"lost", "orphan"}
  BY <1>1 DEF Crash, TypeOK, Stage
<1>3. /\ s \in alive
      /\ mem' = [mem EXCEPT ![s] = n]
      /\ turn' = [turn EXCEPT ![s] = u]
      /\ alive' = alive \ {s}
      /\ lease' = IF lease = s THEN Nobody ELSE lease
      /\ excused' = excused \cup t.stamped
      /\ dropped' = dropped \cup {r \in Carried(s) : \E x \in alive \ {s} : r \in mem[x].final}
      /\ request' \in [Server -> RequestState] /\ request'[s] = NoRequest
      /\ edit' \in [Server -> EditState] /\ edit'[s] = NoEdit
      /\ \A x \in Server : x # s => request'[x] = request[x] /\ edit'[x] = edit[x]
      /\ UNCHANGED <<record, ledger, chat, held, answers, overwritten>>
  BY <1>1, <1>2, Blanks DEF Crash, TypeOK, Memory, TurnState, durable, history, editing
<1>4. m \in Memory
  BY <1>1 DEF TypeOK
<1>5. MemoryIs(n, FALSE, {}, {}, {}, {}, {}, {}, {}, FALSE, FALSE, FALSE)
  BY <1>1, <1>2, <1>4 DEF MemoryIs, Memory, Blank
<1>6. mem' \in [Server -> Memory]
  BY <1>1, <1>3, <1>5 DEF TypeOK, MemoryIs
<1>7. \A x \in Server : mem'[x] = IF x = s THEN n ELSE mem[x]
  BY <1>1, <1>3 DEF TypeOK
<1>8. t \in TurnState
  BY <1>1 DEF TypeOK
<1>9. TurnIs(u, "idle", {}, {}, {}, FALSE)
  BY <1>1, <1>2, <1>3, <1>4, <1>5, <1>7, <1>8 DEF TurnIs, TurnState, Memory, NoTurn
<1>10. turn' \in [Server -> TurnState]
  BY <1>1, <1>3, <1>9 DEF TypeOK, TurnIs
<1>11. \A x \in Server : turn'[x] = IF x = s THEN u ELSE turn[x]
  BY <1>1, <1>3 DEF TypeOK
<1> HIDE DEF n, u
<1>12. Carried(s) \subseteq Result /\ \A x \in Server : x # s => Carried(x)' = Carried(x)
  <2>1. mem[s] \in Memory /\ turn[s] \in TurnState /\ edit[s] \in EditState
    BY <1>1 DEF TypeOK
  <2>2. Carried(s) \subseteq Result
    BY <2>1 DEF Carried, Memory, TurnState, EditState
  <2>3. ASSUME NEW x \in Server, x # s
        PROVE mem'[x] = mem[x] /\ turn'[x] = turn[x] /\ edit'[x] = edit[x]
    BY <1>3, <1>7, <1>11, <2>3
  <2>4. ASSUME NEW x \in Server, x # s PROVE Carried(x)' = Carried(x)
    BY <2>3, <2>4 DEF Carried
  <2> QED
    BY <2>2, <2>4
<1>13. TypeOK'
  BY <1>1, <1>2, <1>3, <1>4, <1>5, <1>6, <1>7, <1>8, <1>9, <1>10, <1>11, <1>12 DEF TypeOK,
       Consumer, Stage, Memory, TurnState
<1>14. Entered'
  <2>1. Entered
    BY DEF IInv
  <2>2. \A x \in Server, q \in Result :
          q \in mem'[x].final \/ Placed(mem'[x], turn'[x], q) => q \in mem[x].final \/ Placed(mem[x], turn[x], q)
    BY <1>5, <1>7, <1>9, <1>11 DEF Placed, MemoryIs, TurnIs
  <2>3. \A q \in Result : worker'[q].at \in {"noted", "vouched", "handed"} => worker'[q].at = worker[q].at
    BY <1>2
  <2> QED
    BY <1>3, <2>1, <2>2, <2>3 DEF Entered
<1>15. Leased'
  BY <1>3, <1>8, <1>9, <1>11 DEF IInv, Leased, TurnIs
<1>16. Living'
  BY <1>1, <1>2, <1>3, <1>4, <1>5, <1>7, <1>8, <1>9, <1>11, <1>12 DEF IInv, TypeOK, Living,
       MemoryIs, TurnIs
<1>17. Single'
  BY <1>3, <1>4, <1>5, <1>7 DEF IInv, Single, MemoryIs
<1>18. Staged'
  BY <1>3, <1>8, <1>9, <1>11 DEF IInv, Staged, TurnIs
<1>19. Counted'
  BY <1>1, <1>2, <1>3, <1>8, <1>9, <1>11, <1>12 DEF IInv, Counted, TypeOK, TurnIs
<1>20. Excusable'
  BY <1>1, <1>2, <1>3, <1>8, <1>9, <1>11, <1>12 DEF IInv, Excusable, Staged, TypeOK, TurnIs
<1>21. RemovedIsRecorded'
  BY <1>3 DEF IInv, Safe, RemovedIsRecorded, Entered
<1>22. ClaimMeansAnswered'
  BY <1>3 DEF IInv, Safe, ClaimMeansAnswered, Counted
<1>23. TurnOwnsItsResult'
  BY <1>1, <1>2, <1>3, <1>8, <1>9, <1>11, <1>12 DEF IInv, Safe, TurnOwnsItsResult, Leased, TypeOK,
       TurnIs
<1>24. AnsweredTwiceIsExcused'
  BY <1>1, <1>2, <1>3, <1>12 DEF IInv, Safe, AnsweredTwiceIsExcused, Excusable, TypeOK
<1>25. AnnouncedIsCarried'
  <2>1. AnnouncedIsCarried
    BY DEF IInv, Safe
  <2>2. \A x \in Server : x # s => mem'[x].final = mem[x].final
    BY <1>7
  <2>3. \A q \in Carried(s) : (\E x \in alive' : q \in mem[x].final) => q \in dropped'
    BY <1>3
  <2>4. \A x \in Server, q \in Result :
          x # s => (worker'[q] = [at |-> "vouched", by |-> x] <=> worker[q] = [at |-> "vouched", by |-> x])
    BY <1>1, <1>2, DeliveryAssumption DEF TypeOK
  <2> QED
    BY <1>1, <1>3, <1>12, <2>1, <2>2, <2>3, <2>4 DEF TypeOK, AnnouncedIsCarried
<1>26. Edited'
  BY Blanks, <1>1, <1>2, <1>3, <1>4, <1>5, <1>7, <1>8, <1>9, <1>11, <1>12 DEF IInv, TypeOK, Edited,
       Unlocked, Running, TurnIs
<1>27. StartedIsCarried'
  BY Blanks, <1>1, <1>2, <1>3, <1>4, <1>5, <1>7, <1>8, <1>9, <1>11, <1>12 DEF IInv, StartedIsCarried,
       Leaving, Carried, Staged, TypeOK, MemoryIs, TurnIs
<1> QED
  BY <1>13, <1>14, <1>15, <1>16, <1>17, <1>18, <1>19, <1>20, <1>21, <1>22, <1>23, <1>24, <1>25,
       <1>26, <1>27 DEF IInv, Safe


(* The invariant holds before any worker was spawned.                      *)
LEMMA InitFacts == Init => IInv
<1> SUFFICES ASSUME Init PROVE IInv
  OBVIOUS
<1>1. \A s \in Server : mem[s] = Blank /\ turn[s] = NoTurn
                      /\ request[s] = NoRequest /\ edit[s] = NoEdit
  BY DEF Init
<1>2. Blank \in Memory /\ NoTurn \in TurnState
  BY DEF Blank, Memory, NoTurn, TurnState
<1>3. TypeOK
  BY <1>2, Blanks DEF Init, TypeOK, Stage, Consumer
<1>4. Entered /\ Leased /\ Living
  BY <1>1 DEF Init, Entered, Placed, Leased, Living, Blank, NoTurn
<1>5. Single /\ Staged /\ Counted /\ Excusable
  BY <1>1 DEF Init, Single, Staged, Counted, Excusable, Blank, NoTurn
<1>6. Edited /\ StartedIsCarried
  BY <1>1, Blanks DEF Init, Edited, StartedIsCarried, Unlocked, Leaving
<1>7. Safe
  BY <1>1 DEF Init, Safe, RemovedIsRecorded, ClaimMeansAnswered, TurnOwnsItsResult, AnsweredTwiceIsExcused,
         AnnouncedIsCarried, Blank, NoTurn
<1> QED
  BY <1>3, <1>4, <1>5, <1>6, <1>7 DEF IInv

(* It holds when nothing happens.                                          *)
LEMMA StutterKeeps == ASSUME IInv, UNCHANGED vars PROVE IInv'
<1>1. UNCHANGED <<record, ledger, chat, held, lease, worker, alive, mem, turn, answers, excused,
                  dropped, request, edit, overwritten>>
  BY DEF vars, durable, history, editing
<1>2. TypeOK' /\ Entered' /\ Leased' /\ Living' /\ Single'
  BY <1>1 DEF IInv, TypeOK, Entered, Placed, Leased, Living, Single
<1>3. Staged' /\ Counted' /\ Excusable'
  BY <1>1 DEF IInv, Staged, Counted, Excusable
<1>4. Edited' /\ StartedIsCarried'
  BY <1>1 DEF IInv, Edited, StartedIsCarried, Unlocked, Running, Leaving, Carried
<1>5. Safe'
  BY <1>1 DEF IInv, Safe, RemovedIsRecorded, ClaimMeansAnswered, TurnOwnsItsResult, AnsweredTwiceIsExcused,
         AnnouncedIsCarried, Carried
<1> QED
  BY <1>2, <1>3, <1>4, <1>5 DEF IInv

(* Every step keeps it.                                                    *)
LEMMA NextKeeps == IInv /\ [Next]_vars => IInv'
<1> SUFFICES ASSUME IInv, [Next]_vars PROVE IInv'
  OBVIOUS
<1>1. ASSUME NEW s \in Server, NEW r \in Result,
             \/ Spawn(s, r) \/ Prepare(s, r) \/ MarkReady(s, r) \/ Check(s, r)
             \/ Hand(s, r) \/ Acknowledge(s, r) \/ Recover(s, r) \/ TakeResult(s, r)
      PROVE  IInv'
  BY <1>1, SpawnKeeps, PrepareKeeps, MarkReadyKeeps, CheckKeeps, HandKeeps,
     AcknowledgeKeeps, RecoverKeeps, TakeResultKeeps
<1>2. ASSUME NEW s \in Server, NEW r \in Result,
             \/ TakeLeftover(s, r) \/ AdmitResult(s, r) \/ AdmitLeftover(s, r) \/ AdmitHeld(s, r)
             \/ GateFails(s, r) \/ Find(s, r) \/ SteerHeld(s, r) \/ Delete(s, r)
      PROVE  IInv'
  BY <1>2, TakeLeftoverKeeps, AdmitResultKeeps, AdmitLeftoverKeeps, AdmitHeldKeeps, GateFailsKeeps,
     FindKeeps, SteerHeldKeeps, DeleteKeeps
<1>3. ASSUME NEW s \in Server,
             \/ PutBack(s) \/ AdmitUser(s) \/ AdmissionFails(s) \/ Start(s)
             \/ Abort(s) \/ Launch(s) \/ TakeSteers(s)
      PROVE  IInv'
  BY <1>3, PutBackKeeps, AdmitUserKeeps, AdmissionFailsKeeps, StartKeeps, AbortKeeps,
     LaunchKeeps, TakeSteersKeeps
<1>4. ASSUME NEW s \in Server,
             \/ Persist(s) \/ Settle(s) \/ Replay(s) \/ InterruptTurn(s)
             \/ InterruptBetween(s) \/ Crash(s) \/ Boot(s)
      PROVE  IInv'
  BY <1>4, PersistKeeps, SettleKeeps, ReplayKeeps, InterruptTurnKeeps, InterruptBetweenKeeps,
     CrashKeeps, BootKeeps
<1>5. ASSUME NEW s \in Server,
             \/ GiveUp(s) \/ Hold(s) \/ Steer(s) \/ RemoveStarted(s)
             \/ EditOther(s) \/ WriteBack(s) \/ EditFails(s)
      PROVE  IInv'
  BY <1>5, GiveUpKeeps, HoldKeeps, SteerKeeps, RemoveStartedKeeps, EditOtherKeeps, WriteBackKeeps,
     EditFailsKeeps
<1>6. CASE UNCHANGED vars
  BY <1>6, StutterKeeps
<1> QED
  BY <1>1, <1>2, <1>3, <1>4, <1>5, <1>6 DEF Next

(* The invariant of every reachable state, for any servers and results.    *)
THEOREM DeliveryInvariant == Spec => []IInv
<1>1. Init => IInv
  BY InitFacts
<1>2. IInv /\ [Next]_vars => IInv'
  BY NextKeeps
<1> QED
  BY <1>1, <1>2, PTL DEF Spec

(* Every reachable state is well typed: no path hands a server, a turn or the*)
(* ledger something that is not a result or not one of its states.         *)
THEOREM DeliveryTypes == Spec => []TypeOK
<1>1. IInv => TypeOK
  BY DEF IInv
<1> QED
  BY <1>1, DeliveryInvariant, PTL

(* No acknowledgement and no snapshot removes a terminal record before the *)
(* ledger has the result.                                                  *)
THEOREM RecordsAreKept == Spec => []RemovedIsRecorded
<1>1. IInv => RemovedIsRecorded
  BY DEF IInv, Safe
<1> QED
  BY <1>1, DeliveryInvariant, PTL

(* A result that is claimed as automatically delivered has a stored answer,*)
(* also when it was a gate of a later turn or of another server that claimed.*)
THEOREM ClaimsAreAnswered == Spec => []ClaimMeansAnswered
<1>1. IInv => ClaimMeansAnswered
  BY DEF IInv, Safe
<1> QED
  BY <1>1, DeliveryInvariant, PTL

(* While a turn about a result runs, nobody else consumes that result.     *)
THEOREM ResultsAreOwned == Spec => []TurnOwnsItsResult
<1>1. IInv => TurnOwnsItsResult
  BY DEF IInv, Safe
<1> QED
  BY <1>1, DeliveryInvariant, PTL

(* A second answer always comes from a claim that was not made after the first*)
(* one, or from a steer or a lifted freeze, which look at nothing.         *)
THEOREM SecondAnswersAreExcused == Spec => []AnsweredTwiceIsExcused
<1>1. IInv => AnsweredTwiceIsExcused
  BY DEF IInv, Safe
<1> QED
  BY <1>1, DeliveryInvariant, PTL

(* An announced result that nobody consumed is with a live server or held, *)
(* unless a path of the code dropped it or the table of held messages lost *)
(* it: to a write over what another server put there in between, or to the *)
(* late removal of a message that was held anew.  There is no other way,   *)
(* however many servers read and write the table at once.                  *)
THEOREM AnnouncedStays == Spec => []AnnouncedIsCarried
<1>1. IInv => AnnouncedIsCarried
  BY DEF IInv, Safe
<1> QED
  BY <1>1, DeliveryInvariant, PTL

(* A claim stays with its first consumer: a turn, a gate, a snapshot or a  *)
(* worker's recovery writes the ledger only where nobody has claimed.      *)
THEOREM ClaimsStay == Spec => ClaimsAreFinal
<1> DEFINE Kept == \A r \in Result : ledger[r] \in Consumer => ledger'[r] = ledger[r]
<1>1. ASSUME IInv, [Next]_vars PROVE Kept
  <2>1. TypeOK
    BY <1>1 DEF IInv
  <2>2. ASSUME NEW s \in Server, NEW r \in Result, MarkReady(s, r) PROVE Kept
    BY <2>1, <2>2 DEF MarkReady, TypeOK, Consumer
  <2>3. ASSUME NEW s \in Server, NEW r \in Result,
               AdmitResult(s, r) \/ AdmitLeftover(s, r) \/ AdmitHeld(s, r)
        PROVE  Kept
    <3>1. \/ UNCHANGED ledger
          \/ ledger' = [ledger EXCEPT ![r] = IF @ = "ready" THEN "auto_completion" ELSE @]
      BY <2>3 DEF AdmitResult, AdmitLeftover, AdmitHeld, Gate
    <3> QED
      BY <2>1, <3>1 DEF TypeOK, Consumer
  <2>4. ASSUME NEW s \in Server, AdmitUser(s) PROVE Kept
    <3>1. UNCHANGED ledger \/ \E claimed : ledger' = Snapshotted(claimed)
      BY <2>4 DEF AdmitUser
    <3> QED
      BY <2>1, <3>1 DEF Snapshotted, TypeOK, Consumer
  <2>5. ASSUME NEW s \in Server, Settle(s) PROVE Kept
    <3>1. \E refused : ledger' = [r \in Result |->
              IF r \in Claims(s) \ refused THEN "auto_completion" ELSE ledger[r]]
      BY <2>5 DEF Settle
    <3> QED
      BY <2>1, <3>1 DEF Claims, TypeOK, Consumer
  <2>6. CASE UNCHANGED ledger
    BY <2>6
  <2>7. ASSUME NEW s \in Server, NEW r \in Result,
               \/ Spawn(s, r) \/ Prepare(s, r) \/ Check(s, r) \/ Hand(s, r) \/ Acknowledge(s, r)
               \/ Recover(s, r) \/ TakeResult(s, r) \/ TakeLeftover(s, r) \/ GateFails(s, r)
               \/ Find(s, r) \/ SteerHeld(s, r) \/ Delete(s, r)
        PROVE  UNCHANGED ledger
    BY <2>7 DEF Spawn, Prepare, Check, Hand, Acknowledge, Recover, TakeResult, TakeLeftover, GateFails,
                Find, SteerHeld, Delete, durable
  <2>8. ASSUME NEW s \in Server,
               \/ PutBack(s) \/ AdmissionFails(s) \/ Start(s) \/ Abort(s) \/ Launch(s) \/ TakeSteers(s)
               \/ Persist(s) \/ Replay(s) \/ InterruptTurn(s) \/ InterruptBetween(s) \/ Crash(s) \/ Boot(s)
        PROVE  UNCHANGED ledger
    BY <2>8 DEF PutBack, AdmissionFails, Start, Abort, Launch, TakeSteers, Persist, Replay, InterruptTurn,
                InterruptBetween, Crash, Boot, durable
  <2>9. ASSUME NEW s \in Server,
               \/ GiveUp(s) \/ Hold(s) \/ Steer(s) \/ RemoveStarted(s) \/ EditOther(s)
               \/ WriteBack(s) \/ EditFails(s)
        PROVE  UNCHANGED ledger
    BY <2>9 DEF GiveUp, Hold, Steer, RemoveStarted, EditOther, WriteBack, EditFails, durable
  <2>10. CASE UNCHANGED vars
    BY <2>6, <2>10 DEF vars, durable
  <2> QED
    BY <1>1, <2>2, <2>3, <2>4, <2>5, <2>6, <2>7, <2>8, <2>9, <2>10 DEF Next
<1>2. IInv /\ [Next]_vars => [Kept]_vars
  BY <1>1
<1> QED
  BY <1>2, DeliveryInvariant, PTL DEF Spec, ClaimsAreFinal
=============================================================================
