-------------------------- MODULE MCResultDelivery --------------------------
(***************************************************************************)
(* The instance of ResultDelivery for TLC: two servers with one result,    *)
(* and one server with two.                                                *)
(***************************************************************************)
EXTENDS ResultDelivery, TLC

CONSTANTS r1, r2

Symmetric == Permutations(Server)

(* Where entries for results are waiting, and replays that will make some. *)
Waiting ==
  {<<s, field, r>> \in Server \X {"steers", "queue", "leftover", "taken", "qtaken", "folded"} \X Result :
     r \in mem[s][field]}
Answering == {<<s, r>> \in Server \X Result : r \in turn[s].about \cup turn[s].ids}
Replaying == {s \in Server : mem[s].replay}
Freezing == {s \in Server : mem[s].frozen \/ mem[s].stopping}
Busy == {s \in Server : request[s] # NoRequest}
Editing == {s \in Server : edit[s] # NoEdit}
Others == {s \in Server : edit[s].job = "other"}

(* No state is extended in which a result has been answered twice, more    *)
(* than two entries are under way or held, two of these have happened or   *)
(* are happening: a freeze, an entry let go, an answer that may come       *)
(* again; a request for a held message, an edit by hand, an entry lost or  *)
(* let go, an answer that may come again; a replay and a freeze or two     *)
(* replays.  The table is edited when the worker is done and no server     *)
(* down; an edit by hand that no other one overlaps is left out.  Once a   *)
(* result has its consumer and its record is gone, nothing freezes and no  *)
(* server dies.  The second result is a sibling of the first that ends     *)
(* before it; with both, one server opens the thread and nothing is        *)
(* dropped, frozen or edited.                                              *)
Scenarios ==
  /\ \A r \in Result : answers[r] < 2
  /\ Cardinality(Busy) + Cardinality(Others) + Cardinality(excused) + Cardinality(dropped)
       + Cardinality(overwritten) <= 1
  /\ Busy \cup Editing # {} => alive = Server /\ worker[r1].at = "done"
  /\ Others # {} => \/ Cardinality(Editing) > 1 /\ \A s \in Server : edit[s].job # "delete"
                    \/ \E s \in Others : edit[s].view # held
  /\ Cardinality(Freezing) + Cardinality(dropped) + Cardinality(excused) <= 1
  /\ Cardinality(Freezing) + Cardinality(Replaying) <= 1
  /\ Cardinality(Waiting) + Cardinality(Answering) + Cardinality(Replaying) + Cardinality(held) <= 2
  /\ ledger[r1] \in Consumer /\ record[r1] = "removed" => Freezing = {} /\ alive = Server
  /\ worker[r2].at # "unborn" =>
       /\ worker[r1].at # "unborn"
       /\ worker[r2].at \in {"working", "lost"} => worker[r1].at = worker[r2].at
       /\ Cardinality({s \in Server : mem[s].open}) <= 1
       /\ excused \cup dropped = {} /\ Freezing = {} /\ Busy \cup Editing = {}
=============================================================================
