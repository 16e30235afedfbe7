---------------------------- MODULE MCRemoteLink ----------------------------
(***************************************************************************)
(* Instances of RemoteLink for TLC.                                        *)
(***************************************************************************)
EXTENDS RemoteLink

Dials == dialed["host"] + dialed["phone"]

(* What happens is a restart of one end and, in each session, a request or *)
(* up to two lines, one with a restart.  Two lines are enough for a spool  *)
(* of one to overflow and for a replay to have an order.  A third socket   *)
(* is dialed once the phone has attached, or the host has and something    *)
(* was restarted, and no state is extended in which a device has lost its  *)
(* last socket.                                                            *)
Scenarios ==
  /\ \A s \in Session : emitted[s] + restarts <= 2 /\ emitted[s] + 2 * asks <= 2
  /\ Dials > 2 => started > 0 /\ (contID > 0 \/ restarts > 0)
  /\ Dials = MaxDials => \A s \in Side : ws[s] # 0
=============================================================================
