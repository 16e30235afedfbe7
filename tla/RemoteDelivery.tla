---------------------------- MODULE RemoteDelivery ----------------------------
(***************************************************************************)
(* What remote control promises the program on the phone (wire.E2EMsg,     *)
(* "Reliability model"): it sees the lines of one session of the host from *)
(* the first one on, in order, none twice and none left out, until it is   *)
(* told that it has a fresh session; it never returns to an old one.       *)
(***************************************************************************)
EXTENDS Integers

CONSTANT MaxSessions

VARIABLES
  made,      \* lines the host has emitted in each session
  session,   \* the session of the phone, 0 for none
  applied    \* lines of it the phone has seen

vars == <<made, session, applied>>

Init ==
  /\ made = [s \in 1 .. MaxSessions |-> 0]
  /\ session = 0 /\ applied = 0

Emit ==
  /\ \E s \in 1 .. MaxSessions : made' = [made EXCEPT ![s] = @ + 1]
  /\ UNCHANGED <<session, applied>>

Deliver ==
  /\ session # 0 /\ applied < made[session]
  /\ applied' = applied + 1
  /\ UNCHANGED <<made, session>>

Adopt ==
  /\ session' \in session + 1 .. MaxSessions
  /\ applied' = 0
  /\ UNCHANGED made

(* The program on the phone starts anew.                                   *)
Forget == session' = 0 /\ applied' = 0 /\ UNCHANGED made

Next == Deliver \/ Adopt \/ Forget \/ Emit
Spec == Init /\ [][Next]_vars
=============================================================================
