-------------------------- MODULE RequestRecovery --------------------------
(* What the inference journal promises about provider requests, without    *)
(* tables, processes or leases.  An operation makes attempts 1, 2, ..., and *)
(* each attempt puts its request on the wire at most once.  When the       *)
(* process behind an operation is gone, the operation is settled with a    *)
(* verdict; "safe" hands it back for another try, and from then on its     *)
(* latest attempt has not been and will not be sent.                       *)
EXTENDS Naturals

CONSTANTS Operation, AttemptLimit

VARIABLES
  state,    \* of each operation
  tries,    \* attempts made: pairs of an operation and an ordinal
  sent      \* attempts whose request is on the wire

vars == <<state, tries, sent>>

Attempts == Operation \X (1 .. AttemptLimit)

IsLatest(s) == s \in tries /\ \A t \in tries : t[1] = s[1] => t[2] <= s[2]

Init == state = [o \in Operation |-> "none"] /\ tries = {} /\ sent = {}

Start(o) ==
  /\ state[o] = "none"
  /\ state' = [state EXCEPT ![o] = "running"]
  /\ UNCHANGED <<tries, sent>>

(* Attempts are numbered without gaps.                                     *)
Try(s) ==
  /\ state[s[1]] = "running"
  /\ s \notin tries
  /\ s[2] = 1 \/ <<s[1], s[2] - 1>> \in tries
  /\ tries' = tries \cup {s}
  /\ UNCHANGED <<state, sent>>

(* Only the latest attempt is sent, once; an owner that outlived its lease *)
(* may still send after a verdict, unless the verdict was "safe".          *)
Send(s) ==
  /\ state[s[1]] \in {"running", "unsafe"}
  /\ IsLatest(s) /\ s \notin sent
  /\ sent' = sent \cup {s}
  /\ UNCHANGED <<state, tries>>

End(o) ==
  /\ state[o] = "running"
  /\ state' = [state EXCEPT ![o] = "ended"]
  /\ UNCHANGED <<tries, sent>>

Recover(safe, unsafe) ==
  /\ \A o \in safe \cup unsafe : state[o] = "running"
  /\ \A s \in tries : s[1] \in safe /\ IsLatest(s) => s \notin sent
  /\ state' = [o \in Operation |-> IF o \in safe THEN "safe"
                                   ELSE IF o \in unsafe THEN "unsafe" ELSE state[o]]
  /\ UNCHANGED <<tries, sent>>

(* Retention: what is deleted was settled.                                 *)
Delete(old) ==
  /\ \A o \in old : state[o] \in {"ended", "safe", "unsafe", "deleted"}
  /\ state' = [o \in Operation |-> IF o \in old THEN "deleted" ELSE state[o]]
  /\ tries' = {s \in tries : s[1] \notin old}
  /\ UNCHANGED sent

Next ==
  \/ \E o \in Operation : Start(o) \/ End(o)
  \/ \E s \in Attempts : Try(s) \/ Send(s)
  \/ \E safe, unsafe \in SUBSET Operation : Recover(safe, unsafe)
  \/ \E old \in SUBSET Operation : Delete(old)

Spec == Init /\ [][Next]_vars

(* A verdict "safe" is never contradicted by the wire.                     *)
SafeMeansUnsent == \A s \in tries : state[s[1]] = "safe" /\ IsLatest(s) => s \notin sent

=============================================================================
