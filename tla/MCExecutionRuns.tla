--------------------------- MODULE MCExecutionRuns ---------------------------
(***************************************************************************)
(* Small instances of ExecutionRuns.                                       *)
(***************************************************************************)
EXTENDS ExecutionRuns, TLC

CONSTANTS s1, s2, r1, r2

Slots == Permutations(Slot)

\* The second server only recovers what the first one left: it admits nothing.
\* It comes up while the first one still closes in the first run only.
RecoveryOnly ==
    proc[s2] # "none" =>
        /\ \/ proc[s1] \in {"gone", "stale"}
           \/ proc[s1] # "up" /\ row[r2].status = "none" /\ ~frozen[s1]
        /\ handler[s2] = Idle /\ queued[s2] = {} /\ lease # s2

\* The second run comes after the first, which was not retried, with no work of a
\* user waiting, and is not interrupted or retried.
SecondRunIsPlain ==
    row[r2].status # "none" =>
        /\ row[r1].status # "none" /\ retries[r1] = 0
        /\ retries[r2] = 0 /\ asked[r2] = {}
        /\ steers[s1] = {} /\ queued[s1] = {} /\ drainQ[s1] = "idle" /\ ~frozen[s1]

\* The first run is interrupted for one reason, and retried when its worker is
\* no longer at work.
FirstRunIsShort ==
    /\ asked[r1] # Reason
    /\ retries[r1] > 0 => \A w \in Worker : worker[s1][w] # "running"

\* A user has work waiting in the first run only.
UserComesEarly ==
    User \in queued[s1] \cup steers[s1] => row[r2].status = "none" /\ retries[r1] = 0

\* A drain waits for the lease with a timer before there is any run.
TimersComeFirst == timers[s1] # {} => row[r1].status = "none"

Bounded ==
    RecoveryOnly /\ SecondRunIsPlain /\ FirstRunIsShort /\ UserComesEarly /\ TimersComeFirst
=============================================================================
