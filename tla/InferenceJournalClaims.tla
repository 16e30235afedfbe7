----------------------- MODULE InferenceJournalClaims -----------------------
(* What a comment of the journal says of recovery and the code, as         *)
(* modelled in InferenceJournal, does not keep.                            *)
EXTENDS InferenceJournal

(* "ReconcileOrphans terminalizes active operations from an older runtime  *)
(* in this workspace": with a server that stays up and no reused pid.      *)
EveryOrphanSettles ==
  \A r \in Runtime, o \in Operation :
    <>[]Maintained(r) /\ <>[]NoReusedPid => Settles(o)

=============================================================================
