------------------------ MODULE MCProviderCoordinator ------------------------
(* Small instances of ProviderCoordinator for TLC.                         *)
EXTENDS ProviderCoordinator, TLC

CONSTANTS c1, c2, c3

\* One foreground caller, two in the background.
Mixed == c1 :> 3 @@ c2 :> 2 @@ c3 :> 2
=============================================================================
