----------------------------- MODULE MCSideThreads -----------------------------
(* A small instance of SideThreads for TLC.                                *)
EXTENDS SideThreads, TLC
================================================================================
