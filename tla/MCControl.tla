----------------------------- MODULE MCControl -----------------------------
(* The workflows of MCScheduler under Control.                             *)
EXTENDS MCScheduler, Control
=============================================================================
