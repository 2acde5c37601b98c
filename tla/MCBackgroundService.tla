------------------------ MODULE MCBackgroundService ------------------------
(* A small instance of BackgroundService for TLC. *)
EXTENDS BackgroundService
===========================================================================
