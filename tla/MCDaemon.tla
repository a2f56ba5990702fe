------------------------------ MODULE MCDaemon ------------------------------
(***************************************************************************)
(* Values for the constants of Daemon that a cfg cannot write.             *)
(***************************************************************************)
EXTENDS MCService, Daemon

=============================================================================
