------------------------- MODULE MCClientTableLocks -------------------------
(* A small instance of ClientTableLocks: its constants are set in the .cfg.     *)
EXTENDS ClientTableLocks
===============================================================================
