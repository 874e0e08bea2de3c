------------------------------ MODULE MCSession ------------------------------
(* Small instances of Session: all its constants are bounds, set in the .cfg.   *)
EXTENDS Session
===============================================================================
