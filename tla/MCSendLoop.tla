------------------------------ MODULE MCSendLoop ------------------------------
(* Small instances of SendLoop: all its constants are bounds, set in the .cfg.  *)
EXTENDS SendLoop
===============================================================================
