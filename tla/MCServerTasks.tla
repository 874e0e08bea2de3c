---------------------------- MODULE MCServerTasks ----------------------------
(* Small instances of ServerTasks: its constants are set in the .cfg.           *)
EXTENDS ServerTasks
===============================================================================
