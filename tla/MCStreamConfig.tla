---------------------------- MODULE MCStreamConfig ----------------------------
(* Small instances of StreamConfig: its constants are set in the .cfg.          *)
EXTENDS StreamConfig
===============================================================================
