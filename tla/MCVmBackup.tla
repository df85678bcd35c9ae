----------------------------- MODULE MCVmBackup -----------------------------
(* Instantiates VmBackup for TLC: two backups, every result the scripts   *)
(* and the sync provider can return.                                       *)
EXTENDS VmBackup

MCScriptLaunchResults == BOOLEAN
MCProviderStartResults == {"fail", "ok", "okOp", "okCallback"}
MCProviderCallbackResults == {"fail", "ok", "okOp"}
MCSnapshotDoneResults == BOOLEAN
=============================================================================
