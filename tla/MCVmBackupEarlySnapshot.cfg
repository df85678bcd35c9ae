\* The host may send vmbackup.snapshotDone before the sync provider started.
CONSTANTS
    MaxStarts = 2
    ScriptLaunchResults <- MCScriptLaunchResults
    ProviderStartResults <- MCProviderStartResults
    ProviderCallbackResults <- MCProviderCallbackResults
    SnapshotDoneResults <- MCSnapshotDoneResults
    RestartWhileActive = FALSE
    EarlySnapshotDone = TRUE
    SendResults = {TRUE}
SPECIFICATION Spec
PROPERTY
    ThawAfterQuiescedSnapshot
CHECK_DEADLOCK FALSE
