\* The host sends vmbackup.start while a backup runs.
CONSTANTS
    MaxStarts = 2
    ScriptLaunchResults <- MCScriptLaunchResults
    ProviderStartResults <- MCProviderStartResults
    ProviderCallbackResults <- MCProviderCallbackResults
    SnapshotDoneResults <- MCSnapshotDoneResults
    RestartWhileActive = TRUE
    EarlySnapshotDone = FALSE
    SendResults = {TRUE}
SPECIFICATION Spec
INVARIANT
    NoTimerOutlivesSession
CHECK_DEADLOCK FALSE
