\* A host that follows the protocol; the op the sync provider set when it
\* started may fail.
CONSTANTS
    MaxStarts = 3
    ScriptLaunchResults <- MCScriptLaunchResults
    ProviderStartResults <- MCProviderStartResults
    ProviderCallbackResults <- MCProviderCallbackResults
    SnapshotDoneResults <- MCSnapshotDoneResults
    RestartWhileActive = FALSE
    EarlySnapshotDone = FALSE
    SendResults = {TRUE}
SPECIFICATION Spec
INVARIANT
    ProviderStoppedWithSession
CHECK_DEADLOCK FALSE
