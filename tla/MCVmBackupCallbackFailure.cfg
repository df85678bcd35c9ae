\* A host that follows the protocol; a provider callback may fail.
CONSTANTS
    MaxStarts = 2
    ScriptLaunchResults <- MCScriptLaunchResults
    ProviderStartResults <- MCProviderStartResults
    ProviderCallbackResults <- MCProviderCallbackResults
    SnapshotDoneResults <- MCSnapshotDoneResults
    RestartWhileActive = FALSE
    EarlySnapshotDone = FALSE
    SendResults = {TRUE}
SPECIFICATION Spec
INVARIANT
    CallbackFailureFinalizes
CHECK_DEADLOCK FALSE
