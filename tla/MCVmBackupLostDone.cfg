\* The backup run with sends to the VMX failing: a backup that ends cleanly
\* whose requestorDone is lost leaves the host with no terminal event.
CONSTANTS
    MaxStarts = 3
    ScriptLaunchResults <- MCScriptLaunchResults
    ProviderStartResults <- MCProviderStartResults
    ProviderCallbackResults <- MCProviderCallbackResults
    SnapshotDoneResults <- MCSnapshotDoneResults
    RestartWhileActive = FALSE
    EarlySnapshotDone = FALSE
    SendResults = {TRUE, FALSE}
SPECIFICATION Spec
PROPERTY
    HostHearsEveryEnd
\* After VmBackup_Shutdown, or with no backup running and the host silent,
\* the tools service idles with nothing queued.
CHECK_DEADLOCK FALSE
