\* A host that follows the protocol: vmbackup.start only when no backup
\* runs, vmbackup.snapshotDone once, when the backup waits for it.
CONSTANTS
    MaxStarts = 3
    ScriptLaunchResults <- MCScriptLaunchResults
    ProviderStartResults <- MCProviderStartResults
    ProviderCallbackResults <- MCProviderCallbackResults
    SnapshotDoneResults <- MCSnapshotDoneResults
    RestartWhileActive = FALSE
    EarlySnapshotDone = FALSE
    SendResults = {TRUE, FALSE}
SPECIFICATION Spec
INVARIANTS
    TypeOK
    EventQueueMatchesSession
PROPERTIES
    ErrorIsTerminal
    BackupProgresses
    LifecycleSpec
    HostKeepsHearing
\* After VmBackup_Shutdown, or with no backup running and the host silent,
\* the tools service idles with nothing queued.
CHECK_DEADLOCK FALSE
