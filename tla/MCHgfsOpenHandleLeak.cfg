\* A server handle opened for a call that HgfsOpen then fails, or that
\* HgfsRelease fails to close, is held by nobody.
CONSTANTS
    t1 = t1
    t2 = t2
    Threads <- MCThreads
    ServerErrnos <- MCServerErrnos
    ServerWin32Errors <- MCServerWin32Errors
    NewRequestOk = {TRUE, FALSE}
    PackResults = {"ok", "EINVAL"}
    ReplySizeOk = {TRUE, FALSE}
    CreateFileInfoOk = {TRUE, FALSE}
    OpenFlagChoices <- MCOpenFlagChoices
    MaxSends = 3
    FileOperations = {}
    RevalidateResults = {"0"}
SPECIFICATION Spec
INVARIANT ServerHandleHeldByGuest
CHECK_DEADLOCK FALSE
