\* A server that knows Open V2 but whose own open fails with EPROTO makes
\* every later open of the guest use V1.
CONSTANTS
    t1 = t1
    t2 = t2
    Threads <- MCThreads
    ServerErrnos <- MCServerErrnos
    ServerWin32Errors <- MCServerWin32Errors
    NewRequestOk = {TRUE, FALSE}
    PackResults = {"ok", "EINVAL"}
    ReplySizeOk = {TRUE, FALSE}
    CreateFileInfoOk = {TRUE, FALSE}
    OpenFlagChoices <- MCOpenFlagChoices
    MaxSends = 3
    FileOperations = {}
    RevalidateResults = {"0"}
SPECIFICATION Spec
INVARIANT NegotiatedVersionIsBest
CHECK_DEADLOCK FALSE
