\* Two threads, a plain and a creating open(2), every reply and failure,
\* and once a file is open any sequence of data operations of every build,
\* with revalidation succeeding or failing.
CONSTANTS
    t1 = t1
    t2 = t2
    Threads <- MCThreads
    ServerErrnos <- MCServerErrnos
    ServerWin32Errors <- MCServerWin32Errors
    NewRequestOk = {TRUE, FALSE}
    PackResults = {"ok", "EINVAL"}
    ReplySizeOk = {TRUE, FALSE}
    CreateFileInfoOk = {TRUE, FALSE}
    OpenFlagChoices <- MCOpenFlagChoices
    MaxSends = 3
    FileOperations <- MCFileOperations
    RevalidateResults = {"0", "ERROR"}
SPECIFICATION Spec
INVARIANTS
    TypeOK
    OpenRequestHonoursFlags
    V2RefusalNeverSurfaced
    AtMostOneRetry
PROPERTIES
    OpenProtocolSpec
\* Each thread makes one open(2) and at most one close(2); the model stops
\* when both are done.
CHECK_DEADLOCK FALSE
