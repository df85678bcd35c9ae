------------------------------ MODULE HgfsOpen ------------------------------
(***************************************************************************)
(* HgfsOpen of src/modules/linux/vmhgfs/file.c: concurrent open() calls   *)
(* of the guest driver, each packing an Open request in the version held   *)
(* in the global hgfsVersionOpen, sending it to the host server and        *)
(* unpacking the reply; a protocol-error reply to a V2 request downgrades  *)
(* the global version to V1 for everyone and retries once.                 *)
(*                                                                         *)
(* Each thread makes one open() call.  HgfsSendRequest blocks the caller   *)
(* until the reply arrives or the request times out; the server handles    *)
(* the request at some point in between, so a timeout may come before or  *)
(* after the server acted on it.  Paths, modes and permission bits are     *)
(* data the properties do not tell apart: a request carries its version   *)
(* and its HgfsOpenFlags.                                                  *)
(***************************************************************************)
EXTENDS Naturals, FiniteSets, HgfsStatus

OpenBits == {"O_CREAT", "O_TRUNC", "O_EXCL"}

CONSTANTS
    Threads,             \* the processes calling open() concurrently
    ServerErrnos,        \* errnos a Linux host's own open of the file may meet
    ServerWin32Errors,   \* Win32 errors a Windows host's open may meet
    NewRequestOk,        \* HgfsGetNewRequest finds a free request
    PackResults,         \* HgfsPackOpenRequest: "ok" or "EINVAL"
    ReplySizeOk,         \* the reply payload has the size of opUsed's reply
    CreateFileInfoOk,    \* HgfsCreateFileInfo succeeds
    OpenFlagChoices,     \* the O_CREAT/O_TRUNC/O_EXCL subsets callers pass
    MaxSends,            \* bound on the requests one call may send
    FileOperations,      \* entries of HgfsFileFileOperations besides open/release
    RevalidateResults    \* what HgfsRevalidate of an open file's dentry returns

ASSUME ServerErrnos \subseteq InternalStatuses
ASSUME ServerWin32Errors \subseteq Win32Errors
ASSUME NewRequestOk \subseteq BOOLEAN /\ PackResults \subseteq {"ok", "EINVAL"}
ASSUME ReplySizeOk \subseteq BOOLEAN /\ CreateFileInfoOk \subseteq BOOLEAN
ASSUME OpenFlagChoices \subseteq SUBSET OpenBits
ASSUME MaxSends \in Nat
\* The entries of HgfsFileFileOperations besides open and release, as a
\* build's VMW_USE_AIO, VMW_SENDFILE_NONE and VMW_SPLICE_READ select them.
HgfsFileFileOperations(useAio, sendfileNone, spliceRead) ==
    (IF useAio THEN {"aio_read", "aio_write"} ELSE {"read", "write"})
    \cup {"fsync", "mmap"}
    \cup (IF sendfileNone THEN {} ELSE {"sendfile"})
    \cup (IF spliceRead THEN {"splice_read"} ELSE {})

ASSUME FileOperations \subseteq
           UNION {HgfsFileFileOperations(a, n, s) : a, n, s \in BOOLEAN}
ASSUME RevalidateResults \subseteq {"0", "ERROR"}

VARIABLES
    serverV2,            \* the host server knows HGFS_OP_OPEN_V2
    hgfsVersionOpen,     \* the global atomic_t: "V2" until downgraded
    downgrades,          \* atomic_set(&hgfsVersionOpen, HGFS_OP_OPEN) calls
    pc,                  \* per thread: where its open()/close() is
    openFlags,           \* per thread: file->f_flags of its open()
    opUsed,              \* per thread: version of the Open in flight
    attempts,            \* per thread: Open requests sent by the call
    request,             \* per thread: the request in flight, or NoRequest
    reqState,            \* per thread: "none", "sent", "replied"
    reply,               \* per thread: the server's reply, or NoReply
    result,              \* per thread: HgfsOpen's return value
    serverHandles,       \* per thread: handles the server holds open for it
    fileInfo,            \* per thread: the guest holds the handle (FILE_GET_FI_P)
    createdAndUnopened,  \* per thread: iinfo->createdAndUnopened
    ageForced,           \* per thread: HgfsDentryAgeForce was called
    dirty                \* per thread: its inode has dirty page-cache pages

vars == <<serverV2, hgfsVersionOpen, downgrades, pc, openFlags, opUsed,
          attempts, request, reqState, reply, result, serverHandles, fileInfo,
          createdAndUnopened, ageForced, dirty>>

\* The variables the data operations leave alone.
openVars == <<serverV2, hgfsVersionOpen, downgrades, pc, openFlags, opUsed,
              attempts, request, reqState, reply, result, serverHandles,
              fileInfo, createdAndUnopened>>

NoRequest == [op |-> "NONE", flags |-> "none"]
NoReply == [status |-> "NONE", sizeOk |-> FALSE]
PcValues == {"idle", "opening", "opened", "failed", "closing", "closed"}
Results == {"none", "0", "EINVAL", "EPROTO", "EIO", "ENOMEM", "ERROR"}
HgfsOpenFlagsValues == {"HGFS_OPEN", "HGFS_OPEN_CREATE", "HGFS_OPEN_EMPTY",
                        "HGFS_OPEN_CREATE_SAFE", "HGFS_OPEN_CREATE_EMPTY"}

-----------------------------------------------------------------------------
\* A mapping that keeps O_EXCL without O_CREAT.
HgfsGetOpenFlagsKeepsExcl(flags) ==
    CASE flags = {}                     -> "HGFS_OPEN"
      [] flags = {"O_CREAT"}            -> "HGFS_OPEN_CREATE"
      [] flags = {"O_TRUNC"}            -> "HGFS_OPEN_EMPTY"
      [] flags = {"O_CREAT", "O_EXCL"}  -> "HGFS_OPEN_CREATE_SAFE"
      [] flags = {"O_CREAT", "O_TRUNC"} -> "HGFS_OPEN_CREATE_EMPTY"
      [] OTHER                          -> "HGFS_OPEN_CREATE_SAFE"

(* HgfsGetOpenFlags: the open(2) flags masked to O_CREAT|O_TRUNC|O_EXCL,  *)
(* O_EXCL dropped without O_CREAT, then the switch; all three set falls   *)
(* to the default, CREATE_SAFE (O_TRUNC silently dropped).                 *)
HgfsGetOpenFlags(flags) ==
    LET f == IF "O_CREAT" \in flags THEN flags ELSE flags \ {"O_EXCL"}
    IN CASE f = {}                     -> "HGFS_OPEN"
         [] f = {"O_CREAT"}            -> "HGFS_OPEN_CREATE"
         [] f = {"O_TRUNC"}            -> "HGFS_OPEN_EMPTY"
         [] f = {"O_CREAT", "O_EXCL"}  -> "HGFS_OPEN_CREATE_SAFE"
         [] f = {"O_CREAT", "O_TRUNC"} -> "HGFS_OPEN_CREATE_EMPTY"
         [] OTHER                      -> "HGFS_OPEN_CREATE_SAFE"

\* HgfsStatusConvertToLinux, on the statuses HgfsOpen tells apart.
HgfsStatusConvertToLinux(status) ==
    CASE status = "SUCCESS"        -> "0"
      [] status = "PROTOCOL_ERROR" -> "EPROTO"
      [] OTHER                     -> "ERROR"

\* HgfsUnpackOpenReply: the reply to Open has a fixed size per version.
HgfsUnpackOpenReply(t) ==
    IF reply[t].sizeOk THEN "0" ELSE "EPROTO"

-----------------------------------------------------------------------------
\* The `out:' label of HgfsOpen: free the request; a failed open of an inode
\* HgfsCreate faked forces a revalidate of its dentry.
OpenOut(t, res) ==
    /\ pc' = [pc EXCEPT ![t] = IF res = "0" THEN "opened" ELSE "failed"]
    /\ result' = [result EXCEPT ![t] = res]
    /\ request' = [request EXCEPT ![t] = NoRequest]
    /\ reqState' = [reqState EXCEPT ![t] = "none"]
    /\ ageForced' = [ageForced EXCEPT ![t] =
                        \/ @
                        \/ res # "0" /\ createdAndUnopened'[t]
                        \* the O_CREAT setattr/revalidate after a good open
                        \/ res = "0" /\ "O_CREAT" \in openFlags'[t]]

\* The `retry:' label: atomic_read the version into the header and opUsed,
\* pack, send.  The V1 header is the smaller, so the path that fit a V2
\* request fits the V1 retry: only the first pass can fail to pack.
PackAndSend(t, packed) ==
    LET version == hgfsVersionOpen' IN
    /\ opUsed' = [opUsed EXCEPT ![t] = version]
    /\ \/ /\ packed = "EINVAL"
          /\ UNCHANGED <<attempts, reply>>
          /\ OpenOut(t, "EINVAL")
       \/ /\ packed = "ok"
          /\ attempts[t] < MaxSends
          /\ pc' = [pc EXCEPT ![t] = "opening"]
          /\ attempts' = [attempts EXCEPT ![t] = @ + 1]
          /\ request' = [request EXCEPT ![t] =
                [op |-> version, flags |-> HgfsGetOpenFlags(openFlags'[t])]]
          /\ reqState' = [reqState EXCEPT ![t] = "sent"]
          /\ reply' = [reply EXCEPT ![t] = NoReply]
          /\ UNCHANGED <<result, ageForced>>

\* open(2) enters HgfsOpen: get a request, then the first pass of `retry:'.
HgfsOpenBegin(t) ==
    /\ pc[t] = "idle"
    /\ \E flags \in OpenFlagChoices :
          openFlags' = [openFlags EXCEPT ![t] = flags]
    /\ UNCHANGED <<serverV2, hgfsVersionOpen, downgrades, serverHandles,
                   fileInfo, createdAndUnopened, dirty>>
    /\ \/ /\ FALSE \in NewRequestOk
          /\ UNCHANGED <<opUsed, attempts, reply>>
          /\ OpenOut(t, "ENOMEM")
       \/ /\ TRUE \in NewRequestOk
          /\ \E packed \in PackResults : PackAndSend(t, packed)


\* The host server handles the request in flight.  A V2 Open to a server
\* without V2 is refused with a protocol error; otherwise the server's own
\* open yields an errno (Linux host) or a Win32 error (Windows host), sent
\* as HgfsConvertFromInternalStatus of it; a
\* successful Open creates a server handle; a Close drops it.
ServerHandle(t) ==
    /\ reqState[t] = "sent"
    /\ \/ /\ request[t].op \in {"V1", "V2"}
          /\ \E status \in
                   IF request[t].op = "V2" /\ ~serverV2 THEN {"PROTOCOL_ERROR"}
                   ELSE {HgfsConvertFromInternalStatus(e) : e \in ServerErrnos}
                        \cup {HgfsConvertFromInternalStatusWin32(e) :
                                e \in ServerWin32Errors},
                sizeOk \in ReplySizeOk :
                /\ reply' = [reply EXCEPT ![t] =
                                [status |-> status, sizeOk |-> sizeOk]]
                /\ serverHandles' = [serverHandles EXCEPT ![t] =
                                        IF status = "SUCCESS" THEN @ + 1 ELSE @]
       \/ /\ request[t].op = "CLOSE"
          /\ reply' = [reply EXCEPT ![t] = [status |-> "SUCCESS", sizeOk |-> TRUE]]
          /\ serverHandles' = [serverHandles EXCEPT ![t] = @ - 1]
    /\ reqState' = [reqState EXCEPT ![t] = "replied"]
    /\ UNCHANGED <<serverV2, hgfsVersionOpen, downgrades, pc, openFlags, opUsed,
                   attempts, request, result, fileInfo, createdAndUnopened,
                   ageForced, dirty>>

\* HgfsSendRequest returns -EIO to HgfsOpen or HgfsRelease: the request
\* timed out, before or after the server handled it.
HgfsSendRequestTimeout(t) ==
    /\ reqState[t] # "none"
    /\ UNCHANGED <<openFlags, createdAndUnopened>>
    /\ \/ /\ pc[t] = "opening"
          /\ OpenOut(t, "EIO")
       \/ /\ pc[t] = "closing"
          /\ pc' = [pc EXCEPT ![t] = "closed"]
          /\ request' = [request EXCEPT ![t] = NoRequest]
          /\ reqState' = [reqState EXCEPT ![t] = "none"]
          /\ UNCHANGED <<result, ageForced>>
    /\ UNCHANGED <<serverV2, hgfsVersionOpen, downgrades, opUsed, attempts,
                   reply, serverHandles, fileInfo, dirty>>

\* case 0: createdAndUnopened is cleared before the reply is unpacked and
\* the file info created.
OpenReplySuccess(t) ==
    /\ createdAndUnopened' = [createdAndUnopened EXCEPT ![t] = FALSE]
    /\ UNCHANGED <<hgfsVersionOpen, downgrades, opUsed, attempts, reply>>
    /\ \/ /\ HgfsUnpackOpenReply(t) # "0"
          /\ UNCHANGED fileInfo
          /\ OpenOut(t, HgfsUnpackOpenReply(t))
       \/ /\ HgfsUnpackOpenReply(t) = "0"
          /\ \E ok \in CreateFileInfoOk :
                /\ fileInfo' = [fileInfo EXCEPT ![t] = ok]
                /\ OpenOut(t, IF ok THEN "0" ELSE "ENOMEM")

\* A downgrade that skips the retry when another open already downgraded.
OpenReplyDowngradeIfCurrent(t) ==
    /\ opUsed[t] = "V2"
    /\ UNCHANGED <<fileInfo, createdAndUnopened>>
    /\ \/ /\ hgfsVersionOpen = "V2"
          /\ hgfsVersionOpen' = "V1"
          /\ downgrades' = downgrades + 1
          /\ PackAndSend(t, "ok")
       \/ /\ hgfsVersionOpen = "V1"
          /\ UNCHANGED <<hgfsVersionOpen, downgrades, opUsed, attempts, reply>>
          /\ OpenOut(t, "EPROTO")

\* A retry that does not look at the version the refused request used.
OpenReplyDowngradeAnyVersion(t) ==
    /\ hgfsVersionOpen' = "V1"
    /\ downgrades' = downgrades + 1
    /\ UNCHANGED <<fileInfo, createdAndUnopened>>
    /\ PackAndSend(t, "ok")

\* case -EPROTO with opUsed V2: set hgfsVersionOpen to V1, goto retry.
OpenReplyDowngrade(t) ==
    /\ opUsed[t] = "V2"
    /\ hgfsVersionOpen' = "V1"
    /\ downgrades' = downgrades + 1
    /\ UNCHANGED <<fileInfo, createdAndUnopened>>
    /\ PackAndSend(t, "ok")

\* HgfsOpen after HgfsSendRequest returned 0: the switch on the converted
\* reply status; any other status, and -EPROTO to a V1 Open, is returned.
HgfsOpenReply(t) ==
    /\ pc[t] = "opening"
    /\ reqState[t] = "replied"
    /\ UNCHANGED openFlags
    /\ LET res == HgfsStatusConvertToLinux(reply[t].status) IN
       \/ res = "0" /\ OpenReplySuccess(t)
       \/ res = "EPROTO" /\ OpenReplyDowngrade(t)
       \/ /\ \/ res = "EPROTO" /\ opUsed[t] = "V1"
             \/ res \notin {"0", "EPROTO"}
          /\ UNCHANGED <<hgfsVersionOpen, downgrades, opUsed, attempts, reply,
                         fileInfo, createdAndUnopened>>
          /\ OpenOut(t, res)
    /\ UNCHANGED <<serverV2, serverHandles, dirty>>

\* A release that forgets HgfsReleaseFileInfo: the file keeps its handle.
HgfsReleaseKeepsFileInfo(t) ==
    /\ pc[t] = "opened"
    /\ dirty' = [dirty EXCEPT ![t] = FALSE]
    /\ UNCHANGED fileInfo
    /\ \/ /\ FALSE \in NewRequestOk
          /\ pc' = [pc EXCEPT ![t] = "closed"]
          /\ UNCHANGED <<request, reqState>>
       \/ /\ TRUE \in NewRequestOk
          /\ pc' = [pc EXCEPT ![t] = "closing"]
          /\ request' = [request EXCEPT ![t] = [op |-> "CLOSE", flags |-> "none"]]
          /\ reqState' = [reqState EXCEPT ![t] = "sent"]
    /\ UNCHANGED <<serverV2, hgfsVersionOpen, downgrades, openFlags, opUsed,
                   attempts, reply, result, serverHandles, createdAndUnopened,
                   ageForced>>

\* close(2) of an opened file reaches HgfsRelease: the inode's dirty pages
\* are written back and waited on, the file info is released, then a
\* Close request is sent for the handle.
HgfsRelease(t) ==
    /\ pc[t] = "opened"
    /\ dirty' = [dirty EXCEPT ![t] = FALSE]
    /\ fileInfo' = [fileInfo EXCEPT ![t] = FALSE]
    /\ \/ /\ FALSE \in NewRequestOk
          /\ pc' = [pc EXCEPT ![t] = "closed"]
          /\ UNCHANGED <<request, reqState>>
       \/ /\ TRUE \in NewRequestOk
          /\ pc' = [pc EXCEPT ![t] = "closing"]
          /\ request' = [request EXCEPT ![t] = [op |-> "CLOSE", flags |-> "none"]]
          /\ reqState' = [reqState EXCEPT ![t] = "sent"]
    /\ UNCHANGED <<serverV2, hgfsVersionOpen, downgrades, openFlags, opUsed,
                   attempts, reply, result, serverHandles, createdAndUnopened,
                   ageForced>>

\* A release that returns without HgfsFreeRequest.
HgfsReleaseReplyKeepsRequest(t) ==
    /\ pc[t] = "closing"
    /\ reqState[t] = "replied"
    /\ pc' = [pc EXCEPT ![t] = "closed"]
    /\ reqState' = [reqState EXCEPT ![t] = "none"]
    /\ UNCHANGED <<serverV2, hgfsVersionOpen, downgrades, openFlags, opUsed,
                   attempts, request, reply, result, serverHandles, fileInfo,
                   createdAndUnopened, ageForced, dirty>>

\* HgfsRelease after HgfsSendRequest returned 0: the status is only logged.
HgfsReleaseReply(t) ==
    /\ pc[t] = "closing"
    /\ reqState[t] = "replied"
    /\ pc' = [pc EXCEPT ![t] = "closed"]
    /\ request' = [request EXCEPT ![t] = NoRequest]
    /\ reqState' = [reqState EXCEPT ![t] = "none"]
    /\ UNCHANGED <<serverV2, hgfsVersionOpen, downgrades, openFlags, opUsed,
                   attempts, reply, result, serverHandles, fileInfo,
                   createdAndUnopened, ageForced, dirty>>

-----------------------------------------------------------------------------
(* The data operations of an opened file.  Each is a thin wrapper: it     *)
(* revalidates the dentry and, if that succeeds, hands the call to the    *)
(* kernel's generic page-cache routine.  Reads are served from the page   *)
(* cache and leave it as it is; writes dirty it.  The kernel writes dirty *)
(* pages back through the file's handle (HgfsWritepage).  The VFS calls   *)
(* none of them while the file is being released, and each runs to        *)
(* completion as far as the state modelled here goes.                     *)

\* HgfsRevalidate (inode.c) of the file's dentry: on success the inode's
\* attributes were fetched from the server, which ends a forced ageing.
HgfsRevalidate(t, res) ==
    ageForced' = [ageForced EXCEPT ![t] = @ /\ res # "0"]

\* `result = HgfsRevalidate(dentry); if (result) goto out;' then the generic
\* routine, whose effect on the page cache is `after'.
RevalidateThen(t, op, after) ==
    /\ pc[t] = "opened"
    /\ op \in FileOperations
    /\ \E res \in RevalidateResults :
          /\ HgfsRevalidate(t, res)
          /\ dirty' = IF res = "0" THEN after ELSE dirty
    /\ UNCHANGED openVars

\* generic_file_aio_read / generic_file_read: served by the page cache.
HgfsAioRead(t) == RevalidateThen(t, "aio_read", dirty)
HgfsRead(t) == RevalidateThen(t, "read", dirty)

\* generic_file_aio_write / generic_file_write: the data lands in dirty
\* pages of the inode.
HgfsAioWrite(t) == RevalidateThen(t, "aio_write", [dirty EXCEPT ![t] = TRUE])
HgfsWrite(t) == RevalidateThen(t, "write", [dirty EXCEPT ![t] = TRUE])

\* generic_file_mmap, generic_file_sendfile, generic_file_splice_read.
HgfsMmap(t) == RevalidateThen(t, "mmap", dirty)
HgfsSendfile(t) == RevalidateThen(t, "sendfile", dirty)
HgfsSpliceRead(t) == RevalidateThen(t, "splice_read", dirty)

\* fsync(2): do_fsync writes the dirty pages back and waits on them around
\* HgfsFsync, which itself returns 0.
HgfsFsync(t) ==
    /\ pc[t] = "opened"
    /\ "fsync" \in FileOperations
    /\ dirty' = [dirty EXCEPT ![t] = FALSE]
    /\ UNCHANGED <<openVars, ageForced>>

\* The kernel's writeback of dirty pages, through the open file's handle.
HgfsWritepage(t) ==
    /\ dirty[t]
    /\ dirty' = [dirty EXCEPT ![t] = FALSE]
    /\ UNCHANGED <<openVars, ageForced>>

-----------------------------------------------------------------------------
Init ==
    /\ serverV2 \in BOOLEAN
    /\ hgfsVersionOpen = "V2"
    /\ downgrades = 0
    /\ pc = [t \in Threads |-> "idle"]
    /\ openFlags = [t \in Threads |-> {}]
    /\ opUsed = [t \in Threads |-> "V2"]
    /\ attempts = [t \in Threads |-> 0]
    /\ request = [t \in Threads |-> NoRequest]
    /\ reqState = [t \in Threads |-> "none"]
    /\ reply = [t \in Threads |-> NoReply]
    /\ result = [t \in Threads |-> "none"]
    /\ serverHandles = [t \in Threads |-> 0]
    /\ fileInfo = [t \in Threads |-> FALSE]
    \* HgfsCreate may just have faked the inode of a file to be created
    /\ createdAndUnopened \in [Threads -> BOOLEAN]
    /\ ageForced = [t \in Threads |-> FALSE]
    /\ dirty = [t \in Threads |-> FALSE]

Next ==
    \E t \in Threads :
        \/ HgfsOpenBegin(t)
        \/ ServerHandle(t)
        \/ HgfsSendRequestTimeout(t)
        \/ HgfsOpenReply(t)
        \/ HgfsRelease(t)
        \/ HgfsReleaseReply(t)
        \/ HgfsAioRead(t)
        \/ HgfsAioWrite(t)
        \/ HgfsRead(t)
        \/ HgfsWrite(t)
        \/ HgfsFsync(t)
        \/ HgfsMmap(t)
        \/ HgfsSendfile(t)
        \/ HgfsSpliceRead(t)
        \/ HgfsWritepage(t)

\* The server answers every request and the caller blocked in
\* HgfsSendRequest then runs; neither the timeout nor close(2) is assumed.
Fairness ==
    \A t \in Threads :
        /\ WF_vars(ServerHandle(t))
        /\ WF_vars(HgfsOpenReply(t))
        /\ WF_vars(HgfsReleaseReply(t))

Spec == Init /\ [][Next]_vars /\ Fairness

-----------------------------------------------------------------------------
TypeOK ==
    /\ serverV2 \in BOOLEAN
    /\ hgfsVersionOpen \in {"V1", "V2"}
    /\ downgrades \in Nat
    /\ pc \in [Threads -> PcValues]
    /\ openFlags \in [Threads -> SUBSET OpenBits]
    /\ opUsed \in [Threads -> {"V1", "V2"}]
    /\ attempts \in [Threads -> 0..MaxSends]
    /\ \A t \in Threads :
          /\ request[t] \in {NoRequest} \cup
                [op : {"V1", "V2"}, flags : HgfsOpenFlagsValues] \cup
                [op : {"CLOSE"}, flags : {"none"}]
          /\ reply[t] \in {NoReply} \cup
                [status : HgfsStatusValues, sizeOk : BOOLEAN]
    /\ reqState \in [Threads -> {"none", "sent", "replied"}]
    /\ \A t \in Threads : (request[t] = NoRequest) = (reqState[t] = "none")
    /\ result \in [Threads -> Results]
    /\ serverHandles \in [Threads -> Nat]
    /\ fileInfo \in [Threads -> BOOLEAN]
    /\ createdAndUnopened \in [Threads -> BOOLEAN]
    /\ ageForced \in [Threads -> BOOLEAN]
    /\ dirty \in [Threads -> BOOLEAN]


\* What each HgfsOpenFlags value asks the server to do.
HgfsOpenSemantics(v) ==
    [create    |-> v \in {"HGFS_OPEN_CREATE", "HGFS_OPEN_CREATE_SAFE",
                          "HGFS_OPEN_CREATE_EMPTY"},
     exclusive |-> v = "HGFS_OPEN_CREATE_SAFE",
     truncate  |-> v \in {"HGFS_OPEN_EMPTY", "HGFS_OPEN_CREATE_EMPTY"}]

\* What open(2) flags ask for: O_EXCL only counts with O_CREAT, and with
\* all three set exclusivity wins over truncation.
PosixOpenIntent(f) ==
    LET excl == {"O_CREAT", "O_EXCL"} \subseteq f IN
    [create |-> "O_CREAT" \in f, exclusive |-> excl,
     truncate |-> "O_TRUNC" \in f /\ ~excl]

\* HgfsGetOpenFlags, over all eight O_CREAT/O_TRUNC/O_EXCL combinations,
\* asks the server for what the open(2) flags ask for, and every Open
\* request on the wire, first pass or V1 retry, carries the caller's flags.
OpenRequestHonoursFlags ==
    /\ \A f \in SUBSET OpenBits :
          HgfsOpenSemantics(HgfsGetOpenFlags(f)) = PosixOpenIntent(f)
    /\ \A t \in Threads :
          request[t].op \in {"V1", "V2"} =>
              request[t].flags = HgfsGetOpenFlags(openFlags[t])

\* However concurrent opens interleave on hgfsVersionOpen, no open(2) fails
\* because the server refused V2: a protocol-error reply to a V2 Open is
\* always retried in V1 (the -EPROTO case of HgfsOpen).
V2RefusalNeverSurfaced ==
    \A t \in Threads :
        pc[t] = "failed" /\ result[t] = "EPROTO" =>
            ~(opUsed[t] = "V2" /\ reply[t].status = "PROTOCOL_ERROR")

\* An open(2) sends at most one retry, and only in V1: a protocol error to
\* a V1 Open is returned, never retried (the opUsed test in HgfsOpen).
AtMostOneRetry ==
    \A t \in Threads :
        /\ attempts[t] <= 2
        /\ attempts[t] = 2 => opUsed[t] = "V1"

\* Every handle the server holds for a call is held by the guest's file
\* info, so close(2) can release it: the HgfsOpen header says the handle
\* the server sent is stored for read/write/close.
ServerHandleHeldByGuest ==
    \A t \in Threads :
        pc[t] \in {"opened", "failed", "closed"} =>
            serverHandles[t] = IF fileInfo[t] THEN 1 ELSE 0

\* The open and close of every caller follow HgfsOpenProtocol: a thread's
\* pc is its protocol state, the file info is the handle the guest holds,
\* and hgfsVersionOpen is the shared version.  It covers the whole of
\* HgfsOpen and HgfsRelease with their retries, timeouts and failures:
\* the handle is held exactly while the file is open, the version only
\* falls during an open, and every open and close that began returns.
OpenProtocol == INSTANCE HgfsOpenProtocol WITH
    state <- pc, holds <- fileInfo, version <- hgfsVersionOpen

OpenProtocolSpec == OpenProtocol!Spec

\* hgfsVersionOpen is only lowered when the server cannot take Open V2:
\* the negotiated version is the best one both sides support (the -EPROTO
\* downgrade of HgfsOpen).
NegotiatedVersionIsBest ==
    hgfsVersionOpen = "V1" => ~serverV2

=============================================================================
