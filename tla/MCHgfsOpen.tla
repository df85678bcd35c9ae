----------------------------- MODULE MCHgfsOpen -----------------------------
(* Two concurrent open(2) callers against a server that may or may not    *)
(* know Open V2, with every failure HgfsOpen and HgfsRelease handle.       *)
EXTENDS HgfsOpen

CONSTANTS t1, t2

MCThreads == {t1, t2}
MCServerErrnos == {"0", "EPROTO", "EACCES"}
\* A Windows host reports the same three outcomes with its own codes.
MCServerWin32Errors == {"ERROR_SUCCESS", "RPC_S_PROTOCOL_ERROR",
                        "ERROR_ACCESS_DENIED"}
MCOpenFlagChoices == {{}, {"O_CREAT"}}

\* The entry points of both builds (VMW_USE_AIO or not, with sendfile and
\* splice_read); each one touches only its own file, so their union
\* admits every behaviour of either build.
MCFileOperations ==
    UNION {HgfsFileFileOperations(a, n, s) : a, n, s \in BOOLEAN}
=============================================================================
