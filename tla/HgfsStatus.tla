----------------------------- MODULE HgfsStatus -----------------------------
(***************************************************************************)
(* HgfsConvertFromInternalStatus of src/modules/linux/vmhgfs/hgfsUtil.c:  *)
(* the error an HGFS server operation failed with, as the cross-platform  *)
(* status sent in the reply.  The file is shared by the servers of both   *)
(* host platforms: a Linux host converts an errno, a Windows host a Win32 *)
(* error code.  Errors and statuses are strings named as in the code.     *)
(***************************************************************************)

\* The errnos the switch names, and one it does not.
InternalStatuses ==
    {"0", "ENOENT", "EBADF", "EPERM", "EEXIST", "ENOTDIR", "ENOTEMPTY",
     "EPROTO", "EACCES", "EINVAL", "ENOSPC", "EOPNOTSUPP",
     "HGFS_INTERNAL_STATUS_ERROR", "EIO"}

HgfsStatusValues ==
    {"SUCCESS", "NO_SUCH_FILE_OR_DIR", "INVALID_HANDLE",
     "OPERATION_NOT_PERMITTED", "FILE_EXISTS", "NOT_DIRECTORY",
     "DIR_NOT_EMPTY", "PROTOCOL_ERROR", "ACCESS_DENIED", "INVALID_NAME",
     "NO_SPACE", "OPERATION_NOT_SUPPORTED", "GENERIC_ERROR",
     "SHARING_VIOLATION"}

HgfsConvertFromInternalStatus(status) ==
    CASE status = "0"          -> "SUCCESS"
      [] status = "ENOENT"     -> "NO_SUCH_FILE_OR_DIR"
      [] status = "EBADF"      -> "INVALID_HANDLE"
      [] status = "EPERM"      -> "OPERATION_NOT_PERMITTED"
      [] status = "EEXIST"     -> "FILE_EXISTS"
      [] status = "ENOTDIR"    -> "NOT_DIRECTORY"
      [] status = "ENOTEMPTY"  -> "DIR_NOT_EMPTY"
      [] status = "EPROTO"     -> "PROTOCOL_ERROR"
      [] status = "EACCES"     -> "ACCESS_DENIED"
      [] status = "EINVAL"     -> "INVALID_NAME"
      [] status = "ENOSPC"     -> "NO_SPACE"
      [] status = "EOPNOTSUPP" -> "OPERATION_NOT_SUPPORTED"
      [] OTHER                 -> "GENERIC_ERROR"

\* The Win32 error codes the _WIN32 switch names, and one it does not.
Win32Errors ==
    {"ERROR_SUCCESS", "ERROR_FILE_NOT_FOUND", "ERROR_PATH_NOT_FOUND",
     "ERROR_INVALID_HANDLE", "ERROR_ALREADY_EXISTS", "ERROR_FILE_EXISTS",
     "ERROR_DIR_NOT_EMPTY", "RPC_S_PROTOCOL_ERROR", "ERROR_ACCESS_DENIED",
     "ERROR_INVALID_NAME", "ERROR_SHARING_VIOLATION", "ERROR_DISK_FULL",
     "ERROR_HANDLE_DISK_FULL", "ERROR_NOT_SUPPORTED",
     "HGFS_INTERNAL_STATUS_ERROR", "ERROR_GEN_FAILURE"}

\* The _WIN32 variant of HgfsConvertFromInternalStatus.
HgfsConvertFromInternalStatusWin32(status) ==
    CASE status = "ERROR_SUCCESS" -> "SUCCESS"
      [] status \in {"ERROR_FILE_NOT_FOUND", "ERROR_PATH_NOT_FOUND"} ->
             "NO_SUCH_FILE_OR_DIR"
      [] status = "ERROR_INVALID_HANDLE" -> "INVALID_HANDLE"
      [] status \in {"ERROR_ALREADY_EXISTS", "ERROR_FILE_EXISTS"} ->
             "FILE_EXISTS"
      [] status = "ERROR_DIR_NOT_EMPTY" -> "DIR_NOT_EMPTY"
      [] status = "RPC_S_PROTOCOL_ERROR" -> "PROTOCOL_ERROR"
      [] status = "ERROR_ACCESS_DENIED" -> "ACCESS_DENIED"
      [] status = "ERROR_INVALID_NAME" -> "INVALID_NAME"
      [] status = "ERROR_SHARING_VIOLATION" -> "SHARING_VIOLATION"
      [] status \in {"ERROR_DISK_FULL", "ERROR_HANDLE_DISK_FULL"} -> "NO_SPACE"
      [] status = "ERROR_NOT_SUPPORTED" -> "OPERATION_NOT_SUPPORTED"
      [] OTHER -> "GENERIC_ERROR"

=============================================================================
