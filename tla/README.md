# TLA+ models of the guest backup state machine, the HGFS client and the BSD printf helpers

This directory holds TLA+ models of four parts of the guest tools, with
the TLC configurations that check them:

- the backup state machine (`src/lib/vmBackupLib/stateMachine.c`);
- the shared-folder (HGFS) client's file operations: the open/close
  protocol with version negotiation, and the data operations and their page
  cache (`src/modules/linux/vmhgfs/file.c`);
- the HGFS time and status conversions
  (`src/modules/linux/vmhgfs/hgfsUtil.c`);
- the helpers of the BSD printf, `dtoa`, `wmemchr` and `bsd_btowc`
  (`src/lib/string/bsd_output_shared.c`).

`PROJECT.json` holds the rest of the record:
- every component, modelled or not;
- every run and its expected result;
- a mutant for every checked property;
- the source lines each definition models;
- the findings, and the hazards of the code.

Run a check with `tlc -workers 2 -config <cfg> <MC module>` from this directory.

## 1. The system and its parts

| Part | Source | State | Operations |
|---|---|---|---|
| Backup state machine | `stateMachine.c` | `gBackupState` (NULL or one session): `currentOp`, `callback`, `forceRequeue`, `syncProviderRunning`, `snapshotDone`, `timerEvent`, `keepAlive` | RPC handlers `VmBackupStart`, `VmBackupAbort`, `VmBackupSnapshotDone`; timer callbacks `VmBackupAsyncCallback` (poll tick), `VmBackupKeepAliveCallback`; `VmBackup_Init`, `VmBackup_Shutdown`; helpers `VmBackupFinalize`, `VmBackupSendEvent`, `VmBackupThaw`, `VmBackupEnableSync` |
| Sync provider, freeze/thaw scripts | not in `src/` (called through `VmBackup_QueryStatus`, `VmBackup_SetCurrentOp`, `gSyncProvider->start/snapshotDone/abort`) | the operation's status | launch, start, later completion or failure |
| Host RPC and event loop | not in `src/` (`RpcOut_sendOne`, `EventManager_Add/Remove`) | pending timers, sent events | deliver a command; fire a timer |
| HGFS open/close | `file.c` | global `hgfsVersionOpen`; per open: the request, `opUsed`, the file info, `iinfo->createdAndUnopened` | `HgfsOpen`, `HgfsPackOpenRequest`, `HgfsUnpackOpenReply`, `HgfsGetOpenFlags`, `HgfsRelease` |
| HGFS transport and server | not in `src/` (`HgfsSendRequest`) | server handles | reply or time out |
| HGFS read/write/fsync/mmap/sendfile/splice | `file.c` (`HgfsFileFileOperations`) | the inode's dirty pages | a revalidate, then the kernel's generic routine |
| HGFS time and status conversion | `hgfsUtil.c` | none (pure functions) | `HgfsConvertToNtTime`, `HgfsConvertFromNtTime[Nsec]`, both variants of `HgfsConvertFromInternalStatus` (used by a Linux or a Windows host's server) |
| BSD printf helpers | `bsd_output_shared.c` | none (pure functions) | `dtoa`, `ldtoa`, `freedtoa`, `wmemchr`, `bsd_btowc` |
| Headers | `lib/include/*.h`, `compat_*.h` | none | declarations |

### How the parts interact

**Backup state machine.** All backup code runs on one cooperative event loop.
- The host delivers the start, abort and snapshotDone commands over RPC.
- Start launches the freeze scripts and arms two one-shot timers: the poll
  tick and the keep-alive.
- Each poll tick:
  1. queries the current operation;
  2. calls the registered callback: `VmBackupEnableSync` starts the sync
     provider, which may in turn set a provider callback or operation;
  3. once a snapshotDone has arrived, launches the thaw scripts;
  4. re-arms itself, or finalizes.
- Every event sent to the host re-arms the keep-alive timer.
- Finalize sends `requestorDone`, removes both timers and frees the session.

**HGFS open/close.** Open is reached from `open(2)` in any number of
processes at once. The processes share only the global `hgfsVersionOpen`.
Each open:
- packs a V2 or V1 Open request, according to that global;
- blocks in `HgfsSendRequest` until it gets a reply or a timeout;
- on a protocol-error reply to a V2 request, downgrades the global to V1 and
  retries once.

Between open and close, the file's data operations (read, write, mmap,
fsync, sendfile, splice) each revalidate the dentry and then run the
kernel's generic routine on the page cache. `close(2)` reaches
`HgfsRelease`, which writes back and waits on the dirty pages, drops the
file info and sends Close.

**BSD printf helpers.** `bsd_vsnprintf` (not under `src/`) calls `dtoa` for
`%e`, `%f` and `%g` and `bsd_btowc` for characters; `wmemchr` is supplied
where an old Windows library lacks it. They keep no state between calls.

### What makes them hard

**Backup state machine:**
- A restart overwrites a live session and orphans its timers.
- Timers fire in any order relative to host commands.
- The tick clears `timerEvent` on entry, so every path through it has to
  requeue or finalize.
- A finalize flag set at line 307 is overwritten at line 330.
- snapshotDone can arrive before the provider has started.
- There is no timeout on pending operations.

**HGFS:**
- Concurrent opens race on the version they read and the downgrade.
- A timeout can race a late server reply.
- A failure after the server has opened the file leaves its handle with
  nobody.
- The flag mapping has a default branch.
- Dirty pages must be written back before the handle is closed.

**BSD printf helpers:**
- Zero, values that round to zero and rounding carries reach the edges of
  the trailing-zero strip.
- The modes are documented the other way round from what the code does.
- `mbtowc` returns `int` where FreeBSD's `mbrtowc` returned `size_t`.

## 2. Modules

### `VmBackup.tla` (stateMachine.c) and `MCVmBackup.tla`

**State.** `sid` is the id of `gBackupState`, with 0 standing for NULL;
`started` counts the sessions created. The session's fields are variables:

| Variable | What it holds |
|---|---|
| `currentOp` | `none`, `pending`, `finished` or `failed` |
| `opName` | which operation is current |
| `callback` | the registered callback |
| `forceRequeue` | as in the code |
| `syncProviderRunning` | as in the code |
| `snapshotDone` | as in the code |
| `timerEvent`, `keepAlive` | the session's handles, as booleans |
| `cbFailed` | a callback in the current tick returned FALSE |

The event loop and the host are variables too:
- `queue` is a bag of pending `"poll"` and `"keepAlive"` timers, the
  EventManager's queue.
- `sent` is the events sent to the host in the last step.
- `doneSent[s]` counts the `requestorDone` events of session `s`.
- `sendOk` is what `RpcOut_sendOne` returned to the step's last
  `VmBackupSendEvent`. It is FALSE when the step sent nothing.

**Actions.** One action per entry point:
- `VmBackupStart`, `VmBackupAbort` and `VmBackupSnapshotDone`: the RPC
  handlers.
- `VmBackupAsyncCallback`: the whole poll tick, from the operation query and
  the callback loop to thaw and the final requeue or finalize.
- `VmBackupKeepAliveCallback`, `VmBackupShutdown`.
- `OpCompletes`: the environment finishing or failing the current operation.

`Next` runs each action through `WithSend`, which binds the outcome of
`RpcOut_sendOne` (a member of the CONSTANT `SendResults`) to the step.
The code only logs a failed send. The keep-alive callback goes through
`QAfterSend` like every other sender: the timer that fired is gone, and
`VmBackupSendEvent` arms a new one.

The operations the actions call are operators:
- `VmBackupFinalize`;
- `VmBackupEnableSync` and `ProviderCallback`, the two callbacks;
- `AfterCallbacks`, lines 311-331;
- `Requeue`, lines 333-340;
- `QAfterSend` and `KAfterSend`, the re-arm of the keep-alive in
  `VmBackupSendEvent`.

**External results.** The results of calls into code outside `src/` are
CONSTANT sets chosen with `\E`:
- `ScriptLaunchResults`;
- `ProviderStartResults`: fail, ok, ok with an operation, ok with a callback;
- `ProviderCallbackResults`;
- `SnapshotDoneResults`;
- `SendResults`: `{TRUE, FALSE}` in the passing run, so any send to the
  VMX may fail; `{TRUE}` in the violation runs.

**Host-protocol switches.** Two boolean CONSTANTs let the host break its
protocol:
- `RestartWhileActive`: a start while a backup runs;
- `EarlySnapshotDone`: snapshotDone before the provider started.

They are FALSE in the passing run. The restart and early-snapshot
violation runs turn one on.

**The provider.** `providerActive` records that the sync provider was
started (`VmBackupEnableSync` with a result other than fail) and has not
since been told snapshotDone or abort, nor been released by shutdown.

**Refinement.** `BackupLifecycle.tla` is what the state machine promises
the host, free of timers and callbacks: a session goes Idle, Freezing,
SyncRunning, Thawing, Idle; it may end from any phase; it is thawed only
after the host acknowledged the snapshot while the provider ran; and each
session that began ends once. `VmBackup` instantiates it as `Lifecycle`,
with the mapping:

| Abstract | Expression of `VmBackup` |
|---|---|
| `phase` | `LifecyclePhase`: Idle when `sid = 0`, SyncRunning while `syncProviderRunning`, Thawing once `opName = "VmBackupThaw"`, else Freezing |
| `acked` | `snapshotDone` |
| `begun` | `started` |
| `ended` | the sum of `doneSent` (`SumFunction` of the Functions module) |

`LifecycleSpec == Lifecycle!Spec` is a PROPERTY of the backup run.

### `HgfsOpen.tla` (file.c) and `MCHgfsOpen.tla`

**State.** The global variables are:
- `hgfsVersionOpen`;
- `serverV2`: whether the server knows Open V2;
- `downgrades`: how many times `hgfsVersionOpen` was downgraded.

Each thread has these per-thread variables:

| Variable | What it holds |
|---|---|
| `pc` | idle, opening, opened, failed, closing, closed |
| `openFlags` | the flags its `open(2)` passed |
| `opUsed` | as in the code |
| `attempts` | requests sent by this open |
| `request`, `reqState`, `reply` | the request in flight and its reply |
| `result` | what `HgfsOpen` returned |
| `serverHandles` | handles the server holds for this thread |
| `fileInfo` | the guest holds the handle |
| `createdAndUnopened` | as in the code |
| `ageForced` | a revalidate of the dentry was forced |

**Actions.**
- `HgfsOpenBegin`: request allocation and the first pass of `retry:`. It
  uses `PackAndSend`, which models `HgfsPackOpenRequest`.
- `ServerHandle`: the server, in the environment.
- `HgfsSendRequestTimeout`.
- `HgfsOpenReply`: the switch on the reply. Its cases are
  `OpenReplySuccess` and `OpenReplyDowngrade`, and the `out:` label is
  `OpenOut`.
- `HgfsRelease` and `HgfsReleaseReply`.

**Pure operators.**
- `HgfsGetOpenFlags`: the switch of `file.c`.
- `HgfsUnpackOpenReply`: its size check.
- `HgfsStatusConvertToLinux`: the conversion, which is not in `src/`.

- `HgfsFileFileOperations(useAio, sendfileNone, spliceRead)`: the
  operations table of a build.

**Data operations.** `dirty[t]` is the page cache of thread `t`'s file.
Each entry of the table is an action on an opened file (`RevalidateThen`):
`HgfsRevalidate` ends a forced ageing when it succeeds, and on success the
generic routine runs. Writes (`HgfsWrite`, `HgfsAioWrite`) dirty the cache;
reads, `HgfsMmap`, `HgfsSendfile` and `HgfsSpliceRead` leave it alone.
`HgfsFsync` and the kernel's write-back `HgfsWritepage` clean it, and
`HgfsRelease` writes back and waits before it drops the file info, all in
one step. `HgfsMmap` is `generic_file_mmap`, which only maps: pages written
through a mapping are not modelled, so mmap never dirties the cache. The
constant `FileOperations` is the set of entries a build has. The hgfs_open
run takes the union over all builds, which is sound because each operation
touches only its own file. No property is about the data operations
themselves. They run between open and close, and `OpenProtocolSpec` shows
that they do not disturb the open/close protocol. Each thread has its own
file and the release is one step, so no write can race the write-back.

**Abstracted data.** Paths, modes, permission bits and the bytes read or
written are left out: the properties do not tell them apart.

**Failures included.** Each of the following is a CONSTANT set:
- the errno of a Linux host's own open, and the Win32 error of a Windows
  host's, each sent as its platform's `HgfsConvertFromInternalStatus`;
- the reply size;
- `HgfsGetNewRequest`, `HgfsPackOpenRequest` and `HgfsCreateFileInfo`
  failures.

### `HgfsOpenProtocol.tla`: what open and close promise

This is the abstract specification of `HgfsOpen`, with no requests, replies
or retries. Per thread `state` runs idle, opening, then opened or failed;
an opened file goes to closing, then closed, or straight to closed.
`holds[t]` is TRUE exactly while the file is opened. `version` is the Open
version all threads share, and it can only go from V2 to V1 while an open
is in flight. `Complete` and `CloseDone` have `WF`, so every open and every
close that began ends.

`HgfsOpen` implements it under this mapping (`OpenProtocol` in `HgfsOpen.tla`):

| Abstract | Detailed |
|---|---|
| `state` | `pc` |
| `holds` | `fileInfo` |
| `version` | `hgfsVersionOpen` |

Every request step (`ServerHandle`, a reply whose case retries, a timeout)
leaves the mapped variables unchanged, so it is a stuttering step of the
abstract specification.

### `HgfsStatus.tla` (hgfsUtil.c)

Both variants of `HgfsConvertFromInternalStatus` are operators: the errno
switch and the `_WIN32` switch. The server in `HgfsOpen` builds its reply
with the one of its platform (`ServerErrnos`, `ServerWin32Errors`).

### `HgfsTime.tla` (hgfsUtil.c) and `MCHgfsTime.tla`

**Operators.**
- `HgfsConvertToNtTime`;
- `HgfsConvertFromNtTimeNsec`, with the x86 cap at `UNIX_S32_MAX`, the
  below-epoch clamp and the two builds' division.

**Arithmetic.** It is `uint64` modulo `2^NtBits`, and `ToSigned` models the
store into a signed `time_t`.

**Scaling.** TLC integers are 32-bit, so the widths are scaled down:

| Constant | Real value | Scaled value |
|---|---|---|
| Ticks per second | 10^7 | 4 |
| ns per tick | 100 | 2 |
| Seconds from 1601 to 1970 | 11644473600 | 20 |
| NT time width | 64 | 10 |
| `time_t` width, x86 | 32 | 4 |
| `time_t` width, x86_64 | 64 | 10 |

The scaled values keep the real order of the ranges, and the module's
ASSUMEs check that order:
- the 32-bit `time_t` range is shorter than the span from 1601 to 1970;
- 2038 falls inside the NT range;
- the NT range, counted in seconds, fits in a 64-bit `time_t`.

**State.** Each behaviour is one conversion: a guest stamp going out and
back (`HgfsSetTime`, then `HgfsGetTime`), or a host NT time coming in
(`HostTime`, then `HgfsGetTime`). The build is chosen at `Init`.

### `BsdOutputShared.tla` (bsd_output_shared.c) and `MCBsdOutputShared.tla`

**State.** A behaviour is one call: `call` holds the helper and its
arguments, `result` what it returned. The actions `CallDtoa`,
`CallWmemchr` and `CallBtowc` choose the arguments from small sets.

**Data.** A double is an eighth `n/8`, exact in binary, so a decimal tie is
a real tie, which libc rounds to even. Values are carried in thousandths.
Digit strings are sequences of the integers 0..9.

**Operators.**
- `Ecvt` and `Fcvt` model the libc routines by their contract: significant
  digits, or digits after the point, with the decimal point's position.
- `Dtoa` is the whole of `dtoa`: mode 2 calls `ecvt` and mode 3 `fcvt`, a
  failed `strdup` returns NULL (`ok` FALSE), and `StripTrailingZeroes` is
  the loop that moves `strEnd` back over the zeroes.
- `Wmemchr` is the search loop (`WmemchrFrom`, RECURSIVE).
- `Mbtowc` is `mbtowc` of one byte in a UTF-8 locale. `BsdBtowc` gives the
  set of values `bsd_btowc` may return: when `mbtowc` stores nothing, the
  uninitialized `wc` may be any value of `Garbage`.

## 3. Runs

| Run | cfg | Expect | What it shows |
|---|---|---|---|
| backup | `MCVmBackup.cfg` | pass | Under the host protocol, with any send to the VMX able to fail, the properties below hold. |
| backup_restart_timers | `MCVmBackupRestartTimers.cfg` | violation | The discarded session's timers stay queued and fire against the new session or against NULL. |
| backup_early_snapshot | `MCVmBackupEarlySnapshot.cfg` | violation | A snapshotDone before the provider starts makes thaw run in the same tick that enables sync. |
| backup_callback_failure | `MCVmBackupCallbackFailure.cfg` | violation | A callback that fails while the provider runs does not end the backup (line 330). |
| backup_lost_done | `MCVmBackupLostDone.cfg` | violation | A session whose only terminal event, `requestorDone`, fails to send is freed, and the host never hears that it ended (`HostHearsEveryEnd`, spec section 7). |
| backup_provider_left | `MCVmBackupProviderLeft.cfg` | violation | When the provider's operation fails, the tick finalizes without `gSyncProvider->abort`, and the provider stays active with no session (`ProviderStoppedWithSession`). |
| hgfs_open | `MCHgfsOpen.cfg` | pass | Two concurrent opens, every failure, then any data operations of every build: version negotiation is correct, and open and close refine the abstract protocol. |
| hgfs_open_eproto_downgrade | `MCHgfsOpenEprotoDowngrade.cfg` | violation | A server that supports V2 but whose own open fails with EPROTO replies PROTOCOL_ERROR, and the guest moves to V1 for good. |
| hgfs_time | `MCHgfsTime.cfg` | pass | In both builds, host times convert exactly or clamp with the right indicator, and in-range guest stamps round-trip. |
| hgfs_open_handle_leak | `MCHgfsOpenHandleLeak.cfg` | violation | A timeout after the server opened the file, or a failure while unpacking the reply, leaks the server handle. |
| string_helpers | `MCBsdOutputShared.cfg` | pass | `dtoa` returns the value rounded as its mode asks, as the shortest digit string; `wmemchr` finds the first match. |
| string_btowc_invalid | `MCBsdOutputSharedBtowc.cfg` | violation | `bsd_btowc` of a byte that is no character by itself (0xC3 in UTF-8) returns an uninitialized `wchar_t`, not `WEOF`. |

A start during a backup is the subject of `backup_restart_timers`. The
x86_64 wrap of `HgfsConvertToNtTime` for a
`time_t` before 1601 or past year 60000 (the least `time_t` reads back as
1970) lies outside the range `StampRoundTrips` checks, and is recorded as a
hazard.

### Properties of the backup run

- **`EventQueueMatchesSession`.** The bag of queued timers is exactly the
  current session's `timerEvent` and `keepAlive`, and there is none when no
  session exists.
- **`ErrorIsTerminal`** (action property). A step that sends
  `requestorError` ends the session in that same step. The exception is a
  restart, and the passing run forbids restarts.
- **`HostKeepsHearing`** (liveness). While a backup is alive, the VMX
  eventually receives another event from it, however many sends failed.
  This holds because `VmBackupSendEvent` re-arms the keep-alive whatever
  `RpcOut_sendOne` returned (spec: "regardless of send success"). It
  matters most while the backup waits, silent, for `snapshotDone`. A
  re-arm done only on success is caught.
- **`BackupProgresses`** (liveness). A running backup reaches the wait for
  snapshotDone, or its end.
- **`LifecycleSpec`** (refinement). Every behaviour of the state machine,
  under the mapping above, is a behaviour of `BackupLifecycle`: in
  particular thaw never begins before the host's snapshotDone was accepted
  while the provider ran, and every session that began ends exactly once.
- **`TypeOK`**.

### Properties of the hgfs_open run

- **`OpenRequestHonoursFlags`.** `HgfsGetOpenFlags` is checked against a
  reference: over all eight flag combinations it requests what `open(2)`
  means. Every Open request on the wire carries the caller's flags.
- **`V2RefusalNeverSurfaced`.** No open fails because the server refused V2,
  whichever thread downgrades first.
- **`AtMostOneRetry`.** An open sends at most two requests, and the second
  is V1.
- **`OpenProtocolSpec`** (refinement). Every behaviour of `HgfsOpen` is,
  under the mapping above, one of `HgfsOpenProtocol`. In particular, the
  guest holds the server's handle exactly while the file is opened: a
  release that dropped the state but kept `fileInfo` is caught. Every open
  and every close that began ends.
- **`TypeOK`**.

### Properties of the string_helpers run

- **`DtoaValueExact`.** The digits up to `strEnd`, read with `expOut` as
  the decimal point's position, are `|d|` rounded to nearest, ties to even,
  to `prec` significant digits in mode 2 and to `prec` digits after the
  point in mode 3, which is what `vfprintf` asks for `%e`/`%g` and `%f`
  (FreeBSD's `__dtoa` contract). The reference, `PrintfRounded`, is stated
  as the nearest multiple, independently of `ecvt`/`fcvt`. No shorter
  prefix of the digits denotes the value, so `strEnd` gives `vfprintf`
  exactly the digits to print, none for zero. A strip loop that stops
  early is caught. The sign is d's.
- **`WmemchrFindsFirst`.** The result is the least position among the
  first `n` holding `c`, or NULL.
- **`TypeOK`**.

### Properties of the hgfs_time run

- **`HostTimeConvertedFaithfully`.** Every NT time is compared with a
  reference stated in Unix terms: before 1970 it is below range, past the
  build's largest `time_t` it is above range, and otherwise it is the
  quotient and remainder.
- **`StampRoundTrips`.** A stamp whose exact NT time fits in the `uint64`
  comes back as itself, or as below range if it is before 1970.
- **`TypeOK`**.

### Mutants

Every property of a passing run has a mutant in `PROJECT.json`. The mutant
operators are defined in the modules, just before the definitions they
replace, and each is named for the bug it plants. Each mutant is a plausible
bug, and TLC reports that property violated under the run's own cfg.

## 4. Bounds

**backup: `MaxStarts = 3`.** Three sessions, one after another, are enough
for a finalized session's stale events to meet a later session. Every
outcome set is complete:
- the script launch succeeds or fails;
- the provider start has all four results;
- the provider callback has all three;
- snapshotDone succeeds or fails.

The run reaches every branch of the tick, including thaw and its launch
failure.

**Violation runs: `MaxStarts = 2`.** Two sessions suffice for the restart
traces.

**hgfs_time.** Every `time_t` of each scaled build (16 and 1024 values),
every nanosecond value (8), and every NT time (1024) is checked. The check
is exhaustive at the scaled widths.

**hgfs_open: two threads.** That is the least number that exercises the race
on `hgfsVersionOpen`. The server may or may not know V2, and every failure
set is complete. A third thread, even with the Win32 errors left out, does
not finish within ten minutes. Two threads already cover both orders of a
downgrade and a V2 open in flight, and a third thread adds no new
interleaving on the single shared variable.
- `MaxSends = 3` is the model's bound on requests per open. The code needs
  at most 2, so the bound never cuts a behaviour of the code. It lets the
  mutants that loop be seen as a violation.
- The flag choices per thread are `{}` and `{O_CREAT}`. Only `O_CREAT`
  changes the control flow of `HgfsOpen`. `OpenRequestHonoursFlags`
  quantifies over all eight combinations itself.

**Data operations (in hgfs_open).** Every data operation of every build,
and a revalidate that succeeds or fails. Any number of operations may run on an open file; the model's
state is finite because only the dirty flag changes.

**string_helpers.** Every eighth from -1.125 to 10 (90 doubles), with the
ties 0.125, 1.625 and 2.5, the carry of 9.875 to one digit, zero, and
values that round to zero in mode 3; `prec` 1..3 in mode 2 (vfprintf
passes at least one significant digit) and 0..3 in mode 3; `strdup` failing
or not. `wmemchr` runs over every buffer of up to three characters of a
two-letter alphabet, every `c` and every `n` up to the length. The
violation run adds the byte 0xC3 to NUL and `A`.

**Deadlock checking.** The passing runs set `CHECK_DEADLOCK FALSE`, because
their systems stop:
- In the backup run, the host sends no more commands once `MaxStarts`
  sessions are done.
- In the HGFS run, each thread makes one `open(2)` and at most one
  `close(2)`.
- In the time and string runs, each behaviour is a single call.
- In the file-io run, both files may be closed.

## 5. Fairness

**Backup.** The event loop fires every queued timer, so the tick and the
keep-alive have weak fairness (`WF`). The pending operation (scripts or
provider) is assumed to finish eventually (`WF` on `OpCompletes`). The code
has no timeout, and `BackupProgresses` holds only under this assumption; the
hazards list it. The host's commands have no fairness, since the host may
never send them. The backdoor to the VMX may fail any send, but not every
keep-alive forever: `WF` on a keep-alive callback whose send succeeds.
Without this, no event would ever need to arrive, and `HostKeepsHearing`
could not be stated.

**HGFS.** The server answers every request, and the blocked caller then
runs, so `ServerHandle`, `HgfsOpenReply` and `HgfsReleaseReply` have `WF`.
A timeout is not assumed, and neither is a `close(2)`. The abstract
`WF` on `Complete` and `CloseDone` follows from these: an open sends at
most two requests, and each of them is answered.

## 6. Not modelled, and why

- **The internals of the sync providers and scripts, the RPC transport and
  `HgfsSendRequest`.** They are not in `src/`; they are modelled at their
  interface.
- **The generic kernel routines behind the HGFS data operations, and
  `HgfsRevalidate`.** They are not in `src/`; only their effect on the page
  cache and the forced ageing is modelled.
- **The server-side flush of fsync.** `HgfsFsync` sends nothing; the host's
  cache is outside the guest.
- **The setattr/revalidate after `O_CREAT`.** It is abstracted to
  `ageForced`.
- **`ldtoa` and `freedtoa`.** `ldtoa` casts a `long double` to `double`
  and calls `dtoa`; `freedtoa` only frees. The cast is exact on the eighths
  the model uses, but not on a finer long double. A value just above a
  decimal tie is then rounded twice: 0.25 plus one long-double ulp prints
  as 0.2 with `%.1Lf`, where 0.3 is right. The function's comment says the
  loss is intended. This is listed as a hazard.
- **The callers of the printf helpers (`bsd_vsnprintf`).** Not in `src/`.
- **The headers.** Declarations and version strings. The one computation,
  `ENCODE_DATE` in `vm_version.h`, is used only for `HARD_EXPIRE`, a
  build-time constant. `compat_sched.h` maps kernel scheduling macros onto
  kernel functions and has no state of its own.
- **What the VMX does about a lost `requestorDone`.** The loss itself is
  the `backup_lost_done` run. The VMX's own timeout is outside `src/`.

## 7. Plan

1. **Done.** `VmBackup` with its runs, and its refinement of
   `BackupLifecycle`.
2. **Done.** `HgfsOpen` with the open/close runs and the data operations;
   `HgfsTime`, `HgfsStatus` with both platforms.
3. **Done.** `BsdOutputShared` with a passing and a violation run.
4. **Done.** The abstract open protocol `HgfsOpenProtocol`, which
   `HgfsOpen` refines (checked in the hgfs_open run).
5. **Tried: three threads in `HgfsOpen`.** The state space is too large
   (see Bounds).
6. **Done.** Failed sends to the VMX in `VmBackup` (`SendResults`, `sendOk`),
   with `HostKeepsHearing` in the backup run.
7. **Done.** The `backup_lost_done` run for a lost `requestorDone`. The file
   I/O run was folded into hgfs_open.
8. **Open.** `ldtoa`'s double rounding, which would be a violation run
   (see the hazards).
