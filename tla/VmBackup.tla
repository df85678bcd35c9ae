------------------------------ MODULE VmBackup ------------------------------
(***************************************************************************)
(* The backup state machine of src/lib/vmBackupLib/stateMachine.c.        *)
(*                                                                         *)
(* One cooperative thread runs three RPC handlers (VmBackupStart,          *)
(* VmBackupAbort, VmBackupSnapshotDone) and two event-manager callbacks    *)
(* (VmBackupAsyncCallback, the poll tick, and VmBackupKeepAliveCallback).  *)
(* Every handler and callback runs to completion, so each is one action.   *)
(*                                                                         *)
(* gBackupState is the session: sid is 0 when it is NULL, otherwise the    *)
(* number of the VmBackupStart call that allocated it.  The event manager  *)
(* queue is a bag of one-shot timer events; all events of one kind run the *)
(* same callback on the global state, so only their number matters.  The  *)
(* session's timerEvent and keepAlive fields are handles on one of them.   *)
(*                                                                         *)
(* The freeze/thaw script operations and the sync provider are not in      *)
(* this file: they are modelled at the interface the state machine uses    *)
(* (VmBackup_SetCurrentOp, VmBackup_QueryStatus, gSyncProvider->start,     *)
(* ->snapshotDone, ->abort) with their possible results as CONSTANTS.      *)
(***************************************************************************)
EXTENDS Naturals, Sequences, Bags, BagsExt

LOCAL INSTANCE Functions

CONSTANTS
    MaxStarts,              \* bound on the number of vmbackup.start RPCs
    ScriptLaunchResults,    \* VmBackupOn{Freeze,Thaw}Scripts(): TRUE = op, FALSE = NULL
    ProviderStartResults,   \* what gSyncProvider->start does, see EnableSync
    ProviderCallbackResults,\* what a callback the provider registered does
    SnapshotDoneResults,    \* return values of gSyncProvider->snapshotDone
    RestartWhileActive,     \* the host may send vmbackup.start during a backup
    EarlySnapshotDone,      \* the host may send vmbackup.snapshotDone at any time
    SendResults             \* what RpcOut_sendOne may return to VmBackupSendEvent

ASSUME ScriptLaunchResults \subseteq BOOLEAN
ASSUME ProviderStartResults \subseteq {"fail", "ok", "okOp", "okCallback"}
ASSUME ProviderCallbackResults \subseteq {"fail", "ok", "okOp"}
ASSUME SnapshotDoneResults \subseteq BOOLEAN
ASSUME SendResults \subseteq BOOLEAN

VARIABLES
    sid,                 \* gBackupState: 0 = NULL, else the session number
    started,             \* number of vmbackup.start RPCs received so far
    registered,          \* RPC callbacks registered (VmBackup_Init .. _Shutdown)
    currentOp,           \* gBackupState->currentOp and its QueryStatus result
    opName,              \* gBackupState->currentOpName
    callback,            \* gBackupState->callback
    forceRequeue,        \* gBackupState->forceRequeue
    syncProviderRunning, \* gBackupState->syncProviderRunning
    snapshotDone,        \* gBackupState->snapshotDone
    timerEvent,          \* gBackupState->timerEvent # NULL
    keepAlive,           \* gBackupState->keepAlive # NULL
    queue,               \* the event manager queue: a bag of "poll"/"keepAlive"
    sent,                \* the events sent to the VMX by the last step, in order
    doneSent,            \* per session: requestorDone events sent for it
    cbFailed,            \* a callback of this session returned FALSE
    providerActive,      \* gSyncProvider was started and since then told
                         \* neither snapshotDone nor abort, nor released
    sendOk               \* RpcOut_sendOne's result for the last SendEvent of
                         \* the step; FALSE when the step sent nothing

vars == <<sid, started, registered, currentOp, opName, callback, forceRequeue,
          syncProviderRunning, snapshotDone, timerEvent, keepAlive, queue,
          sent, doneSent, cbFailed, providerActive, sendOk>>

Sessions == 1..MaxStarts
OpStates == {"none", "pending", "finished", "failed"}
OpNames == {"none", "VmBackupOnFreeze", "VmBackupThaw", "provider"}
Callbacks == {"none", "VmBackupEnableSync", "providerCallback"}
Events == {"reset", "keepAlive", "requestorDone", "requestorError",
           "requestorAbort"}

-----------------------------------------------------------------------------
(* The event manager and VmBackupSendEvent.                                *)

\* Mutant: the "!= NULL" test before EventManager_Remove dropped, so an
\* event that is not queued is removed.
DropUnguarded(q, kind, h) ==
    [e \in DOMAIN q \cup {kind} |->
        (IF e \in DOMAIN q THEN q[e] ELSE 0) - (IF e = kind THEN 1 ELSE 0)]

\* EventManager_Remove(h) when the handle h is set.
Drop(q, kind, h) == IF h THEN BagRemove(q, kind) ELSE q

\* Mutant: the keep-alive is re-armed only when the send succeeded.
QAfterSendOnSuccess(q, k, evts) ==
    IF evts = <<>> THEN q
    ELSE LET q1 == Drop(q, "keepAlive", k)
         IN  IF sendOk' THEN BagAdd(q1, "keepAlive") ELSE q1

\* The queue after SendEvent was called for each of evts: every call
\* removes the pending keep-alive, if any, and arms a new one, whether
\* RpcOut_sendOne succeeded or not (the failure is only logged).
QAfterSend(q, k, evts) ==
    IF evts = <<>> THEN q ELSE BagAdd(Drop(q, "keepAlive", k), "keepAlive")

\* keepAlive after SendEvent was called for each of evts.
KAfterSend(k, evts) == k \/ evts # <<>>

-----------------------------------------------------------------------------
(* Session life cycle.                                                     *)

\* The fields of a freed (or freshly memset) session.
ClearedSession ==
    /\ currentOp' = "none"
    /\ opName' = "none"
    /\ callback' = "none"
    /\ forceRequeue' = FALSE
    /\ syncProviderRunning' = FALSE
    /\ snapshotDone' = FALSE
    /\ timerEvent' = FALSE
    /\ keepAlive' = FALSE
    /\ cbFailed' = FALSE

\* Mutant: VmBackupFinalize does not remove the session's poll timer.
VmBackupFinalizeKeepsTimer(s, q, t, k, evts) ==
    LET q1 == QAfterSend(q, k, evts \o <<"requestorDone">>)
    IN /\ queue' = Drop(q1, "keepAlive", TRUE)
       /\ sent' = evts \o <<"requestorDone">>
       /\ doneSent' = [doneSent EXCEPT ![s] = @ + 1]
       /\ sid' = 0
       /\ ClearedSession

\* VmBackupFinalize for session s, entered with queue q, timer handle t and
\* keep-alive handle k after the events evts were sent: sends requestorDone,
\* removes the session's timer and keep-alive and frees the session.  The
\* current op is cancelled and released, which the model shows by
\* clearing it.
VmBackupFinalize(s, q, t, k, evts) ==
    LET q1 == QAfterSend(q, k, evts \o <<"requestorDone">>)
    IN /\ queue' = Drop(Drop(q1, "poll", t), "keepAlive", TRUE)
       /\ sent' = evts \o <<"requestorDone">>
       /\ doneSent' = [doneSent EXCEPT ![s] = @ + 1]
       /\ sid' = 0
       /\ ClearedSession

\* VMBACKUP_ENQUEUE_EVENT at the exit of the poll tick, after the events
\* evts were sent; the fired poll event is already gone from q.
Requeue(q, evts) ==
    /\ forceRequeue' = FALSE
    /\ timerEvent' = TRUE
    /\ queue' = BagAdd(QAfterSend(q, keepAlive, evts), "poll")
    /\ keepAlive' = KAfterSend(keepAlive, evts)
    /\ sent' = evts
    /\ UNCHANGED <<sid, doneSent>>

-----------------------------------------------------------------------------
(* RPC handlers.                                                           *)

\* vmbackup.start.  A running session is told InvalidState and then
\* overwritten; the new session sends reset and launches the freeze
\* scripts with VmBackupEnableSync as continuation.
VmBackupStart ==
    /\ registered
    /\ started < MaxStarts
    /\ sid = 0 \/ RestartWhileActive
    /\ LET new == started + 1
           errEv == IF sid # 0 THEN <<"requestorError">> ELSE <<>>
           q0 == QAfterSend(queue, keepAlive, errEv)
           q1 == QAfterSend(q0, FALSE, <<"reset">>)
       IN /\ started' = new
          /\ \/ /\ TRUE \in ScriptLaunchResults
                /\ sid' = new
                /\ currentOp' = "pending"
                /\ opName' = "VmBackupOnFreeze"
                /\ callback' = "VmBackupEnableSync"
                /\ forceRequeue' = FALSE
                /\ syncProviderRunning' = FALSE
                /\ snapshotDone' = FALSE
                /\ timerEvent' = TRUE
                /\ keepAlive' = TRUE
                /\ queue' = BagAdd(q1, "poll")
                /\ sent' = errEv \o <<"reset">>
                /\ cbFailed' = FALSE
                /\ UNCHANGED doneSent
             \/ /\ FALSE \in ScriptLaunchResults
                /\ VmBackupFinalize(new, q1, FALSE, TRUE,
                                    errEv \o <<"reset", "requestorError">>)
    /\ UNCHANGED <<registered, providerActive>>

\* vmbackup.abort with a backup in progress: cancel the op, abort the
\* provider if it runs, send requestorAbort, finalize.  Without a session
\* the handler only returns an error and changes nothing.
VmBackupAbort ==
    /\ registered
    /\ sid # 0
    /\ VmBackupFinalize(sid, queue, timerEvent, keepAlive, <<"requestorAbort">>)
    /\ providerActive' = (providerActive /\ ~syncProviderRunning)
    /\ UNCHANGED <<started, registered>>

\* The session waits for the host: the provider runs, and neither an op
\* nor a callback is outstanding.
AwaitingSnapshot ==
    /\ sid # 0
    /\ syncProviderRunning
    /\ ~snapshotDone
    /\ currentOp = "none"
    /\ callback = "none"

\* vmbackup.snapshotDone: notify the provider; on failure send SyncError
\* and finalize, else set the flag the next poll tick acts on.  A host
\* following the protocol sends it once, while the session awaits it.
VmBackupSnapshotDone ==
    /\ registered
    /\ sid # 0
    /\ AwaitingSnapshot \/ EarlySnapshotDone
    /\ \/ /\ TRUE \in SnapshotDoneResults
          /\ snapshotDone' = TRUE
          /\ sent' = <<>>
          /\ UNCHANGED <<sid, currentOp, opName, callback, forceRequeue,
                         syncProviderRunning, timerEvent, keepAlive, queue,
                         doneSent, cbFailed>>
       \/ /\ FALSE \in SnapshotDoneResults
          /\ VmBackupFinalize(sid, queue, timerEvent, keepAlive,
                              <<"requestorError">>)
    /\ providerActive' = FALSE
    /\ UNCHANGED <<started, registered>>

-----------------------------------------------------------------------------
(* The poll tick, VmBackupAsyncCallback.  The fired event has left the     *)
(* queue and timerEvent is NULL.  Its three stages run in order: the op    *)
(* status check, the callback loop, the thaw check.                        *)

\* VmBackupThaw: the thaw scripts become the current op with no callback;
\* if they cannot be launched it sends requestorError and returns FALSE,
\* and the tick finalizes.
VmBackupThaw(q, failed, evts) ==
    \/ /\ TRUE \in ScriptLaunchResults
       /\ currentOp' = "pending"
       /\ opName' = "VmBackupThaw"
       /\ callback' = "none"
       /\ cbFailed' = failed
       /\ UNCHANGED snapshotDone
       /\ Requeue(q, evts)
    \/ /\ FALSE \in ScriptLaunchResults
       /\ VmBackupFinalize(sid, q, FALSE, keepAlive,
                           evts \o <<"requestorError">>)

\* Mutant: the thaw check does not wait for the host's snapshotDone.
AfterCallbacksThawEarly(q, running, failed, evts) ==
    \/ /\ running
       /\ syncProviderRunning' = FALSE
       /\ VmBackupThaw(q, failed, evts)
    \/ /\ ~running
       /\ VmBackupFinalize(sid, q, FALSE, keepAlive, evts)

\* Mutant: the thaw branch forgets to clear syncProviderRunning (line 320).
AfterCallbacksKeepsRunning(q, running, failed, evts) ==
    \/ /\ running /\ snapshotDone
       /\ syncProviderRunning' = TRUE
       /\ VmBackupThaw(q, failed, evts)
    \/ /\ ~running
       /\ VmBackupFinalize(sid, q, FALSE, keepAlive, evts)
    \/ /\ running /\ ~snapshotDone
       /\ currentOp' = "none"
       /\ callback' = "none"
       /\ syncProviderRunning' = TRUE
       /\ cbFailed' = failed
       /\ UNCHANGED <<opName, snapshotDone>>
       /\ Requeue(q, evts)

\* The thaw check and the final decision, reached with no op and no
\* callback outstanding, the provider flag being running and the events
\* evts sent so far in the tick.  Both lines 322 and 330 overwrite the
\* finalize flag a failed callback may have set.
AfterCallbacks(q, running, failed, evts) ==
    \/ /\ running /\ snapshotDone
       /\ syncProviderRunning' = FALSE
       /\ VmBackupThaw(q, failed, evts)
    \/ /\ ~running
       /\ VmBackupFinalize(sid, q, FALSE, keepAlive, evts)
    \/ /\ running /\ ~snapshotDone
       /\ currentOp' = "none"
       /\ callback' = "none"
       /\ syncProviderRunning' = TRUE
       /\ cbFailed' = failed
       /\ UNCHANGED <<opName, snapshotDone>>
       /\ Requeue(q, evts)

\* Mutant: VmBackupEnableSync marks the provider running before calling
\* start, so a failed start leaves the flag set.
VmBackupEnableSyncRunningFirst(q, r) ==
    /\ providerActive' = (providerActive \/ r # "fail")
    /\ \/ /\ r = "fail"
          /\ AfterCallbacks(q, TRUE, TRUE, <<"requestorError">>)
       \/ /\ r = "ok"
          /\ AfterCallbacks(q, TRUE, cbFailed, <<>>)
       \/ /\ r \in {"okOp", "okCallback"}
          /\ currentOp' = IF r = "okOp" THEN "pending" ELSE "none"
          /\ opName' = "provider"
          /\ callback' = IF r = "okOp" THEN "none" ELSE "providerCallback"
          /\ syncProviderRunning' = TRUE
          /\ UNCHANGED <<snapshotDone, cbFailed>>
          /\ Requeue(q, <<>>)

\* VmBackupEnableSync, the continuation of the freeze scripts: calls
\* gSyncProvider->start, which may fail, succeed, or succeed having set
\* an op or a callback of its own with VmBackup_SetCurrentOp (a callback
\* without an op sets forceRequeue, which ends the loop).
VmBackupEnableSync(q, r) ==
    /\ providerActive' = (providerActive \/ r # "fail")
    /\ \/ /\ r = "fail"
          /\ AfterCallbacks(q, FALSE, TRUE, <<"requestorError">>)
       \/ /\ r = "ok"
          /\ AfterCallbacks(q, TRUE, cbFailed, <<>>)
       \/ /\ r \in {"okOp", "okCallback"}
          /\ currentOp' = IF r = "okOp" THEN "pending" ELSE "none"
          /\ opName' = "provider"
          /\ callback' = IF r = "okOp" THEN "none" ELSE "providerCallback"
          /\ syncProviderRunning' = TRUE
          /\ UNCHANGED <<snapshotDone, cbFailed>>
          /\ Requeue(q, <<>>)

\* A callback the sync provider registered: it may report failure, finish,
\* or start another op.
ProviderCallback(q, r) ==
    \/ /\ r \in {"fail", "ok"}
       /\ AfterCallbacks(q, syncProviderRunning, cbFailed \/ r = "fail", <<>>)
    \/ /\ r = "okOp"
       /\ currentOp' = "pending"
       /\ opName' = "provider"
       /\ callback' = "none"
       /\ UNCHANGED <<syncProviderRunning, snapshotDone, cbFailed>>
       /\ Requeue(q, <<>>)

VmBackupAsyncCallback ==
    /\ sid # 0
    /\ CopiesIn("poll", queue) > 0
    /\ LET q == BagRemove(queue, "poll") IN
       \/ /\ currentOp = "pending"
          /\ UNCHANGED <<currentOp, opName, callback, syncProviderRunning,
                         snapshotDone, cbFailed, providerActive>>
          /\ Requeue(q, <<>>)
       \/ /\ currentOp = "failed"
          /\ VmBackupFinalize(sid, q, FALSE, keepAlive, <<"requestorError">>)
          /\ UNCHANGED providerActive
       \/ /\ currentOp \in {"none", "finished"}
          /\ \/ /\ callback = "none"
                /\ AfterCallbacks(q, syncProviderRunning, cbFailed, <<>>)
                /\ UNCHANGED providerActive
             \/ /\ callback = "VmBackupEnableSync"
                /\ \E r \in ProviderStartResults : VmBackupEnableSync(q, r)
             \/ /\ callback = "providerCallback"
                /\ \E r \in ProviderCallbackResults : ProviderCallback(q, r)
                /\ UNCHANGED providerActive
    /\ UNCHANGED <<started, registered>>

\* VmBackupKeepAliveCallback: the event that fired is gone and its handle
\* cleared; SendEvent sends keepAlive and arms a new one.
VmBackupKeepAliveCallback ==
    /\ sid # 0
    /\ CopiesIn("keepAlive", queue) > 0
    /\ queue' = QAfterSend(BagRemove(queue, "keepAlive"), FALSE, <<"keepAlive">>)
    /\ keepAlive' = KAfterSend(FALSE, <<"keepAlive">>)
    /\ sent' = <<"keepAlive">>
    /\ UNCHANGED <<sid, started, registered, currentOp, opName, callback,
                   forceRequeue, syncProviderRunning, snapshotDone,
                   timerEvent, doneSent, cbFailed, providerActive>>

-----------------------------------------------------------------------------
(* The environment: the asynchronous op, and tools shutdown.               *)

\* The op (scripts, or the provider's) completes or fails; the next
\* VmBackup_QueryStatus returns this.
OpCompletes ==
    /\ currentOp = "pending"
    /\ currentOp' \in {"finished", "failed"}
    /\ sent' = <<>>
    /\ UNCHANGED <<sid, started, registered, opName, callback, forceRequeue,
                   syncProviderRunning, snapshotDone, timerEvent, keepAlive,
                   queue, doneSent, cbFailed, providerActive>>

\* VmBackup_Shutdown: finalize a running session, release the sync
\* provider, unregister the RPCs.
VmBackupShutdown ==
    /\ registered
    /\ registered' = FALSE
    /\ providerActive' = FALSE
    /\ UNCHANGED started
    /\ \/ /\ sid # 0
          /\ VmBackupFinalize(sid, queue, timerEvent, keepAlive, <<>>)
       \/ /\ sid = 0
          /\ sent' = <<>>
          /\ UNCHANGED <<sid, currentOp, opName, callback, forceRequeue,
                         syncProviderRunning, snapshotDone, timerEvent,
                         keepAlive, queue, doneSent, cbFailed>>

-----------------------------------------------------------------------------
Init ==
    /\ sid = 0
    /\ started = 0
    /\ registered = TRUE
    /\ currentOp = "none"
    /\ opName = "none"
    /\ callback = "none"
    /\ forceRequeue = FALSE
    /\ syncProviderRunning = FALSE
    /\ snapshotDone = FALSE
    /\ timerEvent = FALSE
    /\ keepAlive = FALSE
    /\ queue = EmptyBag
    /\ sent = <<>>
    /\ doneSent = [s \in Sessions |-> 0]
    /\ cbFailed = FALSE
    /\ providerActive = FALSE
    /\ sendOk = FALSE

\* A handler together with what RpcOut_sendOne returned to its last
\* VmBackupSendEvent: one of SendResults when it sent an event, FALSE
\* otherwise.  The result is chosen before the handler runs, whose
\* re-arming may depend on it.
WithSend(A) ==
    /\ sendOk' \in SendResults \cup {FALSE}
    /\ A
    /\ IF sent' = <<>> THEN ~sendOk' ELSE sendOk' \in SendResults

Next ==
    \/ WithSend(VmBackupStart)
    \/ WithSend(VmBackupAbort)
    \/ WithSend(VmBackupSnapshotDone)
    \/ WithSend(VmBackupAsyncCallback)
    \/ WithSend(VmBackupKeepAliveCallback)
    \/ WithSend(OpCompletes)
    \/ WithSend(VmBackupShutdown)

\* The event manager runs every due timer, and the scripts and provider
\* operations terminate; the host is not assumed to send anything.  The
\* backdoor to the VMX may fail a send, but not every keep-alive forever.
Fairness ==
    /\ WF_vars(WithSend(VmBackupAsyncCallback))
    /\ WF_vars(WithSend(VmBackupKeepAliveCallback) /\ sendOk')
    /\ WF_vars(WithSend(OpCompletes))

Spec == Init /\ [][Next]_vars /\ Fairness


-----------------------------------------------------------------------------
(* Properties.                                                             *)

TypeOK ==
    /\ sid \in 0..MaxStarts
    /\ started \in 0..MaxStarts
    /\ registered \in BOOLEAN
    /\ currentOp \in OpStates
    /\ opName \in OpNames
    /\ callback \in Callbacks
    /\ forceRequeue \in BOOLEAN
    /\ syncProviderRunning \in BOOLEAN
    /\ snapshotDone \in BOOLEAN
    /\ timerEvent \in BOOLEAN
    /\ keepAlive \in BOOLEAN
    /\ IsABag(queue) /\ BagToSet(queue) \subseteq {"poll", "keepAlive"}
    /\ sent \in Seq(Events)
    /\ doneSent \in [Sessions -> 0..MaxStarts]
    /\ cbFailed \in BOOLEAN
    /\ providerActive \in BOOLEAN
    /\ sendOk \in BOOLEAN

\* The event manager holds exactly the events the live session owns: one
\* poll tick behind timerEvent and one keep-alive behind keepAlive while a
\* backup runs, nothing otherwise.  A missing tick leaves the backup hung
\* with nothing left to drive it; an extra or unowned event runs
\* VmBackupAsyncCallback or VmBackupKeepAliveCallback a second time, or
\* with gBackupState NULL.  It is about every path through
\* VmBackupAsyncCallback re-arming or finalizing, and VmBackupFinalize and
\* VmBackupSendEvent removing what they replace.
EventQueueMatchesSession ==
    /\ queue = IF sid = 0 THEN EmptyBag ELSE SetToBag({"poll", "keepAlive"})
    /\ timerEvent = (sid # 0)
    /\ keepAlive = (sid # 0)

\* No timer event is queued once gBackupState is NULL: a poll tick or a
\* keep-alive that fires then trips ASSERT(gBackupState != NULL) in
\* VmBackupAsyncCallback / VmBackupKeepAliveCallback and dereferences NULL.
NoTimerOutlivesSession ==
    sid = 0 => queue = EmptyBag

\* Every step in which the state machine reports requestorError to the VMX
\* also ends the backup, with requestorDone as its last event: no error
\* path of VmBackupStart, VmBackupAsyncCallback, VmBackupEnableSync,
\* VmBackupThaw or VmBackupSnapshotDone leaves the session running (the
\* finalize flag the poll tick recomputes at its end must not lose it).
ErrorIsTerminal ==
    [][(\E i \in 1..Len(sent') : sent'[i] = "requestorError")
         => /\ sid' = 0
            /\ sent'[Len(sent')] = "requestorDone"]_vars

\* A callback that returns FALSE makes the poll tick finalize the backup
\* (stateMachine.c:307): no session goes on after one of its callbacks
\* failed.
CallbackFailureFinalizes ==
    sid # 0 => ~cbFailed

\* The poll tick starts the thaw scripts only if the sync provider was
\* already running when the tick began, i.e. the "snapshot done" it acts
\* on cannot predate the provider's start (header: Start -> OnFreeze ->
\* run sync provider -> OnThaw).
ThawLaunched ==
    /\ opName' = "VmBackupThaw"
    /\ opName # "VmBackupThaw"

ThawAfterQuiescedSnapshot ==
    [][ThawLaunched => syncProviderRunning]_vars

\* No backup ends while the sync provider it started is still active: a
\* path that finalizes with the provider running tells it first, as
\* VmBackupAbort does with gSyncProvider->abort (stateMachine.c:479).
\* Otherwise the provider keeps the guest quiesced, or its resources held,
\* with no session left to thaw or abort it.  It is about the poll tick's
\* failed-op path (stateMachine.c:273-286) and every other finalize.
ProviderStoppedWithSession ==
    sid = 0 => ~providerActive

\* The backup life cycle the host sees (BackupLifecycle): the session's
\* phase follows from which op or provider is active, the acknowledgement
\* is the snapshotDone flag, sessions begun are the start RPCs, and those
\* ended are the requestorDone events VmBackupFinalize sent.
LifecyclePhase ==
    CASE sid = 0 -> "Idle"
      [] syncProviderRunning -> "SyncRunning"
      [] opName = "VmBackupThaw" -> "Thawing"
      [] OTHER -> "Freezing"

Lifecycle == INSTANCE BackupLifecycle WITH
    phase <- LifecyclePhase,
    acked <- snapshotDone,
    begun <- started,
    ended <- SumFunction(doneSent)

\* Every behaviour of the poll loop, its callbacks and the RPC handlers is
\* a behaviour of the abstract life cycle: no phase is skipped or entered
\* out of order (thaw only after the snapshot was acknowledged while the
\* provider ran), and each session that began sends one requestorDone.
LifecycleSpec == Lifecycle!Spec

\* The VMX keeps hearing from every live backup, even after a send that
\* failed: VmBackupSendEvent re-arms the keep-alive whatever RpcOut_sendOne
\* returned, so a lost event is followed by another while the session
\* lives, including while it waits, silent, for vmbackup.snapshotDone.
HostKeepsHearing ==
    \A s \in Sessions : (sid = s) ~> (sid # s \/ sendOk)

\* The host receives a terminal event for every session that ends (spec:
\* "the host always receives a terminal event ... guaranteed by Finalize").
\* When VmBackupFinalize's requestorDone is the only terminal event of the
\* ending step, it must reach the VMX: VmBackupSendEvent only logs a
\* failed RpcOut_sendOne, and the freed session never sends again.
TerminalEvents == {"requestorDone", "requestorError", "requestorAbort"}

HostHearsEveryEnd ==
    [][/\ \E s \in Sessions : doneSent'[s] > doneSent[s]
       /\ \A i \in 1..Len(sent') - 1 : sent'[i] \notin TerminalEvents
       => sendOk']_vars

\* Every backup ends, or reaches the point where it waits for the host's
\* vmbackup.snapshotDone: the poll loop never stalls or cycles with a
\* session alive, given that timers fire and the scripts and provider
\* operations terminate.
BackupProgresses ==
    (sid # 0) ~> (sid = 0 \/ AwaitingSnapshot)

=============================================================================
