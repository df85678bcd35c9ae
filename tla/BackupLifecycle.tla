--------------------------- MODULE BackupLifecycle ---------------------------
(***************************************************************************)
(* What the guest backup state machine promises the host, independent of  *)
(* its poll loop, timers and callbacks: a backup session goes through      *)
(*                                                                         *)
(*    Idle -> Freezing -> SyncRunning -> Thawing -> Idle                   *)
(*                                                                         *)
(* may end early from any phase (error or abort), is thawed only after the *)
(* host acknowledged the snapshot while the sync provider ran, and every   *)
(* session that began ends exactly once with requestorDone.                *)
(*                                                                         *)
(* VmBackup.tla implements this specification under the mapping given     *)
(* there (LifecycleSpec).                                                  *)
(***************************************************************************)
EXTENDS Naturals

VARIABLES
    phase,    \* the phase of the current session, or "Idle"
    acked,    \* the host's snapshotDone was accepted for this session
    begun,    \* sessions the host started
    ended     \* requestorDone events sent, one per finished session

avars == <<phase, acked, begun, ended>>

Phases == {"Idle", "Freezing", "SyncRunning", "Thawing"}

Init ==
    /\ phase = "Idle"
    /\ acked = FALSE
    /\ begun = 0
    /\ ended = 0

\* A start with no backup running begins the freeze phase.
Start ==
    /\ phase = "Idle"
    /\ phase' = "Freezing"
    /\ begun' = begun + 1
    /\ UNCHANGED <<acked, ended>>

\* A start whose freeze phase cannot be launched ends at once.
Rejected ==
    /\ phase = "Idle"
    /\ begun' = begun + 1
    /\ ended' = ended + 1
    /\ UNCHANGED <<phase, acked>>

\* The freeze phase is over and the sync provider runs.
SyncEnabled ==
    /\ phase = "Freezing"
    /\ phase' = "SyncRunning"
    /\ UNCHANGED <<acked, begun, ended>>

\* The host reports the snapshot taken while the provider runs.
SnapshotAcknowledged ==
    /\ phase = "SyncRunning"
    /\ ~acked
    /\ acked' = TRUE
    /\ UNCHANGED <<phase, begun, ended>>

\* The thaw phase begins once the snapshot was acknowledged.
Thaw ==
    /\ phase = "SyncRunning"
    /\ acked
    /\ phase' = "Thawing"
    /\ UNCHANGED <<acked, begun, ended>>

\* The session ends, normally or not, and the host is told once.
Finish ==
    /\ phase # "Idle"
    /\ phase' = "Idle"
    /\ acked' = FALSE
    /\ ended' = ended + 1
    /\ UNCHANGED begun

Next ==
    \/ Start
    \/ Rejected
    \/ SyncEnabled
    \/ SnapshotAcknowledged
    \/ Thaw
    \/ Finish

Spec == Init /\ [][Next]_avars

\* Every session that began has ended, except the one in progress.
SessionsAccounted ==
    /\ ended <= begun
    /\ (phase = "Idle") = (ended = begun)
    /\ acked => phase \in {"SyncRunning", "Thawing"}

=============================================================================
