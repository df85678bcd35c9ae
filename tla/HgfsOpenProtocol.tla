-------------------------- MODULE HgfsOpenProtocol --------------------------
(***************************************************************************)
(* What the HGFS client's open and close promise the processes that call  *)
(* open(2) and close(2), free of requests, replies and retries:            *)
(*                                                                         *)
(*   idle -> opening -> opened -> closing -> closed                        *)
(*                   \-> failed                                            *)
(*                                                                         *)
(* An open may also fail before anything is sent, and a close may end      *)
(* without a request.  The guest holds the server's handle exactly while   *)
(* the file is opened.  The Open version all callers share only goes down, *)
(* and only while an open is in flight.  Every open and every close that   *)
(* began ends.                                                             *)
(*                                                                         *)
(* HgfsOpen.tla implements this specification under the mapping given     *)
(* there (OpenProtocolSpec).                                               *)
(***************************************************************************)
CONSTANT Threads

VARIABLES
    state,     \* per thread: where its open(2)/close(2) is
    holds,     \* per thread: the guest holds the server's handle
    version    \* the Open version shared by all callers

ovars == <<state, holds, version>>

Init ==
    /\ state = [t \in Threads |-> "idle"]
    /\ holds = [t \in Threads |-> FALSE]
    /\ version = "V2"

Set(t, s) == state' = [state EXCEPT ![t] = s]

\* open(2) starts, or fails at once (no request, nothing packed).
Call(t) ==
    /\ state[t] = "idle"
    /\ \/ Set(t, "opening")
       \/ Set(t, "failed")
    /\ UNCHANGED <<holds, version>>

\* The server's refusal of the newer Open lowers the shared version.
Downgrade(t) ==
    /\ state[t] = "opening"
    /\ version = "V2"
    /\ version' = "V1"
    /\ UNCHANGED <<state, holds>>

\* The open ends: opened with the handle, or failed without it.
Complete(t) ==
    /\ state[t] = "opening"
    /\ \/ Set(t, "opened") /\ holds' = [holds EXCEPT ![t] = TRUE]
       \/ Set(t, "failed") /\ UNCHANGED holds
    /\ UNCHANGED version

\* close(2) gives the handle up, and sends Close or cannot.
Close(t) ==
    /\ state[t] = "opened"
    /\ holds' = [holds EXCEPT ![t] = FALSE]
    /\ \/ Set(t, "closing")
       \/ Set(t, "closed")
    /\ UNCHANGED version

CloseDone(t) ==
    /\ state[t] = "closing"
    /\ Set(t, "closed")
    /\ UNCHANGED <<holds, version>>

Next ==
    \E t \in Threads :
        Call(t) \/ Downgrade(t) \/ Complete(t) \/ Close(t) \/ CloseDone(t)

Spec ==
    /\ Init /\ [][Next]_ovars
    /\ \A t \in Threads : WF_ovars(Complete(t)) /\ WF_ovars(CloseDone(t))

=============================================================================
