--------------------------- MODULE HelperContract ---------------------------
(***************************************************************************)
(* What a camera helper promises the bridge, whichever transport is built  *)
(* in (docs/architecture.md: "Both transports implement the same           *)
(* credential-safe helper contract"): it starts the stream only on a       *)
(* session that is connected, stops it before it disconnects unless a      *)
(* command has failed, and does not end of its own accord before it has    *)
(* disconnected.                                                           *)
(***************************************************************************)
VARIABLES
    session,  \* what the helper holds: "none", "connected" or "streaming"
    failed,   \* a command has failed
    process   \* "runs", "ended" of its own accord, or "killed" by a signal

vars == <<session, failed, process>>

Init == session = "none" /\ failed = FALSE /\ process = "runs"

Connect == session = "none" /\ session' = "connected" /\ UNCHANGED <<failed, process>>

StartStream ==
    /\ session = "connected" /\ ~failed
    /\ session' = "streaming"
    /\ UNCHANGED <<failed, process>>

StopStream ==
    /\ session = "streaming"
    /\ session' = "connected"
    /\ UNCHANGED <<failed, process>>

\* A command fails, perhaps because the camera has closed the session.
Fail ==
    /\ failed' = TRUE
    /\ session' \in {session, "none"}
    /\ UNCHANGED process

Disconnect ==
    /\ session = "connected" \/ failed
    /\ session' = "none"
    /\ UNCHANGED <<failed, process>>

End == session = "none" /\ process' = "ended" /\ UNCHANGED <<session, failed>>

Killed == process' = "killed" /\ UNCHANGED <<session, failed>>

Next ==
    /\ process = "runs"
    /\ Connect \/ StartStream \/ StopStream \/ Fail \/ Disconnect \/ End \/ Killed

Spec == Init /\ [][Next]_vars
=============================================================================
