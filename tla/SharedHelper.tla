---------------------------- MODULE SharedHelper ----------------------------
(***************************************************************************)
(* What NativeStreamSession promises about its helper, whoever watches:    *)
(* there is one helper at a time, because the camera serves one client at  *)
(* a time; a helper that has ended is never the current one again; and     *)
(* none is started once the session is shut.                               *)
(***************************************************************************)
CONSTANTS
    Helpers,  \* the helpers that may ever be started
    NoHelper  \* there is none, and this is no helper

VARIABLES
    current,  \* the helper that runs, or NoHelper
    spent,    \* the helpers started so far
    shut      \* the session is closed

vars == <<current, spent, shut>>

Init ==
    /\ current = NoHelper
    /\ spent = {}
    /\ shut = FALSE

Start(h) ==
    /\ current = NoHelper
    /\ h \notin spent
    /\ ~shut
    /\ current' = h
    /\ spent' = spent \cup {h}
    /\ UNCHANGED shut

Stop ==
    /\ current # NoHelper
    /\ current' = NoHelper
    /\ UNCHANGED <<spent, shut>>

Shut ==
    /\ ~shut
    /\ shut' = TRUE
    /\ UNCHANGED <<current, spent>>

Next == (\E h \in Helpers : Start(h)) \/ Stop \/ Shut

Spec == Init /\ [][Next]_vars
=============================================================================
