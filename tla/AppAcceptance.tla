---------------------------- MODULE AppAcceptance ----------------------------
(***************************************************************************)
(* AppStartup with the attempts of run_p2p_acceptance in full: each wakes  *)
(* the camera (WakeCamera) and, when the options ask for it, runs the      *)
(* snapshot test (SnapshotProbe).  A camera that could not be woken is     *)
(* tested all the same.  What the probe raises ends the tests (Fails);     *)
(* when it returns, its report is judged like any other (Judge).  Later,   *)
(* start_stream wakes the camera in the same way, in the thread of a       *)
(* request.  Signals and requests come at every step of it.                *)
(***************************************************************************)
EXTENDS AppStartup, WakeCamera

CONSTANT Capacity  \* the frames the pipe between the children holds, at least one

ASSUME CapacityAssumption == Capacity \in Nat \ {0}

VARIABLES
    woken,  \* wake_requested
    test, raised, holds, helper, status, term, decoder, decoded, pipe

Snapshot == INSTANCE SnapshotProbe WITH pc <- test

testVars == <<test, raised, holds, helper, status, term, decoder, decoded, pipe>>
attemptVars == <<wakeVars, woken, testVars>>
appVars == <<vars, attemptVars>>

AppTypeOK == TypeOK /\ WakeTypeOK /\ woken \in BOOLEAN /\ Snapshot!TypeOK

AppInit == Init /\ WakeInit /\ woken = FALSE /\ Snapshot!Init

\* wake_camera is running, or about to return or to raise: for an attempt of main(), or
\* for a starter, which has the lock of the session and a bridge that main() sets after
\* its last attempt.  There is one call at a time.
Starter == session = "waking" /\ pc # "exited"
Waking == pc = "wake" \/ Starter

\* run_snapshot_probe is running, or about to return or to raise.
Testing == pc = "probe" /\ Mode = "snapshot"

\* set_status(wake_requested=...); a call that is refused raises WakeError.
TakeVerdict ==
    /\ verdict # "none"
    /\ woken' = (woken \/ verdict = "requested")
    /\ Forget

Woken ==
    /\ TakeVerdict
    /\ Wake
    /\ IF Mode = "snapshot" THEN Snapshot!Begin ELSE UNCHANGED testVars

Main ==
    \/ pc # "wake" /\ ~Testing /\ MainStep /\ UNCHANGED attemptVars
    \/ pc = "wake" /\ Progress /\ UNCHANGED <<vars, woken, testVars>>
    \/ Woken
    \/ Testing /\ test = "passed" /\ Probe /\ UNCHANGED attemptVars
    \/ Testing /\ test = "failed" /\ Fails /\ UNCHANGED attemptVars
    \/ Testing /\ Snapshot!AppStep /\ UNCHANGED <<vars, wakeVars, woken>>

\* The clock of a wake-up.
Clock == Waking /\ TimePasses /\ UNCHANGED <<vars, woken, testVars>>

\* The helper and the decoder of a test.
Child == Testing /\ Snapshot!ChildStep /\ UNCHANGED <<vars, wakeVars, woken>>

\* start_stream, in the thread of a request.
Start ==
    \/ Starter /\ Progress /\ UNCHANGED <<vars, woken, testVars>>
    \/ StreamWoken /\ TakeVerdict /\ UNCHANGED testVars
    \/ StreamStarted /\ UNCHANGED attemptVars

\* The signal handler, a request that comes first, and the end of a stream.
Thread == (RequestStop \/ StartStream \/ StreamEnds) /\ UNCHANGED attemptVars

AppNext == Main \/ Clock \/ Child \/ Start \/ Thread

\* Every step of main() and of a starter has a timeout.  CloseSession may be overtaken
\* by starters, but the lock is not kept from it for ever.  The children of a test are
\* not relied on, nor is the node of the wake service, which may answer until the time
\* is over.
AppSpec ==
    /\ AppInit
    /\ [][AppNext]_appVars
    /\ WF_appVars(Main)
    /\ WF_appVars(Clock)
    /\ WF_appVars(Start)
    /\ SF_appVars(CloseSession /\ UNCHANGED attemptVars)

-----------------------------------------------------------------------------
(* Properties *)

\* However an attempt ends, its wake-up leaves no connection and its test no process
\* behind: the next attempt, or the first stream of the bridge, would find the camera
\* taken.
AttemptLeavesNothing ==
    /\ verdict # "none" => \A p \in Ports : open[p] = {}
    /\ ~Testing \/ test \in {"passed", "failed"} =>
           helper \in {"none", "exited"} /\ decoder \in {"none", "exited"}

\* wake_requested, which GET /ready shows, is true only if a node of the wake service
\* has been sent the command, in whichever attempt, by main() or for a stream, and
\* through whichever port.
RequestedWasSent == woken => commanded

\* A snapshot test that passed has an image, and a helper that left by itself, so
\* that it had the time to stop the stream and to disconnect.
PassedMeansClean == Snapshot!PassedMeansClean
=============================================================================
