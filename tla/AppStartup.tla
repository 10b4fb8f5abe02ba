----------------------------- MODULE AppStartup -----------------------------
(***************************************************************************)
(* The app process (okam_native_app/app_entrypoint.py): main() prepares    *)
(* the runtime, finds the camera of the account, runs the tests the        *)
(* options ask for, publishes the bridge, and waits for a signal.  The     *)
(* HTTP server answers from the start; once the bridge is there a request  *)
(* may start a stream (start_stream), in a thread of its own.              *)
(*                                                                         *)
(* A test is one run of a helper (HelperProcess, HybrisHelper) whose       *)
(* report a function of p2p.py checks.  The stream session is              *)
(* StreamSession, reduced to its starter and its end.                      *)
(***************************************************************************)
EXTENDS Naturals, Sequences

CONSTANT Attempts  \* how often the tests are tried: 3

ASSUME AttemptsAssumption == Attempts \in Nat \ {0}

Tests == {"connect", "auth", "stream", "snapshot"}
Flags == {"loader", "account", "p2p", "authenticated", "h264", "snapshot", "camera"}

\* What a helper reports, in the fields the tests are judged by.
Report == [connected : BOOLEAN, authenticated : BOOLEAN, h264 : BOOLEAN,
           disconnected : BOOLEAN]
NoReport == [connected |-> FALSE, authenticated |-> FALSE, h264 |-> FALSE,
             disconnected |-> FALSE]

VARIABLES
    options,   \* the tests that are enabled, run_..._test
    pc,        \* where main() is
    attempt,   \* of run_p2p_acceptance
    report,    \* result
    ready,     \* the ..._ready and camera_authenticated flags of STATUS that are set
    phase,     \* STATUS["phase"], as far as it tells the outcomes apart
    bridge,    \* BRIDGE is set
    session,   \* of the bridge: "none", "idle", "waking", "starting", "running", "closed"
    stop       \* the event the signal handlers set

main == <<attempt, report, ready, phase>>
vars == <<options, pc, main, bridge, session, stop>>

Phases == {"starting", "testing", "error", "loader_error", "token_required", "ready",
           "on_demand"}

TypeOK ==
    /\ options \subseteq Tests
    /\ pc \in {"runtime", "account", "begin", "wake", "probe", "judge", "configure",
               "publish", "wait", "close", "shutdown", "exited"}
    /\ attempt \in 0 .. Attempts
    /\ report \in Report
    /\ ready \subseteq Flags
    /\ phase \in Phases
    /\ bridge \in BOOLEAN /\ stop \in BOOLEAN
    /\ session \in {"none", "idle", "waking", "starting", "running", "closed"}

Init ==
    /\ options \in SUBSET Tests
    /\ pc = "runtime"
    /\ attempt = 0
    /\ report = NoReport
    /\ ready = {}
    /\ phase = "starting"
    /\ bridge = FALSE
    /\ session = "none"
    /\ stop = FALSE

Goto(from, to) == pc = from /\ pc' = to

\* The strongest test that is enabled decides what is run.
Mode ==
    IF "snapshot" \in options THEN "snapshot"
    ELSE IF "stream" \in options THEN "stream"
    ELSE IF "auth" \in options THEN "auth" ELSE "connect"

Authenticates == Mode # "connect"
Streams == Mode \in {"stream", "snapshot"}

-----------------------------------------------------------------------------
(* main() *)

\* except Exception: the app stays up and reports the error.
Fails ==
    /\ pc \in {"runtime", "account", "begin", "probe", "configure"}
    /\ pc' = "wait"
    /\ phase' = IF "loader" \in ready THEN "error" ELSE "loader_error"
    /\ UNCHANGED <<options, attempt, report, ready, bridge, session, stop>>

LoadRuntime ==
    /\ Goto("runtime", "account")
    /\ ready' = ready \cup {"loader"}
    /\ UNCHANGED <<options, attempt, report, phase, bridge, session, stop>>

\* Without a configured account there is nothing to do but wait.
Unconfigured ==
    /\ Goto("account", "wait")
    /\ UNCHANGED <<options, main, bridge, session, stop>>

\* Eye4AccountClient.enumerate: an entry without a usable identifier is passed over.
Devices(entries) == SelectSeq(entries, LAMBDA e : e = "camera")

Entries == UNION {[1..n -> {"camera", "unusable"}] : n \in 0..2}

\* The account has exactly one camera.
EnumerateAccount ==
    /\ pc = "account"
    /\ \E entries \in Entries :
         IF Len(Devices(entries)) = 1
           THEN pc' = "begin" /\ ready' = ready \cup {"account"} /\ UNCHANGED phase
           ELSE pc' = "wait" /\ phase' = "error" /\ UNCHANGED ready
    /\ UNCHANGED <<options, attempt, report, bridge, session, stop>>

BeginAcceptance ==
    /\ IF options = {}
         THEN Goto("begin", "configure") /\ UNCHANGED <<attempt, phase>>
         ELSE Goto("begin", "wake") /\ attempt' = 1 /\ phase' = "testing"
    /\ UNCHANGED <<options, report, ready, bridge, session, stop>>

\* Whether the wake-up succeeds or not.
Wake ==
    /\ Goto("wake", "probe")
    /\ phase' = "testing"
    /\ UNCHANGED <<options, attempt, report, ready, bridge, session, stop>>

\* The reports that pass the checks of run_connect_probe, run_authentication_probe and
\* _stream_result, in the fields their helper fills in its mode.
ConnectReports == {r \in Report : ~r.authenticated /\ ~r.h264}
LoginReports == {r \in Report : ~r.h264 /\ (r.authenticated => r.connected)}
StreamReports == {r \in Report : /\ r.authenticated => r.connected
                                 /\ r.h264 => r.authenticated}

Reports ==
    IF Streams THEN StreamReports
    ELSE IF Authenticates THEN LoginReports ELSE ConnectReports

\* Everything else raises P2PError, see Fails.
Probe ==
    /\ Goto("probe", "judge")
    /\ report' \in Reports
    /\ UNCHANGED <<options, attempt, ready, phase, bridge, session, stop>>

Passed ==
    /\ report.disconnected
    /\ report.connected \/ Streams
    /\ Authenticates /\ ~Streams => report.authenticated
    /\ Streams => report.h264

\* The flags a report sets; those of the login also when the test has not passed.
Earned ==
    (IF Authenticates /\ report.authenticated THEN {"p2p", "authenticated"} ELSE {})
    \cup (IF Passed /\ ~Streams THEN {"p2p"} ELSE {})
    \cup (IF Passed /\ Streams THEN {"h264"} ELSE {})
    \cup (IF Passed /\ Mode = "snapshot" THEN {"snapshot"} ELSE {})

\* A variant that goes on to the bridge after the last attempt.
WrongJudge ==
    /\ pc = "judge"
    /\ ready' = ready \cup Earned
    /\ \/ Passed /\ pc' = "configure" /\ UNCHANGED <<attempt, report, phase>>
       \/ ~Passed /\ attempt < Attempts /\ pc' = "wake" /\ attempt' = attempt + 1
          /\ report' = NoReport /\ UNCHANGED phase
       \/ ~Passed /\ attempt = Attempts /\ pc' = "configure"
          /\ UNCHANGED <<attempt, report, phase>>
    /\ UNCHANGED <<options, bridge, session, stop>>

\* A test that did not pass is tried again, with nothing left of its report; after the
\* last attempt it is an error.
Judge ==
    /\ pc = "judge"
    /\ ready' = ready \cup Earned
    /\ \/ Passed /\ pc' = "configure" /\ UNCHANGED <<attempt, report, phase>>
       \/ ~Passed /\ attempt < Attempts /\ pc' = "wake" /\ attempt' = attempt + 1
          /\ report' = NoReport /\ UNCHANGED phase
       \/ ~Passed /\ attempt = Attempts /\ pc' = "wait" /\ phase' = "error"
          /\ UNCHANGED <<attempt, report>>
    /\ UNCHANGED <<options, bridge, session, stop>>

TokenRequired ==
    /\ Goto("configure", "wait")
    /\ phase' = "token_required"
    /\ UNCHANGED <<options, attempt, report, ready, bridge, session, stop>>

\* configure_bridge: from here on requests reach the session.
SetBridge ==
    /\ Goto("configure", "publish")
    /\ bridge' = TRUE
    /\ session' = "idle"
    /\ UNCHANGED <<options, main, stop>>

PublishReady ==
    /\ Goto("publish", "wait")
    /\ ready' = ready \cup {"camera"}
    /\ phase' = "ready"
    /\ UNCHANGED <<options, attempt, report, bridge, session, stop>>

StopWait ==
    /\ Goto("wait", "close")
    /\ stop
    /\ UNCHANGED <<options, main, bridge, session, stop>>

\* session.close() needs the lock, which a starter holds.
CloseSession ==
    /\ Goto("close", "shutdown")
    /\ session \notin {"waking", "starting"}
    /\ session' = IF bridge THEN "closed" ELSE session
    /\ UNCHANGED <<options, main, bridge, stop>>

ShutDown ==
    /\ Goto("shutdown", "exited")
    /\ UNCHANGED <<options, main, bridge, session, stop>>

\* The handler of SIGTERM and SIGINT; main() looks at the event only in "wait".
RequestStop ==
    /\ stop' = TRUE
    /\ UNCHANGED <<options, pc, main, bridge, session>>

-----------------------------------------------------------------------------
(* The threads of the requests *)

\* start_stream, called by the session with its lock: first it wakes the camera ...
StartStream ==
    /\ bridge /\ session = "idle" /\ pc # "exited"
    /\ session' = "waking"
    /\ phase' = "on_demand"
    /\ UNCHANGED <<options, pc, attempt, report, ready, bridge, stop>>

\* ... and whether that succeeds or not ...
StreamWoken ==
    /\ session = "waking" /\ pc # "exited"
    /\ session' = "starting"
    /\ phase' = "on_demand"
    /\ UNCHANGED <<options, pc, attempt, report, ready, bridge, stop>>

\* ... it starts the helper, or cannot.
StreamStarted ==
    /\ session = "starting" /\ pc # "exited"
    /\ session' \in {"running", "idle"}
    /\ UNCHANGED <<options, pc, main, bridge, stop>>

StreamEnds ==
    /\ session = "running" /\ pc # "exited"
    /\ session' = "idle"
    /\ UNCHANGED <<options, pc, main, bridge, stop>>

-----------------------------------------------------------------------------
MainStep ==
    \/ Fails \/ LoadRuntime \/ Unconfigured \/ EnumerateAccount \/ BeginAcceptance
    \/ Wake \/ Probe \/ Judge \/ TokenRequired \/ SetBridge \/ PublishReady
    \/ StopWait \/ CloseSession \/ ShutDown

Next == MainStep \/ RequestStop \/ StartStream \/ StreamWoken \/ StreamStarted \/ StreamEnds

Spec == Init /\ [][Next]_vars

-----------------------------------------------------------------------------
(* Properties *)

\* camera_ready is reported only once every test that was asked for has passed on
\* one and the same attempt, with a clean disconnect.
CameraReadyIsEarned ==
    "camera" \in ready =>
        /\ {"loader", "account"} \subseteq ready /\ bridge
        /\ options # {} => Passed /\ report.disconnected

\* A signal ends the app, also one that comes during the tests or while a request's
\* thread, which has the lock of the session, wakes the camera.
StopExits == stop ~> pc = "exited"
=============================================================================
