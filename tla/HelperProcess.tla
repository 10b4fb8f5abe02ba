---------------------------- MODULE HelperProcess ----------------------------
(***************************************************************************)
(* The amd64 helper (src/okam_native/amd64_helper.py): one process that    *)
(* connects, logs in, starts the stream, forwards frames until it is told  *)
(* to stop, stops the stream and disconnects.  Its parent ends it with     *)
(* SIGTERM, and with SIGKILL when that takes too long (_terminate in       *)
(* session.py; the probes of p2p.py kill it at their timeouts).            *)
(*                                                                         *)
(* CameraLogin, RelayConnect and DrwReceiver have the insides of a command; *)
(* here a command succeeds or raises CS2Error.  "camera" is what the camera *)
(* believes; a command that raises may have reached it all the same.       *)
(***************************************************************************)
EXTENDS Integers

CONSTANT Stalls  \* TRUE: the camera may be silent until the parent sends SIGKILL

ASSUME StallsAssumption == Stalls \in BOOLEAN

Modes == {"connect", "authenticate", "stream-test", "stream-stdout"}
Places == {"input", "connect", "login", "start", "answer", "handlers", "test",
           "read", "stop", "close", "except", "exceptclose", "return", "exited"}
Runs == -1       \* code of a process that runs
Killed == -15    \* code of a process that a signal ended

VARIABLES
    mode,           \* the option the parent gave
    pc,             \* where main() and run() are
    catching,       \* the signal handlers are installed
    running,        \* _running
    term,           \* the parent has sent SIGTERM
    link,           \* the CS2Session: "new", "open" or "closed"
    connected, authenticated, startSent, stopSent, h264,  \* the result
    stopTried,      \* the stop command has been tried, whatever came of it
    error,          \* a CS2Error has been raised
    stuck,          \* bytes of a frame are left in the buffer of stdout
    camera,         \* "idle", "bound" or "streaming"
    lost,           \* the datagram that closes the session was lost
    code            \* exit status

result == <<connected, authenticated, startSent, stopTried, stopSent, h264>>
signals == <<catching, running, term>>
vars == <<mode, pc, signals, link, result, error, stuck, camera, lost, code>>

TypeOK ==
    /\ mode \in Modes
    /\ pc \in Places
    /\ {catching, running, term, connected, authenticated, startSent, stopTried,
        stopSent, h264, error, stuck, lost} \subseteq BOOLEAN
    /\ link \in {"new", "open", "closed"}
    /\ camera \in {"idle", "bound", "streaming"}
    /\ code \in {Runs, Killed, 0, 3, 4, 5, 6, 120}
    /\ pc = "exited" <=> code # Runs

Init ==
    /\ mode \in Modes
    /\ pc = "input"
    /\ catching = FALSE /\ running = TRUE /\ term = FALSE
    /\ link = "new"
    /\ connected = FALSE /\ authenticated = FALSE
    /\ startSent = FALSE /\ stopTried = FALSE /\ stopSent = FALSE /\ h264 = FALSE
    /\ error = FALSE /\ stuck = FALSE /\ lost = FALSE
    /\ camera = "idle"
    /\ code = Runs

Goto(from, to) == pc = from /\ pc' = to

-----------------------------------------------------------------------------
(* The commands of run() *)

\* main() reads the fields of its input and makes a session of them; a field that
\* is missing or malformed is the end of it.
ReadInput ==
    /\ \/ Goto("input", "connect") /\ UNCHANGED code
       \/ Goto("input", "exited") /\ code' = 3
    /\ UNCHANGED <<mode, signals, link, result, error, stuck, camera, lost>>

Connect ==
    /\ Goto("connect", IF mode = "connect" THEN "close" ELSE "login")
    /\ link' = "open"
    /\ camera' = "bound"
    /\ connected' = TRUE
    /\ UNCHANGED <<mode, signals, authenticated, startSent, stopTried, stopSent, h264,
                   error, stuck, lost, code>>

\* Out of time, connect() has closed the session, with datagrams that may be lost;
\* a send that failed has not.  Either way the camera may have bound the helper: only
\* the helper has not heard of it.
ConnectFails ==
    /\ Goto("connect", "except")
    /\ \/ link' = "new" /\ camera' \in {"idle", "bound"} /\ UNCHANGED lost
       \/ link' = "closed" /\ camera' = "idle" /\ UNCHANGED lost
       \/ link' = "closed" /\ camera' = "bound" /\ lost' = TRUE
    /\ error' = TRUE
    /\ UNCHANGED <<mode, signals, result, stuck, code>>

Login ==
    /\ Goto("login", IF mode = "authenticate" THEN "close" ELSE "start")
    /\ authenticated' = TRUE
    /\ UNCHANGED <<mode, signals, link, connected, startSent, stopTried, stopSent, h264,
                   error, stuck, camera, lost, code>>

StartStream ==
    /\ Goto("start", "answer")
    /\ startSent' = TRUE
    /\ camera' = "streaming"
    /\ UNCHANGED <<mode, signals, link, connected, authenticated, stopTried, stopSent,
                   h264, error, stuck, lost, code>>

\* The answer to the start is read, or does not come within its ten seconds.
ReadAnswer ==
    /\ Goto("answer", "handlers")
    /\ UNCHANGED <<mode, signals, link, result, error, stuck, camera, lost, code>>

InstallHandlers ==
    /\ Goto("handlers", "test")
    /\ catching' = TRUE
    /\ UNCHANGED <<mode, running, term, link, result, error, stuck, camera, lost, code>>

\* A variant that leaves the loop only when a read or a write fails.
WrongTestRunning ==
    /\ Goto("test", "read")
    /\ UNCHANGED <<mode, signals, link, result, error, stuck, camera, lost, code>>

TestRunning ==
    /\ Goto("test", IF running THEN "read" ELSE "stop")
    /\ UNCHANGED <<mode, signals, link, result, error, stuck, camera, lost, code>>

\* A frame that is no H.264 is skipped.
SkipFrame ==
    /\ Goto("read", "test")
    /\ UNCHANGED <<mode, signals, link, result, error, stuck, camera, lost, code>>

\* A frame is counted and forwarded.  The loop ends when stdout is closed, which
\* may leave a small frame in its buffer, and in a test when it has seen enough.
Frame ==
    /\ h264' = TRUE
    /\ \/ Goto("read", "test") /\ UNCHANGED stuck
       \/ mode = "stream-test" /\ Goto("read", "stop") /\ UNCHANGED stuck
       \/ mode = "stream-stdout" /\ Goto("read", "stop") /\ stuck' \in BOOLEAN
    /\ UNCHANGED <<mode, signals, link, connected, authenticated, startSent, stopTried,
                   stopSent, error, camera, lost, code>>

StopStream ==
    /\ Goto("stop", "close")
    /\ stopTried' = TRUE /\ stopSent' = TRUE
    /\ camera' = "bound"
    /\ UNCHANGED <<mode, signals, link, connected, authenticated, startSent, h264,
                   error, stuck, lost, code>>

\* CS2Error: nothing can be sent any more; or no acknowledgement comes in time,
\* though the camera may have acted on the command ("after"); or its answer is
\* broken; or it closes the session.
CommandFails(after) ==
    \/ link = "closed" /\ UNCHANGED <<link, camera>>
    \/ link = "open" /\ camera' \in {camera, after} /\ UNCHANGED link
    \/ link = "open" /\ link' = "closed" /\ camera' = "idle"

RaiseAt(place, after) ==
    /\ Goto(place, "except")
    /\ CommandFails(after)
    /\ error' = TRUE
    /\ stopTried' = (stopTried \/ place = "stop")
    /\ UNCHANGED <<mode, signals, connected, authenticated, startSent, stopSent, h264,
                   stuck, lost, code>>

Raise ==
    \/ RaiseAt("start", "streaming")
    \/ RaiseAt("stop", "bound")
    \/ \E place \in {"login", "answer", "read"} : RaiseAt(place, camera)

-----------------------------------------------------------------------------
(* The end of run() and of the process *)

\* session.close(): one datagram, which may be lost; nothing if already closed.
CloseSession ==
    IF link = "closed"
      THEN UNCHANGED <<link, camera, lost>>
      ELSE /\ link' = "closed"
           /\ \/ camera' = "idle" /\ UNCHANGED lost
              \/ lost' = TRUE /\ UNCHANGED camera

Close ==
    /\ Goto("close", "return")
    /\ CloseSession
    /\ UNCHANGED <<mode, signals, result, error, stuck, code>>

\* A variant that closes the session without a try at stopping the stream.
WrongStopAfterError ==
    /\ Goto("except", "exceptclose")
    /\ UNCHANGED <<mode, signals, link, result, error, stuck, camera, lost, code>>

\* except CS2Error: a stream that was started is stopped, if that can be done.
StopAfterError ==
    /\ Goto("except", "exceptclose")
    /\ \/ /\ ~(startSent /\ ~stopSent)
          /\ UNCHANGED <<link, stopTried, stopSent, camera>>
       \/ /\ startSent /\ ~stopSent /\ link = "open"
          /\ stopTried' = TRUE /\ stopSent' = TRUE /\ camera' = "bound"
          /\ UNCHANGED link
       \/ /\ startSent /\ ~stopSent
          /\ stopTried' = TRUE
          /\ CommandFails("bound")
          /\ UNCHANGED stopSent
    /\ UNCHANGED <<mode, signals, connected, authenticated, startSent, h264, error,
                   stuck, lost, code>>

\* A variant that leaves the session open after an error.
WrongCloseAfterError ==
    /\ Goto("exceptclose", "return")
    /\ UNCHANGED <<mode, signals, link, result, error, stuck, camera, lost, code>>

CloseAfterError ==
    /\ Goto("exceptclose", "return")
    /\ CloseSession
    /\ UNCHANGED <<mode, signals, result, error, stuck, code>>

\* A variant that does not ask for a frame.
WrongStatus ==
    IF error THEN (IF ~connected THEN 4 ELSE IF ~authenticated THEN 5 ELSE 6) ELSE 0

\* What run() returns: 0, or how far it came.
Status ==
    IF error THEN (IF ~connected THEN 4 ELSE IF ~authenticated THEN 5 ELSE 6)
    ELSE IF mode \in {"connect", "authenticate"} \/ h264 THEN 0 ELSE 6

\* The interpreter flushes stdout as it ends; when that fails the status is 120.
Return ==
    /\ Goto("return", "exited")
    /\ code' = IF stuck THEN 120 ELSE Status
    /\ UNCHANGED <<mode, signals, link, result, error, stuck, camera, lost>>

-----------------------------------------------------------------------------
(* The parent *)

Die == pc' = "exited" /\ code' = Killed

\* Before the handlers are installed SIGTERM ends the process.
Terminate ==
    /\ mode = "stream-stdout" /\ ~term /\ pc # "exited"
    /\ term' = TRUE
    /\ IF catching
         THEN running' = FALSE /\ UNCHANGED <<pc, code>>
         ELSE Die /\ UNCHANGED running
    /\ UNCHANGED <<mode, catching, link, result, error, stuck, camera, lost>>

\* The parent waits ten seconds after SIGTERM, and a probe waits for its timeout:
\* they run out while the helper waits for the camera, in a read for up to 45.
Kill ==
    /\ Stalls
    /\ term \/ mode # "stream-stdout"
    /\ pc \in {"connect", "login", "start", "answer", "read", "stop", "except"}
    /\ Die
    /\ UNCHANGED <<mode, signals, link, result, error, stuck, camera, lost>>

-----------------------------------------------------------------------------
HelperStep ==
    \/ ReadInput \/ Connect \/ ConnectFails \/ Login \/ StartStream \/ ReadAnswer
    \/ InstallHandlers \/ TestRunning \/ SkipFrame \/ Frame \/ StopStream \/ Raise
    \/ Close \/ StopAfterError \/ CloseAfterError \/ Return

Next == HelperStep \/ Terminate \/ Kill

Spec == Init /\ [][Next]_vars

-----------------------------------------------------------------------------
(* Properties *)

\* A helper that ends by itself, wherever a command failed, has tried to stop a
\* stream it knows it started, leaves the camera bound only if the datagram that
\* closes the session was lost, and streaming only if no stop was acknowledged.
QuietCamera ==
    code \notin {Runs, Killed} =>
        /\ startSent => stopTried
        /\ camera # "idle" => lost
        /\ camera = "streaming" => ~stopSent

\* Status 0 is only reported for what the mode asks for.
SuccessIsReal ==
    code = 0 => /\ connected /\ link = "closed"
                /\ mode # "connect" => authenticated
                /\ mode \in {"stream-test", "stream-stdout"} => startSent /\ stopSent /\ h264

\* What the helper holds, and how it ended, in the words of the contract.
Holds ==
    IF link # "open" THEN "none"
    ELSE IF startSent /\ ~stopSent THEN "streaming" ELSE "connected"

Ended == CASE code = Runs -> "runs" [] code = Killed -> "killed" [] OTHER -> "ended"

\* README.md:22, "Automatic stream stop and clean disconnect after the last viewer
\* leaves": SIGTERM, which is how the bridge says so, leaves no camera bound.
TermDisconnects == term /\ pc = "exited" => camera = "idle" \/ lost

\* The same, of a helper that is there to catch the signal.
CaughtTermDisconnects == catching => TermDisconnects

\* The statuses p2p.py:417 expects of a helper that was not killed; another one is
\* "native H.264 helper failed safely".
StatusIsKnown == code \in {Runs, Killed, 0, 4, 5, 6}
=============================================================================
