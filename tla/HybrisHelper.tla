---------------------------- MODULE HybrisHelper ----------------------------
(***************************************************************************)
(* The aarch64 helper (native/hybris_connect/hybris_connect.c): main() on  *)
(* the vendor's client library, which is external: each of its calls       *)
(* succeeds or fails, and is modelled by what main() does with the answer. *)
(* Its parent is that of HelperProcess.                                    *)
(***************************************************************************)
EXTENDS Integers

Modes == {"connect", "authenticate", "stream-test", "stream-stdout"}
Places == {"load", "create", "connect", "login", "start", "handlers", "test", "read",
           "stop", "disconnect", "return", "exited"}
Runs == -1
Killed == -15

VARIABLES
    mode,       \* the option the parent gave
    pc,         \* where main() is
    catching,   \* the handlers of SIGINT and SIGTERM are installed
    running,    \* stream_running
    term,       \* the parent has sent SIGTERM
    connected, authenticated, startSent, stopSent, h264, disconnected,  \* the summary
    session,    \* the client's: "none", "connected" or "streaming"
    failed,     \* a command has failed
    code        \* exit status

result == <<connected, authenticated, startSent, stopSent, h264, disconnected>>
signals == <<catching, running, term>>
vars == <<mode, pc, signals, result, session, failed, code>>

Streams == mode \in {"stream-test", "stream-stdout"}

TypeOK ==
    /\ mode \in Modes
    /\ pc \in Places
    /\ {catching, running, term, failed, connected, authenticated, startSent, stopSent,
        h264, disconnected} \subseteq BOOLEAN
    /\ session \in {"none", "connected", "streaming"}
    /\ code \in {Runs, Killed, 0, 3, 4, 5, 6}
    /\ pc = "exited" <=> code # Runs
    /\ catching => mode = "stream-stdout"

Init ==
    /\ mode \in Modes
    /\ pc = "load"
    /\ catching = FALSE /\ running = TRUE /\ term = FALSE
    /\ connected = FALSE /\ authenticated = FALSE /\ disconnected = FALSE
    /\ startSent = FALSE /\ stopSent = FALSE /\ h264 = FALSE
    /\ session = "none"
    /\ failed = FALSE
    /\ code = Runs

Goto(from, to) == pc = from /\ pc' = to

-----------------------------------------------------------------------------
(* main() *)

\* Bad input, or a library without the functions the mode needs: status 3.
Load ==
    /\ \/ Goto("load", "create") /\ UNCHANGED code
       \/ Goto("load", "exited") /\ code' = 3
    /\ UNCHANGED <<mode, signals, result, session, failed>>

\* client_create returns NULL: everything up to the summary is skipped.
Create ==
    /\ \/ Goto("create", "connect")
       \/ Goto("create", "return")
    /\ UNCHANGED <<mode, signals, result, session, failed, code>>

Connect ==
    /\ \/ /\ Goto("connect", IF mode = "connect" THEN "disconnect" ELSE "login")
          /\ connected' = TRUE
          /\ session' = "connected"
       \/ Goto("connect", "return") /\ UNCHANGED <<connected, session>>
    /\ UNCHANGED <<mode, signals, authenticated, startSent, stopSent, h264, disconnected,
                   failed, code>>

\* client_login and await_login_response.
Login ==
    /\ \/ /\ Goto("login", IF Streams THEN "start" ELSE "disconnect")
          /\ authenticated' = TRUE
       \/ Goto("login", "disconnect") /\ UNCHANGED authenticated
    /\ UNCHANGED <<mode, signals, connected, startSent, stopSent, h264, disconnected,
                   session, failed, code>>

StartStream ==
    /\ \/ /\ Goto("start", IF mode = "stream-stdout" THEN "handlers" ELSE "test")
          /\ startSent' = TRUE
          /\ session' = "streaming"
          /\ UNCHANGED failed
       \/ /\ Goto("start", "disconnect")
          /\ failed' = TRUE
          /\ UNCHANGED <<startSent, session>>
    /\ UNCHANGED <<mode, signals, connected, authenticated, stopSent, h264, disconnected,
                   code>>

InstallHandlers ==
    /\ Goto("handlers", "test")
    /\ catching' = TRUE
    /\ UNCHANGED <<mode, running, term, result, session, failed, code>>

\* forward_h264_frames: while (stream_running).  h264_received is what it returns:
\* whether there was a frame, or false when a read failed.
TestRunning ==
    /\ mode = "stream-stdout"
    /\ Goto("test", IF running THEN "read" ELSE "stop")
    /\ UNCHANGED <<mode, signals, result, session, failed, code>>

\* A frame is forwarded, or skipped; the loop ends when stdout is closed.
ForwardFrame ==
    /\ mode = "stream-stdout"
    /\ \/ Goto("read", "test") /\ h264' \in {h264, TRUE} /\ UNCHANGED running
       \/ Goto("read", "stop") /\ h264' = TRUE /\ running' = FALSE
    /\ UNCHANGED <<mode, catching, term, connected, authenticated, startSent, stopSent,
                   disconnected, session, failed, code>>

ReadFails ==
    /\ Goto("read", "stop")
    /\ h264' = FALSE
    /\ UNCHANGED <<mode, signals, connected, authenticated, startSent, stopSent,
                   disconnected, session, failed, code>>

\* await_h264_frames: enough of them come within the time, or not.
AwaitFrames ==
    /\ mode = "stream-test"
    /\ Goto("test", "stop")
    /\ h264' \in BOOLEAN
    /\ UNCHANGED <<mode, signals, connected, authenticated, startSent, stopSent,
                   disconnected, session, failed, code>>

\* A variant that stops the stream only if there was a frame.
WrongStopStream ==
    /\ Goto("stop", "disconnect")
    /\ IF h264
         THEN stopSent' = TRUE /\ session' = "connected"
         ELSE UNCHANGED <<stopSent, session>>
    /\ UNCHANGED <<mode, signals, connected, authenticated, startSent, h264, disconnected,
                   failed, code>>

StopStream ==
    /\ Goto("stop", "disconnect")
    /\ \/ stopSent' = TRUE /\ session' = "connected" /\ UNCHANGED failed
       \/ failed' = TRUE /\ UNCHANGED <<stopSent, session>>
    /\ UNCHANGED <<mode, signals, connected, authenticated, startSent, h264, disconnected,
                   code>>

\* client_disconnect may report a failure; client_destroy follows in any case.
Disconnect ==
    /\ Goto("disconnect", "return")
    /\ disconnected' \in BOOLEAN
    /\ session' = "none"
    /\ UNCHANGED <<mode, signals, connected, authenticated, startSent, stopSent, h264,
                   failed, code>>

Status ==
    IF ~connected \/ ~disconnected THEN 4
    ELSE IF Streams /\ ~(authenticated /\ startSent /\ stopSent /\ h264) THEN 6
    ELSE IF mode # "connect" /\ ~authenticated THEN 5 ELSE 0

Return ==
    /\ Goto("return", "exited")
    /\ code' = Status
    /\ UNCHANGED <<mode, signals, result, session, failed>>

-----------------------------------------------------------------------------
(* The parent *)

Die == pc' = "exited" /\ code' = Killed

Terminate ==
    /\ mode = "stream-stdout" /\ ~term /\ pc # "exited"
    /\ term' = TRUE
    /\ IF catching
         THEN running' = FALSE /\ UNCHANGED <<pc, code>>
         ELSE Die /\ UNCHANGED running
    /\ UNCHANGED <<mode, catching, result, session, failed>>

Kill ==
    /\ term \/ mode # "stream-stdout"
    /\ pc \in {"connect", "login", "start", "test", "read", "stop", "disconnect"}
    /\ Die
    /\ UNCHANGED <<mode, signals, result, session, failed>>

-----------------------------------------------------------------------------
HelperStep ==
    \/ Load \/ Create \/ Connect \/ Login \/ StartStream \/ InstallHandlers
    \/ TestRunning \/ ForwardFrame \/ ReadFails \/ AwaitFrames
    \/ StopStream \/ Disconnect \/ Return

Next == HelperStep \/ Terminate \/ Kill

Spec == Init /\ [][Next]_vars

-----------------------------------------------------------------------------
(* Properties *)

\* Status 0 is only reported for what the mode asks for, disconnected.
SuccessIsReal ==
    code = 0 => /\ connected /\ disconnected /\ session = "none"
                /\ mode # "connect" => authenticated
                /\ Streams => startSent /\ stopSent /\ h264

=============================================================================
