----------------------- MODULE HelperTransportsProofs -----------------------
(***************************************************************************)
(* Theorems about HelperTransports: what both helpers promise, whatever    *)
(* fails and whenever a signal comes.  The invariants say what a helper    *)
(* has done, and has, at each place of run() and of main().                *)
(***************************************************************************)
EXTENDS HelperTransports, TLAPS

\* The mode is one of the four, and a process has a code once it has ended.
PlaceIsTyped == mode \in Modes /\ (pc = "exited" <=> code # Runs)

-----------------------------------------------------------------------------
(* amd64: run() of the Python helper *)

\* The places between the connection and the end of an undisturbed run().
OnSession == {"login", "start", "answer", "handlers", "test", "read", "stop", "close"}
OnStream == {"answer", "handlers", "test", "read", "stop"}

\* What has been achieved by the time run() is at a place.
Progressed ==
    /\ pc \in {"input", "connect"} =>
           link = "new" /\ camera = "idle" /\ ~startSent /\ ~connected
    /\ pc \in OnSession => link = "open" /\ connected /\ ~error
    /\ pc \in {"login", "start"} => mode # "connect" /\ ~startSent
    /\ pc \in {"start"} \cup OnStream =>
           mode \in {"stream-test", "stream-stdout"} /\ authenticated
    /\ pc \in OnStream => startSent
    /\ pc \in {"input", "connect", "login", "start"} \cup OnStream => ~stopSent /\ ~error

\* An undisturbed run() has done what its mode asks for when it closes the session.
Achieved ==
    pc \in {"close", "return"} /\ ~error =>
        /\ connected
        /\ mode # "connect" => authenticated
        /\ startSent => stopSent
        /\ mode \in {"stream-test", "stream-stdout"} => startSent

\* What the camera believes, by what the helper has done.
CameraFollows ==
    /\ pc \in {"except", "exceptclose"} => error
    /\ pc = "return" => link = "closed"
    /\ startSent /\ pc \in {"exceptclose", "close", "return"} => stopTried
    /\ link = "closed" /\ camera # "idle" => lost
    /\ stopSent => stopTried /\ camera # "streaming"

\* How a helper that ended by itself has ended.
EndedWell ==
    /\ SuccessIsReal
    /\ code \notin {Runs, Killed} =>
           /\ link = "closed" \/ (link = "new" /\ camera = "idle")
           /\ startSent => stopTried

Amd64Inv == PlaceIsTyped /\ Progressed /\ Achieved /\ CameraFollows /\ EndedWell

-----------------------------------------------------------------------------
(* aarch64: main() of the C helper *)

\* What the client holds at each place of main().
ClientFollows ==
    /\ pc \in {"load", "create", "connect", "return"} => session = "none"
    /\ pc \in {"load", "create", "connect", "login", "start"} => ~failed
    /\ pc \in {"login", "start"} => session = "connected"
    /\ pc = "disconnect" => session = "connected" \/ failed
    /\ pc \in {"handlers", "test", "read", "stop"} => session = "streaming"
    /\ code \notin {Runs, Killed} => session = "none"
    /\ Aarch64!SuccessIsReal

Aarch64Inv == PlaceIsTyped /\ ClientFollows /\ camera = "idle"

HelperInv ==
    /\ arch \in {"amd64", "aarch64"}
    /\ arch = "amd64" => Amd64Inv
    /\ arch = "aarch64" => Aarch64Inv

-----------------------------------------------------------------------------
\* A step of the Python helper, or of its parent, keeps its invariant.
LEMMA Amd64Step == Amd64Inv /\ Next => Amd64Inv'
<1> SUFFICES ASSUME Amd64Inv, Next PROVE Amd64Inv'
  OBVIOUS
<1> USE DEF Amd64Inv, PlaceIsTyped, Progressed, Achieved, CameraFollows, EndedWell,
           SuccessIsReal, OnSession, OnStream, Goto, signals, result, Runs, Killed, Modes
<1>0. CASE ReadInput
  BY <1>0 DEF ReadInput
<1>1. CASE Connect
  BY <1>1 DEF Connect
<1>2. CASE ConnectFails
  BY <1>2 DEF ConnectFails
<1>3. CASE Login
  BY <1>3 DEF Login
<1>4. CASE StartStream
  BY <1>4 DEF StartStream
<1>5. CASE ReadAnswer
  BY <1>5 DEF ReadAnswer
<1>6. CASE InstallHandlers
  BY <1>6 DEF InstallHandlers
<1>7. CASE TestRunning
  BY <1>7 DEF TestRunning
<1>8. CASE SkipFrame
  BY <1>8 DEF SkipFrame
<1>9. CASE Frame
  BY <1>9 DEF Frame
<1>10. CASE StopStream
  BY <1>10 DEF StopStream
<1>11. CASE Raise
  <2>1. ASSUME NEW place \in {"login", "start", "answer", "read", "stop"}, NEW after,
               RaiseAt(place, after)
        PROVE  Amd64Inv'
    <3>1. pc = place /\ pc' = "except" /\ error' /\ code = Runs /\ code' = code /\ mode' = mode
      BY <2>1 DEF RaiseAt
    <3>2. link' = "closed" => camera' = "idle"
      BY <2>1 DEF RaiseAt, CommandFails
    <3>3. ~stopSent'
      BY <2>1, <3>1 DEF RaiseAt
    <3> QED
      BY <3>1, <3>2, <3>3
  <2> QED
    BY <1>11, <2>1 DEF Raise
<1>12. CASE Close
  BY <1>12 DEF Close, CloseSession
<1>13. CASE StopAfterError
  <2>1. pc = "except" /\ pc' = "exceptclose" /\ code = Runs
    BY <1>13 DEF StopAfterError
  <2>2. UNCHANGED <<mode, startSent, error, lost, code>>
    BY <1>13 DEF StopAfterError
  <2>3. startSent => stopTried'
    BY <1>13 DEF StopAfterError
  <2>4. stopSent' => stopTried' /\ camera' # "streaming"
    BY <1>13 DEF StopAfterError, CommandFails
  <2>5. link' = "closed" => camera' = "idle" \/ lost
    BY <1>13, <2>1 DEF StopAfterError, CommandFails
  <2> QED
    BY <2>1, <2>2, <2>3, <2>4, <2>5
<1>14. CASE CloseAfterError
  BY <1>14 DEF CloseAfterError, CloseSession
<1>15. CASE Return
  BY <1>15 DEF Return, Status
<1>16. CASE Terminate
  BY <1>16 DEF Terminate, Die
<1>17. CASE Kill
  BY <1>17 DEF Kill, Die
<1> QED
  BY <1>0, <1>1, <1>2, <1>3, <1>4, <1>5, <1>6, <1>7, <1>8, <1>9, <1>10, <1>11, <1>12,
     <1>13, <1>14, <1>15, <1>16, <1>17 DEF Next, HelperStep

\* A step of the C helper, or of its parent, keeps its invariant.
LEMMA Aarch64Step == Aarch64Inv /\ Aarch64!Next /\ camera' = camera => Aarch64Inv'
<1> SUFFICES ASSUME Aarch64Inv, Aarch64!Next, camera' = camera PROVE Aarch64Inv'
  OBVIOUS
<1> USE DEF Aarch64Inv, PlaceIsTyped, ClientFollows, Aarch64!SuccessIsReal, Aarch64!Streams,
           Aarch64!Goto, Aarch64!signals, Aarch64!result, Aarch64!Runs, Aarch64!Killed,
           Runs, Killed, Modes
<1>1. CASE Aarch64!Load
  BY <1>1 DEF Aarch64!Load
<1>2. CASE Aarch64!Create
  BY <1>2 DEF Aarch64!Create
<1>3. CASE Aarch64!Connect
  BY <1>3 DEF Aarch64!Connect
<1>4. CASE Aarch64!Login
  BY <1>4 DEF Aarch64!Login, Aarch64!Streams
<1>5. CASE Aarch64!StartStream
  BY <1>5 DEF Aarch64!StartStream
<1>6. CASE Aarch64!InstallHandlers
  BY <1>6 DEF Aarch64!InstallHandlers
<1>7. CASE Aarch64!TestRunning
  BY <1>7 DEF Aarch64!TestRunning
<1>8. CASE Aarch64!ForwardFrame
  BY <1>8 DEF Aarch64!ForwardFrame
<1>9. CASE Aarch64!ReadFails
  BY <1>9 DEF Aarch64!ReadFails
<1>10. CASE Aarch64!AwaitFrames
  BY <1>10 DEF Aarch64!AwaitFrames
<1>11. CASE Aarch64!StopStream
  BY <1>11 DEF Aarch64!StopStream
<1>12. CASE Aarch64!Disconnect
  BY <1>12 DEF Aarch64!Disconnect
<1>13. CASE Aarch64!Return
  BY <1>13 DEF Aarch64!Return, Aarch64!Status
<1>14. CASE Aarch64!Terminate
  BY <1>14 DEF Aarch64!Terminate, Aarch64!Die
<1>15. CASE Aarch64!Kill
  BY <1>15 DEF Aarch64!Kill, Aarch64!Die
<1> QED
  BY <1>1, <1>2, <1>3, <1>4, <1>5, <1>6, <1>7, <1>8, <1>9, <1>10, <1>11, <1>12, <1>13,
     <1>14, <1>15 DEF Aarch64!Next, Aarch64!HelperStep

\* Both helpers keep their invariants.
THEOREM HelpersKeepTrack == HelperSpec => []HelperInv
<1>1. HelperInit => HelperInv
  <2>1. ASSUME Init PROVE Amd64Inv
    BY <2>1 DEF Init, Amd64Inv, PlaceIsTyped, Progressed, Achieved, CameraFollows,
       EndedWell,
                SuccessIsReal, OnSession, OnStream, Runs, Killed
  <2>2. ASSUME Aarch64!Init, camera = "idle" PROVE Aarch64Inv
    BY <2>2 DEF Aarch64!Init, Aarch64!Modes, Aarch64!Runs, Aarch64Inv, PlaceIsTyped,
                ClientFollows, Aarch64!SuccessIsReal, Modes, Runs, Killed
  <2> QED
    BY <2>1, <2>2 DEF HelperInit, HelperInv
<1>2. HelperInv /\ [HelperNext]_allVars => HelperInv'
  <2> SUFFICES ASSUME HelperInv, [HelperNext]_allVars PROVE HelperInv'
    OBVIOUS
  <2>1. CASE arch = "amd64" /\ Next /\ UNCHANGED <<arch, aarch64Only>>
    BY <2>1, Amd64Step DEF HelperInv
  <2>2. CASE arch = "aarch64" /\ Aarch64!Next /\ UNCHANGED <<arch, amd64Only>>
    BY <2>2, Aarch64Step DEF HelperInv, amd64Only
  <2>3. CASE UNCHANGED allVars
    <3>1. UNCHANGED <<arch, mode, pc, connected, authenticated, startSent, stopTried, stopSent,
                      h264, link, error, camera, lost, code, disconnected, session, failed>>
      BY <2>3 DEF allVars, vars, signals, result, aarch64Only
    <3> QED
      BY <3>1 DEF HelperInv, Amd64Inv, PlaceIsTyped, Progressed, Achieved, CameraFollows,
                  EndedWell, SuccessIsReal, Aarch64Inv, ClientFollows,
                  Aarch64!SuccessIsReal, Aarch64!Streams
  <2> QED
    BY <2>1, <2>2, <2>3 DEF HelperNext
<1> QED
  BY <1>1, <1>2, PTL DEF HelperSpec

\* amd64_helper.py: a helper that ends by itself has tried to stop a stream it started,
\* and has let the camera go or lost the datagram that says so, also where connect()
\* gave up on a camera that had bound it; it leaves a stream only if no stop was
\* acknowledged.
THEOREM CameraIsLetGo == HelperSpec => []Amd64LeavesQuiet
<1>1. HelperInv => Amd64LeavesQuiet
  BY DEF HelperInv, Amd64Inv, CameraFollows, EndedWell, Amd64LeavesQuiet, QuietCamera
<1> QED
  BY <1>1, HelpersKeepTrack, PTL

\* Status 0 means what the mode asks for, on either architecture.
THEOREM ZeroIsAlwaysEarned == HelperSpec => []ZeroIsEarned
<1>1. HelperInv => ZeroIsEarned
  BY DEF HelperInv, Amd64Inv, EndedWell, Aarch64Inv, ClientFollows, ZeroIsEarned
<1> QED
  BY <1>1, HelpersKeepTrack, PTL

-----------------------------------------------------------------------------
(* The contract *)

\* Whatever the Python helper does is a step of the contract, or none.
LEMMA Amd64Contract ==
    ASSUME Amd64Inv, Next, arch = "amd64", arch' = arch
    PROVE  [Either!Next]_(Either!vars)
<1> USE DEF Amd64Inv, PlaceIsTyped, Progressed, Achieved, CameraFollows, OnSession, OnStream,
           Modes, Goto, signals, result, Runs, Killed, Holds, Ended, Either!Next, Either!vars
<1>0. CASE ReadInput
  BY <1>0 DEF ReadInput, Either!End
<1>1. CASE Connect
  BY <1>1 DEF Connect, Either!Connect
<1>2. CASE ConnectFails
  <2>1. UNCHANGED <<startSent, stopSent, code>> /\ error' = TRUE /\ code = Runs
    BY <1>2 DEF ConnectFails
  <2>2. Ended = "runs" /\ Ended' = "runs"
    BY <2>1
  <2>3. link = "new" /\ link' \in {"new", "closed"}
    BY <1>2 DEF ConnectFails
  <2>4. Holds = "none" /\ Holds' = "none"
    BY <2>3
  <2> QED
    BY <2>1, <2>2, <2>4 DEF Either!Fail
<1>3. CASE Login
  BY <1>3 DEF Login
<1>4. CASE StartStream
  BY <1>4 DEF StartStream, Either!StartStream
<1>5. CASE ReadAnswer
  BY <1>5 DEF ReadAnswer
<1>6. CASE InstallHandlers
  BY <1>6 DEF InstallHandlers
<1>7. CASE TestRunning
  BY <1>7 DEF TestRunning
<1>8. CASE SkipFrame
  BY <1>8 DEF SkipFrame
<1>9. CASE Frame
  BY <1>9 DEF Frame
<1>10. CASE StopStream
  BY <1>10 DEF StopStream, Either!StopStream
<1>11. CASE Raise
  <2>1. ASSUME NEW place \in {"login", "start", "answer", "read", "stop"}, NEW after,
               RaiseAt(place, after)
        PROVE  Either!Fail /\ Ended = "runs"
    <3>1. UNCHANGED <<startSent, stopSent, code>> /\ error' = TRUE /\ code = Runs
      BY <2>1 DEF RaiseAt
    <3>2. link' = link \/ link' = "closed"
      BY <2>1 DEF RaiseAt, CommandFails
    <3> QED
      BY <3>1, <3>2 DEF Either!Fail
  <2> QED
    BY <1>11, <2>1 DEF Raise
<1>12. CASE Close
  BY <1>12 DEF Close, CloseSession, Either!Disconnect
<1>13. CASE StopAfterError
  BY <1>13 DEF StopAfterError, CommandFails, Either!StopStream, Either!Fail
<1>14. CASE CloseAfterError
  BY <1>14 DEF CloseAfterError, CloseSession, Either!Disconnect
<1>15. CASE Return
  BY <1>15 DEF Return, Status, Either!End
<1>16. CASE Terminate
  BY <1>16 DEF Terminate, Die, Either!Killed
<1>17. CASE Kill
  BY <1>17 DEF Kill, Die, Either!Killed
<1> QED
  BY <1>0, <1>1, <1>2, <1>3, <1>4, <1>5, <1>6, <1>7, <1>8, <1>9, <1>10, <1>11, <1>12,
     <1>13, <1>14, <1>15, <1>16, <1>17 DEF Next, HelperStep

\* The same of the C helper.
LEMMA Aarch64Contract ==
    ASSUME Aarch64Inv, Aarch64!Next, arch = "aarch64", arch' = arch
    PROVE  [Either!Next]_(Either!vars)
<1> USE DEF Aarch64Inv, PlaceIsTyped, ClientFollows, Aarch64!Goto, Aarch64!signals,
           Aarch64!result, Aarch64!Runs, Aarch64!Killed, Runs, Killed, Ended,
           Either!Next, Either!vars
<1>1. CASE Aarch64!Load
  BY <1>1 DEF Aarch64!Load, Either!End
<1>2. CASE Aarch64!Create
  BY <1>2 DEF Aarch64!Create
<1>3. CASE Aarch64!Connect
  BY <1>3 DEF Aarch64!Connect, Either!Connect
<1>4. CASE Aarch64!Login
  BY <1>4 DEF Aarch64!Login, Aarch64!Streams
<1>5. CASE Aarch64!StartStream
  BY <1>5 DEF Aarch64!StartStream, Either!StartStream, Either!Fail
<1>6. CASE Aarch64!InstallHandlers
  BY <1>6 DEF Aarch64!InstallHandlers
<1>7. CASE Aarch64!TestRunning
  BY <1>7 DEF Aarch64!TestRunning
<1>8. CASE Aarch64!ForwardFrame
  BY <1>8 DEF Aarch64!ForwardFrame
<1>9. CASE Aarch64!ReadFails
  BY <1>9 DEF Aarch64!ReadFails
<1>10. CASE Aarch64!AwaitFrames
  BY <1>10 DEF Aarch64!AwaitFrames
<1>11. CASE Aarch64!StopStream
  BY <1>11 DEF Aarch64!StopStream, Either!StopStream, Either!Fail
<1>12. CASE Aarch64!Disconnect
  BY <1>12 DEF Aarch64!Disconnect, Either!Disconnect
<1>13. CASE Aarch64!Return
  BY <1>13 DEF Aarch64!Return, Aarch64!Status, Either!End
<1>14. CASE Aarch64!Terminate
  BY <1>14 DEF Aarch64!Terminate, Aarch64!Die, Either!Killed
<1>15. CASE Aarch64!Kill
  BY <1>15 DEF Aarch64!Kill, Aarch64!Die, Either!Killed
<1> QED
  BY <1>1, <1>2, <1>3, <1>4, <1>5, <1>6, <1>7, <1>8, <1>9, <1>10, <1>11, <1>12, <1>13,
     <1>14, <1>15 DEF Aarch64!Next, Aarch64!HelperStep

\* docs/architecture.md: "Both transports implement the same credential-safe helper
\* contract".
THEOREM HelpersKeepContract == HelperSpec => OneContract
<1>1. HelperInit => Either!Init
  <2>1. CASE arch = "amd64" /\ Init
    <3>1. code = Runs /\ link = "new" /\ error = FALSE
      BY <2>1 DEF Init
    <3>2. Ended = "runs" /\ Holds = "none"
      BY <3>1 DEF Ended, Holds, Runs, Killed
    <3> QED
      BY <2>1, <3>1, <3>2 DEF Init, Either!Init
  <2>2. CASE arch = "aarch64" /\ Aarch64!Init /\ failed = FALSE
    <3>1. code = Runs /\ arch = "aarch64"
      BY <2>2 DEF Aarch64!Init, Aarch64!Runs, Runs
    <3>2. Ended = "runs"
      BY <3>1 DEF Ended, Runs, Killed
    <3> QED
      BY <2>2, <3>1, <3>2 DEF Aarch64!Init, Either!Init
  <2> QED
    BY <2>1, <2>2 DEF HelperInit, Aarch64!Init
<1>2. HelperInv /\ [HelperNext]_allVars => [Either!Next]_(Either!vars)
  <2> SUFFICES ASSUME HelperInv, [HelperNext]_allVars PROVE [Either!Next]_(Either!vars)
    OBVIOUS
  <2>1. CASE arch = "amd64" /\ Next /\ UNCHANGED <<arch, aarch64Only>>
    BY <2>1, Amd64Contract DEF HelperInv
  <2>2. CASE arch = "aarch64" /\ Aarch64!Next /\ UNCHANGED <<arch, amd64Only>>
    BY <2>2, Aarch64Contract DEF HelperInv
  <2>3. CASE UNCHANGED allVars
    BY <2>3 DEF allVars, vars, result, aarch64Only, Holds, Ended, Either!vars
  <2> QED
    BY <2>1, <2>2, <2>3 DEF HelperNext
<1> QED
  BY <1>1, <1>2, HelpersKeepTrack, PTL DEF HelperSpec, OneContract, Either!Spec
=============================================================================
