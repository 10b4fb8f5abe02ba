------------------------ MODULE AppAcceptanceProofs ------------------------
(***************************************************************************)
(* Proofs about AppAcceptance: the start of the app, its wake-ups and its  *)
(* snapshot tests, for any number of attempts, any set of ports and any    *)
(* pipe.                                                                   *)
(***************************************************************************)
EXTENDS AppAcceptance, TLAPS

-----------------------------------------------------------------------------
(* The invariant *)

Quiet == {"none", "exited"}

\* main(): the bridge is the last thing that is set up, the session is the bridge's, and
\* what has been earned on the way to it is kept.
Started ==
    /\ bridge <=> session # "none"
    /\ pc \in {"runtime", "account", "begin", "wake", "probe", "judge", "configure"} =>
           ~bridge
    /\ pc = "publish" => bridge

Earning ==
    /\ pc \in {"account", "begin", "wake", "probe", "judge", "configure", "publish"} =>
           "loader" \in ready
    /\ pc \in {"begin", "wake", "probe", "judge", "configure", "publish"} =>
           "account" \in ready
    /\ pc \in {"configure", "publish"} /\ options # {} => Passed
    /\ "camera" \in ready =>
           /\ pc \in {"wait", "close", "shutdown", "exited"}
           /\ bridge
           /\ {"loader", "account"} \subseteq ready
           /\ options # {} => Passed

\* wake_camera: only a coroutine that has sent the command reads from its node or
\* returns that it has; a coroutine that is done has closed its connections, and the
\* call waits for all of them.
Waken ==
    /\ \A p \in Ports :
         /\ at[p] \in {"header", "body"} => commanded
         /\ outcome[p] = "sent" => commanded
         /\ at[p] = "done" => open[p] = {}
    /\ verdict # "none" => \A p \in Ports : at[p] = "done"
    /\ verdict = "requested" => commanded
    /\ woken => commanded

\* run_snapshot_probe: which of the children may be there at which place, and what has
\* been seen by the time nothing was raised.
Probing ==
    /\ decoder = "decoding" => test \in {"drop", "communicate", "kill"}
    /\ test \in {"reap", "kill", "terminate", "grace", "judge", "passed"} /\ ~raised =>
           decoder = "exited" /\ decoded
    /\ test = "spawn" => helper = "none"
    /\ test \in {"judge", "passed", "failed"} => helper \in Quiet
    /\ test \in {"kill", "terminate", "grace", "judge", "passed"} /\ ~raised =>
           helper = "exited"
    /\ test \in {"communicate", "reap"} => ~holds
    /\ term => raised /\ test \in {"grace", "judge", "failed"}
    /\ test = "grace" => raised
    /\ test = "passed" => ~raised /\ status = "good"
    /\ test \in {"spawn", "feed", "decoder", "drop", "communicate", "reap"} => ~raised

AppInv ==
    /\ AppTypeOK
    /\ Started
    /\ Earning
    /\ Waken
    /\ Probing
    /\ ~Testing => helper \in Quiet /\ decoder \in Quiet

-----------------------------------------------------------------------------
(* The steps of main() and of the threads *)

LEMMA MainTypes ==
    ASSUME TypeOK, MainStep
    PROVE  TypeOK'
<1>1. CASE Fails
  BY <1>1 DEF Fails, TypeOK, Phases
<1>2. CASE LoadRuntime
  BY <1>2 DEF LoadRuntime, Goto, TypeOK, Flags
<1>3. CASE Unconfigured
  BY <1>3 DEF Unconfigured, Goto, TypeOK, main
<1>4. CASE EnumerateAccount
  BY <1>4 DEF EnumerateAccount, TypeOK, Phases, Flags
<1>5. CASE BeginAcceptance
  BY <1>5, AttemptsAssumption DEF BeginAcceptance, Goto, TypeOK, Phases
<1>6. CASE Wake
  BY <1>6 DEF Wake, Goto, TypeOK, Phases
<1>7. CASE Probe
  BY <1>7 DEF Probe, Goto, TypeOK, Reports, ConnectReports, LoginReports, StreamReports
<1>8. CASE Judge
  <2>1. ready' \subseteq Flags
    BY <1>8 DEF Judge, Earned, Flags, TypeOK
  <2>2. attempt' \in 0 .. Attempts
    BY <1>8, AttemptsAssumption DEF Judge, TypeOK
  <2>3. report' \in Report
    <3>1. report' \in {report, NoReport}
      BY <1>8 DEF Judge
    <3>2. NoReport \in Report
      BY DEF NoReport, Report
    <3> QED
      BY <3>1, <3>2 DEF TypeOK
  <2>4. pc' \in {"configure", "wake", "wait"} /\ phase' \in {phase, "error"}
    BY <1>8 DEF Judge
  <2>5. UNCHANGED <<options, bridge, session, stop>>
    BY <1>8 DEF Judge
  <2> QED
    BY <2>1, <2>2, <2>3, <2>4, <2>5 DEF TypeOK, Phases
<1>9. CASE TokenRequired
  BY <1>9 DEF TokenRequired, Goto, TypeOK, Phases
<1>10. CASE SetBridge
  BY <1>10 DEF SetBridge, Goto, TypeOK, main
<1>11. CASE PublishReady
  BY <1>11 DEF PublishReady, Goto, TypeOK, Phases, Flags
<1>12. CASE StopWait
  BY <1>12 DEF StopWait, Goto, TypeOK, main
<1>13. CASE CloseSession
  BY <1>13 DEF CloseSession, Goto, TypeOK, main
<1>14. CASE ShutDown
  BY <1>14 DEF ShutDown, Goto, TypeOK, main
<1> QED
  BY <1>1, <1>2, <1>3, <1>4, <1>5, <1>6, <1>7, <1>8, <1>9, <1>10, <1>11, <1>12, <1>13,
     <1>14 DEF MainStep

LEMMA MainStarts ==
    ASSUME Started, MainStep
    PROVE  Started'
<1>1. CASE Fails
  BY <1>1 DEF Fails, Started
<1>2. CASE LoadRuntime
  BY <1>2 DEF LoadRuntime, Goto, Started
<1>3. CASE Unconfigured
  BY <1>3 DEF Unconfigured, Goto, Started, main
<1>4. CASE EnumerateAccount
  BY <1>4 DEF EnumerateAccount, Started
<1>5. CASE BeginAcceptance
  BY <1>5 DEF BeginAcceptance, Goto, Started
<1>6. CASE Wake
  BY <1>6 DEF Wake, Goto, Started
<1>7. CASE Probe
  BY <1>7 DEF Probe, Goto, Started
<1>8. CASE Judge
  BY <1>8 DEF Judge, Started
<1>9. CASE TokenRequired
  BY <1>9 DEF TokenRequired, Goto, Started
<1>10. CASE SetBridge
  BY <1>10 DEF SetBridge, Goto, Started, main
<1>11. CASE PublishReady
  BY <1>11 DEF PublishReady, Goto, Started
<1>12. CASE StopWait
  BY <1>12 DEF StopWait, Goto, Started, main
<1>13. CASE CloseSession
  BY <1>13 DEF CloseSession, Goto, Started, main
<1>14. CASE ShutDown
  BY <1>14 DEF ShutDown, Goto, Started, main
<1> QED
  BY <1>1, <1>2, <1>3, <1>4, <1>5, <1>6, <1>7, <1>8, <1>9, <1>10, <1>11, <1>12, <1>13,
     <1>14 DEF MainStep

\* Passed depends on the report and on the options alone.
LEMMA PassedStays ==
    ASSUME UNCHANGED <<options, report>>
    PROVE  Passed' <=> Passed
BY DEF Passed, Streams, Authenticates, Mode

LEMMA MainEarns ==
    ASSUME Started, Earning, MainStep
    PROVE  Earning'
<1>1. CASE Fails
  <2>1. Passed' <=> Passed
    BY <1>1, PassedStays DEF Fails
  <2> QED
    BY <1>1, <2>1 DEF Fails, Earning
<1>2. CASE LoadRuntime
  <2>1. Passed' <=> Passed
    BY <1>2, PassedStays DEF LoadRuntime
  <2> QED
    BY <1>2, <2>1 DEF LoadRuntime, Goto, Earning
<1>3. CASE Unconfigured
  <2>1. Passed' <=> Passed
    BY <1>3, PassedStays DEF Unconfigured, main
  <2> QED
    BY <1>3, <2>1 DEF Unconfigured, Goto, Earning, main
<1>4. CASE EnumerateAccount
  <2>1. Passed' <=> Passed
    BY <1>4, PassedStays DEF EnumerateAccount
  <2>2. \/ pc' = "begin" /\ ready' = ready \cup {"account"}
        \/ pc' = "wait" /\ ready' = ready
    BY <1>4 DEF EnumerateAccount
  <2> QED
    BY <1>4, <2>1, <2>2 DEF EnumerateAccount, Earning
<1>5. CASE BeginAcceptance
  <2>1. Passed' <=> Passed
    BY <1>5, PassedStays DEF BeginAcceptance
  <2> QED
    BY <1>5, <2>1 DEF BeginAcceptance, Goto, Earning
<1>6. CASE Wake
  BY <1>6 DEF Wake, Goto, Earning
<1>7. CASE Probe
  BY <1>7 DEF Probe, Goto, Earning
<1>8. CASE Judge
  <2>1. ready' = ready \cup Earned /\ "camera" \notin Earned
    BY <1>8 DEF Judge, Earned
  <2>2. CASE Passed /\ pc' = "configure" /\ UNCHANGED report
    <3>1. Passed' <=> Passed
      BY <1>8, <2>2, PassedStays DEF Judge
    <3> QED
      BY <1>8, <2>1, <2>2, <3>1 DEF Judge, Earning
  <2>3. CASE pc' \in {"wake", "wait"}
    BY <1>8, <2>1, <2>3 DEF Judge, Earning
  <2> QED
    BY <1>8, <2>2, <2>3 DEF Judge
<1>9. CASE TokenRequired
  <2>1. Passed' <=> Passed
    BY <1>9, PassedStays DEF TokenRequired
  <2> QED
    BY <1>9, <2>1 DEF TokenRequired, Goto, Earning
<1>10. CASE SetBridge
  <2>1. Passed' <=> Passed
    BY <1>10, PassedStays DEF SetBridge, main
  <2> QED
    BY <1>10, <2>1 DEF SetBridge, Goto, Earning, main
<1>11. CASE PublishReady
  <2>1. Passed' <=> Passed
    BY <1>11, PassedStays DEF PublishReady
  <2> QED
    BY <1>11, <2>1 DEF PublishReady, Goto, Earning, Started
<1>12. CASE StopWait
  <2>1. Passed' <=> Passed
    BY <1>12, PassedStays DEF StopWait, main
  <2> QED
    BY <1>12, <2>1 DEF StopWait, Goto, Earning, main
<1>13. CASE CloseSession
  <2>1. Passed' <=> Passed
    BY <1>13, PassedStays DEF CloseSession, main
  <2> QED
    BY <1>13, <2>1 DEF CloseSession, Goto, Earning, main
<1>14. CASE ShutDown
  <2>1. Passed' <=> Passed
    BY <1>14, PassedStays DEF ShutDown, main
  <2> QED
    BY <1>14, <2>1 DEF ShutDown, Goto, Earning, main
<1> QED
  BY <1>1, <1>2, <1>3, <1>4, <1>5, <1>6, <1>7, <1>8, <1>9, <1>10, <1>11, <1>12, <1>13,
     <1>14 DEF MainStep

\* What main() has established stays when it stands still.
LEMMA MainWaits ==
    ASSUME TypeOK, Started, Earning, UNCHANGED vars
    PROVE  TypeOK' /\ Started' /\ Earning'
<1>1. Passed' <=> Passed
  BY PassedStays DEF vars, main
<1> QED
  BY <1>1 DEF TypeOK, Started, Earning, vars, main

LEMMA ThreadsKeep ==
    ASSUME TypeOK, Started, Earning,
           RequestStop \/ StartStream \/ StreamWoken \/ StreamStarted \/ StreamEnds
    PROVE  TypeOK' /\ Started' /\ Earning' /\ UNCHANGED <<pc, options>>
<1>1. UNCHANGED <<options, pc, attempt, report, ready, bridge>>
  BY DEF RequestStop, StartStream, StreamWoken, StreamStarted, StreamEnds, main
<1>2. Passed' <=> Passed
  BY <1>1, PassedStays
<1>3. Earning'
  BY <1>1, <1>2 DEF Earning
<1>4. TypeOK'
  BY <1>1 DEF RequestStop, StartStream, StreamWoken, StreamStarted, StreamEnds, main,
              TypeOK, Phases
<1>5. Started'
  BY <1>1 DEF RequestStop, StartStream, StreamWoken, StreamStarted, StreamEnds, main,
              Started
<1> QED
  BY <1>1, <1>3, <1>4, <1>5

-----------------------------------------------------------------------------
(* The steps of a wake-up *)

LEMMA PortTypes ==
    ASSUME WakeTypeOK, NEW p \in Ports, Port(p)
    PROVE  WakeTypeOK'
<1>1. CASE Raise(p)
  BY <1>1 DEF Raise, Leave, WakeTypeOK, Outcomes
<1>2. CASE Dial(p)
  BY <1>2 DEF Dial, Awaits, WakeTypeOK
<1>3. CASE Elsewhere(p)
  BY <1>3 DEF Elsewhere, Leave, WakeTypeOK, Outcomes
<1>4. CASE NodeNamed(p)
  BY <1>4 DEF NodeNamed, Awaits, WakeTypeOK
<1>5. CASE DialNode(p)
  BY <1>5 DEF DialNode, Awaits, WakeTypeOK
<1>6. CASE Command(p)
  BY <1>6 DEF Command, Awaits, WakeTypeOK
<1>7. CASE Header(p)
  BY <1>7 DEF Header, Awaits, WakeTypeOK
<1>8. CASE Status(p)
  BY <1>8 DEF Status, Awaits, WakeTypeOK
<1>9. CASE Activated(p)
  BY <1>9 DEF Activated, Leave, WakeTypeOK, Outcomes
<1>10. CASE Silence(p)
  BY <1>10 DEF Silence, Leave, WakeTypeOK, Outcomes
<1>11. CASE Close(p)
  BY <1>11 DEF Close, Awaits, WakeTypeOK
<1> QED
  BY <1>1, <1>2, <1>3, <1>4, <1>5, <1>6, <1>7, <1>8, <1>9, <1>10, <1>11 DEF Port

\* A coroutine that moves was not done, so that the call is not over.
LEMMA PortKeeps ==
    ASSUME WakeTypeOK, Waken, NEW p \in Ports, Port(p), UNCHANGED woken
    PROVE  Waken'
<1> USE DEF WakeTypeOK
<1>1. at[p] # "done"
  BY DEF Port, Raise, Dial, Elsewhere, NodeNamed, DialNode, Command, Header, Status,
         Activated, Silence, Close, Awaits
<1>2. verdict = "none" /\ verdict' = "none" /\ ~(verdict = "requested")
  BY <1>1 DEF Waken, Port, Raise, Dial, Elsewhere, NodeNamed, DialNode, Command, Header,
     Status, Activated, Silence, Close
<1>3. commanded => commanded'
  BY DEF Port, Raise, Dial, Elsewhere, NodeNamed, DialNode, Command, Header, Status,
         Activated, Silence, Close
<1>4. ASSUME NEW q \in Ports
      PROVE  /\ at[q] \in {"header", "body"} => commanded
             /\ outcome[q] = "sent" => commanded
             /\ at[q] = "done" => open[q] = {}
  BY <1>4 DEF Waken
<1>5. ASSUME NEW q \in Ports, q # p
      PROVE  at'[q] = at[q] /\ outcome'[q] = outcome[q] /\ open'[q] = open[q]
  BY <1>5 DEF Port, Raise, Dial, Elsewhere, NodeNamed, DialNode, Command, Header, Status,
         Activated, Silence, Close, Awaits, Leave
<1>6. at'[p] \in {"header", "body"} => commanded'
  BY <1>4 DEF Port, Raise, Dial, Elsewhere, NodeNamed, DialNode, Command, Header, Status,
         Activated, Silence, Close, Awaits, Leave
<1>7. outcome'[p] = "sent" => commanded'
  BY <1>4 DEF Port, Raise, Dial, Elsewhere, NodeNamed, DialNode, Command, Header, Status,
         Activated, Silence, Close, Awaits, Leave
<1>8. at'[p] = "done" => open'[p] = {}
  BY <1>4 DEF Port, Raise, Dial, Elsewhere, NodeNamed, DialNode, Command, Header, Status,
         Activated, Silence, Close, Awaits, Leave
<1>9. woken' => commanded'
  BY <1>3 DEF Waken
<1> QED
  BY <1>2, <1>3, <1>4, <1>5, <1>6, <1>7, <1>8, <1>9 DEF Waken

LEMMA WakeStepKeeps ==
    ASSUME WakeTypeOK, Waken, Progress \/ TimePasses, UNCHANGED woken
    PROVE  WakeTypeOK' /\ Waken'
<1>1. CASE Gather
  <2>1. WakeTypeOK'
    BY <1>1 DEF Gather, Combined, WakeTypeOK, Verdicts
  <2>2. verdict' = "requested" => commanded
    BY <1>1 DEF Gather, Combined, Waken
  <2> QED
    BY <1>1, <2>1, <2>2 DEF Gather, Waken
<1>2. ASSUME NEW p \in Ports, Port(p)
      PROVE  WakeTypeOK' /\ Waken'
  BY <1>2, PortTypes, PortKeeps
<1>3. ASSUME NEW p \in Ports, Deadline(p)
      PROVE  WakeTypeOK' /\ Waken'
  <2>1. WakeTypeOK'
    BY <1>3 DEF Deadline, WakeTypeOK
  <2> QED
    BY <1>3, <2>1 DEF Deadline, Waken
<1> QED
  BY <1>1, <1>2, <1>3 DEF Progress, TimePasses

\* The answer is taken: the coroutines are forgotten, what was sent is not.
LEMMA WokenKeeps ==
    ASSUME WakeTypeOK, Waken, woken \in BOOLEAN, Forget,
           woken' = (woken \/ verdict = "requested")
    PROVE  WakeTypeOK' /\ Waken' /\ woken' \in BOOLEAN
<1>1. WakeTypeOK'
  BY DEF Forget, WakeTypeOK, Outcomes, Verdicts
<1>2. woken' => commanded'
  BY DEF Forget, Waken
<1> QED
  BY <1>1, <1>2 DEF Forget, Waken

-----------------------------------------------------------------------------
(* The steps of a snapshot test *)

\* What a test is judged by, and what it needs of the types of its variables.
LEMMA TestTypes ==
    ASSUME Snapshot!TypeOK, Probing, Snapshot!Next
    PROVE  Snapshot!TypeOK'
<1> USE CapacityAssumption DEF Snapshot!Over
<1>1. CASE Snapshot!SpawnHelper
  <2>1. test' \in {"feed", "kill"} /\ helper' \in {"starting", helper}
    BY <1>1 DEF Snapshot!SpawnHelper, Snapshot!Raise
  <2>2. raised' \in {raised, TRUE} /\ holds' \in {holds, TRUE}
    BY <1>1, Zenon DEF Snapshot!SpawnHelper, Snapshot!Raise
  <2>3. {raised', holds', term', decoded'} \subseteq BOOLEAN
    BY <1>1, <2>2 DEF Snapshot!SpawnHelper, Snapshot!TypeOK
  <2>4. status' = "none" <=> helper' # "exited"
    BY <1>1, <2>1 DEF Snapshot!SpawnHelper, Snapshot!TypeOK, Probing
  <2> QED
    BY <1>1, <2>1, <2>3, <2>4 DEF Snapshot!SpawnHelper, Snapshot!TypeOK
<1>2. CASE Snapshot!Feed
  BY <1>2 DEF Snapshot!Feed, Snapshot!Raise, Snapshot!TypeOK
<1>3. CASE Snapshot!SpawnDecoder
  BY <1>3 DEF Snapshot!SpawnDecoder, Snapshot!Raise, Snapshot!TypeOK
<1>4. CASE Snapshot!DropPipe
  BY <1>4 DEF Snapshot!DropPipe, Snapshot!TypeOK
<1>5. CASE Snapshot!Communicate
  BY <1>5 DEF Snapshot!Communicate, Snapshot!Raise, Snapshot!TypeOK
<1>6. CASE Snapshot!Reap
  BY <1>6 DEF Snapshot!Reap, Snapshot!Raise, Snapshot!TypeOK
<1>7. CASE Snapshot!KillDecoder
  BY <1>7 DEF Snapshot!KillDecoder, Snapshot!TypeOK
<1>8. CASE Snapshot!TerminateHelper
  BY <1>8 DEF Snapshot!TerminateHelper, Snapshot!TypeOK
<1>9. CASE Snapshot!Grace
  BY <1>9 DEF Snapshot!Grace, Snapshot!TypeOK
<1>10. CASE Snapshot!Judge
  BY <1>10 DEF Snapshot!Judge, Snapshot!TypeOK
<1>11. CASE Snapshot!HelperStarts
  BY <1>11 DEF Snapshot!HelperStarts, Snapshot!Exit, Snapshot!app, Snapshot!TypeOK
<1>12. CASE Snapshot!HelperWrites
  BY <1>12 DEF Snapshot!HelperWrites, Snapshot!app, Snapshot!TypeOK
<1>13. CASE Snapshot!HelperLeaves
  BY <1>13 DEF Snapshot!HelperLeaves, Snapshot!app, Snapshot!TypeOK
<1>14. CASE Snapshot!HelperExits
  BY <1>14 DEF Snapshot!HelperExits, Snapshot!Exit, Snapshot!app, Snapshot!TypeOK
<1>15. CASE Snapshot!DecoderReads
  BY <1>15 DEF Snapshot!DecoderReads, Snapshot!app, Snapshot!TypeOK
<1>16. CASE Snapshot!DecoderEnds
  BY <1>16 DEF Snapshot!DecoderEnds, Snapshot!app, Snapshot!TypeOK
<1> QED
  BY <1>1, <1>2, <1>3, <1>4, <1>5, <1>6, <1>7, <1>8, <1>9, <1>10, <1>11, <1>12, <1>13,
     <1>14, <1>15, <1>16 DEF Snapshot!Next, Snapshot!AppStep, Snapshot!ChildStep

LEMMA TestKeeps ==
    ASSUME Snapshot!TypeOK, Probing, Snapshot!Next
    PROVE  Probing'
<1> USE DEF Quiet
<1>1. CASE Snapshot!SpawnHelper
  BY <1>1 DEF Snapshot!SpawnHelper, Snapshot!Raise, Probing, Snapshot!TypeOK
<1>2. CASE Snapshot!Feed
  BY <1>2 DEF Snapshot!Feed, Snapshot!Raise, Probing, Snapshot!TypeOK
<1>3. CASE Snapshot!SpawnDecoder
  BY <1>3 DEF Snapshot!SpawnDecoder, Snapshot!Raise, Probing, Snapshot!TypeOK
<1>4. CASE Snapshot!DropPipe
  BY <1>4 DEF Snapshot!DropPipe, Probing, Snapshot!TypeOK
<1>5. CASE Snapshot!Communicate
  <2>1. UNCHANGED <<holds, helper, status, term, decoder, decoded, pipe>>
    BY <1>5 DEF Snapshot!Communicate
  <2>2. CASE decoder = "exited" /\ decoded /\ test' = "reap" /\ UNCHANGED raised
    BY <1>5, <2>1, <2>2 DEF Snapshot!Communicate, Probing
  <2>3. CASE test' = "kill" /\ raised'
    BY <1>5, <2>1, <2>3 DEF Snapshot!Communicate, Probing
  <2> QED
    BY <1>5, <2>2, <2>3, Zenon DEF Snapshot!Communicate, Snapshot!Raise
<1>6. CASE Snapshot!Reap
  BY <1>6 DEF Snapshot!Reap, Snapshot!Raise, Probing, Snapshot!TypeOK
<1>7. CASE Snapshot!KillDecoder
  BY <1>7 DEF Snapshot!KillDecoder, Probing, Snapshot!TypeOK
<1>8. CASE Snapshot!TerminateHelper
  BY <1>8 DEF Snapshot!TerminateHelper, Probing, Snapshot!TypeOK
<1>9. CASE Snapshot!Grace
  BY <1>9 DEF Snapshot!Grace, Probing, Snapshot!TypeOK
<1>10. CASE Snapshot!Judge
  BY <1>10 DEF Snapshot!Judge, Snapshot!Over, Probing, Snapshot!TypeOK
<1>11. CASE Snapshot!HelperStarts
  BY <1>11 DEF Snapshot!HelperStarts, Snapshot!Exit, Snapshot!app, Probing, Snapshot!TypeOK
<1>12. CASE Snapshot!HelperWrites
  BY <1>12 DEF Snapshot!HelperWrites, Snapshot!app, Probing, Snapshot!TypeOK
<1>13. CASE Snapshot!HelperLeaves
  BY <1>13 DEF Snapshot!HelperLeaves, Snapshot!app, Probing, Snapshot!TypeOK
<1>14. CASE Snapshot!HelperExits
  BY <1>14 DEF Snapshot!HelperExits, Snapshot!Exit, Snapshot!app, Probing, Snapshot!TypeOK
<1>15. CASE Snapshot!DecoderReads
  BY <1>15 DEF Snapshot!DecoderReads, Snapshot!app, Probing, Snapshot!TypeOK
<1>16. CASE Snapshot!DecoderEnds
  BY <1>16 DEF Snapshot!DecoderEnds, Snapshot!app, Probing, Snapshot!TypeOK
<1> QED
  BY <1>1, <1>2, <1>3, <1>4, <1>5, <1>6, <1>7, <1>8, <1>9, <1>10, <1>11, <1>12, <1>13,
     <1>14, <1>15, <1>16 DEF Snapshot!Next, Snapshot!AppStep, Snapshot!ChildStep

-----------------------------------------------------------------------------
(* The app *)

LEMMA InitInv == AppInit => AppInv
<1> SUFFICES ASSUME AppInit PROVE AppInv
  OBVIOUS
<1>1. TypeOK
  <2>1. NoReport \in Report
    BY DEF NoReport, Report
  <2>2. bridge \in BOOLEAN /\ stop \in BOOLEAN
    BY DEF AppInit, Init
  <2>3. /\ options \subseteq Tests /\ pc = "runtime" /\ attempt \in 0 .. Attempts
        /\ report \in Report /\ ready = {} /\ phase = "starting" /\ session = "none"
    BY <2>1, AttemptsAssumption DEF AppInit, Init
  <2> QED
    BY <2>2, <2>3 DEF TypeOK, Phases
<1>2. WakeTypeOK
  BY DEF AppInit, WakeInit, WakeTypeOK, Outcomes, Verdicts
<1>3. Snapshot!TypeOK
  <2>1. {raised, holds, term, decoded} \subseteq BOOLEAN
    BY DEF AppInit, Snapshot!Init
  <2>2. test = "spawn" /\ helper = "none" /\ status = "none" /\ decoder = "none"
    BY DEF AppInit, Snapshot!Init
  <2>3. pipe \in 0 .. Capacity
    BY CapacityAssumption DEF AppInit, Snapshot!Init
  <2> QED
    BY <2>1, <2>2, <2>3 DEF Snapshot!TypeOK
<1>4. AppTypeOK
  BY <1>1, <1>2, <1>3 DEF AppTypeOK, AppInit
<1>5. Started
  BY DEF AppInit, Init, Started
<1>6. Earning
  BY DEF AppInit, Init, Earning
<1>7. Waken
  BY DEF AppInit, WakeInit, Waken
<1>8. Probing
  BY DEF AppInit, Snapshot!Init, Probing, Quiet
<1>9. helper \in Quiet /\ decoder \in Quiet
  BY DEF AppInit, Snapshot!Init, Quiet
<1> QED
  BY <1>4, <1>5, <1>6, <1>7, <1>8, <1>9 DEF AppInv

\* A test that is over has left no child.
LEMMA OverIsQuiet ==
    ASSUME Snapshot!TypeOK, Probing, test \in {"passed", "failed"}
    PROVE  helper \in Quiet /\ decoder \in Quiet
BY DEF Snapshot!TypeOK, Probing, Quiet

LEMMA WakeStands ==
    ASSUME WakeTypeOK, Waken, UNCHANGED <<wakeVars, woken>>
    PROVE  WakeTypeOK' /\ Waken'
BY DEF WakeTypeOK, Waken, wakeVars, call

LEMMA TestStands ==
    ASSUME Snapshot!TypeOK, Probing, UNCHANGED testVars
    PROVE  Snapshot!TypeOK' /\ Probing' /\ UNCHANGED <<test, helper, decoder>>
<1>1. UNCHANGED <<test, raised, holds, helper, status, term, decoder, decoded, pipe>>
  BY DEF testVars
<1>2. Snapshot!TypeOK'
  BY <1>1 DEF Snapshot!TypeOK
<1>3. Probing'
  BY <1>1 DEF Probing
<1> QED
  BY <1>1, <1>2, <1>3

LEMMA BeginTests ==
    ASSUME Snapshot!Begin
    PROVE  Snapshot!TypeOK' /\ Probing' /\ helper' \in Quiet /\ decoder' \in Quiet
<1>1. Snapshot!TypeOK'
  <2>1. {raised', holds', term', decoded'} \subseteq BOOLEAN
    BY DEF Snapshot!Begin
  <2>2. test' = "spawn" /\ helper' = "none" /\ status' = "none" /\ decoder' = "none"
    BY DEF Snapshot!Begin
  <2>3. pipe' \in 0 .. Capacity
    BY CapacityAssumption DEF Snapshot!Begin
  <2> QED
    BY <2>1, <2>2, <2>3 DEF Snapshot!TypeOK
<1>2. Probing'
  BY DEF Snapshot!Begin, Probing, Quiet
<1> QED
  BY <1>1, <1>2 DEF Snapshot!Begin, Quiet

LEMMA StepKeepsAppInv ==
    ASSUME AppInv, [AppNext]_appVars
    PROVE  AppInv'
<1> DEFINE Idle == helper \in Quiet /\ decoder \in Quiet
<1>1. /\ TypeOK /\ WakeTypeOK /\ woken \in BOOLEAN /\ Snapshot!TypeOK
      /\ Started /\ Earning /\ Waken /\ Probing
      /\ ~Testing => Idle
  BY DEF AppInv, AppTypeOK
<1> HIDE DEF Idle
<1> SUFFICES /\ TypeOK' /\ WakeTypeOK' /\ (woken \in BOOLEAN)' /\ Snapshot!TypeOK'
             /\ Started' /\ Earning' /\ Waken' /\ Probing'
             /\ ~Testing' => Idle'
  BY DEF AppInv, AppTypeOK, Idle
<1>2. ASSUME UNCHANGED testVars
      PROVE  Snapshot!TypeOK' /\ Probing' /\ (Idle => Idle')
  BY <1>1, <1>2, TestStands DEF Idle
<1>3. ASSUME UNCHANGED vars
      PROVE  TypeOK' /\ Started' /\ Earning' /\ (Testing' <=> Testing)
  <2>1. UNCHANGED <<options, pc>>
    BY <1>3 DEF vars
  <2> QED
    BY <1>1, <1>3, <2>1, MainWaits DEF Testing, Mode
<1>4. ASSUME MainStep
      PROVE  TypeOK' /\ Started' /\ Earning'
  BY <1>1, <1>4, MainTypes, MainStarts, MainEarns
<1>5. ASSUME UNCHANGED attemptVars
      PROVE  /\ WakeTypeOK' /\ Waken' /\ (woken \in BOOLEAN)'
             /\ Snapshot!TypeOK' /\ Probing' /\ (Idle => Idle')
  <2>1. UNCHANGED <<wakeVars, woken>> /\ UNCHANGED testVars
    BY <1>5 DEF attemptVars
  <2> QED
    BY <1>1, <1>2, <2>1, WakeStands
<1>6. ASSUME UNCHANGED <<wakeVars, woken>>
      PROVE  WakeTypeOK' /\ Waken' /\ (woken \in BOOLEAN)'
  BY <1>1, <1>6, WakeStands
<1>7. pc = "wake" \/ Starter => ~Testing
  BY <1>1 DEF Starter, Testing, Started
<1>8. CASE pc # "wake" /\ ~Testing /\ MainStep /\ UNCHANGED attemptVars
  BY <1>1, <1>4, <1>5, <1>8
<1>9. CASE (pc = "wake" \/ Starter) /\ Progress /\ UNCHANGED <<vars, woken, testVars>>
  BY <1>1, <1>2, <1>3, <1>7, <1>9, WakeStepKeeps
<1>10. CASE Woken
  <2>1. MainStep
    BY <1>10 DEF Woken, MainStep
  <2>4. pc = "wake"
    BY <1>10 DEF Woken, Wake, Goto
  <2>2. WakeTypeOK' /\ Waken' /\ (woken \in BOOLEAN)'
    BY <1>1, <1>10, WokenKeeps DEF Woken, TakeVerdict
  <2>3. Snapshot!TypeOK' /\ Probing' /\ Idle'
    <3>1. CASE Snapshot!Begin
      BY <3>1, BeginTests DEF Idle
    <3>2. CASE UNCHANGED testVars
      BY <1>1, <1>2, <1>7, <2>4, <3>2
    <3> QED
      BY <1>10, <3>1, <3>2 DEF Woken
  <2> QED
    BY <1>4, <2>1, <2>2, <2>3
<1>11. CASE Testing /\ test = "passed" /\ Probe /\ UNCHANGED attemptVars
  <2>1. Idle /\ MainStep
    BY <1>1, <1>11, OverIsQuiet DEF Idle, MainStep
  <2> QED
    BY <1>4, <1>5, <1>11, <2>1
<1>12. CASE Testing /\ test = "failed" /\ Fails /\ UNCHANGED attemptVars
  <2>1. Idle /\ MainStep
    BY <1>1, <1>12, OverIsQuiet DEF Idle, MainStep
  <2> QED
    BY <1>4, <1>5, <1>12, <2>1
<1>13. CASE Testing /\ Snapshot!Next /\ UNCHANGED <<vars, wakeVars, woken>>
  BY <1>1, <1>3, <1>6, <1>13, TestTypes, TestKeeps
<1>14. CASE Clock
  BY <1>1, <1>2, <1>3, <1>7, <1>14, WakeStepKeeps DEF Clock, Waking
<1>15. ASSUME RequestStop \/ StartStream \/ StreamWoken \/ StreamStarted \/ StreamEnds
       PROVE  TypeOK' /\ Started' /\ Earning' /\ (Testing' <=> Testing)
  <2>1. TypeOK' /\ Started' /\ Earning' /\ UNCHANGED <<pc, options>>
    BY <1>1, <1>15, ThreadsKeep
  <2> QED
    BY <2>1 DEF Testing, Mode
<1>19. CASE StreamWoken /\ TakeVerdict /\ UNCHANGED testVars
  <2>1. WakeTypeOK' /\ Waken' /\ (woken \in BOOLEAN)'
    BY <1>1, <1>19, WokenKeeps DEF TakeVerdict
  <2> QED
    BY <1>1, <1>2, <1>15, <1>19, <2>1
<1>20. CASE /\ RequestStop \/ StartStream \/ StreamStarted \/ StreamEnds
            /\ UNCHANGED attemptVars
  BY <1>1, <1>5, <1>15, <1>20
<1>21. Start \/ Thread =>
         \/ Starter /\ Progress /\ UNCHANGED <<vars, woken, testVars>>
         \/ StreamWoken /\ TakeVerdict /\ UNCHANGED testVars
         \/ /\ RequestStop \/ StartStream \/ StreamStarted \/ StreamEnds
            /\ UNCHANGED attemptVars
  BY DEF Start, Thread
<1>16. CASE UNCHANGED appVars
  <2>1. UNCHANGED vars /\ UNCHANGED attemptVars
    BY <1>16 DEF appVars
  <2> QED
    BY <1>1, <1>3, <1>5, <2>1
<1>17. CASE Testing /\ Snapshot!AppStep /\ UNCHANGED <<vars, wakeVars, woken>>
  BY <1>13, <1>17 DEF Snapshot!Next
<1>18. CASE Child
  BY <1>13, <1>18 DEF Child, Snapshot!Next
<1> QED
  BY <1>8, <1>9, <1>10, <1>11, <1>12, <1>14, <1>16, <1>17, <1>18, <1>19, <1>20, <1>21
     DEF AppNext, Main

\* The app keeps track of itself: what main() has reached, what a wake-up has sent and
\* what a test has started fit together, whenever a signal or a request comes.
THEOREM AppKeepsTrack == AppSpec => []AppInv
<1>1. AppInit => AppInv
  BY InitInv
<1>2. AppInv /\ [AppNext]_appVars => AppInv'
  BY StepKeepsAppInv
<1> QED
  BY <1>1, <1>2, PTL DEF AppSpec

-----------------------------------------------------------------------------
(* What the runs check *)

\* camera_ready is reported only once every test that was asked for has passed on one
\* and the same attempt, with a clean disconnect, for any number of attempts.
THEOREM ReadyIsEarned == AppSpec => []CameraReadyIsEarned
<1>1. AppInv => CameraReadyIsEarned
  BY DEF AppInv, Earning, CameraReadyIsEarned, Passed
<1> QED
  BY <1>1, AppKeepsTrack, PTL

\* However an attempt ends, its wake-up leaves no connection and its test no process
\* behind, for any set of ports.
THEOREM AttemptsLeaveNothing == AppSpec => []AttemptLeavesNothing
<1>1. AppInv => AttemptLeavesNothing
  <2> SUFFICES ASSUME AppInv PROVE AttemptLeavesNothing
    OBVIOUS
  <2>1. verdict # "none" => \A p \in Ports : open[p] = {}
    BY DEF AppInv, Waken
  <2>2. ~Testing \/ test \in {"passed", "failed"} =>
            helper \in {"none", "exited"} /\ decoder \in {"none", "exited"}
    BY OverIsQuiet DEF AppInv, AppTypeOK, Quiet
  <2> QED
    BY <2>1, <2>2 DEF AttemptLeavesNothing
<1> QED
  BY <1>1, AppKeepsTrack, PTL

\* wake_requested is true only if a node of the wake service has been sent the command.
THEOREM RequestsWereSent == AppSpec => []RequestedWasSent
<1>1. AppInv => RequestedWasSent
  BY DEF AppInv, Waken, RequestedWasSent
<1> QED
  BY <1>1, AppKeepsTrack, PTL

\* A snapshot test that passed has an image, and a helper that left by itself.
THEOREM PassesAreClean == AppSpec => []PassedMeansClean
<1>1. AppInv => PassedMeansClean
  BY DEF AppInv, Probing, PassedMeansClean, Snapshot!PassedMeansClean
<1> QED
  BY <1>1, AppKeepsTrack, PTL
=============================================================================
