------------------------ MODULE BridgeStreamsProofs ------------------------
(***************************************************************************)
(* Proofs about StreamSession, for any set of viewers, and about           *)
(* BridgeStreams, for any set of requests of any kinds.  The handlers of   *)
(* the bridge reach the session by its own operations only                 *)
(* (BridgeRunsSession), so that what is proved of the session under any    *)
(* callers holds in the bridge.                                            *)
(***************************************************************************)
EXTENDS BridgeStreams, TLAPS

-----------------------------------------------------------------------------
(* The session *)

\* The variables keep their types, whatever the threads do.
THEOREM TypeCorrect == Spec => []TypeOK
<1> USE MainAssumption, NoneAssumption, ExitsAssumption
<1>1. Init => TypeOK
  <2> SUFFICES ASSUME Init PROVE TypeOK
    OBVIOUS
  <2>1. /\ helper \in [Viewers -> {"none", "running", "clean", "error", "silent"}]
        /\ viewer \in [Viewers -> {"new", "starting", "open", "ended", "stranded", "closing",
                                   "done"}]
        /\ stopper \in [Stoppers -> {"idle", "armed", "fired", "signal", "wait"}]
        /\ pump \in [Viewers -> {"off", "read", "joined", "end"}]
    BY DEF Init
  <2>2. /\ drained \in [Viewers -> BOOLEAN]
        /\ targets \in [Viewers -> SUBSET Viewers]
        /\ victim \in [Stoppers -> Viewers \cup {None}]
    BY DEF Init
  <2> QED
    BY <2>1, <2>2 DEF Init, TypeOK
<1>2. TypeOK /\ [Next]_vars => TypeOK'
  <2> SUFFICES ASSUME TypeOK, [Next]_vars PROVE TypeOK'
    OBVIOUS
  <2> USE DEF TypeOK, Stoppers
  <2>1. ASSUME NEW v \in Viewers, ViewerStep(v) PROVE TypeOK'
    <3>1. Cancelled \in [Stoppers -> {"idle", "armed", "fired", "signal", "wait"}]
      BY DEF Cancelled
    <3>2. CASE AcquireRefused(v)
      BY <3>2 DEF AcquireRefused, session, cache, pumps, stops
    <3>3. CASE AcquireAttach(v)
      BY <3>1, <3>3 DEF AcquireAttach, session, cache, pumps, stops
    <3>4. CASE AcquireStart(v)
      BY <3>1, <3>4 DEF AcquireStart, session, cache, pumps, stops
    <3>5. CASE StartReturns(v)
      BY <3>5 DEF StartReturns, session, cache, pumps, stops
    <3>6. CASE StartFails(v)
      BY <3>6 DEF StartFails, session, cache, pumps, stops
    <3>7. CASE BeginClose(v)
      BY <3>7 DEF BeginClose, session, cache, pumps, stops
    <3>8. CASE Release(v)
      BY <3>1, <3>8 DEF Release, session, cache, pumps, stops
    <3> QED
      BY <2>1, <3>2, <3>3, <3>4, <3>5, <3>6, <3>7, <3>8 DEF ViewerStep
  <2>2. ASSUME NEW h \in Viewers, HelperExit(h) PROVE TypeOK'
    BY <2>2 DEF HelperExit, session, cache, pumps, stops
  <2>3. ASSUME NEW h \in Viewers, PumpStep(h) PROVE TypeOK'
    <3>1. CASE PumpNote(h)
      BY <3>1 DEF PumpNote, session, cache, pumps, stops
    <3>2. CASE PumpJoin(h)
      BY <3>2 DEF PumpJoin, session, cache, pumps, stops
    <3>3. CASE PumpCleanup(h)
      BY <3>3 DEF PumpCleanup, session, cache, pumps, stops
    <3>4. CASE PumpSignalEnd(h)
      BY <3>4 DEF PumpSignalEnd, session, cache, pumps, stops
    <3>5. CASE DrainStderr(h)
      BY <3>5 DEF DrainStderr, session, cache, pumps, stops
    <3> QED
      BY <2>3, <3>1, <3>2, <3>3, <3>4, <3>5 DEF PumpStep
  <2>4. ASSUME NEW t \in Viewers, TimerStep(t) PROVE TypeOK'
    BY <2>4 DEF TimerStep, TimerFires, StopIfIdle, session, cache, pumps, stops
  <2>5. ASSUME NEW s \in Stoppers, StopStep(s) PROVE TypeOK'
    BY <2>5 DEF StopStep, Terminate, AwaitExit, session, cache, pumps, stops
  <2>6. CASE CloseSession
    BY <2>6 DEF CloseSession, Cancelled, session, cache, pumps, stops
  <2>7. CASE UNCHANGED vars
    BY <2>7 DEF vars, session, cache, pumps, stops
  <2> QED
    BY <2>1, <2>2, <2>3, <2>4, <2>5, <2>6, <2>7 DEF Next
<1> QED
  BY <1>1, <1>2, PTL DEF Spec

\* The parts of the session fit together in every reachable state.
THEOREM StaysConsistent == Spec => []Consistent
<1> USE MainAssumption, NoneAssumption
<1>1. Init => Consistent
  BY DEF Init, Consistent, Running, Stoppers
<1>2. TypeOK /\ Consistent /\ [Next]_vars => Consistent'
  <2> SUFFICES ASSUME TypeOK, Consistent, [Next]_vars PROVE Consistent'
    OBVIOUS
  <2> USE DEF TypeOK, Consistent, Running, Live, Stoppers
  <2>1. ASSUME NEW v \in Viewers, ViewerStep(v) PROVE Consistent'
    <3>1. CASE AcquireRefused(v)
      BY <3>1 DEF AcquireRefused, session, cache, pumps, stops
    <3>2. CASE AcquireAttach(v)
      BY <3>2 DEF AcquireAttach, Cancelled, session, cache, pumps, stops
    <3>3. CASE AcquireStart(v)
      BY <3>3 DEF AcquireStart, Cancelled, session, cache, pumps, stops
    <3>4. CASE StartReturns(v)
      BY <3>4 DEF StartReturns, session, cache, pumps, stops
    <3>5. CASE StartFails(v)
      BY <3>5 DEF StartFails, session, cache, pumps, stops
    <3>6. CASE BeginClose(v)
      BY <3>6 DEF BeginClose, session, cache, pumps, stops
    <3>7. CASE Release(v)
      BY <3>7 DEF Release, Cancelled, session, cache, pumps, stops
    <3> QED
      BY <2>1, <3>1, <3>2, <3>3, <3>4, <3>5, <3>6, <3>7 DEF ViewerStep
  <2>2. ASSUME NEW h \in Viewers, HelperExit(h) PROVE Consistent'
    BY <2>2 DEF HelperExit, session, cache, pumps, stops
  <2>3. ASSUME NEW h \in Viewers, PumpStep(h) PROVE Consistent'
    <3>1. CASE PumpNote(h)
      BY <3>1 DEF PumpNote, session, cache, pumps, stops
    <3>2. CASE PumpJoin(h)
      BY <3>2 DEF PumpJoin, session, cache, pumps, stops
    <3>3. CASE PumpCleanup(h)
      BY <3>3 DEF PumpCleanup, session, cache, pumps, stops
    <3>4. CASE PumpSignalEnd(h)
      BY <3>4 DEF PumpSignalEnd, session, cache, pumps, stops
    <3>5. CASE DrainStderr(h)
      BY <3>5 DEF DrainStderr, session, cache, pumps, stops
    <3> QED
      BY <2>3, <3>1, <3>2, <3>3, <3>4, <3>5 DEF PumpStep
  <2>4. ASSUME NEW t \in Viewers, TimerStep(t) PROVE Consistent'
    <3>1. CASE TimerFires(t)
      BY <3>1 DEF TimerFires, session, cache, pumps, stops
    <3>2. CASE StopIfIdle(t)
      BY <3>2 DEF StopIfIdle, session, cache, pumps, stops
    <3> QED
      BY <2>4, <3>1, <3>2 DEF TimerStep
  <2>5. ASSUME NEW s \in Stoppers, StopStep(s) PROVE Consistent'
    <3>1. CASE Terminate(s)
      BY <3>1 DEF Terminate, session, cache, pumps, stops
    <3>2. CASE AwaitExit(s)
      BY <3>2 DEF AwaitExit, session, cache, pumps, stops
    <3> QED
      BY <2>5, <3>1, <3>2 DEF StopStep
  <2>6. CASE CloseSession
    BY <2>6 DEF CloseSession, Cancelled, session, cache, pumps, stops
  <2>7. CASE UNCHANGED vars
    BY <2>7 DEF vars, session, cache, pumps, stops
  <2> QED
    BY <2>1, <2>2, <2>3, <2>4, <2>5, <2>6, <2>7 DEF Next
<1> QED
  BY <1>1, <1>2, TypeCorrect, PTL DEF Spec

\* One helper at a time, the one the session knows; none once close() is over;
\* and nobody in the table without a pump.
THEOREM SessionSafe == Spec => [](OneHelper /\ ClosedMeansStopped /\ SubscribedIsServed)
<1>1. TypeOK /\ Consistent => OneHelper /\ ClosedMeansStopped /\ SubscribedIsServed
  BY DEF TypeOK, Consistent, OneHelper, ClosedMeansStopped, SubscribedIsServed, Running
<1> QED
  BY <1>1, TypeCorrect, StaysConsistent, PTL

\* A viewer that waits is in the table or about to get END.
THEOREM NobodyDropped == Spec => []NoSilentDrop
<1> USE MainAssumption, NoneAssumption
<1>1. Init => NoSilentDrop
  BY DEF Init, NoSilentDrop
<1>2. TypeOK /\ Consistent /\ NoSilentDrop /\ [Next]_vars => NoSilentDrop'
  <2> SUFFICES ASSUME TypeOK, Consistent, NoSilentDrop, [Next]_vars PROVE NoSilentDrop'
    OBVIOUS
  <2> USE DEF TypeOK, Consistent, NoSilentDrop
  <2>1. ASSUME NEW v \in Viewers, ViewerStep(v) PROVE NoSilentDrop'
    <3>1. CASE AcquireRefused(v)
      BY <3>1 DEF AcquireRefused, session, cache, pumps, stops
    <3>2. CASE AcquireAttach(v)
      BY <3>2 DEF AcquireAttach, session, cache, pumps, stops, Cancelled
    <3>3. CASE AcquireStart(v)
      BY <3>3 DEF AcquireStart, session, cache, pumps, stops, Cancelled
    <3>4. CASE StartReturns(v)
      BY <3>4 DEF StartReturns, session, cache, pumps, stops
    <3>5. CASE StartFails(v)
      BY <3>5 DEF StartFails, session, cache, pumps, stops
    <3>6. CASE BeginClose(v)
      BY <3>6 DEF BeginClose, session, cache, pumps, stops
    <3>7. CASE Release(v)
      BY <3>7 DEF Release, session, cache, pumps, stops, Cancelled
    <3> QED
      BY <2>1, <3>1, <3>2, <3>3, <3>4, <3>5, <3>6, <3>7 DEF ViewerStep
  <2>2. ASSUME NEW h \in Viewers, HelperExit(h) PROVE NoSilentDrop'
    BY <2>2 DEF HelperExit, session, cache, pumps, stops
  <2>3. ASSUME NEW h \in Viewers, PumpStep(h) PROVE NoSilentDrop'
    <3>1. CASE PumpNote(h)
      BY <3>1 DEF PumpNote, session, cache, pumps, stops
    <3>2. CASE PumpJoin(h)
      BY <3>2 DEF PumpJoin, session, cache, pumps, stops
    <3>3. CASE PumpCleanup(h)
      BY <3>3 DEF PumpCleanup, session, cache, pumps, stops
    <3>4. CASE PumpSignalEnd(h)
      BY <3>4 DEF PumpSignalEnd, session, cache, pumps, stops
    <3>5. CASE DrainStderr(h)
      BY <3>5 DEF DrainStderr, session, cache, pumps, stops
    <3> QED
      BY <2>3, <3>1, <3>2, <3>3, <3>4, <3>5 DEF PumpStep
  <2>4. ASSUME NEW t \in Viewers, TimerStep(t) PROVE NoSilentDrop'
    <3>1. CASE TimerFires(t)
      BY <3>1 DEF TimerFires, session, cache, pumps, stops
    <3>2. CASE StopIfIdle(t)
      BY <3>2 DEF StopIfIdle, session, cache, pumps, stops
    <3> QED
      BY <2>4, <3>1, <3>2 DEF TimerStep
  <2>5. ASSUME NEW s \in Stoppers, StopStep(s) PROVE NoSilentDrop'
    <3>1. CASE Terminate(s)
      BY <3>1 DEF Terminate, session, cache, pumps, stops
    <3>2. CASE AwaitExit(s)
      BY <3>2 DEF AwaitExit, session, cache, pumps, stops
    <3> QED
      BY <2>5, <3>1, <3>2 DEF StopStep
  <2>6. CASE CloseSession
    BY <2>6 DEF CloseSession, session, cache, pumps, stops, Cancelled
  <2>7. CASE UNCHANGED vars
    BY <2>7 DEF vars, session, cache, pumps, stops
  <2> QED
    BY <2>1, <2>2, <2>3, <2>4, <2>5, <2>6, <2>7 DEF Next
<1> QED
  BY <1>1, <1>2, TypeCorrect, StaysConsistent, PTL DEF Spec

\* A running helper has a viewer that will close, a timer that will decide, or a
\* stop under way.
THEOREM NobodyOrphaned == Spec => []NoOrphan
<1> USE MainAssumption, NoneAssumption
<1>1. Init => NoOrphan
  BY DEF Init, NoOrphan, Running
<1>2. TypeOK /\ Consistent /\ NoOrphan /\ [Next]_vars => NoOrphan'
  <2> SUFFICES ASSUME TypeOK, Consistent, NoOrphan, [Next]_vars PROVE NoOrphan'
    OBVIOUS
  <2> USE DEF TypeOK, Consistent, NoOrphan, Running, Live, Stoppers
  <2>1. ASSUME NEW v \in Viewers, ViewerStep(v) PROVE NoOrphan'
    <3>1. CASE AcquireRefused(v)
      BY <3>1 DEF AcquireRefused, session, cache, pumps, stops
    <3>2. CASE AcquireAttach(v)
      BY <3>2 DEF AcquireAttach, session, cache, pumps, stops, Cancelled
    <3>3. CASE AcquireStart(v)
      BY <3>3 DEF AcquireStart, session, cache, pumps, stops, Cancelled
    <3>4. CASE StartReturns(v)
      BY <3>4 DEF StartReturns, session, cache, pumps, stops
    <3>5. CASE StartFails(v)
      BY <3>5 DEF StartFails, session, cache, pumps, stops
    <3>6. CASE BeginClose(v)
      BY <3>6 DEF BeginClose, session, cache, pumps, stops
    <3>7. CASE Release(v)
      BY <3>7 DEF Release, session, cache, pumps, stops, Cancelled
    <3> QED
      BY <2>1, <3>1, <3>2, <3>3, <3>4, <3>5, <3>6, <3>7 DEF ViewerStep
  <2>2. ASSUME NEW h \in Viewers, HelperExit(h) PROVE NoOrphan'
    BY <2>2 DEF HelperExit, session, cache, pumps, stops
  <2>3. ASSUME NEW h \in Viewers, PumpStep(h) PROVE NoOrphan'
    <3>1. CASE PumpNote(h)
      BY <3>1 DEF PumpNote, session, cache, pumps, stops
    <3>2. CASE PumpJoin(h)
      BY <3>2 DEF PumpJoin, session, cache, pumps, stops
    <3>3. CASE PumpCleanup(h)
      BY <3>3 DEF PumpCleanup, session, cache, pumps, stops
    <3>4. CASE PumpSignalEnd(h)
      BY <3>4 DEF PumpSignalEnd, session, cache, pumps, stops
    <3>5. CASE DrainStderr(h)
      BY <3>5 DEF DrainStderr, session, cache, pumps, stops
    <3> QED
      BY <2>3, <3>1, <3>2, <3>3, <3>4, <3>5 DEF PumpStep
  <2>4. ASSUME NEW t \in Viewers, TimerStep(t) PROVE NoOrphan'
    <3>1. CASE TimerFires(t)
      BY <3>1 DEF TimerFires, session, cache, pumps, stops
    <3>2. CASE StopIfIdle(t)
      BY <3>2 DEF StopIfIdle, session, cache, pumps, stops
    <3> QED
      BY <2>4, <3>1, <3>2 DEF TimerStep
  <2>5. ASSUME NEW s \in Stoppers, StopStep(s) PROVE NoOrphan'
    <3>1. CASE Terminate(s)
      BY <3>1 DEF Terminate, session, cache, pumps, stops
    <3>2. CASE AwaitExit(s)
      BY <3>2 DEF AwaitExit, session, cache, pumps, stops
    <3> QED
      BY <2>5, <3>1, <3>2 DEF StopStep
  <2>6. CASE CloseSession
    BY <2>6 DEF CloseSession, session, cache, pumps, stops, Cancelled
  <2>7. CASE UNCHANGED vars
    BY <2>7 DEF vars, session, cache, pumps, stops
  <2> QED
    BY <2>1, <2>2, <2>3, <2>4, <2>5, <2>6, <2>7 DEF Next
<1> QED
  BY <1>1, <1>2, TypeCorrect, StaysConsistent, PTL DEF Spec

\* The session implements SharedHelper: every one of its steps starts the next
\* helper, ends the current one, shuts the session, or does none of these.
THEOREM KeepsSharedHelper == Spec => SharedSpec
<1> USE MainAssumption, NoneAssumption
<1> DEFINE current == IF Live THEN process ELSE None
           spent == {h \in Viewers : helper[h] # "none"}
<1>1. Init => Shared!Init
  BY DEF Init, Shared!Init, Live
<1>2. TypeOK /\ Consistent /\ [Next]_vars => [Shared!Next]_(Shared!vars)
  <2> SUFFICES ASSUME TypeOK, Consistent, [Next]_vars PROVE [Shared!Next]_(Shared!vars)
    OBVIOUS
  <2> USE DEF TypeOK, Consistent, Running, Live, Stoppers, Shared!Next, Shared!vars
  <2>1. ASSUME NEW v \in Viewers, ViewerStep(v) PROVE [Shared!Next]_(Shared!vars)
    <3>1. CASE AcquireRefused(v)
      BY <3>1 DEF AcquireRefused, session, cache, pumps, stops
    <3>2. CASE AcquireAttach(v)
      BY <3>2 DEF AcquireAttach, session, cache, pumps, stops, Cancelled
    <3>3. CASE AcquireStart(v)
      BY <3>3 DEF AcquireStart, session, cache, pumps, stops, Cancelled
    <3>4. CASE StartReturns(v)
      <4>1. ~Live /\ v \notin spent /\ ~closed
        BY <3>4 DEF StartReturns
      <4>2. process' = v /\ Live' /\ closed' = closed
        BY <3>4 DEF StartReturns
      <4>3. spent' = spent \cup {v}
        BY <3>4 DEF StartReturns
      <4>4. Shared!Start(v)
        BY <4>1, <4>2, <4>3 DEF Shared!Start
      <4> QED
        BY <4>4
    <3>5. CASE StartFails(v)
      BY <3>5 DEF StartFails, session, cache, pumps, stops
    <3>6. CASE BeginClose(v)
      BY <3>6 DEF BeginClose, session, cache, pumps, stops
    <3>7. CASE Release(v)
      BY <3>7 DEF Release, session, cache, pumps, stops, Cancelled
    <3> QED
      BY <2>1, <3>1, <3>2, <3>3, <3>4, <3>5, <3>6, <3>7 DEF ViewerStep
  <2>2. ASSUME NEW h \in Viewers, HelperExit(h) PROVE [Shared!Next]_(Shared!vars)
    <3>1. process = h /\ Live /\ ~Live'
      BY <2>2, ExitsAssumption DEF HelperExit, session
    <3>2. spent' = spent /\ closed' = closed
      BY <2>2, ExitsAssumption DEF HelperExit
    <3>3. Shared!Stop
      BY <3>1, <3>2 DEF Shared!Stop
    <3> QED
      BY <3>3
  <2>3. ASSUME NEW h \in Viewers, PumpStep(h) PROVE [Shared!Next]_(Shared!vars)
    <3>1. CASE PumpNote(h)
      BY <3>1 DEF PumpNote, session, cache, pumps, stops
    <3>2. CASE PumpJoin(h)
      BY <3>2 DEF PumpJoin, session, cache, pumps, stops
    <3>3. CASE PumpCleanup(h)
      BY <3>3 DEF PumpCleanup, session, cache, pumps, stops
    <3>4. CASE PumpSignalEnd(h)
      BY <3>4 DEF PumpSignalEnd, session, cache, pumps, stops
    <3>5. CASE DrainStderr(h)
      BY <3>5 DEF DrainStderr, session, cache, pumps, stops
    <3> QED
      BY <2>3, <3>1, <3>2, <3>3, <3>4, <3>5 DEF PumpStep
  <2>4. ASSUME NEW t \in Viewers, TimerStep(t) PROVE [Shared!Next]_(Shared!vars)
    <3>1. CASE TimerFires(t)
      BY <3>1 DEF TimerFires, session, cache, pumps, stops
    <3>2. CASE StopIfIdle(t)
      BY <3>2 DEF StopIfIdle, session, cache, pumps, stops
    <3> QED
      BY <2>4, <3>1, <3>2 DEF TimerStep
  <2>5. ASSUME NEW s \in Stoppers, StopStep(s) PROVE [Shared!Next]_(Shared!vars)
    <3>1. CASE Terminate(s)
      BY <3>1 DEF Terminate, session, cache, pumps, stops
    <3>2. CASE AwaitExit(s)
      <4>1. victim[s] \in Viewers
        BY <3>2 DEF AwaitExit
      <4>2. spent' = spent /\ closed' = closed /\ process' = process
        BY <3>2, <4>1 DEF AwaitExit, session
      <4>3. CASE Running(victim[s])
        <5>1. process = victim[s] /\ Live /\ ~Live'
          BY <3>2, <4>1, <4>3 DEF AwaitExit, session
        <5>2. Shared!Stop
          BY <4>2, <5>1 DEF Shared!Stop
        <5> QED
          BY <5>2
      <4>4. CASE ~Running(victim[s])
        BY <3>2, <4>1, <4>2, <4>4 DEF AwaitExit
      <4> QED
        BY <4>3, <4>4
    <3> QED
      BY <2>5, <3>1, <3>2 DEF StopStep
  <2>6. CASE CloseSession
    <3>1. Shared!Shut
      BY <2>6 DEF CloseSession, Shared!Shut, cache
    <3> QED
      BY <3>1
  <2>7. CASE UNCHANGED vars
    BY <2>7 DEF vars, session, cache, pumps, stops
  <2> QED
    BY <2>1, <2>2, <2>3, <2>4, <2>5, <2>6, <2>7 DEF Next
<1> QED
  BY <1>1, <1>2, TypeCorrect, StaysConsistent, PTL DEF Spec, SharedSpec, Shared!Spec

-----------------------------------------------------------------------------
(* The requests *)

\* The handlers reach the session by its own operations only.  So whatever is
\* proved of the session under any callers holds in the bridge.
THEOREM BridgeRunsSession == BridgeSpec => Spec
<1>1. BridgeInit => Init
  BY DEF BridgeInit
<1>2. [BridgeNext]_bridgeVars => [Next]_vars
  <2> SUFFICES ASSUME [BridgeNext]_bridgeVars PROVE [Next]_vars
    OBVIOUS
  <2>1. CASE SessionStep
    BY <2>1 DEF SessionStep, Next
  <2>2. ASSUME NEW r \in Viewers, RequestStep(r) PROVE [Next]_vars
    <3>1. CASE Acquire(r)
      BY <3>1 DEF Acquire, Next, ViewerStep
    <3>2. CASE StarterEnds(r)
      BY <3>2 DEF StarterEnds, Next, ViewerStep
    <3>3. CASE CloseSubscription(r)
      BY <3>3 DEF CloseSubscription, Next, ViewerStep
    <3>4. CASE ReleaseSubscription(r)
      BY <3>4 DEF ReleaseSubscription, Next, ViewerStep
    <3>5. CASE \/ Spawn(r) \/ SpawnFails(r) \/ SendHeaders(r) \/ ServeEnds(r)
               \/ ClientLeaves(r) \/ FeedEnds(r) \/ ChildExits(r) \/ Reap(r)
               \/ ReapMuxer(r) \/ PatchIdleTimeout(r)
      BY <3>5 DEF Spawn, SpawnFails, SendHeaders, ServeEnds, ClientLeaves, FeedEnds,
                  ChildExits, Reap, ReapMuxer, PatchIdleTimeout
    <3> QED
      BY <2>2, <3>1, <3>2, <3>3, <3>4, <3>5 DEF RequestStep
  <2>3. CASE UNCHANGED bridgeVars
    BY <2>3 DEF bridgeVars
  <2> QED
    BY <2>1, <2>2, <2>3 DEF BridgeNext
<1> QED
  BY <1>1, <1>2, PTL DEF BridgeSpec, Spec

\* The variables of the handlers keep their types.
THEOREM BridgeTypeCorrect == BridgeSpec => []BridgeTypeOK
<1>1. BridgeInit => BridgeTypeOK
  BY AppIdleAssumption DEF BridgeInit, BridgeTypeOK, Timeouts
<1>2. BridgeTypeOK /\ [BridgeNext]_bridgeVars => BridgeTypeOK'
  <2> SUFFICES ASSUME BridgeTypeOK, [BridgeNext]_bridgeVars PROVE BridgeTypeOK'
    OBVIOUS
  <2> USE DEF BridgeTypeOK, handler, settings, Goto
  <2>1. CASE SessionStep
    BY <2>1 DEF SessionStep
  <2>2. ASSUME NEW r \in Viewers, RequestStep(r) PROVE BridgeTypeOK'
    <3>1. CASE Acquire(r)
      BY <3>1 DEF Acquire, Subscribed
    <3>2. CASE StarterEnds(r)
      BY <3>2 DEF StarterEnds, Subscribed
    <3>3. CASE Spawn(r)
      BY <3>3 DEF Spawn
    <3>4. CASE SpawnFails(r)
      BY <3>4 DEF SpawnFails
    <3>5. CASE SendHeaders(r)
      BY <3>5 DEF SendHeaders
    <3>6. CASE ServeEnds(r)
      BY <3>6 DEF ServeEnds
    <3>7. CASE ClientLeaves(r)
      BY <3>7 DEF ClientLeaves
    <3>8. CASE FeedEnds(r)
      BY <3>8 DEF FeedEnds
    <3>9. CASE ChildExits(r)
      BY <3>9 DEF ChildExits
    <3>10. CASE CloseSubscription(r)
      BY <3>10 DEF CloseSubscription
    <3>11. CASE ReleaseSubscription(r)
      BY <3>11 DEF ReleaseSubscription
    <3>12. CASE Reap(r)
      BY <3>12 DEF Reap
    <3>13. CASE ReapMuxer(r)
      BY <3>13 DEF ReapMuxer
    <3>14. CASE PatchIdleTimeout(r)
      BY <3>14 DEF PatchIdleTimeout
    <3> QED
      BY <2>2, <3>1, <3>2, <3>3, <3>4, <3>5, <3>6, <3>7, <3>8, <3>9, <3>10, <3>11,
         <3>12, <3>13, <3>14 DEF RequestStep
  <2>3. CASE UNCHANGED bridgeVars
    BY <2>3 DEF bridgeVars
  <2> QED
    BY <2>1, <2>2, <2>3 DEF BridgeNext
<1> QED
  BY <1>1, <1>2, PTL DEF BridgeSpec

\* In the bridge too, a viewer that waits is in the table or about to get END, and
\* a running helper has somebody who will stop it, whatever handlers and clients do.
THEOREM BridgeSessionSafe == BridgeSpec => [](NoSilentDrop /\ NoOrphan)
  BY BridgeRunsSession, NobodyDropped, NobodyOrphaned, PTL

-----------------------------------------------------------------------------
(* What a request leaves behind *)

\* The place of a handler says what the session, and the child, know of it.
InStep ==
    \A r \in Viewers :
        /\ at[r] = "arrive" => viewer[r] \in {"new", "starting"}
        /\ at[r] \in {"spawn", "headers", "serve", "close", "crashed"} =>
             viewer[r] \in {"open", "ended", "stranded"}
        /\ kind[r] \in {"patch", "none"} \/ at[r] = "answered" => viewer[r] = "new"
        /\ at[r] = "release" => viewer[r] = "closing"
        /\ at[r] \in {"reap", "wait", "over"} => viewer[r] = "done"
        /\ at[r] \in {"arrive", "spawn", "over"} => child[r] # "up"

\* Handler, session and child go through a request together.
THEOREM StaysInStep == BridgeSpec => []InStep
<1>1. BridgeInit => InStep
  BY DEF BridgeInit, Init, InStep
<1>2. TypeOK /\ BridgeTypeOK /\ InStep /\ [BridgeNext]_bridgeVars => InStep'
  <2> SUFFICES ASSUME TypeOK, BridgeTypeOK, InStep, [BridgeNext]_bridgeVars PROVE InStep'
    OBVIOUS
  <2>0. /\ viewer \in [Viewers -> {"new", "starting", "open", "ended", "stranded",
                                   "closing", "done"}]
        /\ at \in [Viewers -> {"arrive", "spawn", "headers", "serve", "close", "release",
                               "reap", "wait", "over", "crashed", "answered"}]
        /\ child \in [Viewers -> {"none", "up", "gone"}]
    BY DEF TypeOK, BridgeTypeOK
  <2> USE <2>0 DEF InStep, Goto
  <2>1. CASE SessionStep
    <3>1. viewer' = viewer \/ \E h \in Viewers : PumpSignalEnd(h)
      BY <2>1 DEF SessionStep, HelperExit, PumpStep, PumpNote, PumpJoin, PumpCleanup,
                  DrainStderr, TimerStep, TimerFires, StopIfIdle, StopStep, Terminate,
                  AwaitExit, CloseSession
    <3>2. \A r \in Viewers :
            viewer'[r] = viewer[r] \/ (viewer[r] = "open" /\ viewer'[r] \in {"ended", "stranded"})
      BY <3>1 DEF PumpSignalEnd
    <3>3. at' = at /\ child' = child /\ kind' = kind
      BY <2>1 DEF SessionStep, handler
    <3> QED
      BY <3>2, <3>3
  <2>2. ASSUME NEW r \in Viewers, RequestStep(r) PROVE InStep'
    <3>1. CASE Acquire(r)
      BY <3>1 DEF Acquire, Subscribed, AcquireAttach, AcquireStart, AcquireRefused
    <3>2. CASE StarterEnds(r)
      <4>1. kind[r] \notin {"patch", "none"} /\ at[r] = "arrive"
        BY <3>2 DEF StarterEnds, StartReturns, StartFails
      <4>2. \/ viewer' = [viewer EXCEPT ![r] = "open"] /\ Goto(r, Subscribed(r))
            \/ viewer' = [viewer EXCEPT ![r] = "done"] /\ Goto(r, "over")
        BY <3>2 DEF StarterEnds, StartReturns, StartFails
      <4>3. kind' = kind /\ child' = child
        BY <3>2 DEF StarterEnds
      <4> QED
        BY <4>1, <4>2, <4>3 DEF Subscribed
    <3>3. CASE Spawn(r)
      BY <3>3 DEF Spawn, vars
    <3>4. CASE SpawnFails(r)
      BY <3>4 DEF SpawnFails, vars
    <3>5. CASE SendHeaders(r)
      BY <3>5 DEF SendHeaders, vars
    <3>6. CASE ServeEnds(r)
      BY <3>6 DEF ServeEnds, vars
    <3>7. CASE ClientLeaves(r)
      BY <3>7 DEF ClientLeaves, vars
    <3>8. CASE FeedEnds(r)
      BY <3>8 DEF FeedEnds, vars
    <3>9. CASE ChildExits(r)
      BY <3>9 DEF ChildExits, vars
    <3>10. CASE CloseSubscription(r)
      BY <3>10 DEF CloseSubscription, BeginClose
    <3>11. CASE ReleaseSubscription(r)
      BY <3>11 DEF ReleaseSubscription, Release
    <3>12. CASE Reap(r)
      BY <3>12 DEF Reap, vars
    <3>13. CASE ReapMuxer(r)
      BY <3>13 DEF ReapMuxer, vars
    <3>14. CASE PatchIdleTimeout(r)
      BY <3>14 DEF PatchIdleTimeout, vars
    <3> QED
      BY <2>2, <3>1, <3>2, <3>3, <3>4, <3>5, <3>6, <3>7, <3>8, <3>9, <3>10, <3>11,
         <3>12, <3>13, <3>14 DEF RequestStep
  <2>3. CASE UNCHANGED bridgeVars
    BY <2>3 DEF bridgeVars, vars, handler
  <2> QED
    BY <2>1, <2>2, <2>3 DEF BridgeNext
<1> QED
  BY <1>1, <1>2, BridgeRunsSession, TypeCorrect, BridgeTypeCorrect, PTL DEF BridgeSpec

\* A request that is over has given its subscription back and has no child left,
\* whichever way it ended.
THEOREM NothingStays == BridgeSpec => []NothingLeftOver
<1>1. Consistent /\ InStep => NothingLeftOver
  BY DEF Consistent, InStep, NothingLeftOver
<1> QED
  BY <1>1, BridgeRunsSession, StaysConsistent, StaysInStep, PTL
=============================================================================
