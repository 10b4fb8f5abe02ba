------------------------- MODULE RelayConnectProofs -------------------------
(***************************************************************************)
(* The properties of RelayConnect, for every number of relays and whatever *)
(* NAT does to the camera's port.                                          *)
(***************************************************************************)
EXTENDS RelayConnect, TLAPS

-----------------------------------------------------------------------------
(* The inductive invariant *)

\* The relay whose port the directory was given is the one that was asked for it.
OneRelay == relayRequest # None => relayRequest = relayPort

\* The directory and the relay answer for that relay only.
AnswersFollow == \A k \in {"82", "02", "84"}, r \in Relays :
                     Packet(k, r) \in answers => relayRequest = r

\* While connect() looks for a path there is none; the path through a relay is bound.
PathIsArranged ==
    /\ phase = "connecting" => path = "none"
    /\ preferRelay => path \in {"none", "relay"}
    /\ path = "relay" => relayRequest # None /\ Media(relayPort) \in bound

\* What connect() left bound, and its peer, are on the list of close(); what _pump() told
\* is at the host of one that is; and what is on the list is told.
BoundIsListed ==
    /\ bound \subseteq closeTargets
    /\ phase = "connected" => peer \in closeTargets
    /\ \A e \in drifted : \E told \in closeTargets : Host(told) = Host(e)
    /\ phase = "closed" => closeTargets \subseteq closeSent

ConnectInv == OneRelay /\ AnswersFollow /\ PathIsArranged /\ BoundIsListed

-----------------------------------------------------------------------------
(* What a step leaves alone *)

\* Neither of the latches nor the answers that follow them: what is new is of
\* another kind.
LEMMA OthersKeepTheAnswers ==
    ASSUME AnswersFollow, UNCHANGED relayRequest,
           NEW new, answers' \subseteq answers \cup new,
           \A a \in new : a.kind \notin {"82", "02", "84"}
    PROVE  AnswersFollow'
<1> SUFFICES ASSUME NEW k \in {"82", "02", "84"}, NEW r \in Relays,
                    Packet(k, r) \in answers'
             PROVE  relayRequest' = r
  BY DEF AnswersFollow, Packet
<1>1. Packet(k, r).kind = k
  BY DEF Packet
<1>2. Packet(k, r) \in answers
  BY <1>1
<1> QED
  BY <1>2 DEF AnswersFollow

\* A step that touches nothing but the answers and what has been sent where.
Waiting ==
    UNCHANGED <<preferRelay, phase, relayPort, relayRequest, path, closeTargets, bound,
                drifted, closeSent, peer>>

LEMMA WaitingKeeps ==
    ASSUME ConnectInv, Waiting
    PROVE  OneRelay' /\ PathIsArranged' /\ BoundIsListed'
  BY DEF ConnectInv, OneRelay, PathIsArranged, BoundIsListed, Waiting

-----------------------------------------------------------------------------
\* The timers of the loop, and what the network loses.
LEMMA TimerKeepsInv ==
    ASSUME ConnectInv,
           SendLookup \/ SendListRequest \/ SendRelay \/ SendPunch \/ Lose
    PROVE  ConnectInv'
<1>1. Waiting
  BY DEF SendLookup, SendListRequest, SendRelay, SendPunch, Lose, Waiting, setup, latched
<1>2. AnswersFollow /\ UNCHANGED relayRequest
  BY <1>1 DEF ConnectInv, Waiting
<1>3. AnswersFollow'
  <2>1. CASE SendLookup
    <3>1. answers' \subseteq answers \cup {Packet("40", None)}
      BY <2>1 DEF SendLookup, Answered
    <3>2. \A a \in {Packet("40", None)} : a.kind \notin {"82", "02", "84"}
      BY DEF Packet
    <3> QED
      BY <1>1, <1>2, <3>1, <3>2, OthersKeepTheAnswers
  <2>2. CASE SendListRequest
    <3>1. answers' \subseteq answers \cup {Packet("69", None)}
      BY <2>2 DEF SendListRequest, Answered
    <3>2. \A a \in {Packet("69", None)} : a.kind \notin {"82", "02", "84"}
      BY DEF Packet
    <3> QED
      BY <1>1, <1>2, <3>1, <3>2, OthersKeepTheAnswers
  <2>3. CASE SendPunch
    <3> DEFINE Punched == {Packet(k, CameraAt(p)) : k \in {"41", "42"}, p \in NatPorts}
    <3>1. answers' \subseteq answers \cup Punched
      BY <2>3 DEF SendPunch, Answered
    <3>2. \A a \in Punched : a.kind \notin {"82", "02", "84"}
      BY DEF Packet
    <3> HIDE DEF Punched
    <3> QED
      BY <1>1, <1>2, <3>1, <3>2, OthersKeepTheAnswers
  <2>4. CASE Lose
    <3>1. answers' \subseteq answers
      BY <2>4 DEF Lose
    <3> QED
      BY <1>2, <3>1 DEF AnswersFollow
  <2>5. CASE SendRelay /\ relayPort = None
    <3> DEFINE Greeted == {Packet("71", r) : r \in relays}
    <3>1. answers' \subseteq answers \cup Greeted
      BY <2>5 DEF SendRelay, Answered
    <3>2. \A a \in Greeted : a.kind \notin {"82", "02", "84"}
      BY DEF Packet
    <3> QED
      BY <1>1, <1>2, <3>1, <3>2, OthersKeepTheAnswers
  <2>6. CASE SendRelay /\ relayPort # None /\ relayRequest = None
    <3>1. answers' \subseteq answers \cup {Packet("73", relayPort)}
      BY <2>6 DEF SendRelay, Answered
    <3>2. \A a \in {Packet("73", relayPort)} : a.kind \notin {"82", "02", "84"}
      BY DEF Packet
    <3> QED
      BY <1>1, <1>2, <3>1, <3>2, OthersKeepTheAnswers
  <2>7. CASE SendRelay /\ relayPort # None /\ relayRequest # None
    <3>1. answers' \subseteq answers \cup {Packet("82", relayRequest), Packet("02", relayRequest)}
      BY <2>7 DEF SendRelay, Answered
    <3> QED
      BY <1>2, <3>1 DEF AnswersFollow, Packet
  <2> QED
    BY <2>1, <2>2, <2>3, <2>4, <2>5, <2>6, <2>7
<1> QED
  BY <1>1, <1>3, WaitingKeeps DEF ConnectInv

\* The answers of the directory and of the relays.
LEMMA RelayKeepsInv ==
    ASSUME ConnectInv, NEW r \in Relays,
           RelayHello(r) \/ RelayPort(r) \/ HelloTo(r) \/ RelayTo(r) \/ RelayReady(r)
    PROVE  ConnectInv'
<1> USE ConnectAssumption DEF ConnectInv, setup, latched
<1>1. CASE RelayHello(r)
  <2>1. /\ UNCHANGED <<preferRelay, phase, relayRequest, path, closeTargets, bound, drifted,
                     closeSent, peer>>
        /\ answers' \subseteq answers
        /\ relayPort # None => UNCHANGED relayPort
        /\ phase = "connecting"
    BY <1>1 DEF RelayHello, Received, Consumed
  <2>2. AnswersFollow'
    BY <2>1 DEF AnswersFollow
  <2> QED
    BY <2>1, <2>2 DEF OneRelay, PathIsArranged, BoundIsListed
<1>2. CASE RelayPort(r)
  <2>1. /\ UNCHANGED <<preferRelay, phase, relayPort, path, closeTargets, bound, drifted,
                     closeSent, peer>>
        /\ answers' \subseteq answers
        /\ relayRequest' = IF r = relayPort THEN r ELSE relayRequest
        /\ phase = "connecting"
    BY <1>2 DEF RelayPort, Received, Consumed
  <2>2. relayRequest # None => UNCHANGED relayRequest
    BY <2>1 DEF OneRelay
  <2>3. AnswersFollow'
    BY <2>1, <2>2 DEF AnswersFollow
  <2> QED
    BY <2>1, <2>2, <2>3 DEF OneRelay, PathIsArranged, BoundIsListed
<1>3. CASE HelloTo(r)
  <2>1. Waiting
    BY <1>3 DEF HelloTo, Waiting
  <2>2. /\ answers' \subseteq answers \cup {Packet("84", r)}
        /\ Packet("82", r) \in answers
    BY <1>3 DEF HelloTo, Received
  <2>3. relayRequest = r
    BY <2>2 DEF AnswersFollow
  <2>4. AnswersFollow'
    BY <2>1, <2>2, <2>3 DEF AnswersFollow, Waiting, Packet
  <2> QED
    BY <2>1, <2>4, WaitingKeeps
<1>4. CASE RelayTo(r)
  <2>1. Waiting
    BY <1>4 DEF RelayTo, Waiting
  <2>2. answers' \subseteq answers
    BY <1>4 DEF RelayTo, Consumed
  <2>3. AnswersFollow'
    BY <2>1, <2>2 DEF AnswersFollow, Waiting
  <2> QED
    BY <2>1, <2>3, WaitingKeeps
<1>5. CASE RelayReady(r)
  <2>1. /\ UNCHANGED <<preferRelay, relayPort, relayRequest, drifted>> /\ peer' = Media(r)
        /\ answers' \subseteq answers
        /\ Packet("84", r) \in answers
        /\ path' = "relay" /\ phase' = "connected"
        /\ bound' = bound \cup {Media(r)}
        /\ closeTargets' = closeTargets \cup {Media(r)}
    BY <1>5 DEF RelayReady, Received, Consumed
  <2>2. relayRequest = r /\ relayPort = r /\ r # None
    BY <2>1 DEF AnswersFollow, OneRelay
  <2>3. AnswersFollow'
    BY <2>1 DEF AnswersFollow
  <2> QED
    BY <2>1, <2>2, <2>3 DEF OneRelay, PathIsArranged, BoundIsListed
<1> QED
  BY <1>1, <1>2, <1>3, <1>4, <1>5

\* The camera's own answers, from port p.
LEMMA CameraKeepsInv ==
    ASSUME ConnectInv, NEW p \in NatPorts,
           \/ AdoptDirect("41", CameraAt(p), "direct-punch")
           \/ AdoptDirect("42", CameraAt(p), "direct-accept")
           \/ IgnorePunch(CameraAt(p)) \/ DeclineReady(CameraAt(p))
    PROVE  ConnectInv'
<1> USE DEF ConnectInv, setup, latched
<1> DEFINE Direct(as) ==
             /\ UNCHANGED <<preferRelay, relayPort, relayRequest, drifted, closeSent>>
             /\ phase' = "connected" => peer' = CameraAt(p)
             /\ answers' \subseteq answers
             /\ phase = "connecting" /\ phase' \in {"connecting", "connected"}
             /\ phase' = "connecting" => UNCHANGED path
             /\ UNCHANGED path \/ (~preferRelay /\ path' \in as)
             /\ bound \subseteq bound'
             /\ bound' \subseteq bound \cup {CameraAt(p)}
             /\ closeTargets' = closeTargets \cup {CameraAt(p)}
<1>1. Direct({"direct-punch", "direct-accept"})
  <2>1. CASE AdoptDirect("41", CameraAt(p), "direct-punch")
    BY <2>1 DEF AdoptDirect, Received, Consumed
  <2>2. CASE AdoptDirect("42", CameraAt(p), "direct-accept")
    BY <2>2 DEF AdoptDirect, Received, Consumed
  <2>3. CASE IgnorePunch(CameraAt(p))
    BY <2>3 DEF IgnorePunch, Received, Consumed
  <2>4. CASE DeclineReady(CameraAt(p))
    BY <2>4 DEF DeclineReady, Received, Consumed
  <2> QED
    BY <2>1, <2>2, <2>3, <2>4
<1>2. AnswersFollow'
  BY <1>1 DEF AnswersFollow
<1>3. OneRelay' /\ BoundIsListed'
  BY <1>1 DEF OneRelay, BoundIsListed
<1>4. PathIsArranged'
  BY <1>1 DEF PathIsArranged
<1> QED
  BY <1>2, <1>3, <1>4

\* Whatever is lost and in whatever order the answers come.
THEOREM ConnectKeepsTrack == Spec => []ConnectInv
<1>1. Init => ConnectInv
  BY DEF Init, ConnectInv, OneRelay, AnswersFollow, PathIsArranged, BoundIsListed
<1>2. ConnectInv /\ [Next]_vars => ConnectInv'
  <2> SUFFICES ASSUME ConnectInv, [Next]_vars PROVE ConnectInv'
    OBVIOUS
  <2>1. CASE SendLookup \/ SendListRequest \/ SendRelay \/ SendPunch \/ Lose
    BY <2>1, TimerKeepsInv
  <2>2. CASE Endpoint
    BY <2>2 DEF Endpoint, Received, Consumed, ConnectInv, OneRelay, AnswersFollow,
                PathIsArranged, BoundIsListed, latched
  <2>3. CASE RelayList
    BY <2>3 DEF RelayList, Received, Consumed, ConnectInv, OneRelay, AnswersFollow,
                PathIsArranged, BoundIsListed, latched
  <2>4. CASE Answer /\ ~(Endpoint \/ RelayList)
    BY <2>4, RelayKeepsInv, CameraKeepsInv DEF Answer
  <2>5. CASE Close
    BY <2>5 DEF Close, ConnectInv, OneRelay, AnswersFollow, PathIsArranged, BoundIsListed,
                setup, latched
  <2>6. ASSUME NEW port \in Ports, PumpReadiness(port) PROVE ConnectInv'
    <3>1. /\ phase = "connected" /\ drifted' = drifted \cup {<<Host(peer), port>>}
          /\ UNCHANGED <<phase, preferRelay, relayPort, relayRequest, peer, path,
                         closeTargets, answers, bound, closeSent>>
      BY <2>6 DEF PumpReadiness, setup, latched
    <3>2. peer \in closeTargets
      BY <3>1 DEF ConnectInv, BoundIsListed
    <3>3. Host(<<Host(peer), port>>) = Host(peer)
      BY DEF Host
    <3>4. \A e \in drifted' : \E told \in closeTargets : Host(told) = Host(e)
      BY <3>1, <3>2, <3>3 DEF ConnectInv, BoundIsListed
    <3> QED
      BY <3>1, <3>2, <3>4 DEF ConnectInv, OneRelay, AnswersFollow, PathIsArranged, BoundIsListed
  <2>7. CASE UNCHANGED vars
    BY <2>7 DEF vars, setup, latched, ConnectInv, OneRelay, AnswersFollow, PathIsArranged,
                BoundIsListed
  <2> QED
    BY <2>1, <2>2, <2>3, <2>4, <2>5, <2>6, <2>7 DEF Next
<1> QED
  BY <1>1, <1>2, PTL DEF Spec

-----------------------------------------------------------------------------
\* connect(prefer_relay=True) never settles for a direct path, and the relay it settles
\* for is the one it asked for a port and named to the directory.
THEOREM PeerIsArranged == Spec => []PeerIsTheRelay
<1>1. ConnectInv => PeerIsTheRelay
  BY DEF ConnectInv, OneRelay, PathIsArranged, PeerIsTheRelay
<1> QED
  BY <1>1, ConnectKeepsTrack, PTL

\* close() releases whoever connect() left bound, also when it has given up, and the host
\* of whoever _pump() answered since.
THEOREM BindingsAreReleased == Spec => []BoundIsReleased
<1>1. ConnectInv => BoundIsReleased
  BY DEF ConnectInv, BoundIsListed, BoundIsReleased
<1> QED
  BY <1>1, ConnectKeepsTrack, PTL
=============================================================================
