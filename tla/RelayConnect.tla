---------------------------- MODULE RelayConnect ----------------------------
(***************************************************************************)
(* CS2Session.connect() and close() (src/okam_native/cs2.py), and what     *)
(* _pump() answers of the handshake once there is a session: the           *)
(* rendezvous over UDP with the directory, which names the camera's        *)
(* endpoint and the relays, with one relay, and with the camera itself.    *)
(* Every request is repeated on a timer; requests and answers may be lost, *)
(* and answers come late and in any order.                                 *)
(*                                                                         *)
(* An endpoint is <<host, port>>; a relay listens on port 0 and forwards   *)
(* media from port 1, the camera is at port 0 and NAT may show it at a     *)
(* port next to that.  Directory, relays and camera are external, modelled *)
(* by the packets connect() answers to.                                    *)
(***************************************************************************)
EXTENDS Naturals, FiniteSets

CONSTANTS
    Relays,    \* the relay hosts in the list of the directory
    NatPorts,  \* the ports NAT may show the camera at
    None       \* no endpoint and no relay

ASSUME ConnectAssumption ==
    Relays # {} /\ NatPorts \subseteq 0 .. 2 /\ None \notin Relays

Ports == 0 .. 2
Host(endpoint) == endpoint[1]
CameraAt(port) == <<"camera", port>>
Main(r) == <<r, 0>>
Media(r) == <<r, 1>>
Endpoints == ({"camera"} \cup Relays) \X Ports

\* The answers connect() waits for: F1 40, 69, 71, 73, 82, 02, 41, 42 and 84.
Packet(kind, from) == [kind |-> kind, from |-> from]
Answers ==
    {Packet(k, None) : k \in {"40", "69"}}
    \cup {Packet(k, r) : k \in {"71", "73", "82", "02", "84"}, r \in Relays}
    \cup {Packet(k, CameraAt(p)) : k \in {"41", "42"}, p \in NatPorts}

VARIABLES
    preferRelay,   \* prefer_relay, an argument of connect()
    phase,         \* "connecting", "connected" or "closed"
    endpoints,     \* endpoints: where to punch
    relays,        \* relay_endpoints, by host
    relayPort,     \* relay_port_endpoint, by host, or None
    relayRequest,  \* relay_request: the relay it names, or None
    peer,          \* _peer, or None
    path,          \* connect_path, "none" before there is one
    closeTargets,  \* _close_targets
    answers,       \* packets under way to connect()
    bound,         \* the endpoints connect() left with a binding to this session
    drifted,       \* the endpoints _pump() told that the session is ready
    touched,       \* the endpoints outside the directory a packet was sent to
    closeSent      \* the endpoints F1 F0 was sent to

latched == <<relayPort, relayRequest>>
setup == <<preferRelay, endpoints, relays>>
vars == <<phase, setup, latched, peer, path, closeTargets, answers, bound, drifted,
          touched, closeSent>>

TypeOK ==
    /\ preferRelay \in BOOLEAN
    /\ phase \in {"connecting", "connected", "closed"}
    /\ endpoints \subseteq {CameraAt(0)}
    /\ relays \subseteq Relays
    /\ {relayPort, relayRequest} \subseteq Relays \cup {None}
    /\ peer \in Endpoints \cup {None}
    /\ path \in {"none", "relay", "direct-punch", "direct-accept"}
    /\ answers \subseteq Answers
    /\ closeTargets \cup bound \cup drifted \cup touched \cup closeSent \subseteq Endpoints

Init ==
    /\ preferRelay \in BOOLEAN
    /\ phase = "connecting"
    /\ endpoints = {} /\ relays = {}
    /\ relayPort = None /\ relayRequest = None
    /\ peer = None /\ path = "none"
    /\ closeTargets = {}
    /\ answers = {}
    /\ bound = {} /\ drifted = {} /\ touched = {} /\ closeSent = {}

-----------------------------------------------------------------------------
(* The timers of the loop.  Each request is answered, or lost on the way. *)

Answered(packets) == \E got \in SUBSET packets : answers' = answers \cup got

SendLookup ==
    /\ phase = "connecting"
    /\ Answered({Packet("40", None)})
    /\ UNCHANGED <<phase, setup, latched, peer, path, closeTargets, bound, touched,
                   drifted, closeSent>>

SendListRequest ==
    /\ phase = "connecting"
    /\ Answered({Packet("69", None)})
    /\ UNCHANGED <<phase, setup, latched, peer, path, closeTargets, bound, touched,
                   drifted, closeSent>>

\* A variant that sends the port request when the relay answers, and never again.
WrongSendRelay ==
    /\ phase = "connecting" /\ relays # {}
    /\ \/ /\ relayPort = None
          /\ Answered({Packet("71", r) : r \in relays})
          /\ touched' = touched \cup {Main(r) : r \in relays}
       \/ /\ relayPort # None /\ relayRequest # None
          /\ Answered({Packet("82", relayRequest), Packet("02", relayRequest)})
          /\ UNCHANGED touched
    /\ UNCHANGED <<phase, setup, latched, peer, path, closeTargets, bound, drifted,
                   closeSent>>

\* The relays are greeted until one answers, that one is asked for a port until it
\* names one, and from then on the directory is asked to arrange the meeting.
SendRelay ==
    /\ phase = "connecting" /\ relays # {}
    /\ \/ /\ relayPort = None
          /\ Answered({Packet("71", r) : r \in relays})
          /\ touched' = touched \cup {Main(r) : r \in relays}
       \/ /\ relayPort # None /\ relayRequest = None
          /\ Answered({Packet("73", relayPort)})
          /\ touched' = touched \cup {Main(relayPort)}
       \/ /\ relayPort # None /\ relayRequest # None
          /\ Answered({Packet("82", relayRequest), Packet("02", relayRequest)})
          /\ UNCHANGED touched
    /\ UNCHANGED <<phase, setup, latched, peer, path, closeTargets, bound, drifted,
                   closeSent>>

\* F1 41 to every port near each endpoint; the camera answers from where NAT puts it.
SendPunch ==
    /\ phase = "connecting" /\ endpoints # {}
    /\ Answered({Packet(k, CameraAt(p)) : k \in {"41", "42"}, p \in NatPorts})
    /\ touched' = touched \cup {CameraAt(p) : p \in Ports}
    /\ UNCHANGED <<phase, setup, latched, peer, path, closeTargets, bound, drifted,
                   closeSent>>

-----------------------------------------------------------------------------
(* _receive_clear() and the branches of the loop *)

Received(kind, from) ==
    /\ phase = "connecting"
    /\ Packet(kind, from) \in answers

Consumed(kind, from) == answers' = answers \ {Packet(kind, from)}

\* The camera's endpoint: punched at once.
Endpoint ==
    /\ Received("40", None)
    /\ endpoints' = endpoints \cup {CameraAt(0)}
    /\ closeTargets' = closeTargets \cup {CameraAt(0)}
    /\ touched' = touched \cup {CameraAt(0)}
    /\ Consumed("40", None)
    /\ UNCHANGED <<preferRelay, phase, relays, latched, peer, path, bound, drifted,
                   closeSent>>

RelayList ==
    /\ Received("69", None)
    /\ relays' = Relays
    /\ Consumed("69", None)
    /\ UNCHANGED <<preferRelay, phase, endpoints, latched, peer, path, closeTargets,
                   bound, touched, drifted, closeSent>>

\* A variant that turns to whichever relay answered last.
WrongRelayHello(r) ==
    /\ Received("71", r)
    /\ relayPort' = r
    /\ Consumed("71", r)
    /\ touched' = touched \cup {Main(r)}
    /\ UNCHANGED <<phase, setup, relayRequest, peer, path, closeTargets, bound, drifted,
                   closeSent>>

\* The first relay that answers is asked for a port; the others are ignored.
RelayHello(r) ==
    /\ Received("71", r)
    /\ Consumed("71", r)
    /\ IF relayPort = None
         THEN relayPort' = r /\ touched' = touched \cup {Main(r)}
         ELSE UNCHANGED <<relayPort, touched>>
    /\ UNCHANGED <<phase, setup, relayRequest, peer, path, closeTargets, bound, drifted,
                   closeSent>>

\* The relay has a port: the directory is asked for a meeting there.
RelayPort(r) ==
    /\ Received("73", r)
    /\ relayRequest' = IF r = relayPort THEN r ELSE relayRequest
    /\ Consumed("73", r)
    /\ UNCHANGED <<phase, setup, relayPort, peer, path, closeTargets, bound, touched,
                   drifted, closeSent>>

\* HelloTo: F1 83 with the token goes to the relay, which answers F1 84.
HelloTo(r) ==
    /\ Received("82", r)
    /\ \E got \in SUBSET {Packet("84", r)} :
         answers' = (answers \ {Packet("82", r)}) \cup got
    /\ touched' = touched \cup {Media(r)}
    /\ UNCHANGED <<phase, setup, latched, peer, path, closeTargets, bound, drifted,
                   closeSent>>

\* F1 02 names two endpoints, and F1 03 goes to both.
RelayTo(r) ==
    /\ Received("02", r)
    /\ Consumed("02", r)
    /\ touched' = touched \cup {Media(r), CameraAt(0)}
    /\ UNCHANGED <<phase, setup, latched, peer, path, closeTargets, bound, drifted,
                   closeSent>>

\* A variant whose peer is the endpoint the directory named, not the sender.
WrongAdoptDirect(kind, from, as) ==
    /\ Received(kind, from)
    /\ ~preferRelay
    /\ peer' = CameraAt(0) /\ path' = as
    /\ phase' = "connected"
    /\ bound' = bound \cup {from}
    /\ touched' = touched \cup {from}
    /\ Consumed(kind, from)
    /\ UNCHANGED <<setup, latched, closeTargets, drifted, closeSent>>

\* Both halves of the direct handshake bind the camera to this session.
AdoptDirect(kind, from, as) ==
    /\ Received(kind, from)
    /\ ~preferRelay
    /\ closeTargets' = closeTargets \cup {from}
    /\ peer' = from /\ path' = as
    /\ phase' = "connected"
    /\ bound' = bound \cup {from}
    /\ touched' = touched \cup {from}
    /\ Consumed(kind, from)
    /\ UNCHANGED <<setup, latched, drifted, closeSent>>

\* A direct punch is not answered while a relay is preferred.
IgnorePunch(from) ==
    /\ Received("41", from)
    /\ preferRelay
    /\ closeTargets' = closeTargets \cup {from}
    /\ Consumed("41", from)
    /\ UNCHANGED <<phase, setup, latched, peer, path, bound, touched, drifted, closeSent>>

\* Readiness is acknowledged, F1 43, without making the camera the peer.
DeclineReady(from) ==
    /\ Received("42", from)
    /\ preferRelay
    /\ closeTargets' = closeTargets \cup {from}
    /\ bound' = bound \cup {from}
    /\ touched' = touched \cup {from}
    /\ Consumed("42", from)
    /\ UNCHANGED <<phase, setup, latched, peer, path, drifted, closeSent>>

\* RlyRdy: the relay is the peer.
RelayReady(r) ==
    /\ Received("84", r)
    /\ closeTargets' = closeTargets \cup {Media(r)}
    /\ peer' = Media(r) /\ path' = "relay"
    /\ phase' = "connected"
    /\ bound' = bound \cup {Media(r)}
    /\ touched' = touched \cup {Media(r)}
    /\ Consumed("84", r)
    /\ UNCHANGED <<setup, latched, drifted, closeSent>>

Lose ==
    /\ \E a \in answers : answers' = answers \ {a}
    /\ phase = "connecting"
    /\ UNCHANGED <<phase, setup, latched, peer, path, closeTargets, bound, touched,
                   drifted, closeSent>>

-----------------------------------------------------------------------------
(* _pump(), once connect() has returned *)

\* A camera whose punch or readiness was not answered repeats it, from whatever port
\* NAT, or the relay, has given it by now.  From the peer's host it is answered,
\* F1 42 or F1 43, and the port is not put on the list; from another it is dropped.
PumpReadiness(port) ==
    /\ phase = "connected"
    /\ drifted' = drifted \cup {<<Host(peer), port>>}
    /\ touched' = touched \cup {<<Host(peer), port>>}
    /\ UNCHANGED <<phase, setup, latched, peer, path, closeTargets, answers, bound,
                   closeSent>>

-----------------------------------------------------------------------------
(* close() *)

\* At the end of the time, when the owner is done, or when the peer sends F1 F0.
Close ==
    /\ phase # "closed"
    /\ phase' = "closed"
    /\ closeSent' = closeTargets \cup ({peer} \ {None})
    /\ peer' = None
    /\ UNCHANGED <<setup, latched, path, closeTargets, answers, bound, drifted, touched>>

-----------------------------------------------------------------------------
Answer ==
    \/ Endpoint \/ RelayList
    \/ \E r \in Relays : \/ RelayHello(r) \/ RelayPort(r) \/ HelloTo(r) \/ RelayTo(r)
                         \/ RelayReady(r)
    \/ \E p \in NatPorts : \/ AdoptDirect("41", CameraAt(p), "direct-punch")
                         \/ AdoptDirect("42", CameraAt(p), "direct-accept")
                         \/ IgnorePunch(CameraAt(p)) \/ DeclineReady(CameraAt(p))

Next ==
    \/ SendLookup \/ SendListRequest \/ SendRelay \/ SendPunch
    \/ Answer \/ Lose \/ Close
    \/ \E port \in Ports : PumpReadiness(port)

Spec == Init /\ [][Next]_vars

\* A request that is repeated is answered some time, and its answer arrives.
Fairness ==
    /\ SF_vars(SendListRequest /\ answers' # answers) /\ SF_vars(RelayList)
    /\ \A k \in {"71", "73", "82"} :
         SF_vars(SendRelay /\ \E r \in Relays : Packet(k, r) \in answers')
    /\ SF_vars(\E r \in Relays : RelayHello(r) \/ RelayPort(r))
    /\ SF_vars(\E r \in Relays : HelloTo(r) /\ Packet("84", r) \in answers')
    /\ SF_vars(\E r \in Relays : RelayReady(r))

FairSpec == Spec /\ Fairness

-----------------------------------------------------------------------------
(* Properties *)

\* With prefer_relay the session is the one the relay arranged, whatever the camera
\* offers directly, and its relay is the one the handshake went through.
PeerIsTheRelay ==
    /\ preferRelay /\ path # "none" => path = "relay"
    /\ path = "relay" => relayPort # None /\ Media(relayPort) \in bound
                         /\ relayRequest = relayPort

\* close() releases the camera, also when connect() gives up: each endpoint that took
\* the session for ready before connect() returned is told that it is over, at the
\* port it has; one that was only told so by _pump() is told at some port of its host.
BoundIsReleased ==
    phase = "closed" =>
        /\ bound \subseteq closeSent
        /\ \A e \in drifted : \E told \in closeSent : Host(told) = Host(e)

\* When the relays answer in the end, connect() gets its session if it has the time,
\* whatever is lost: no order of the answers leads the handshake into a corner.
Connects == <>(phase # "connecting")

\* cs2.py:559-561, "Close every endpoint this session touched, not just the peer. A
\* camera left holding a stale binding refuses the next rendezvous": so every endpoint
\* that took the session for ready is told that it is over, also a drifted port.
BindingIsClosed == phase = "closed" => bound \cup drifted \subseteq closeSent
=============================================================================
