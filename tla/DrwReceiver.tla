----------------------------- MODULE DrwReceiver -----------------------------
(***************************************************************************)
(* The receiving half of one DRW channel of CS2Session: _handle_data in    *)
(* src/okam_native/cs2.py, over UDP.  Datagrams and acknowledgements may be *)
(* lost, repeated and reordered.  The camera is not part of the            *)
(* repository; it is modelled from what the code relies on: it numbers its *)
(* packets modulo 2^16, sends a packet again until it is acknowledged, and *)
(* runs at most a window ahead of the first packet that is not.            *)
(*                                                                         *)
(* Packets are named by their position in the stream; the wire carries     *)
(* that position modulo Modulus.                                           *)
(***************************************************************************)
EXTENDS Integers, Sequences, FiniteSets

CONSTANTS
    Modulus,  \* sequence numbers are taken modulo this: 0x10000
    Half,     \* distances below this are ahead, the others behind: 0x8000
    Limit,    \* the packets _out_of_order may hold: 64
    Window,   \* how far the camera sends ahead of its first unacknowledged packet
    Lag,      \* a datagram is not delivered once this many packets behind it were sent
    Total     \* the packets the camera has to send (bounds the model)

ASSUME SizeAssumption ==
    /\ Modulus \in Nat \ {0} /\ Half \in Nat /\ Limit \in Nat
    /\ Window \in Nat \ {0} /\ Lag \in Nat /\ Total \in Nat
    /\ 2 * Half <= Modulus /\ Lag <= Half /\ Window <= Half

VARIABLES
    next,        \* camera: the next packet to send
    unacked,     \* camera: the packets it would send again
    wire,        \* data packets under way
    acks,        \* acknowledged packets whose acknowledgement is under way
    incoming,    \* _incoming_sequence: the sequence number expected next
    outOfOrder,  \* _out_of_order: sequence number -> packet
    buffer       \* _channel_buffers: the packets appended so far

camera == <<next, unacked>>
receiver == <<incoming, outOfOrder, buffer>>
vars == <<camera, wire, acks, receiver>>

Packets == 0 .. Total - 1
Numbers == 0 .. Modulus - 1
Held == DOMAIN outOfOrder

TypeOK ==
    /\ next \in 0..Total
    /\ unacked \subseteq Packets
    /\ wire \subseteq Packets
    /\ acks \subseteq Packets
    /\ incoming \in Numbers
    /\ Held \subseteq Numbers
    /\ \A s \in Held : outOfOrder[s] \in Packets
    /\ buffer \in Seq(Packets)

Init ==
    /\ next = 0
    /\ unacked = {}
    /\ wire = {}
    /\ acks = {}
    /\ incoming = 0
    /\ outOfOrder = << >>
    /\ buffer = << >>

-----------------------------------------------------------------------------
(* The camera and the network *)

\* Datagrams that are still delivered once n packets have been sent.
Young(datagrams, n) == {i \in datagrams : n <= i + Lag}

CameraSend ==
    /\ next < Total
    /\ \A i \in unacked : next < i + Window
    /\ next' = next + 1
    /\ unacked' = unacked \cup {next}
    /\ wire' = Young(wire, next + 1) \cup {next}
    /\ acks' = Young(acks, next + 1)
    /\ UNCHANGED receiver

CameraResend(i) ==
    /\ i \in unacked
    /\ wire' = wire \cup {i}
    /\ UNCHANGED <<camera, acks, receiver>>

CameraAcked(i) ==
    /\ i \in acks
    /\ acks' = acks \ {i}
    /\ unacked' = {u \in unacked : u % Modulus # i % Modulus}
    /\ UNCHANGED <<next, wire, receiver>>

Lose(i) ==
    /\ \/ i \in wire /\ wire' = wire \ {i} /\ UNCHANGED acks
       \/ i \in acks /\ acks' = acks \ {i} /\ UNCHANGED wire
    /\ UNCHANGED <<camera, receiver>>

-----------------------------------------------------------------------------
(* _handle_data *)

\* How many packets become readable when the expected one arrives: that one and
\* those held right behind it.
Run == CHOOSE n \in 1 .. Modulus :
         /\ \A k \in 1 .. n - 1 : (incoming + k) % Modulus \in Held
         /\ (incoming + n) % Modulus \notin Held

\* A variant that forgets to take the sequence number modulo 2^16.
WrongWrap(i) ==
    LET taken == {(incoming + k) % Modulus : k \in 1 .. Run - 1}
    IN  /\ buffer' = buffer \o [k \in 1 .. Run |->
              IF k = 1 THEN i ELSE outOfOrder[(incoming + k - 1) % Modulus]]
        /\ outOfOrder' = [s \in Held \ taken |-> outOfOrder[s]]
        /\ incoming' = incoming + Run

\* Append the expected packet and the run behind it.
Deliver(i) ==
    LET taken == {(incoming + k) % Modulus : k \in 1 .. Run - 1}
    IN  /\ buffer' = buffer \o [k \in 1 .. Run |->
              IF k = 1 THEN i ELSE outOfOrder[(incoming + k - 1) % Modulus]]
        /\ outOfOrder' = [s \in Held \ taken |-> outOfOrder[s]]
        /\ incoming' = (incoming + Run) % Modulus

Hold(i) ==
    /\ outOfOrder' = [s \in Held \cup {i % Modulus} |->
                        IF s = i % Modulus THEN i ELSE outOfOrder[s]]
    /\ UNCHANGED <<incoming, buffer>>

\* A variant that holds whatever it does not expect, however old.
WrongKeepsOld(i) == i % Modulus \notin Held /\ Cardinality(Held) < Limit

\* A variant that is off by one at the near end.
WrongKeepsNear(i) ==
    /\ i % Modulus \notin Held
    /\ Cardinality(Held) < Limit
    /\ ((i % Modulus) - incoming) % Modulus \in 2 .. Half - 1

\* There is room for a packet that is ahead of the expected one.
Keeps(i) ==
    /\ i % Modulus \notin Held
    /\ Cardinality(Held) < Limit
    /\ ((i % Modulus) - incoming) % Modulus \in 1 .. Half - 1

\* A packet arrives, once more or for the last time.  It is acknowledged before
\* anything else, then appended, held or dropped.
HandleData(i) ==
    /\ i \in wire
    /\ wire' \in {wire, wire \ {i}}
    /\ acks' = acks \cup {i}
    /\ IF i % Modulus = incoming THEN Deliver(i)
       ELSE IF Keeps(i) THEN Hold(i)
       ELSE UNCHANGED receiver
    /\ UNCHANGED camera

-----------------------------------------------------------------------------
Next ==
    \/ CameraSend
    \/ \E i \in Packets : CameraResend(i) \/ CameraAcked(i) \/ Lose(i) \/ HandleData(i)

Spec == Init /\ [][Next]_vars

\* The packet the camera has waited for longest.
Oldest(i) == i \in unacked /\ \A u \in unacked : i <= u

\* The camera goes on sending, and of what it keeps repeating the datagram, and the
\* acknowledgement, get through in the end.
Fairness ==
    /\ WF_vars(CameraSend)
    /\ WF_vars(\E i \in Packets : Oldest(i) /\ CameraResend(i))
    /\ SF_vars(\E i \in Packets : Oldest(i) /\ HandleData(i))
    /\ SF_vars(\E i \in Packets : Oldest(i) /\ CameraAcked(i))

-----------------------------------------------------------------------------
(* Properties *)

\* A packet the camera will not send again, because it was acknowledged, is in
\* the buffer or held for it: an acknowledgement is never sent for a packet that
\* is then dropped for good.
AckedIsKept ==
    \A i \in 0 .. next - 1 : i \notin unacked =>
        i < Len(buffer) \/ \E s \in Held : outOfOrder[s] = i

\* Nothing older than what is expected, and nothing half a cycle ahead, is held.
HeldIsAhead ==
    \A s \in Held : /\ outOfOrder[s] % Modulus = s
                    /\ outOfOrder[s] > Len(buffer)
                    /\ outOfOrder[s] < Len(buffer) + Half

\* Once the camera has begun, all it has to send reaches the reader's buffer: an
\* acknowledgement never stops the camera from repeating what the reader lacks.
AllArrive == next > 0 ~> Len(buffer) = Total

Stream == INSTANCE OrderedStream WITH sent <- next, got <- buffer

\* The channel is an OrderedStream.
StreamSpec == Stream!Spec
=============================================================================
