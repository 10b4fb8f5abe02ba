---------------------------- MODULE MCDrwChannel -----------------------------
(***************************************************************************)
(* For TLC: the two halves of a channel and the envelope, one at a time,   *)
(* with bytes of three bits, and keys and packets made of them.            *)
(*                                                                         *)
(* They can be taken one at a time because they share no state:            *)
(* _handle_data touches only _incoming_sequence, _out_of_order and         *)
(* _channel_buffers, _handle_ack and write only _outgoing_sequence and     *)
(* _pending, and the envelope keeps nothing from one packet to the next.   *)
(* The halves take it that the key is Usable.  What else _pump does, its   *)
(* test of the sender's address, its answers and the camera's close, is in *)
(* RelayConnect and HelperProcess, as far as it is modelled.               *)
(***************************************************************************)
EXTENDS DrwReceiver, DrwSender, WireCodec

VARIABLE layer  \* what moves in this behaviour: "in", "out" or the "envelope"

allVars == <<layer, vars, senderVars, codecVars>>

MCInit ==
    /\ Init /\ SenderInit
    /\ \/ layer \in {"in", "out"} /\ AtRest /\ key = << >> /\ clear = << >>
       \/ layer = "envelope" /\ CodecInit

MCNext ==
    \/ layer = "in" /\ Next /\ UNCHANGED <<layer, senderVars, codecVars>>
    \/ layer = "out" /\ SenderNext /\ UNCHANGED <<layer, vars, codecVars>>
    \/ layer = "envelope" /\ CodecNext /\ UNCHANGED <<layer, vars, senderVars>>

\* Fairness is asked of what moves.
MCSpec == MCInit /\ [][MCNext]_allVars /\ (layer = "in" => Fairness)

MCSize == 8
MCByte == 0..7

Bit(a, i) == (a \div 2^i) % 2
MCXor(a, b) ==
    LET bit(i) == 2^i * ((Bit(a, i) + Bit(b, i)) % 2) IN bit(0) + bit(1) + bit(2)

\* A permutation, as _SHUFFLE is; what it takes to 0 makes a key unusable.
MCShuffle == [i \in MCByte |-> (5 * i + 3) % 8]

MCKeys == UNION {[1..n -> MCByte] : n \in 1..2}

\* A packet of each kind, with an empty body or one of one byte.
MCClears ==
    UNION {{<<7, type, 0, n>> \o body : type \in 1..3, body \in [1..n -> MCByte]} : n \in 0..1}
=============================================================================
