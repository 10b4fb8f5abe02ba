------------------------------ MODULE DrwSender ------------------------------
(***************************************************************************)
(* The sending half of one DRW channel of CS2Session: write, _retransmit   *)
(* and _handle_ack in src/okam_native/cs2.py, over UDP.  A write sends its *)
(* chunks and pumps until each of them is acknowledged; every pump, also   *)
(* that of a read, first sends again what has waited long enough.  An      *)
(* error leaves what is pending where it is.  run() in amd64_helper.py     *)
(* answers an error with at most one more write, the stop command, and     *)
(* then closes.                                                            *)
(*                                                                         *)
(* Chunks are named by their position in the stream; a session writes a    *)
(* handful of commands and never reaches the wrap of the sequence number.  *)
(* That a chunk has waited long enough is free here, and so is whether a   *)
(* write has; the code's 0.5 s, 20 attempts and 5 s allow fewer orders.    *)
(***************************************************************************)
EXTENDS Naturals, Functions

CONSTANTS
    MaxRetransmits,  \* how often a chunk is sent: MAX_RETRANSMITS, 20
    MaxChunks,       \* the most chunks of one write (bounds the model)
    MaxWrites        \* the writes of a session (bounds the model)

ASSUME BoundsAssumption ==
    /\ MaxRetransmits \in Nat \ {0}
    /\ MaxChunks \in Nat \ {0}
    /\ MaxWrites \in Nat

VARIABLES
    op,        \* what the caller does: "reading", "sending", "waiting", "failed", "closed"
    failed,    \* an error has been raised
    writes,    \* the writes that were begun
    toSend,    \* chunks of the current write that are not sent yet
    current,   \* sent_sequences
    outgoing,  \* _outgoing_sequence
    pending,   \* _pending: chunk -> how often it was sent
    returned,  \* the chunks of the writes that returned
    onWire,    \* chunks under way to the camera
    onAcks,    \* chunks whose acknowledgement is under way
    got        \* the chunks the camera has received

write == <<writes, toSend, current, returned>>
network == <<onWire, onAcks, got>>
senderVars == <<op, failed, write, outgoing, pending, network>>

Chunks == 0 .. MaxWrites * MaxChunks - 1
Pending == DOMAIN pending

SenderTypeOK ==
    /\ op \in {"reading", "sending", "waiting", "failed", "closed"}
    /\ failed \in BOOLEAN
    /\ writes \in 0 .. MaxWrites /\ toSend \in 0 .. MaxChunks
    /\ outgoing \in Nat /\ outgoing + toSend <= writes * MaxChunks
    /\ Pending \subseteq Chunks
    /\ \A i \in Pending : pending[i] \in 1 .. MaxRetransmits
    /\ {current, returned, onWire, onAcks, got} \subseteq SUBSET Chunks

SenderInit ==
    /\ op = "reading"
    /\ failed = FALSE
    /\ writes = 0 /\ toSend = 0 /\ current = {}
    /\ outgoing = 0
    /\ pending = [i \in {} |-> 0]
    /\ returned = {}
    /\ onWire = {} /\ onAcks = {} /\ got = {}

Raises == op' = "failed" /\ failed' = TRUE

-----------------------------------------------------------------------------
(* write *)

\* After an error only the stop command is written.
BeginWrite ==
    /\ writes < MaxWrites
    /\ op = IF failed THEN "failed" ELSE "reading"
    /\ failed => writes = MaxWrites - 1
    /\ op' = "sending"
    /\ writes' = writes + 1
    /\ current' = {}
    /\ toSend' \in 1 .. MaxChunks
    /\ UNCHANGED <<failed, outgoing, pending, returned, network>>

SendChunk ==
    /\ op = "sending"
    /\ outgoing' = outgoing + 1
    /\ pending' = [i \in Pending \cup {outgoing} |-> IF i = outgoing THEN 1 ELSE pending[i]]
    /\ current' = current \cup {outgoing}
    /\ onWire' = onWire \cup {outgoing}
    /\ toSend' = toSend - 1
    /\ op' = IF toSend = 1 THEN "waiting" ELSE op
    /\ UNCHANGED <<failed, writes, returned, onAcks, got>>

\* sendto raises OSError: the number is taken, the chunk is not pending.
SendFails ==
    /\ op = "sending"
    /\ outgoing' = outgoing + 1
    /\ toSend' = 0
    /\ Raises
    /\ UNCHANGED <<writes, current, pending, returned, network>>

\* A variant that is content with the acknowledgement of one chunk.
WrongWriteReturns ==
    /\ op = "waiting"
    /\ current \ Pending # {}
    /\ op' = "reading"
    /\ returned' = returned \cup current
    /\ UNCHANGED <<failed, writes, toSend, current, outgoing, pending, network>>

WriteReturns ==
    /\ op = "waiting"
    /\ current \cap Pending = {}
    /\ op' = "reading"
    /\ returned' = returned \cup current
    /\ UNCHANGED <<failed, writes, toSend, current, outgoing, pending, network>>

\* The chunks stay pending.
WriteTimesOut ==
    /\ op = "waiting"
    /\ current \cap Pending # {}
    /\ Raises
    /\ UNCHANGED <<write, outgoing, pending, network>>

-----------------------------------------------------------------------------
(* _pump, in a write or in a read *)

Pumping == op \in {"reading", "waiting"}

\* A variant that gives a chunk up and goes on.
WrongRetransmit(due) ==
    LET spent == {i \in due : pending[i] = MaxRetransmits}
    IN  /\ Pumping
        /\ onWire' = onWire \cup (due \ spent)
        /\ pending' = [i \in Pending \ spent |-> IF i \in due THEN pending[i] + 1 ELSE pending[i]]
        /\ UNCHANGED <<op, failed, write, outgoing, onAcks, got>>

\* The chunks that are due are sent again, in order, up to one that was sent often
\* enough: it is given up, and that raises.
Retransmit(due) ==
    LET spent == {i \in due : pending[i] = MaxRetransmits}
        again == {i \in due : \A j \in spent : i < j}
        given == {j \in spent : \A k \in spent : j <= k}
    IN  /\ Pumping
        /\ onWire' = onWire \cup again
        /\ pending' = [i \in Pending \ given |->
                         IF i \in again THEN pending[i] + 1 ELSE pending[i]]
        /\ IF spent = {} THEN UNCHANGED <<op, failed>> ELSE Raises
        /\ UNCHANGED <<write, outgoing, onAcks, got>>

HandleAck(i) ==
    /\ Pumping
    /\ i \in onAcks
    /\ onAcks' \in {onAcks, onAcks \ {i}}
    /\ pending' = Restrict(pending, Pending \ {i})
    /\ UNCHANGED <<op, failed, write, outgoing, onWire, got>>

\* recvfrom or a sendto raises OSError.
SocketFails ==
    /\ Pumping
    /\ Raises
    /\ UNCHANGED <<write, outgoing, pending, network>>

\* By run(), or because the camera closes the session.
Close ==
    /\ op \in {"reading", "waiting", "failed"}
    /\ op' = "closed"
    /\ UNCHANGED <<failed, write, outgoing, pending, network>>

-----------------------------------------------------------------------------
(* The camera and the network *)

CameraReceives(i) ==
    /\ i \in onWire
    /\ onWire' \in {onWire, onWire \ {i}}
    /\ got' = got \cup {i}
    /\ onAcks' = onAcks \cup {i}
    /\ UNCHANGED <<op, failed, write, outgoing, pending>>

LoseChunk(i) ==
    /\ \/ i \in onWire /\ onWire' = onWire \ {i} /\ UNCHANGED onAcks
       \/ i \in onAcks /\ onAcks' = onAcks \ {i} /\ UNCHANGED onWire
    /\ UNCHANGED <<op, failed, write, outgoing, pending, got>>

SenderNext ==
    \/ BeginWrite \/ SendChunk \/ SendFails \/ WriteReturns \/ WriteTimesOut
    \/ \E due \in SUBSET Pending \ {{}} : Retransmit(due)
    \/ SocketFails \/ Close
    \/ \E i \in Chunks : HandleAck(i) \/ CameraReceives(i) \/ LoseChunk(i)

SenderSpec == SenderInit /\ [][SenderNext]_senderVars

-----------------------------------------------------------------------------
(* Properties *)

\* A write that returns has put every chunk into the hands of the camera, whatever
\* was lost, repeated or left behind by an earlier write.
WrittenIsReceived == returned \subseteq got

\* Until an error is raised, a chunk the camera does not have will be sent again.
NothingForgotten ==
    ~failed => \A i \in 0 .. outgoing - 1 : i \in got \/ i \in Pending

\* cs2.py:259, "One ordered, reliable channel session": the camera, which takes the
\* chunks in the order of their numbers, gets to those of a write that returned.
WrittenIsDelivered == \A i \in returned : 0 .. i \subseteq got
=============================================================================
