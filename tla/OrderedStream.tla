---------------------------- MODULE OrderedStream ----------------------------
(***************************************************************************)
(* What "one ordered, reliable channel" (CS2Session, src/okam_native/cs2.py)*)
(* promises its reader: the packets the camera has sent so far, in the     *)
(* order of sending, with none missing in front of another and none twice. *)
(* Packets are named by the position at which they were sent.              *)
(***************************************************************************)
EXTENDS Naturals, Sequences

VARIABLES
    sent,   \* how many packets the camera has sent
    got     \* the packets the reader's buffer has received, in order

vars == <<sent, got>>

Init == sent = 0 /\ got = << >>

Send == sent' = sent + 1 /\ UNCHANGED got

\* One or more of the next packets arrive together.
Receive ==
    /\ \E n \in Len(got) + 1 .. sent : got' = [i \in 1..n |-> i - 1]
    /\ UNCHANGED sent

Next == Send \/ Receive

Spec == Init /\ [][Next]_vars
=============================================================================
