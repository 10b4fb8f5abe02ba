------------------------------ MODULE WireCodec ------------------------------
(***************************************************************************)
(* One packet on its way through the envelope of CS2 (src/okam_native/cs2.py): *)
(* _key_hash, encrypt_packet and the choice of forms on the sending side,  *)
(* decrypt_packet and the tests of _receive_clear on the other.  The       *)
(* camera is taken to use the same envelope.  The loops over the bytes are *)
(* steps, so that what they compute is an invariant.                       *)
(***************************************************************************)
EXTENDS Integers, Sequences

CONSTANTS
    Size,       \* how many values a byte has: 256
    Xor(_, _),  \* ^ of two bytes
    Shuffle,    \* _SHUFFLE
    F1,         \* the first byte of every clear packet
    Dual,       \* _DUAL_WIRE_PACKET_TYPES, as the second byte
    Encrypted,  \* _ENCRYPTED_PACKET_TYPES
    Keys,       \* transport keys
    Clears      \* the packets that are sent

Byte == 0 .. Size - 1

\* The length a packet gives in its third and fourth byte.
Declared(p) == p[3] * Size + p[4]

WellFormed(p) == Len(p) >= 4 /\ p[1] = F1 /\ Declared(p) = Len(p) - 4

ASSUME ByteAssumption == Size \in Nat \ {0} /\ F1 \in Byte /\ Shuffle \in [Byte -> Byte]
ASSUME XorAssumption ==
    \A a, b \in Byte : /\ Xor(a, b) \in Byte
                       /\ Xor(Xor(a, b), b) = a
                       /\ Xor(a, b) = a => b = 0
ASSUME InputAssumption ==
    /\ \A k \in Keys : k \in Seq(Byte)
    /\ \A p \in Clears : p \in Seq(Byte) /\ WellFormed(p)

VARIABLES
    key, hashed, hash,   \* the key, how much of it the hash has seen, the hash
    clear, encoded,      \* the packet, and encoded so far
    sent,                \* the form that is on the wire
    decoded,             \* what the receiver has of it so far
    step                 \* "hash", "encrypt", "wire", "decrypt", "test", "read", "dropped"

codecVars == <<key, hashed, hash, clear, encoded, sent, decoded, step>>

CodecTypeOK ==
    /\ key \in Seq(Byte) /\ hashed \in 0 .. Len(key)
    /\ hash \in [0..3 -> Byte]
    /\ {clear, encoded, sent, decoded} \subseteq Seq(Byte)
    /\ step \in {"hash", "encrypt", "wire", "decrypt", "test", "read", "dropped"}

AtRest ==
    /\ hashed = 0 /\ hash = [i \in 0..3 |-> 0]
    /\ encoded = << >> /\ sent = << >> /\ decoded = << >>
    /\ step = "hash"

CodecInit == key \in Keys /\ clear \in Clears /\ AtRest

-----------------------------------------------------------------------------
HashByte ==
    /\ step = "hash" /\ hashed < Len(key)
    /\ hashed' = hashed + 1
    /\ LET value == key[hashed + 1]
       IN  hash' = [i \in 0..3 |->
             CASE i = 0 -> (hash[0] + value) % Size
               [] i = 1 -> (hash[1] - value) % Size
               [] i = 2 -> (hash[2] + value \div 3) % Size
               [] OTHER -> Xor(hash[3], value)]
    /\ UNCHANGED <<key, clear, encoded, sent, decoded, step>>

KeyHashed ==
    /\ step = "hash" /\ hashed = Len(key)
    /\ step' = "encrypt"
    /\ UNCHANGED <<key, hashed, hash, clear, encoded, sent, decoded>>

\* What a byte is combined with: it depends on the encoded byte in front of it.
Pad(previous) == Shuffle[(hash[previous % 4] + previous) % Size]

Before(bytes, i) == IF i = 1 THEN 0 ELSE bytes[i - 1]

EncryptByte ==
    /\ step = "encrypt" /\ Len(encoded) < Len(clear)
    /\ LET i == Len(encoded) + 1
       IN  encoded' = Append(encoded, Xor(clear[i], Pad(Before(encoded, i))))
    /\ UNCHANGED <<key, hashed, hash, clear, sent, decoded, step>>

\* _encode_wire_packets: in both forms, encrypted, or as it is.
Forms ==
    IF clear[2] \in Dual THEN {clear, encoded}
    ELSE IF clear[2] \in Encrypted THEN {encoded} ELSE {clear}

Send ==
    /\ step = "encrypt" /\ Len(encoded) = Len(clear)
    /\ sent' \in Forms
    /\ step' = "wire"
    /\ UNCHANGED <<key, hashed, hash, clear, encoded, decoded>>

-----------------------------------------------------------------------------
\* What starts like a clear packet is taken for one.
Receive ==
    /\ step = "wire"
    /\ IF sent[1] = F1 THEN step' = "test" /\ decoded' = sent
                       ELSE step' = "decrypt" /\ UNCHANGED decoded
    /\ UNCHANGED <<key, hashed, hash, clear, encoded, sent>>

\* A variant that goes on with the decoded byte, as the encoder does with its output.
WrongDecryptByte ==
    /\ step = "decrypt" /\ Len(decoded) < Len(sent)
    /\ LET i == Len(decoded) + 1
       IN  decoded' = Append(decoded, Xor(sent[i], Pad(Before(decoded, i))))
    /\ UNCHANGED <<key, hashed, hash, clear, encoded, sent, step>>

DecryptByte ==
    /\ step = "decrypt" /\ Len(decoded) < Len(sent)
    /\ LET i == Len(decoded) + 1
       IN  decoded' = Append(decoded, Xor(sent[i], Pad(Before(sent, i))))
    /\ UNCHANGED <<key, hashed, hash, clear, encoded, sent, step>>

Test ==
    /\ \/ step = "test"
       \/ step = "decrypt" /\ Len(decoded) = Len(sent)
    /\ step' = IF WellFormed(decoded) THEN "read" ELSE "dropped"
    /\ UNCHANGED <<key, hashed, hash, clear, encoded, sent, decoded>>

CodecNext ==
    \/ HashByte \/ KeyHashed \/ EncryptByte \/ Send \/ Receive \/ DecryptByte \/ Test

CodecSpec == CodecInit /\ [][CodecNext]_codecVars

-----------------------------------------------------------------------------
(* Properties *)

\* With this key no encrypted packet starts like a clear one.
Usable == Pad(0) # 0

Judged == step \in {"read", "dropped"}

\* A packet is read as what it was, in every form it is sent in, if the key is one
\* whose encrypted packets do not look clear; a form that is sent clear always is.
PacketIsRead == Judged /\ (Usable \/ sent = clear) => step = "read" /\ decoded = clear

\* cs2.py:259, "session over encrypted CS2 UDP": whatever the key.
EveryKeyWorks == Judged => step = "read"
=============================================================================
