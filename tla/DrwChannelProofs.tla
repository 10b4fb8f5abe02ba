-------------------------- MODULE DrwChannelProofs --------------------------
(***************************************************************************)
(* Theorems about a DRW channel: the sending half, for any number of       *)
(* writes, chunks and retries; the envelope, for bytes of any size, any    *)
(* key, any packet and any table; the receiving half, for every modulus    *)
(* and every window that _out_of_order has room for.                       *)
(***************************************************************************)
EXTENDS DrwReceiver, DrwSender, WireCodec,
        FunctionTheorems, FiniteSetTheorems, SequenceTheorems, TLAPS

-----------------------------------------------------------------------------
(* The sending half *)
(***************************************************************************)
(* The inductive invariant.  An acknowledgement is only under way for what *)
(* the camera has; the chunks of a write that is under way are with the    *)
(* camera or pending; so are all chunks until an error is raised.          *)
(***************************************************************************)
Accounted ==
    /\ outgoing \in Nat
    /\ onAcks \subseteq got
    /\ returned \subseteq got
    /\ op \in {"sending", "waiting"} => current \subseteq got \cup Pending
    /\ NothingForgotten

\* The bookkeeping of _pending is right whatever the network does.
THEOREM StaysAccounted == SenderSpec => []Accounted
<1> USE DEF Accounted, NothingForgotten, Pending
<1>1. SenderInit => Accounted
  BY DEF SenderInit
<1>2. Accounted /\ [SenderNext]_senderVars => Accounted'
  <2> SUFFICES ASSUME Accounted, [SenderNext]_senderVars PROVE Accounted'
    OBVIOUS
  <2>1. CASE BeginWrite
    BY <2>1 DEF BeginWrite, network
  <2>2. CASE SendChunk
    BY <2>2 DEF SendChunk
  <2>3. CASE SendFails
    BY <2>3 DEF SendFails, Raises, network
  <2>4. CASE WriteReturns
    BY <2>4 DEF WriteReturns, network
  <2>5. CASE WriteTimesOut
    BY <2>5 DEF WriteTimesOut, Raises, write, network
  <2>6. ASSUME NEW due \in SUBSET Pending, Retransmit(due) PROVE Accounted'
    <3> DEFINE spent == {i \in due : pending[i] = MaxRetransmits}
    <3>1. CASE spent = {}
      <4>1. Pending' = Pending /\ op' = op /\ failed' = failed
        BY <2>6, <3>1 DEF Retransmit
      <4> QED
        BY <2>6, <4>1 DEF Retransmit, write
    <3>2. CASE spent # {}
      BY <2>6, <3>2 DEF Retransmit, Raises, write
    <3> QED
      BY <3>1, <3>2
  <2>7. ASSUME NEW i \in Chunks, HandleAck(i) PROVE Accounted'
    <3>1. Pending' = Pending \ {i} /\ i \in got /\ onAcks' \subseteq onAcks
      BY <2>7 DEF HandleAck, Restrict
    <3> QED
      BY <2>7, <3>1 DEF HandleAck, write
  <2>8. CASE SocketFails
    BY <2>8 DEF SocketFails, Raises, write, network
  <2>9. CASE Close
    BY <2>9 DEF Close, write, network
  <2>10. ASSUME NEW i \in Chunks, CameraReceives(i) PROVE Accounted'
    BY <2>10 DEF CameraReceives, write
  <2>11. ASSUME NEW i \in Chunks, LoseChunk(i) PROVE Accounted'
    BY <2>11 DEF LoseChunk, write
  <2>12. CASE UNCHANGED senderVars
    BY <2>12 DEF senderVars, write, network
  <2> QED
    BY <2>1, <2>2, <2>3, <2>4, <2>5, <2>6, <2>7, <2>8, <2>9, <2>10, <2>11, <2>12 DEF SenderNext
<1> QED
  BY <1>1, <1>2, PTL DEF SenderSpec

\* CS2Session.write: what a write that returned has sent is with the camera.
THEOREM WritesAreReceived == SenderSpec => []WrittenIsReceived
<1>1. Accounted => WrittenIsReceived
  BY DEF Accounted, WrittenIsReceived
<1> QED
  BY <1>1, StaysAccounted, PTL

\* Until an error is raised no chunk is lost for good.
THEOREM NothingIsForgotten == SenderSpec => []NothingForgotten
<1>1. Accounted => NothingForgotten
  BY DEF Accounted
<1> QED
  BY <1>1, StaysAccounted, PTL

-----------------------------------------------------------------------------
(***************************************************************************)
(* The envelope, as long as Xor undoes itself.  The invariant says of the  *)
(* two loops what they have computed so far: each encoded byte is the      *)
(* clear one combined with the pad of the encoded byte before it, and each *)
(* decoded byte is the clear one.                                          *)
(***************************************************************************)

\* What the encoder has written so far.
EncodedSoFar ==
    /\ Len(encoded) <= Len(clear)
    /\ \A i \in 1 .. Len(encoded) : encoded[i] = Xor(clear[i], Pad(Before(encoded, i)))

\* What is there at each step, from the hash of the key to the test of the receiver.
InOrder ==
    /\ clear \in Clears
    /\ step = "hash" => encoded = << >>
    /\ step \in {"hash", "encrypt", "wire"} => decoded = << >>
    /\ step \notin {"hash", "encrypt"} => Len(encoded) = Len(clear) /\ sent \in {clear, encoded}

\* What the receiver has.
DecodedSoFar ==
    /\ step = "decrypt" => /\ sent = encoded /\ Len(decoded) <= Len(clear)
                           /\ \A i \in 1 .. Len(decoded) : decoded[i] = clear[i]
    /\ step = "test" => sent[1] = F1 /\ decoded = sent

CodecInv == CodecTypeOK /\ EncodedSoFar /\ InOrder /\ DecodedSoFar /\ PacketIsRead

\* The remainder of an integer is a byte.
LEMMA RemainderIsByte ==
    ASSUME NEW x \in Int
    PROVE  x % Size \in Byte
<1> DEFINE n == Size
<1>1. n \in Nat \ {0}
  BY ByteAssumption
<1> HIDE DEF n
<1>2. x % n \in 0 .. n - 1
  BY <1>1
<1> QED
  BY <1>2 DEF Byte, n

\* A byte is an integer.
LEMMA ByteIsInt == \A b \in Byte : b \in Int
  BY ByteAssumption DEF Byte

\* A byte combined twice with the same pad is the byte again, and a pad is a byte.
LEMMA PadIsByte ==
    ASSUME CodecTypeOK, NEW b \in Byte
    PROVE  Pad(b) \in Byte
<1>1. b % 4 \in 0..3
  BY ByteAssumption DEF Byte
<1>2. hash[b % 4] \in Byte
  BY <1>1 DEF CodecTypeOK
<1>3. (hash[b % 4] + b) % Size \in Byte
  <2>1. hash[b % 4] + b \in Int
    <3> DEFINE h == hash[b % 4]
    <3>1. h \in Int /\ b \in Int
      BY <1>2, ByteIsInt
    <3> HIDE DEF h
    <3>2. h + b \in Int
      BY <3>1
    <3> QED
      BY <3>2 DEF h
  <2> QED
    BY <2>1, RemainderIsByte
<1> QED
  BY <1>3, ByteAssumption DEF Pad

\* The byte in front of another, or 0, is a byte.
LEMMA BeforeIsByte ==
    ASSUME NEW s \in Seq(Byte), NEW i \in 1 .. Len(s) + 1
    PROVE  Before(s, i) \in Byte
<1>1. CASE i = 1
  BY <1>1, ByteAssumption DEF Before, Byte
<1>2. CASE i # 1
  <2>1. i - 1 \in 1 .. Len(s)
    BY <1>2
  <2>2. s[i - 1] \in Byte
    BY <2>1
  <2> QED
    BY <1>2, <2>2 DEF Before
<1> QED
  BY <1>1, <1>2

\* The byte in front does not change when the sequence grows behind it.
LEMMA BeforeAppended ==
    ASSUME NEW s \in Seq(Byte), NEW b \in Byte, NEW i \in 1 .. Len(s) + 1
    PROVE  Before(Append(s, b), i) = Before(s, i)
  BY DEF Before

\* The hash and what both sides have so far are of their types.
LEMMA CodecTypeStep ==
    ASSUME CodecTypeOK, InOrder, DecodedSoFar, [CodecNext]_codecVars
    PROVE  CodecTypeOK'
<1> USE DEF CodecTypeOK
<1>1. CASE HashByte
  <2> DEFINE value == key[hashed + 1]
  <2>1. value \in Byte
    BY <1>1 DEF HashByte
  <2>2. /\ (hash[0] + value) % Size \in Byte
        /\ (hash[1] - value) % Size \in Byte
        /\ (hash[2] + value \div 3) % Size \in Byte
    <3> DEFINE h0 == hash[0]
               h1 == hash[1]
               h2 == hash[2]
    <3>1. value \in Int /\ h0 \in Int /\ h1 \in Int /\ h2 \in Int
      BY <2>1, ByteIsInt
    <3> HIDE DEF value, h0, h1, h2
    <3>2. h0 + value \in Int /\ h1 - value \in Int /\ h2 + value \div 3 \in Int
      BY <3>1
    <3> USE DEF h0, h1, h2
    <3> QED
      BY <3>2, RemainderIsByte
  <2>3. Xor(hash[3], value) \in Byte
    BY <2>1, XorAssumption
  <2>4. hash' \in [0..3 -> Byte]
    BY <1>1, <2>2, <2>3 DEF HashByte
  <2> QED
    BY <1>1, <2>4 DEF HashByte
<1>2. CASE KeyHashed
  BY <1>2 DEF KeyHashed
<1>3. CASE EncryptByte
  <2> DEFINE i == Len(encoded) + 1
  <2>1. Before(encoded, i) \in Byte
    BY BeforeIsByte
  <2>2. Pad(Before(encoded, i)) \in Byte
    BY <2>1, PadIsByte
  <2>3. clear[i] \in Byte
    BY <1>3 DEF EncryptByte
  <2>4. Xor(clear[i], Pad(Before(encoded, i))) \in Byte
    BY <2>2, <2>3, XorAssumption
  <2> QED
    BY <1>3, <2>4 DEF EncryptByte
<1>4. CASE Send
  BY <1>4 DEF Send, Forms
<1>5. CASE Receive
  BY <1>5 DEF Receive
<1>6. CASE DecryptByte
  <2> DEFINE i == Len(decoded) + 1
  <2>1. i \in 1 .. Len(sent)
    BY <1>6 DEF DecryptByte
  <2>2. Before(sent, i) \in Byte
    BY <2>1, BeforeIsByte
  <2>3. Pad(Before(sent, i)) \in Byte
    BY <2>2, PadIsByte
  <2>4. sent[i] \in Byte
    BY <2>1
  <2>5. Xor(sent[i], Pad(Before(sent, i))) \in Byte
    BY <2>3, <2>4, XorAssumption
  <2> QED
    BY <1>6, <2>5 DEF DecryptByte
<1>7. CASE Test
  BY <1>7 DEF Test
<1>8. CASE UNCHANGED codecVars
  BY <1>8 DEF codecVars
<1> QED
  BY <1>1, <1>2, <1>3, <1>4, <1>5, <1>6, <1>7, <1>8 DEF CodecNext

\* A packet that is decrypted to its last byte is the clear packet.
LEMMA DecodedIsClear ==
    ASSUME CodecInv, step = "decrypt", Len(decoded) = Len(sent)
    PROVE  decoded = clear
<1>1. Len(decoded) = Len(clear)
  BY DEF CodecInv, InOrder, DecodedSoFar
<1>2. \A i \in 1 .. Len(clear) : decoded[i] = clear[i]
  BY <1>1 DEF CodecInv, DecodedSoFar
<1>3. decoded \in Seq(Byte) /\ clear \in Seq(Byte)
  BY DEF CodecInv, CodecTypeOK
<1> QED
  BY <1>1, <1>2, <1>3, SeqEqual

\* An encrypted packet that starts like a clear one was made with an unusable key.
LEMMA LooksClear ==
    ASSUME CodecInv, step \notin {"hash", "encrypt"}, encoded[1] = F1
    PROVE  ~Usable
<1>1. Len(clear) >= 4 /\ clear[1] = F1
  BY InputAssumption DEF CodecInv, InOrder, WellFormed
<1>2. 1 \in 1 .. Len(encoded)
  BY <1>1 DEF CodecInv, InOrder
<1>3. encoded[1] = Xor(F1, Pad(0))
  BY <1>1, <1>2 DEF CodecInv, EncodedSoFar, Before
<1>4. 0 \in Byte
  BY ByteAssumption DEF Byte
<1>5. Pad(0) \in Byte
  BY <1>4, PadIsByte DEF CodecInv
<1> QED
  BY <1>3, <1>5, ByteAssumption, XorAssumption DEF Usable

\* One step of the codec keeps the invariant.
LEMMA CodecStep == CodecInv /\ [CodecNext]_codecVars => CodecInv'
<1> SUFFICES ASSUME CodecInv, [CodecNext]_codecVars
             PROVE  CodecInv'
  OBVIOUS
<1>0. CodecTypeOK'
  BY CodecTypeStep DEF CodecInv
<1> USE DEF CodecInv
<1>1. CASE HashByte
  <2>1. encoded = << >> /\ step = "hash"
    BY <1>1 DEF HashByte, InOrder
  <2> QED
    BY <1>0, <1>1, <2>1 DEF HashByte, EncodedSoFar, InOrder, DecodedSoFar, PacketIsRead,
       Judged,
       CodecTypeOK
<1>2. CASE KeyHashed
  BY <1>0, <1>2 DEF KeyHashed, EncodedSoFar, InOrder, DecodedSoFar, PacketIsRead, Judged,
     Pad
<1>3. CASE EncryptByte
  <2> DEFINE n == Len(encoded) + 1
             b == Xor(clear[n], Pad(Before(encoded, n)))
  <2>1. /\ encoded' = Append(encoded, b) /\ Len(encoded) < Len(clear)
        /\ UNCHANGED <<key, hashed, hash, clear, sent, decoded, step>> /\ step = "encrypt"
    BY <1>3 DEF EncryptByte
  <2>2. Len(encoded) \in Nat /\ encoded \in Seq(Byte)
    BY DEF CodecTypeOK
  <2>3. encoded' \in Seq(Byte)
    BY <1>0 DEF CodecTypeOK
  <2>4. Len(encoded') = n /\ encoded'[n] = b
        /\ \A i \in 1 .. Len(encoded) : encoded'[i] = encoded[i]
    BY <2>1, <2>2
  <2>5. \A i \in 1 .. n : Before(encoded', i) = Before(encoded, i)
    BY <2>2, <2>4 DEF Before
  <2>6. \A i \in 1 .. n : encoded'[i] = Xor(clear[i], Pad(Before(encoded', i)))
    <3> SUFFICES ASSUME NEW i \in 1 .. n
                 PROVE  encoded'[i] = Xor(clear[i], Pad(Before(encoded, i)))
      BY <2>5
    <3>1. CASE i = n
      BY <2>4, <3>1
    <3>2. CASE i # n
      <4>1. i \in 1 .. Len(encoded)
        BY <2>2, <3>2
      <4> QED
        BY <2>4, <4>1 DEF EncodedSoFar
    <3> QED
      BY <3>1, <3>2
  <2>7. EncodedSoFar'
    <3>1. n <= Len(clear)
      BY <2>1, <2>2 DEF CodecTypeOK
    <3>2. \A i \in 1 .. n : Pad(Before(encoded, i))' = Pad(Before(encoded', i))
      BY <2>1 DEF Pad, Before
    <3> HIDE DEF n, b
    <3> QED
      BY <2>1, <2>4, <2>6, <3>1, <3>2 DEF EncodedSoFar
  <2> QED
    BY <1>0, <2>1, <2>7 DEF InOrder, DecodedSoFar, PacketIsRead, Judged
<1>4. CASE Send
  BY <1>0, <1>4 DEF Send, Forms, EncodedSoFar, InOrder, DecodedSoFar, PacketIsRead,
     Judged, Pad
<1>5. CASE Receive
  <2>1. sent = clear => sent[1] = F1
    BY InputAssumption DEF InOrder, WellFormed
  <2>2. InOrder' /\ EncodedSoFar'
    BY <1>5 DEF Receive, InOrder, EncodedSoFar, Pad
  <2>3. DecodedSoFar'
    BY <1>5, <2>1 DEF Receive, InOrder, DecodedSoFar, CodecTypeOK
  <2> QED
    BY <1>0, <1>5, <2>2, <2>3 DEF Receive, PacketIsRead, Judged
<1>6. CASE DecryptByte
  <2> DEFINE n == Len(decoded) + 1
             p == Pad(Before(sent, n))
  <2>1. /\ decoded' = Append(decoded, Xor(sent[n], p)) /\ Len(decoded) < Len(sent)
        /\ UNCHANGED <<key, hashed, hash, clear, encoded, sent, step>> /\ step = "decrypt"
    BY <1>6 DEF DecryptByte
  <2>2. sent = encoded /\ Len(sent) = Len(clear) /\ n \in 1 .. Len(encoded)
    BY <2>1 DEF InOrder, DecodedSoFar, CodecTypeOK
  <2>3. sent[n] = Xor(clear[n], p)
    BY <2>2 DEF EncodedSoFar
  <2>4. p \in Byte
    BY <2>2, BeforeIsByte, PadIsByte DEF CodecTypeOK
  <2>5. clear[n] \in Byte
    BY <2>2 DEF InOrder, CodecTypeOK
  <2>6. Xor(sent[n], p) = clear[n]
    BY <2>3, <2>4, <2>5, XorAssumption
  <2>7. DecodedSoFar'
    BY <2>1, <2>2, <2>6 DEF DecodedSoFar, CodecTypeOK
  <2> QED
    BY <1>0, <2>1, <2>7 DEF EncodedSoFar, InOrder, PacketIsRead, Judged, Pad
<1>7. CASE Test
  <2>1. WellFormed(clear)
    BY InputAssumption DEF InOrder
  <2>2. CASE step = "decrypt"
    <3>1. decoded = clear
      BY <1>7, <2>2, DecodedIsClear DEF Test
    <3> QED
      BY <1>0, <1>7, <2>1, <2>2, <3>1 DEF Test, EncodedSoFar, InOrder, DecodedSoFar,
         PacketIsRead, Pad
  <2>3. CASE step = "test"
    <3>1. Usable => sent = clear
      BY <2>3, LooksClear DEF InOrder, DecodedSoFar
    <3>2. decoded = sent
      BY <2>3 DEF DecodedSoFar
    <3>3. Usable' = Usable
      BY <1>7 DEF Test, Usable, Pad
    <3>4. PacketIsRead'
      BY <1>7, <2>1, <2>3, <3>1, <3>2, <3>3 DEF Test, PacketIsRead
    <3> QED
      BY <1>0, <1>7, <2>3, <3>4 DEF Test, EncodedSoFar, InOrder, DecodedSoFar, Pad
  <2> QED
    BY <1>7, <2>2, <2>3 DEF Test
<1>8. CASE UNCHANGED codecVars
  BY <1>0, <1>8 DEF codecVars, EncodedSoFar, InOrder, DecodedSoFar, PacketIsRead, Judged,
     Usable, Pad
<1> QED
  BY <1>1, <1>2, <1>3, <1>4, <1>5, <1>6, <1>7, <1>8 DEF CodecNext

LEMMA CodecStarts == CodecInit => CodecInv
<1> SUFFICES ASSUME CodecInit
             PROVE  CodecInv
  OBVIOUS
<1>1. 0 \in Byte
  BY ByteAssumption DEF Byte
<1> QED
  BY <1>1, InputAssumption DEF CodecInit, AtRest, CodecInv, CodecTypeOK, EncodedSoFar,
     InOrder,
     DecodedSoFar, PacketIsRead, Judged

\* encrypt_packet and decrypt_packet: whatever the bytes, the key and the packet, what is
\* received is the packet that was sent, in both forms, unless the key makes every
\* encrypted packet look clear.
THEOREM PacketsAreRead == CodecSpec => []PacketIsRead
<1>1. CodecInit => CodecInv
  BY CodecStarts
<1>2. CodecInv => PacketIsRead
  BY DEF CodecInv
<1> QED
  BY <1>1, <1>2, CodecStep, PTL DEF CodecSpec

-----------------------------------------------------------------------------
(* Sequence numbers: remainders, whatever the modulus *)

LEMMA NoMultiple ==
    ASSUME NEW m \in Int, m > 0, NEW q \in Int, m * q < m, -m < m * q
    PROVE  q = 0
<1>1. q >= 1 => m * q >= m
  OBVIOUS
<1>2. q <= -1 => m * q <= -m
  OBVIOUS
<1> QED
  BY <1>1, <1>2

LEMMA Quotient ==
    ASSUME NEW m \in Int, m > 0, NEW i \in Int
    PROVE  i % m \in 0 .. m - 1 /\ \E q \in Int : i = m * q + (i % m)
<1>1. i % m \in 0 .. m - 1
  OBVIOUS
<1>2. \E q \in Int : i = m * q + (i % m)
  OBVIOUS
<1> QED
  BY <1>1, <1>2

LEMMA RemainderIs ==
    ASSUME NEW m \in Int, m > 0, NEW i \in Int, NEW q \in Int, NEW r \in 0 .. m - 1,
           i = m * q + r
    PROVE  i % m = r
<1> DEFINE s == i % m
<1>1. s \in 0 .. m - 1 /\ \E p \in Int : i = m * p + s
  BY Quotient
<1> HIDE DEF s
<1>2. PICK p \in Int : i = m * p + s
  BY <1>1
<1>3. /\ s - r = m * (q - p) /\ m * (q - p) < m /\ -m < m * (q - p)
      /\ q - p \in Int
  BY <1>1, <1>2
<1>4. q - p = 0
  BY <1>3, NoMultiple
<1>5. q = p
  BY <1>4
<1>6. s = r
  BY <1>1, <1>2, <1>5
<1> QED
  BY <1>6 DEF s

\* Numbers that are less than a cycle apart are told apart by their remainders.
LEMMA RemaindersDiffer ==
    ASSUME NEW m \in Int, m > 0, NEW i \in Int, NEW j \in Int,
           i - j < m, j - i < m, i % m = j % m
    PROVE  i = j
<1> DEFINE r == i % m
<1>1. r \in 0 .. m - 1 /\ \E p \in Int : i = m * p + r
  BY Quotient
<1>2. \E q \in Int : j = m * q + r
  BY Quotient
<1> HIDE DEF r
<1>3. PICK p \in Int : i = m * p + r
  BY <1>1
<1>4. PICK q \in Int : j = m * q + r
  BY <1>2
<1>5. /\ i - j = m * (p - q) /\ m * (p - q) < m /\ -m < m * (p - q)
      /\ p - q \in Int
  BY <1>1, <1>3, <1>4
<1>6. p - q = 0
  BY <1>5, NoMultiple
<1>7. p = q
  BY <1>6
<1> QED
  BY <1>3, <1>4, <1>7, <1>1

LEMMA RemainderOfSum ==
    ASSUME NEW m \in Int, m > 0, NEW i \in Int, NEW k \in Int
    PROVE  ((i % m) + k) % m = (i + k) % m
<1> DEFINE r == i % m
<1>1. r \in 0 .. m - 1 /\ \E p \in Int : i = m * p + r
  BY Quotient
<1> HIDE DEF r
<1>2. PICK p \in Int : i = m * p + r
  BY <1>1
<1> DEFINE t == (r + k) % m
<1>3. t \in 0 .. m - 1 /\ \E q \in Int : r + k = m * q + t
  BY <1>1, Quotient
<1> HIDE DEF t
<1>4. PICK q \in Int : r + k = m * q + t
  BY <1>3
<1>5. i + k = m * (p + q) + t /\ p + q \in Int /\ i + k \in Int
  BY <1>1, <1>2, <1>3, <1>4
<1>6. (i + k) % m = t
  BY <1>3, <1>5, RemainderIs
<1> QED
  BY <1>6 DEF r, t

\* How far apart two of them are, as _handle_data reckons it.
LEMMA RemainderOfDistance ==
    ASSUME NEW m \in Int, m > 0, NEW i \in Int, NEW j \in Int, i - j < m, j - i < m
    PROVE  ((i % m) - (j % m)) % m = IF i >= j THEN i - j ELSE i - j + m
<1> DEFINE r == i % m
           s == j % m
<1>1. r \in 0 .. m - 1 /\ \E p \in Int : i = m * p + r
  BY Quotient
<1>2. s \in 0 .. m - 1 /\ \E q \in Int : j = m * q + s
  BY Quotient
<1> HIDE DEF r, s
<1>3. PICK p \in Int : i = m * p + r
  BY <1>1
<1>4. PICK q \in Int : j = m * q + s
  BY <1>2
<1>5. r - s \in Int
  BY <1>1, <1>2
<1>6. CASE i >= j
  <2>1. r - s = m * (q - p) + (i - j) /\ q - p \in Int /\ i - j \in 0 .. m - 1
    BY <1>1, <1>2, <1>3, <1>4, <1>6
  <2>2. (r - s) % m = i - j
    BY <1>5, <2>1, RemainderIs
  <2> QED
    BY <1>6, <2>2 DEF r, s
<1>7. CASE i < j
  <2>1. r - s = m * (q - p) + (i - j)
    BY <1>1, <1>2, <1>3, <1>4
  <2>2. m * (q - p) = m * (q - p - 1) + m
    OBVIOUS
  <2>3. r - s = m * (q - p - 1) + (i - j + m) /\ q - p - 1 \in Int /\ i - j + m \in 0 .. m - 1
    BY <1>5, <1>7, <2>1, <2>2
  <2>4. (r - s) % m = i - j + m
    BY <1>5, <2>3, RemainderIs
  <2> QED
    BY <1>7, <2>4 DEF r, s
<1> QED
  BY <1>6, <1>7
-----------------------------------------------------------------------------
(***************************************************************************)
(* The inductive invariant.  Read is how many packets the reader has got.  *)
(***************************************************************************)

Read == Len(buffer)

Types ==
    /\ next \in 0 .. Total
    /\ unacked \subseteq 0 .. next - 1
    /\ wire \subseteq 0 .. next - 1
    /\ acks \subseteq 0 .. next - 1
    /\ Read \in 0 .. next

\* What the camera repeats is within its window, and so is what is under way: half a
\* cycle at most.
UnderWay ==
    /\ \A i \in unacked : next <= i + Window
    /\ \A i \in wire \cup acks : next <= i + Half

ReadInOrder ==
    /\ buffer = [i \in 1 .. Read |-> i - 1]
    /\ incoming = Read % Modulus

\* What is held is ahead of the reader, under its own number.
Ahead ==
    \A s \in Held : /\ outOfOrder[s] \in Read + 1 .. next - 1
                    /\ outOfOrder[s] % Modulus = s
                    /\ outOfOrder[s] < Read + Half

Kept(i) == i < Read \/ \E s \in Held : outOfOrder[s] = i

\* What the camera counts as arrived, or soon will, is kept.
ArrivedIsKept ==
    /\ \A i \in 0 .. next - 1 : i \notin unacked => Kept(i)
    /\ \A i \in acks : Kept(i)

ReceiverInv == Types /\ UnderWay /\ ReadInOrder /\ Ahead /\ ArrivedIsKept

-----------------------------------------------------------------------------
(* What _handle_data finds *)

LEMMA Sizes ==
    /\ Modulus \in Int /\ Modulus > 0
    /\ Half \in Nat /\ Half >= 1 /\ Half < Modulus
    /\ Window \in Nat /\ Window >= 1 /\ Window <= Half
    /\ Lag \in Nat /\ Lag <= Half
    /\ Total \in Nat /\ Limit \in Nat
  BY SizeAssumption

LEMMA LeastExists ==
    ASSUME NEW S, S \subseteq Nat, S # {}
    PROVE  \E n \in S : \A k \in S : n <= k
<1>1. PICK n \in S : \A k \in S : ~ <<k, n>> \in OpToRel(<, Nat)
  BY NatLessThanWellFounded, WFMin
<1>2. \A k \in S : ~ k < n
  BY <1>1 DEF OpToRel
<1> QED
  BY <1>2

\* A number in the half cycle ahead is held for the packet of that number only.
LEMMA HeldAt ==
    ASSUME ReceiverInv, NEW k \in 1 .. Half, (Read + k) % Modulus \in Held
    PROVE  /\ outOfOrder[(Read + k) % Modulus] = Read + k
           /\ k < Half /\ Read + k < next
<1> DEFINE j == Read + k
           i == outOfOrder[j % Modulus]
<1>1. /\ i \in Read + 1 .. next - 1 /\ i % Modulus = j % Modulus /\ i < Read + Half
      /\ next \in Nat /\ Read \in Nat
  BY Sizes DEF ReceiverInv, Ahead, Types
<1>2. j \in Int /\ j > Read /\ j <= Read + Half
  BY <1>1, Sizes
<1> HIDE DEF i, j
<1>3. /\ i \in Int /\ j \in Int /\ i - j < Modulus /\ j - i < Modulus
      /\ Modulus \in Int /\ Modulus > 0
  BY <1>1, <1>2, Sizes
<1>5. i % Modulus = j % Modulus
  BY <1>1
<1>4. i = j
  BY <1>3, <1>5, RemaindersDiffer
<1>6. j < Read + Half /\ j < next
  BY <1>1, <1>4
<1>7. Read + k < Read + Half /\ Read + k < next
  BY <1>6 DEF j
<1>8. k < Half
  BY <1>1, <1>7, Sizes
<1>9. outOfOrder[(Read + k) % Modulus] = Read + k
  BY <1>4 DEF i, j
<1> QED
  BY <1>7, <1>8, <1>9

\* _handle_data reckons with the numbers; the packets are so much further on.
LEMMA NumberAhead ==
    ASSUME ReceiverInv, NEW k \in Int
    PROVE  (incoming + k) % Modulus = (Read + k) % Modulus
<1>1. Read \in Int /\ incoming = Read % Modulus
  BY Sizes DEF ReceiverInv, ReadInOrder, Types
<1> QED
  BY <1>1, Sizes, RemainderOfSum

\* The run behind the expected packet ends within half a cycle.
LEMMA RunIsFound ==
    ASSUME ReceiverInv
    PROVE  /\ Run \in 1 .. Half
           /\ \A k \in 1 .. Run - 1 : (Read + k) % Modulus \in Held
           /\ (Read + Run) % Modulus \notin Held
<1> DEFINE Ends(n) == /\ \A k \in 1 .. n - 1 : (Read + k) % Modulus \in Held
                      /\ (Read + n) % Modulus \notin Held
<1>1. \A k \in Int : (incoming + k) % Modulus = (Read + k) % Modulus
  BY NumberAhead
<1>2. Run = CHOOSE n \in 1 .. Modulus : Ends(n)
  BY <1>1, Sizes DEF Run
<1>3. PICK n \in 1 .. Half : /\ (Read + n) % Modulus \notin Held
                             /\ \A k \in 1 .. n - 1 : (Read + k) % Modulus \in Held
  <2> DEFINE Free == {n \in 1 .. Half : (Read + n) % Modulus \notin Held}
  <2>1. (Read + Half) % Modulus \notin Held
    <3> SUFFICES ASSUME (Read + Half) % Modulus \in Held PROVE FALSE
      OBVIOUS
    <3>1. Half \in 1 .. Half
      BY Sizes
    <3>2. Half < Half
      BY <3>1, HeldAt
    <3> QED
      BY <3>2, Sizes
  <2>2. Half \in Free /\ Free \subseteq Nat
    BY <2>1, Sizes
  <2> HIDE DEF Free
  <2>3. PICK n \in Free : \A k \in Free : n <= k
    BY <2>2, LeastExists
  <2>4. n \in 1 .. Half /\ (Read + n) % Modulus \notin Held
    BY <2>3 DEF Free
  <2>5. ASSUME NEW k \in 1 .. n - 1 PROVE (Read + k) % Modulus \in Held
    <3>1. k \in 1 .. Half /\ k < n
      BY <2>4, Sizes
    <3>2. k \notin Free
      BY <2>3, <2>4, <3>1
    <3> QED
      BY <3>1, <3>2 DEF Free
  <2> QED
    BY <2>4, <2>5
<1>4. Run \in 1 .. Modulus /\ Ends(Run)
  <2>1. \E m \in 1 .. Modulus : Ends(m)
    BY <1>3, Sizes
  <2> HIDE DEF Ends
  <2> QED
    BY <1>2, <2>1
<1>5. Run <= Half
  <2> SUFFICES ASSUME Run > Half PROVE FALSE
    BY <1>4, Sizes
  <2>1. (Read + Half) % Modulus \in Held
    BY <1>4, Sizes
  <2> QED
    BY <2>1, Sizes, HeldAt
<1> QED
  BY <1>4, <1>5

-----------------------------------------------------------------------------
(* What it does with the packet *)

LEMMA DeliverExtends ==
    ASSUME ReceiverInv, Read < next, Deliver(Read)
    PROVE  /\ Read' = Read + Run
           /\ buffer' = [i \in 1 .. Read' |-> i - 1]
           /\ incoming' = Read' % Modulus
           /\ Read' <= next
           /\ Held' \subseteq Held
           /\ \A s \in Held' : outOfOrder'[s] = outOfOrder[s] /\ outOfOrder[s] > Read'
           /\ \A s \in Held : s \in Held' \/ outOfOrder[s] < Read'
<1>1. /\ Run \in 1 .. Half
      /\ \A k \in 1 .. Run - 1 : (Read + k) % Modulus \in Held
      /\ (Read + Run) % Modulus \notin Held
  BY RunIsFound
<1>2. /\ Read \in Nat /\ next \in Nat /\ incoming = Read % Modulus
      /\ buffer = [i \in 1 .. Read |-> i - 1]
  BY Sizes DEF ReceiverInv, ReadInOrder, Types
<1>3. \A k \in Int : (incoming + k) % Modulus = (Read + k) % Modulus
  BY NumberAhead
<1>4. \A k \in 1 .. Run - 1 : /\ outOfOrder[(Read + k) % Modulus] = Read + k
                              /\ Read + k < next
  BY <1>1, HeldAt, Sizes
<1> DEFINE run == [k \in 1 .. Run |-> Read + k - 1]
           taken == {(Read + k) % Modulus : k \in 1 .. Run - 1}
<1>5. buffer' = buffer \o run
  <2>1. run = [k \in 1 .. Run |->
                   IF k = 1 THEN Read ELSE outOfOrder[(incoming + k - 1) % Modulus]]
    <3> SUFFICES ASSUME NEW k \in 1 .. Run, k # 1
                 PROVE  outOfOrder[(incoming + k - 1) % Modulus] = Read + k - 1
      BY <1>1, <1>2
    <3>1. k - 1 \in 1 .. Run - 1 /\ incoming + k - 1 = incoming + (k - 1)
      BY <1>1, <1>2, Sizes
    <3>2. (incoming + k - 1) % Modulus = (Read + (k - 1)) % Modulus
      BY <1>3, <3>1
    <3> QED
      BY <1>2, <1>4, <3>1, <3>2
  <2> QED
    BY <2>1 DEF Deliver
<1>6. Read' = Read + Run /\ buffer' = [i \in 1 .. Read + Run |-> i - 1]
  <2>1. buffer \in Seq(Int) /\ run \in Seq(Int) /\ Len(run) = Run
    BY <1>1, <1>2
  <2>2. /\ buffer \o run \in Seq(Int)
        /\ Len(buffer \o run) = Read + Run
        /\ \A i \in 1 .. Read + Run :
             (buffer \o run)[i] = IF i <= Read THEN buffer[i] ELSE run[i - Read]
    <3> HIDE DEF run
    <3>1. Len(buffer) = Read
      BY DEF Read
    <3>2. /\ buffer \o run \in Seq(Int)
          /\ Len(buffer \o run) = Len(buffer) + Len(run)
          /\ \A i \in 1 .. Len(buffer) + Len(run) :
               (buffer \o run)[i] = IF i <= Len(buffer) THEN buffer[i] ELSE run[i - Len(buffer)]
      BY <2>1, ConcatProperties
    <3> QED
      BY <2>1, <3>1, <3>2
  <2>3. \A i \in 1 .. Read + Run : (buffer \o run)[i] = i - 1
    BY <1>1, <1>2, <2>2
  <2>4. buffer \o run = [i \in 1 .. Read + Run |-> i - 1]
    BY <2>2, <2>3, LenProperties
  <2> QED
    BY <1>5, <2>2, <2>4 DEF Read
<1>7. incoming' = Read' % Modulus
  BY <1>1, <1>3, <1>6 DEF Deliver
<1>8. Read' <= next
  <2>1. CASE Run = 1
    BY <1>2, <1>6, <2>1
  <2>2. CASE Run # 1
    <3>1. Run - 1 \in 1 .. Run - 1
      BY <1>1, <2>2, Sizes
    <3>2. Read + (Run - 1) < next
      BY <1>4, <3>1
    <3> QED
      BY <1>1, <1>2, <1>6, <3>2, Sizes
  <2> QED
    BY <2>1, <2>2
<1>9. Held' = Held \ taken /\ \A s \in Held' : outOfOrder'[s] = outOfOrder[s]
  <2>1. {(incoming + k) % Modulus : k \in 1 .. Run - 1} = taken
    BY <1>3
  <2>2. outOfOrder' = [s \in Held \ taken |-> outOfOrder[s]]
    BY <2>1 DEF Deliver
  <2> QED
    BY <2>2 DEF Held
<1>10. \A s \in Held' : outOfOrder[s] > Read'
  <2> SUFFICES ASSUME NEW s \in Held \ taken
               PROVE  outOfOrder[s] > Read + Run
    BY <1>6, <1>9
  <2> HIDE DEF taken
  <2>1. outOfOrder[s] \in Read + 1 .. next - 1 /\ outOfOrder[s] % Modulus = s
    BY DEF ReceiverInv, Ahead
  <2> DEFINE k == outOfOrder[s] - Read
  <2>2. k \in Int /\ k >= 1 /\ (Read + k) % Modulus = s
    BY <1>2, <2>1
  <2>3. k \notin 1 .. Run - 1
    BY <2>2 DEF taken
  <2>4. k # Run
    BY <1>1, <2>2
  <2>5. outOfOrder[s] = Read + k
    BY <1>2, <2>1
  <2> HIDE DEF k
  <2>6. k > Run
    BY <1>1, <2>2, <2>3, <2>4, Sizes
  <2> QED
    BY <1>1, <1>2, <2>2, <2>5, <2>6, Sizes
<1>11. \A s \in Held : s \in Held' \/ outOfOrder[s] < Read'
  <2> SUFFICES ASSUME NEW s \in taken PROVE outOfOrder[s] < Read + Run
    BY <1>6, <1>9
  <2>1. PICK k \in 1 .. Run - 1 : s = (Read + k) % Modulus
    OBVIOUS
  <2>2. outOfOrder[s] = Read + k /\ k < Run /\ k \in Int /\ Run \in Int
    BY <1>1, <1>4, <2>1, Sizes
  <2> QED
    BY <1>2, <2>2
<1> QED
  BY <1>6, <1>7, <1>8, <1>9, <1>10, <1>11

-----------------------------------------------------------------------------
(* Why there is room *)

\* What the reader lacks the camera repeats, so that it cannot have run further ahead
\* of the reader than its window.
LEMMA CameraWaits ==
    ASSUME ReceiverInv
    PROVE  Read \in Nat /\ next \in Nat /\ Read <= next /\ next <= Read + Window
<1>1. Read \in Nat /\ next \in Nat /\ Read <= next
  BY Sizes DEF ReceiverInv, Types
<1>2. CASE Read = next
  BY <1>1, <1>2, Sizes
<1>3. CASE Read < next
  <2>1. ~Kept(Read)
    BY <1>1, Sizes DEF ReceiverInv, Ahead, Kept
  <2>2. Read \in unacked
    BY <1>1, <1>3, <2>1 DEF ReceiverInv, ArrivedIsKept
  <2> QED
    BY <1>1, <2>2 DEF ReceiverInv, UnderWay
<1> QED
  BY <1>1, <1>2, <1>3

\* What is held leaves room for another packet of the window.
LEMMA RoomForOneMore ==
    ASSUME ReceiverInv, Window <= Limit + 1,
           NEW i \in Read + 1 .. next - 1, i % Modulus \notin Held
    PROVE  Cardinality(Held) < Limit
<1> DEFINE a == Read + 1
           b == next - 1
           others == (a .. b) \ {i}
           f == [s \in Held |-> outOfOrder[s]]
<1>1. Read \in Nat /\ next \in Nat /\ next <= Read + Window
  BY CameraWaits
<1>2. f \in Injection(Held, others)
  <2>1. \A s \in Held : outOfOrder[s] \in others /\ outOfOrder[s] % Modulus = s
    BY DEF ReceiverInv, Ahead
  <2>2. f \in [Held -> others] /\ \A s, t \in Held : f[s] = f[t] => s = t
    BY <2>1
  <2> QED
    BY <2>2 DEF Injection, IsInjective
<1>3. IsFiniteSet(others) /\ Cardinality(others) = next - Read - 2
  <2>1. a \in Int /\ b \in Int /\ a <= b /\ b - a + 1 = next - Read - 1 /\ i \in a .. b
    BY <1>1
  <2> HIDE DEF a, b
  <2>2. IsFiniteSet(a .. b) /\ Cardinality(a .. b) = b - a + 1
    BY <2>1, FS_Interval
  <2>3. IsFiniteSet(others) /\ Cardinality(others) = Cardinality(a .. b) - 1
    BY <2>1, <2>2, FS_RemoveElement
  <2> QED
    BY <1>1, <2>1, <2>2, <2>3
<1> HIDE DEF others, f
<1>4. IsFiniteSet(Held) /\ Cardinality(Held) <= Cardinality(others)
  BY <1>2, <1>3, FS_Injection
<1>5. Cardinality(Held) \in Nat
  BY <1>4, FS_CardinalityType
<1> QED
  BY <1>1, <1>3, <1>4, <1>5, Sizes

-----------------------------------------------------------------------------
(* The steps *)

LEMMA SendKeepsInv ==
    ASSUME ReceiverInv, CameraSend
    PROVE  ReceiverInv'
<1>1. /\ next \in Nat /\ next < Total /\ next' = next + 1
      /\ \A i \in unacked : i \in Nat /\ next < i + Window
      /\ unacked' = unacked \cup {next}
      /\ UNCHANGED <<incoming, outOfOrder, buffer, Read, Held>>
  BY Sizes DEF CameraSend, receiver, ReceiverInv, Types, Read, Held
<1>2. /\ wire' \subseteq wire \cup {next} /\ acks' \subseteq acks
      /\ \A i \in wire' \cup acks' : i = next \/ next + 1 <= i + Lag
  BY DEF CameraSend, Young
<1>3. Types'
  BY <1>1, <1>2, Sizes DEF ReceiverInv, Types
<1>4. UnderWay'
  <2>1. \A i \in unacked' : next' <= i + Window
    BY <1>1, Sizes
  <2>2. \A i \in wire' \cup acks' : next' <= i + Half
    BY <1>1, <1>2, <1>3, Sizes DEF Types
  <2> QED
    BY <2>1, <2>2 DEF UnderWay
<1>5. ReadInOrder' /\ Ahead'
  BY <1>1, Sizes DEF ReceiverInv, ReadInOrder, Ahead, Types
<1>6. ArrivedIsKept'
  <2>1. \A i : Kept(i)' <=> Kept(i)
    BY <1>1 DEF Kept
  <2> QED
    BY <1>1, <1>2, <2>1 DEF ReceiverInv, ArrivedIsKept
<1> QED
  BY <1>3, <1>4, <1>5, <1>6 DEF ReceiverInv

LEMMA ResendKeepsInv ==
    ASSUME ReceiverInv, NEW i \in Packets, CameraResend(i) \/ Lose(i)
    PROVE  ReceiverInv'
<1>1. /\ wire' \subseteq wire \cup unacked /\ acks' \subseteq acks
      /\ UNCHANGED <<next, unacked, incoming, outOfOrder, buffer, Read, Held>>
  BY DEF CameraResend, Lose, camera, receiver, Read, Held
<1>2. Types'
  BY <1>1 DEF ReceiverInv, Types
<1>3. UnderWay'
  BY <1>1, Sizes DEF ReceiverInv, UnderWay, Types
<1>4. ReadInOrder' /\ Ahead' /\ ArrivedIsKept'
  BY <1>1 DEF ReceiverInv, ReadInOrder, Ahead, ArrivedIsKept, Kept
<1> QED
  BY <1>2, <1>3, <1>4 DEF ReceiverInv

\* The number of an acknowledgement names one packet of the window.
LEMMA AckedKeepsInv ==
    ASSUME ReceiverInv, NEW i \in Packets, CameraAcked(i)
    PROVE  ReceiverInv'
<1>1. /\ i \in acks /\ acks' \subseteq acks
      /\ unacked' = {u \in unacked : u % Modulus # i % Modulus}
      /\ UNCHANGED <<next, wire, incoming, outOfOrder, buffer, Read, Held>>
  BY DEF CameraAcked, receiver, Read, Held
<1>2. \A u \in unacked : u \in unacked' \/ u = i
  <2> SUFFICES ASSUME NEW u \in unacked, u % Modulus = i % Modulus PROVE u = i
    BY <1>1
  <2>1. /\ next \in Nat /\ u \in 0 .. next - 1 /\ i \in 0 .. next - 1
        /\ next <= u + Window /\ next <= i + Half
    BY <1>1, Sizes DEF ReceiverInv, Types, UnderWay
  <2>2. u \in Int /\ i \in Int /\ u - i < Modulus /\ i - u < Modulus
    BY <2>1, Sizes
  <2> QED
    BY <2>2, Sizes, RemaindersDiffer
<1>3. Types' /\ UnderWay' /\ ReadInOrder' /\ Ahead'
  BY <1>1 DEF ReceiverInv, Types, UnderWay, ReadInOrder, Ahead
<1>4. ArrivedIsKept'
  BY <1>1, <1>2 DEF ReceiverInv, ArrivedIsKept, Kept
<1> QED
  BY <1>3, <1>4 DEF ReceiverInv

\* What arrives is less than half a cycle from what is expected, on either side.
LEMMA ArrivesNear ==
    ASSUME ReceiverInv, NEW i \in wire
    PROVE  /\ i \in 0 .. next - 1 /\ i - Read < Half /\ Read - i <= Half
           /\ i % Modulus = incoming <=> i = Read
           /\ ((i % Modulus) - incoming) % Modulus \in 1 .. Half - 1 <=> i > Read
<1>1. /\ Read \in Nat /\ next \in Nat /\ Read <= next /\ next <= Read + Window
      /\ i \in 0 .. next - 1 /\ next <= i + Half
      /\ incoming = Read % Modulus
  BY CameraWaits DEF ReceiverInv, Types, UnderWay, ReadInOrder
<1>2. i \in Int /\ Read \in Int /\ i - Read < Half /\ Read - i <= Half
  BY <1>1, Sizes
<1>3. i - Read < Modulus /\ Read - i < Modulus /\ 2 * Half <= Modulus
  BY <1>2, Sizes, SizeAssumption
<1>4. i % Modulus = Read % Modulus => i = Read
  BY <1>2, <1>3, Sizes, RemaindersDiffer
<1>5. ((i % Modulus) - (Read % Modulus)) % Modulus =
          IF i >= Read THEN i - Read ELSE i - Read + Modulus
  BY <1>2, <1>3, Sizes, RemainderOfDistance
<1>6. (IF i >= Read THEN i - Read ELSE i - Read + Modulus) \in 1 .. Half - 1 <=> i > Read
  BY <1>2, <1>3, Sizes
<1> QED
  BY <1>1, <1>2, <1>4, <1>5, <1>6

LEMMA DataKeepsInv ==
    ASSUME ReceiverInv, Window <= Limit + 1, NEW i \in Packets, HandleData(i)
    PROVE  /\ ReceiverInv'
           /\ \/ UNCHANGED <<next, buffer>>
              \/ /\ UNCHANGED next
                 /\ buffer' = [k \in 1 .. Read' |-> k - 1]
                 /\ Read' \in Read + 1 .. next
<1>1. /\ i \in wire /\ wire' \subseteq wire /\ acks' = acks \cup {i}
      /\ UNCHANGED <<next, unacked>>
  BY DEF HandleData, camera
<1>2. /\ i \in 0 .. next - 1 /\ i - Read < Half
      /\ i % Modulus = incoming <=> i = Read
      /\ ((i % Modulus) - incoming) % Modulus \in 1 .. Half - 1 <=> i > Read
  BY <1>1, ArrivesNear
<1>3. Read \in Nat /\ next \in Nat /\ Read <= next /\ next <= Read + Window
  BY CameraWaits
<1>4. UnderWay'
  BY <1>1 DEF ReceiverInv, UnderWay
<1>5. ASSUME Read' \in 0 .. next, ReadInOrder', Ahead',
             \A k \in Nat : Kept(k) => Kept(k)', Kept(i)'
      PROVE  ReceiverInv'
  <2>1. Types'
    BY <1>1, <1>2, <1>5 DEF ReceiverInv, Types
  <2>2. ArrivedIsKept'
    BY <1>1, <1>2, <1>5 DEF ReceiverInv, ArrivedIsKept, Types
  <2> QED
    BY <1>4, <1>5, <2>1, <2>2 DEF ReceiverInv
<1>6. CASE i = Read
  <2>1. Deliver(Read)
    BY <1>2, <1>6 DEF HandleData
  <2>2. /\ Read' = Read + Run
        /\ buffer' = [k \in 1 .. Read' |-> k - 1]
        /\ incoming' = Read' % Modulus
        /\ Read' <= next
        /\ Held' \subseteq Held
        /\ \A s \in Held' : outOfOrder'[s] = outOfOrder[s] /\ outOfOrder[s] > Read'
        /\ \A s \in Held : s \in Held' \/ outOfOrder[s] < Read'
    BY <1>2, <1>3, <1>6, <2>1, DeliverExtends
  <2>3. Run \in 1 .. Half
    BY RunIsFound
  <2>4. Read' \in Read + 1 .. next
    <3>1. Read' = Read + Run /\ Read' <= next
      BY <2>2
    <3>2. Run \in Nat /\ Run >= 1
      BY <2>3, Sizes
    <3> QED
      BY <1>3, <3>1, <3>2
  <2>5. ReadInOrder'
    BY <2>2 DEF ReadInOrder
  <2>6. Ahead'
    <3> SUFFICES ASSUME NEW s \in Held'
                 PROVE  /\ outOfOrder'[s] \in Read' + 1 .. next' - 1
                        /\ outOfOrder'[s] % Modulus = s
                        /\ outOfOrder'[s] < Read' + Half
      BY DEF Ahead
    <3>1. outOfOrder'[s] = outOfOrder[s] /\ outOfOrder[s] > Read' /\ s \in Held
      BY <2>2
    <3>2. /\ outOfOrder[s] \in Read + 1 .. next - 1 /\ outOfOrder[s] % Modulus = s
          /\ outOfOrder[s] < Read + Half
      BY <3>1 DEF ReceiverInv, Ahead
    <3>3. outOfOrder[s] \in Int /\ Read' \in Int /\ next' = next /\ Read' >= Read
      BY <1>1, <1>3, <2>4, <3>2
    <3>4. outOfOrder[s] \in Read' + 1 .. next' - 1 /\ outOfOrder[s] < Read' + Half
      BY <1>3, <3>1, <3>2, <3>3, Sizes
    <3> QED
      BY <3>1, <3>2, <3>4
  <2>7. \A k \in Nat : Kept(k) => Kept(k)'
    <3> SUFFICES ASSUME NEW k \in Nat, Kept(k) PROVE Kept(k)'
      OBVIOUS
    <3>1. CASE k < Read
      BY <1>3, <2>4, <3>1 DEF Kept
    <3>2. CASE \E s \in Held : outOfOrder[s] = k
      BY <2>2, <3>2 DEF Kept
    <3> QED
      BY <3>1, <3>2 DEF Kept
  <2>8. Kept(i)'
    BY <1>3, <1>6, <2>4 DEF Kept
  <2> QED
    BY <1>1, <1>3, <1>5, <2>2, <2>4, <2>5, <2>6, <2>7, <2>8
<1>7. CASE i # Read /\ Keeps(i)
  <2>1. i > Read
    BY <1>2, <1>7 DEF Keeps
  <2>2. Hold(i)
    BY <1>2, <1>7 DEF HandleData
  <2>3. /\ Held' = Held \cup {i % Modulus}
        /\ \A s \in Held : outOfOrder'[s] = outOfOrder[s]
        /\ outOfOrder'[i % Modulus] = i
        /\ UNCHANGED <<incoming, buffer, Read>>
    BY <1>7, <2>2 DEF Hold, Keeps, Held, Read
  <2>4. ReadInOrder'
    BY <2>3 DEF ReceiverInv, ReadInOrder
  <2>5. Ahead'
    BY <1>1, <1>2, <1>3, <2>1, <2>3, Sizes DEF ReceiverInv, Ahead
  <2>6. \A k \in Nat : Kept(k) => Kept(k)'
    BY <2>3 DEF Kept
  <2>7. Kept(i)'
    BY <2>3 DEF Kept
  <2> QED
    BY <1>1, <1>3, <1>5, <2>3, <2>4, <2>5, <2>6, <2>7
<1>8. CASE i # Read /\ ~Keeps(i)
  <2>1. UNCHANGED <<incoming, outOfOrder, buffer, Read, Held>>
    BY <1>2, <1>8 DEF HandleData, receiver, Read, Held
  <2>2. Kept(i)
    <3>1. CASE i < Read
      BY <3>1 DEF Kept
    <3>2. CASE i > Read
      <4>1. i \in Read + 1 .. next - 1
        BY <1>2, <1>3, <3>2
      <4>2. i % Modulus \in Held
        BY <1>2, <1>8, <3>2, <4>1, RoomForOneMore DEF Keeps
      <4>3. i - Read \in 1 .. Half /\ i = Read + (i - Read)
        BY <1>2, <1>3, <3>2, Sizes
      <4>4. outOfOrder[i % Modulus] = i
        BY <4>2, <4>3, HeldAt
      <4> QED
        BY <4>2, <4>4 DEF Kept
    <3> QED
      BY <1>2, <1>3, <1>8, <3>1, <3>2
  <2>3. ReadInOrder' /\ Ahead'
    BY <1>1, <2>1 DEF ReceiverInv, ReadInOrder, Ahead
  <2>4. \A k \in Nat : Kept(k) => Kept(k)'
    BY <2>1 DEF Kept
  <2>5. Kept(i)'
    BY <2>1, <2>2 DEF Kept
  <2>6. Read' \in 0 .. next
    BY <1>3, <2>1
  <2> QED
    BY <1>1, <1>5, <2>1, <2>3, <2>4, <2>5, <2>6
<1> QED
  BY <1>6, <1>7, <1>8

-----------------------------------------------------------------------------
\* Whatever is lost, repeated or overtaken, the bookkeeping of _handle_data is right, as
\* long as the camera's window is no larger than _out_of_order and the expected packet.
THEOREM ReceiverKeepsTrack ==
    ASSUME Window <= Limit + 1
    PROVE  Spec => []ReceiverInv
<1>1. Init => ReceiverInv
  <2> SUFFICES ASSUME Init PROVE ReceiverInv
    OBVIOUS
  <2>1. /\ next = 0 /\ unacked = {} /\ wire = {} /\ acks = {} /\ incoming = 0
        /\ Read = 0 /\ Held = {} /\ buffer = << >>
    BY DEF Init, Read, Held
  <2>2. 0 % Modulus = 0 /\ << >> = [k \in 1 .. 0 |-> k - 1]
    <3>1. 0 = Modulus * 0 + 0 /\ 0 \in 0 .. Modulus - 1 /\ 0 \in Int
      BY Sizes
    <3>2. 0 % Modulus = 0
      BY <3>1, Sizes, RemainderIs
    <3> QED
      BY <3>2
  <2> QED
    BY <2>1, <2>2, Sizes DEF ReceiverInv, Types, UnderWay, ReadInOrder, Ahead,
       ArrivedIsKept, Kept
<1>2. ReceiverInv /\ [Next]_vars => ReceiverInv'
  <2> SUFFICES ASSUME ReceiverInv, [Next]_vars PROVE ReceiverInv'
    OBVIOUS
  <2>1. CASE UNCHANGED vars
    BY <2>1 DEF vars, camera, receiver, ReceiverInv, Types, UnderWay, ReadInOrder, Ahead,
                ArrivedIsKept, Kept, Read, Held
  <2> QED
    BY <2>1, SendKeepsInv, ResendKeepsInv, AckedKeepsInv, DataKeepsInv DEF Next
<1> QED
  BY <1>1, <1>2, PTL DEF Spec

\* _handle_data acknowledges every packet and may drop it then; it never drops one for
\* good.
THEOREM AcknowledgedIsKept ==
    ASSUME Window <= Limit + 1
    PROVE  Spec => []AckedIsKept
<1>1. ReceiverInv => AckedIsKept
  BY DEF ReceiverInv, ArrivedIsKept, Kept, AckedIsKept, Read
<1> QED
  BY <1>1, ReceiverKeepsTrack, PTL

\* "one ordered, reliable channel": the reader gets what the camera sent, in its order,
\* none missing and none twice.
THEOREM ReceiverIsAStream ==
    ASSUME Window <= Limit + 1
    PROVE  Spec => StreamSpec
<1>1. Init => Stream!Init
  BY DEF Init, Stream!Init
<1>2. ReceiverInv /\ [Next]_vars => [Stream!Next]_(Stream!vars)
  <2> SUFFICES ASSUME ReceiverInv, [Next]_vars PROVE [Stream!Next]_(Stream!vars)
    OBVIOUS
  <2> USE DEF Stream!Next, Stream!vars
  <2>1. CASE CameraSend
    BY <2>1 DEF CameraSend, receiver, Stream!Send
  <2>2. ASSUME NEW i \in Packets, CameraResend(i) \/ CameraAcked(i) \/ Lose(i)
        PROVE  UNCHANGED <<next, buffer>>
    BY <2>2 DEF CameraResend, CameraAcked, Lose, camera, receiver
  <2>3. ASSUME NEW i \in Packets, HandleData(i) PROVE [Stream!Next]_(Stream!vars)
    BY <2>3, DataKeepsInv DEF Stream!Receive, Read
  <2>4. CASE UNCHANGED vars
    BY <2>4 DEF vars, camera, receiver
  <2> QED
    BY <2>1, <2>2, <2>3, <2>4 DEF Next
<1> QED
  BY <1>1, <1>2, ReceiverKeepsTrack, PTL DEF Spec, StreamSpec, Stream!Spec
=============================================================================
