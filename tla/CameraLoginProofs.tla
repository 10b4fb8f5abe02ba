------------------------- MODULE CameraLoginProofs -------------------------
(***************************************************************************)
(* The properties of CameraLogin, however many other commands the camera   *)
(* sends and however late it answers.                                      *)
(***************************************************************************)
EXTENDS CameraLogin, SequenceTheorems, TLAPS

-----------------------------------------------------------------------------
(* What the reader has before it *)

Parts == [part : {"header", "body"}, of : Responses]
BodyOf(r) == [part |-> "body", of |-> r]

\* What is in the buffer, and the body that is certain to follow.
Stream == IF sending = Nothing THEN buffer ELSE Append(buffer, BodyOf(sending))

Asking == phase \in {"write", "header", "body"}
Tried == {candidates[i] : i \in 1 .. IF phase = "write" THEN candidate - 1 ELSE candidate}

\* Nothing that was asked has been given up while its answer might still come.
InTime == prompt \/ \A i \in DOMAIN attempts : attempts[i] # "none"

-----------------------------------------------------------------------------
(* The inductive invariant *)

Types ==
    /\ prompt \in BOOLEAN
    /\ sending \in Responses \cup {Nothing}
    /\ buffer \in Seq(Parts)
    /\ candidate \in Nat \ {0}
    /\ phase \in {"write", "header", "body"} \cup Final
    /\ attempts \in Seq({"ok", "no", "none"})

\* Headers and bodies take turns, beginning with the one that is due, and each body
\* follows its header.
Framed(s) ==
    /\ \A i \in DOMAIN s :
         IF s[i].part = "header"
           THEN i + 1 \in DOMAIN s /\ s[i + 1] = BodyOf(s[i].of)
           ELSE i + 1 \in DOMAIN s => s[i + 1].part = "header"
    /\ IF phase = "body" THEN s # << >> /\ s[1].part = "body"
                         ELSE s # << >> => s[1].part = "header"

\* An answer is the answer to a login that was tried.
AnswersWereAsked(s) ==
    /\ asked \in Seq(Tried)
    /\ \A i \in DOMAIN s : s[i].of \in Tried \cup {Unasked}

\* The only login that is open is the one the loop is at.
OneOpen(s) ==
    /\ asked # << >> =>
         /\ asked = <<candidates[candidate]>> /\ phase # "write"
         /\ \A i \in DOMAIN s : s[i].of = Unasked
    /\ \A i \in DOMAIN s : s[i].of # Unasked =>
         /\ s[i].of = candidates[candidate] /\ phase # "write"
         /\ s[i].part = "body" => \A j \in DOMAIN s : j > i => s[j].of = Unasked

Reported ==
    \A i \in DOMAIN attempts : /\ attempts[i] = "ok" => candidates[i] \in right
                               /\ attempts[i] = "no" => candidates[i] \notin right

LoginInv ==
    /\ Types
    /\ right \subseteq Passwords /\ right \subseteq {candidates[i] : i \in DOMAIN candidates}
    /\ Asking => /\ Len(attempts) = candidate - 1
                 /\ AnswersWereAsked(Stream)
                 /\ Framed(Stream)
    /\ Asking /\ InTime => OneOpen(Stream)
    /\ InTime => Reported
    /\ phase = "accepted" => \E i \in 1 .. candidate : candidates[i] \in right
-----------------------------------------------------------------------------
(* What a step does to the stream *)

LEMMA StreamIsTyped ==
    ASSUME Types
    PROVE  /\ Stream \in Seq(Parts)
           /\ Len(Stream) \in Nat
           /\ DOMAIN Stream = 1 .. Len(Stream)
           /\ \A i \in DOMAIN Stream : Stream[i] \in Parts
<1>1. Stream \in Seq(Parts)
  <2>1. CASE sending = Nothing
    BY <2>1 DEF Stream, Types
  <2>2. CASE sending # Nothing
    <3>1. BodyOf(sending) \in Parts
      BY <2>2 DEF Types, BodyOf, Parts
    <3> QED
      BY <2>2, <3>1, AppendProperties DEF Stream, Types
  <2> QED
    BY <2>1, <2>2
<1> QED
  BY <1>1, LenProperties, ElementOfSeq

\* Reading a part takes the first from the stream.
LEMMA ReadTakesFirst ==
    ASSUME Types, buffer # << >>, buffer' = Tail(buffer), UNCHANGED sending
    PROVE  /\ Len(Stream) > 0
           /\ Head(buffer) = Stream[1]
           /\ Len(Stream') = Len(Stream) - 1
           /\ DOMAIN Stream' = 1 .. Len(Stream')
           /\ \A i \in 1 .. Len(Stream') : Stream'[i] = Stream[i + 1]
           /\ buffer' \in Seq(Parts)
<1>1. buffer \in Seq(Parts) /\ buffer' \in Seq(Parts)
  BY HeadTailProperties DEF Types
<1>2. Head(Stream) = Head(buffer) /\ Stream' = Tail(Stream) /\ Stream # << >>
  <2>1. CASE sending = Nothing
    BY <2>1 DEF Stream
  <2>2. CASE sending # Nothing
    <3>1. BodyOf(sending) \in Parts
      BY <2>2 DEF Types, BodyOf, Parts
    <3>2. /\ Stream = Append(buffer, BodyOf(sending))
          /\ Stream' = Append(Tail(buffer), BodyOf(sending))
      BY <2>2 DEF Stream
    <3> QED
      BY <1>1, <3>1, <3>2, HeadTailAppend, AppendProperties
  <2> QED
    BY <2>1, <2>2
<1>3. Stream \in Seq(Parts)
  BY StreamIsTyped
<1>4. /\ Stream' \in Seq(Parts) /\ Len(Stream') = Len(Stream) - 1
      /\ \A i \in 1 .. Len(Stream') : Stream'[i] = Stream[i + 1]
  BY <1>2, <1>3, HeadTailProperties
<1>5. DOMAIN Stream' = 1 .. Len(Stream')
  BY <1>4, LenProperties
<1>6. Len(Stream) > 0 /\ Head(Stream) = Stream[1]
  BY <1>2, <1>3
<1> QED
  BY <1>1, <1>2, <1>4, <1>5, <1>6

\* A header brings its body with it.
LEMMA HeaderAddsTwo ==
    ASSUME Types, NEW r \in Responses, sending = Nothing, sending' = r, Arrives("header", r)
    PROVE  /\ Len(Stream') = Len(Stream) + 2
           /\ DOMAIN Stream' = 1 .. Len(Stream')
           /\ \A i \in 1 .. Len(Stream) : Stream'[i] = Stream[i]
           /\ Stream'[Len(Stream) + 1] = [part |-> "header", of |-> r]
           /\ Stream'[Len(Stream) + 2] = BodyOf(r)
           /\ buffer' \in Seq(Parts)
<1> DEFINE header == [part |-> "header", of |-> r]
           body == [part |-> "body", of |-> r]
<1>1. header \in Parts /\ body \in Parts
  BY DEF Parts
<1>2. Stream = buffer /\ Stream' = Append(Append(buffer, header), body)
  BY DEF Stream, Arrives, BodyOf, Responses, Passwords, Common, Unasked, Nothing
<1> HIDE DEF header, body
<1>3. buffer \in Seq(Parts)
  BY DEF Types
<1> DEFINE longer == Append(buffer, header)
<1>4. /\ longer \in Seq(Parts) /\ Len(longer) = Len(buffer) + 1
      /\ \A i \in 1 .. Len(buffer) : longer[i] = buffer[i]
      /\ longer[Len(buffer) + 1] = header
  BY <1>1, <1>3, AppendProperties
<1> HIDE DEF longer
<1>5. /\ Append(longer, body) \in Seq(Parts)
      /\ Len(Append(longer, body)) = Len(buffer) + 2
      /\ \A i \in 1 .. Len(buffer) + 1 : Append(longer, body)[i] = longer[i]
      /\ Append(longer, body)[Len(buffer) + 2] = body
  <2>1. Len(buffer) \in Nat
    BY <1>3, LenProperties
  <2> QED
    BY <1>1, <1>4, <2>1, AppendProperties
<1>6. Stream' = Append(longer, body)
  BY <1>2 DEF longer
<1>7. DOMAIN Stream' = 1 .. Len(Stream') /\ Len(buffer) \in Nat
  BY <1>3, <1>5, <1>6, LenProperties
<1>8. buffer' = longer
  BY DEF longer, header, Arrives
<1> QED
  BY <1>2, <1>4, <1>5, <1>6, <1>7, <1>8 DEF header, body, BodyOf

-----------------------------------------------------------------------------
(* The camera keeps the invariant *)

LEMMA HeaderKeepsInv ==
    ASSUME LoginInv, NEW r \in Responses, CameraHeader(r)
    PROVE  LoginInv'
<1>1. /\ sending = Nothing /\ sending' = r /\ Arrives("header", r)
      /\ UNCHANGED <<device, prompt, right, candidate, phase, attempts>>
      /\ \/ r = Unasked /\ UNCHANGED asked
         \/ asked # << >> /\ r = Head(asked) /\ asked' = Tail(asked)
  BY DEF CameraHeader
<1>2. /\ UNCHANGED <<candidates, Tried, Asking, InTime, Reported>>
  BY <1>1 DEF candidates, Tried, Asking, InTime, Reported
<1>3. Types
  BY DEF LoginInv
<1>4. /\ Len(Stream') = Len(Stream) + 2
      /\ DOMAIN Stream' = 1 .. Len(Stream')
      /\ \A i \in 1 .. Len(Stream) : Stream'[i] = Stream[i]
      /\ Stream'[Len(Stream) + 1] = [part |-> "header", of |-> r]
      /\ Stream'[Len(Stream) + 2] = BodyOf(r)
      /\ buffer' \in Seq(Parts)
  BY <1>1, <1>3, HeaderAddsTwo
<1>5. Len(Stream) \in Nat /\ DOMAIN Stream = 1 .. Len(Stream)
  BY <1>3, StreamIsTyped
<1>6. Types'
  BY <1>1, <1>3, <1>4 DEF Types
<1>7. \A i \in DOMAIN Stream' : \/ i \in DOMAIN Stream /\ Stream'[i] = Stream[i]
                                \/ i > Len(Stream) /\ Stream'[i].of = r
  BY <1>4, <1>5 DEF BodyOf
<1>8. ASSUME Asking
      PROVE  Len(attempts)' = candidate' - 1 /\ AnswersWereAsked(Stream)' /\ Framed(Stream)'
  <2>1. AnswersWereAsked(Stream) /\ Framed(Stream) /\ Len(attempts) = candidate - 1
    BY <1>8 DEF LoginInv
  <2>2. /\ asked \in Seq(Tried)
        /\ asked # << >> => Head(asked) \in Tried /\ Tail(asked) \in Seq(Tried)
    BY <2>1, HeadTailProperties DEF AnswersWereAsked
  <2>3. asked' \in Seq(Tried) /\ r \in Tried \cup {Unasked}
    BY <1>1, <2>2
  <2>4. AnswersWereAsked(Stream)'
    BY <1>2, <1>7, <2>1, <2>3 DEF AnswersWereAsked
  <2>5. Stream # << >> <=> Len(Stream) > 0
    BY <1>3, <1>5, StreamIsTyped, EmptySeq
  <2>6. Framed(Stream)'
    <3> DEFINE last == Len(Stream)
    <3>1. \A i \in 1 .. last : Stream'[i].part = "header" =>
              i + 1 \in 1 .. last /\ Stream'[i + 1] = BodyOf(Stream'[i].of)
      BY <1>4, <1>5, <2>1 DEF Framed
    <3>2. \A i \in 1 .. last : Stream'[i].part # "header" => Stream'[i + 1].part = "header"
      <4> TAKE i \in 1 .. last
      <4> HAVE Stream'[i].part # "header"
      <4>1. Stream'[i] = Stream[i] /\ i \in DOMAIN Stream
        BY <1>4, <1>5
      <4>2. i + 1 \in DOMAIN Stream => Stream[i + 1].part = "header"
        BY <2>1, <4>1 DEF Framed
      <4>3. CASE i = last
        BY <1>4, <4>3
      <4>4. CASE i # last
        <5>1. i + 1 \in DOMAIN Stream /\ i + 1 \in 1 .. last
          BY <1>5, <4>4
        <5>2. Stream'[i + 1] = Stream[i + 1]
          BY <1>4, <5>1
        <5> QED
          BY <4>2, <5>1, <5>2
      <4> QED
        BY <4>3, <4>4
    <3>3. /\ Stream'[last + 1].part = "header" /\ Stream'[last + 1].of = r
          /\ Stream'[last + 2].part = "body"
      BY <1>4 DEF BodyOf
    <3>4. IF phase' = "body" THEN Stream' # << >> /\ Stream'[1].part = "body"
                             ELSE Stream'[1].part = "header"
      BY <1>1, <1>4, <1>5, <2>1, <2>5, <3>3 DEF Framed
    <3>5. \A i \in DOMAIN Stream' : i \in 1 .. last \/ i = last + 1 \/ i = last + 2
      BY <1>4, <1>5
    <3> QED
      BY <1>4, <1>5, <3>1, <3>2, <3>3, <3>4, <3>5 DEF Framed
  <2> QED
    BY <1>1, <2>1, <2>4, <2>6
<1>9. ASSUME Asking, InTime
      PROVE  OneOpen(Stream)'
  <2>1. OneOpen(Stream)
    BY <1>9 DEF LoginInv
  <2>2. asked # << >> => Tail(asked) = << >> /\ Head(asked) = candidates[candidate]
    <3> DEFINE x == candidates[candidate]
    <3>1. Tail(<<x>>) = << >> /\ Head(<<x>>) = x
      OBVIOUS
    <3> QED
      BY <2>1, <3>1 DEF OneOpen
  <2>3. CASE r = Unasked /\ UNCHANGED asked
    <3>1. /\ \A i \in DOMAIN Stream' :
                Stream'[i].of = Unasked \/ (i \in DOMAIN Stream /\ Stream'[i] = Stream[i])
          /\ \A i \in DOMAIN Stream' : i \in DOMAIN Stream \/ Stream'[i].of = Unasked
      BY <1>7, <2>3
    <3>2. asked' # << >> =>
            /\ asked' = <<candidates'[candidate']>> /\ phase' # "write"
            /\ \A i \in DOMAIN Stream' : Stream'[i].of = Unasked
      <4> SUFFICES ASSUME asked # << >>
                   PROVE  /\ asked = <<candidates'[candidate']>> /\ phase' # "write"
                          /\ \A i \in DOMAIN Stream' : Stream'[i].of = Unasked
        BY <2>3
      <4>1. asked = <<candidates[candidate]>> /\ phase # "write"
        BY <2>1 DEF OneOpen
      <4>2. \A i \in DOMAIN Stream : Stream[i].of = Unasked
        BY <2>1 DEF OneOpen
      <4>3. candidates'[candidate'] = candidates[candidate] /\ phase' = phase
        BY <1>1, <1>2
      <4> QED
        BY <3>1, <4>1, <4>2, <4>3
    <3>3. ASSUME NEW i \in DOMAIN Stream', Stream'[i].of # Unasked
          PROVE  /\ Stream'[i].of = candidates'[candidate'] /\ phase' # "write"
                 /\ Stream'[i].part = "body" =>
                        \A j \in DOMAIN Stream' : j > i => Stream'[j].of = Unasked
      BY <1>1, <1>2, <2>1, <2>3, <3>1, <3>3 DEF OneOpen
    <3> QED
      BY <3>2, <3>3 DEF OneOpen
  <2>4. CASE asked # << >> /\ r = Head(asked) /\ asked' = Tail(asked)
    <3>1. asked' = << >> /\ r = candidates[candidate] /\ phase # "write"
      BY <2>1, <2>2, <2>4 DEF OneOpen
    <3>2. \A i \in 1 .. Len(Stream) : Stream'[i].of = Unasked
      BY <1>4, <1>5, <2>1, <2>4 DEF OneOpen
    <3>3. /\ Stream'[Len(Stream) + 1].part = "header" /\ Stream'[Len(Stream) + 1].of = r
          /\ Stream'[Len(Stream) + 2].of = r
      BY <1>4 DEF BodyOf
    <3>4. \A i \in DOMAIN Stream' :
              i \in 1 .. Len(Stream) \/ i = Len(Stream) + 1 \/ i = Len(Stream) + 2
      BY <1>4, <1>5
    <3> QED
      BY <1>1, <1>2, <1>4, <1>5, <3>1, <3>2, <3>3, <3>4 DEF OneOpen
  <2> QED
    BY <1>1, <2>3, <2>4
<1> QED
  BY <1>1, <1>2, <1>6, <1>8, <1>9 DEF LoginInv

\* The body was in the stream already.
LEMMA BodyKeepsInv ==
    ASSUME LoginInv, CameraBody
    PROVE  LoginInv'
<1>1. /\ sending # Nothing /\ sending' = Nothing
      /\ buffer' = Append(buffer, BodyOf(sending))
      /\ UNCHANGED <<device, prompt, right, asked, candidate, phase, attempts>>
  BY DEF CameraBody, Arrives, BodyOf
<1>2. UNCHANGED <<candidates, Tried, Asking, InTime, Reported, Stream>>
  BY <1>1 DEF candidates, Tried, Asking, InTime, Reported, Stream
<1>3. Types'
  <2>1. BodyOf(sending) \in Parts
    BY <1>1 DEF LoginInv, Types, BodyOf, Parts
  <2> QED
    BY <1>1, <2>1, AppendProperties DEF LoginInv, Types
<1>4. UNCHANGED <<AnswersWereAsked(Stream), Framed(Stream), OneOpen(Stream)>>
  BY <1>1, <1>2 DEF AnswersWereAsked, Framed, OneOpen
<1> QED
  BY <1>1, <1>2, <1>3, <1>4 DEF LoginInv

-----------------------------------------------------------------------------
(* authenticate_camera keeps the invariant *)

LEMMA WriteKeepsInv ==
    ASSUME LoginInv, WriteRequest
    PROVE  LoginInv'
<1>1. /\ phase = "write" /\ phase' = "header"
      /\ asked' = Append(asked, candidates[candidate])
      /\ UNCHANGED <<device, prompt, right, sending, buffer, candidate, attempts>>
  BY DEF WriteRequest
<1>2. UNCHANGED <<candidates, InTime, Reported, Stream>> /\ Asking
  BY <1>1 DEF candidates, Asking, InTime, Reported, Stream
<1>3. Types'
  BY <1>1 DEF LoginInv, Types
<1>4. AnswersWereAsked(Stream)'
  <2>1. Tried \subseteq Tried' /\ candidates[candidate] \in Tried'
    <3>1. candidate \in Nat \ {0} /\ candidate' = candidate
      BY <1>1 DEF LoginInv, Types
    <3>2. Tried = {candidates[i] : i \in 1 .. candidate - 1}
      BY <1>1 DEF Tried
    <3>3. Tried' = {candidates[i] : i \in 1 .. candidate}
      BY <1>1, <1>2 DEF Tried
    <3> QED
      BY <3>1, <3>2, <3>3
  <2>2. asked \in Seq(Tried) /\ AnswersWereAsked(Stream)
    BY <1>2 DEF LoginInv, AnswersWereAsked
  <2>3. asked \in Seq(Tried')
    BY <2>1, <2>2, SeqMonotonic
  <2>4. asked' \in Seq(Tried')
    BY <1>1, <2>1, <2>3, AppendProperties
  <2> QED
    BY <1>2, <2>1, <2>2, <2>4 DEF AnswersWereAsked
<1>5. Framed(Stream)' /\ Len(attempts)' = candidate' - 1
  BY <1>1, <1>2 DEF LoginInv, Framed
<1>6. InTime' => OneOpen(Stream)'
  <2> SUFFICES ASSUME InTime' PROVE OneOpen(Stream)'
    OBVIOUS
  <2>1. asked = << >> /\ \A i \in DOMAIN Stream : Stream[i].of = Unasked
    BY <1>1, <1>2 DEF LoginInv, OneOpen
  <2>2. asked' = <<candidates'[candidate']>>
    BY <1>1, <1>2, <2>1
  <2> QED
    BY <1>1, <1>2, <2>1, <2>2 DEF OneOpen
<1> QED
  BY <1>1, <1>2, <1>3, <1>4, <1>5, <1>6 DEF LoginInv

\* The loop is left without a new outcome, and without a credential.
LEMMA GivingUpKeepsInv ==
    ASSUME LoginInv, phase' \in {"rejected", "failed"},
           UNCHANGED <<device, prompt, right, sending, candidate, attempts>>,
           buffer' \in Seq(Parts)
    PROVE  LoginInv'
<1>1. UNCHANGED <<candidates, InTime, Reported>> /\ ~Asking'
  BY DEF candidates, Asking, InTime, Reported
<1>2. Types'
  BY DEF LoginInv, Types, Final
<1> QED
  BY <1>1, <1>2 DEF LoginInv

\* An outcome that was reported stays what it was.
LEMMA OutcomeIsAppended ==
    ASSUME Types, NEW result \in {"ok", "no", "none"}, Outcome(result)
    PROVE  /\ attempts' \in Seq({"ok", "no", "none"})
           /\ Len(attempts') = Len(attempts) + 1
           /\ DOMAIN attempts' = 1 .. Len(attempts')
           /\ DOMAIN attempts = 1 .. Len(attempts)
           /\ Len(attempts) \in Nat
           /\ \A i \in 1 .. Len(attempts) : attempts'[i] = attempts[i]
           /\ attempts'[Len(attempts) + 1] = result
<1>1. attempts \in Seq({"ok", "no", "none"}) /\ attempts' = Append(attempts, result)
  BY DEF Types, Outcome
<1> QED
  BY <1>1, AppendProperties, LenProperties

LEMMA WindowKeepsInv ==
    ASSUME LoginInv, WindowEnds
    PROVE  LoginInv'
<1>1. /\ phase = "header" /\ phase' = "write" /\ candidate' = candidate + 1
      /\ prompt => /\ sending \in {Nothing, Unasked}
                   /\ \A i \in DOMAIN buffer : buffer[i].of = Unasked
      /\ asked' = IF prompt THEN << >> ELSE asked
      /\ Outcome("none")
      /\ UNCHANGED <<device, prompt, right, sending, buffer>>
  BY DEF WindowEnds
<1>2. /\ UNCHANGED <<candidates, Stream>> /\ Asking /\ Asking'
      /\ Types /\ AnswersWereAsked(Stream) /\ Framed(Stream)
      /\ Len(attempts) = candidate - 1 /\ candidate \in Nat \ {0}
  BY <1>1 DEF candidates, Asking, Stream, LoginInv, Types
<1>3. /\ attempts' \in Seq({"ok", "no", "none"})
      /\ Len(attempts') = Len(attempts) + 1
      /\ DOMAIN attempts' = 1 .. Len(attempts')
      /\ DOMAIN attempts = 1 .. Len(attempts)
      /\ Len(attempts) \in Nat
      /\ \A i \in 1 .. Len(attempts) : attempts'[i] = attempts[i]
      /\ attempts'[Len(attempts) + 1] = "none"
  BY <1>1, <1>2, OutcomeIsAppended
<1>4. Types'
  BY <1>1, <1>2, <1>3 DEF Types
<1>5. UNCHANGED Tried
  BY <1>1, <1>2 DEF Tried
<1>6. AnswersWereAsked(Stream)'
  <2>1. asked' \in Seq(Tried)
    BY <1>1, <1>2, EmptySeq DEF AnswersWereAsked
  <2> QED
    BY <1>2, <1>5, <2>1 DEF AnswersWereAsked
<1>7. Framed(Stream)' /\ Len(attempts)' = candidate' - 1
  BY <1>1, <1>2, <1>3 DEF Framed
<1>8. InTime' => prompt
  BY <1>1, <1>3 DEF InTime
<1>9. ASSUME prompt PROVE OneOpen(Stream)'
  <2>1. \A i \in DOMAIN Stream : Stream[i].of = Unasked
    <3>1. CASE sending = Nothing
      BY <1>1, <1>9, <3>1 DEF Stream
    <3>2. CASE sending # Nothing
      <4>1. sending = Unasked
        BY <1>1, <1>9, <3>2
      <4>2. buffer \in Seq(Parts) /\ BodyOf(sending) \in Parts
        BY <1>2, <4>1 DEF Types, BodyOf, Parts, Responses
      <4>3. Stream = Append(buffer, BodyOf(sending))
        BY <3>2 DEF Stream
      <4>4. /\ DOMAIN Stream = 1 .. Len(buffer) + 1
            /\ \A i \in 1 .. Len(buffer) : Stream[i] = buffer[i]
            /\ Stream[Len(buffer) + 1] = BodyOf(sending)
            /\ DOMAIN buffer = 1 .. Len(buffer) /\ Len(buffer) \in Nat
        BY <4>2, <4>3, AppendProperties, LenProperties
      <4>5. BodyOf(sending).of = Unasked
        BY <4>1 DEF BodyOf
      <4> QED
        BY <1>1, <1>9, <4>4, <4>5
    <3> QED
      BY <3>1, <3>2
  <2> QED
    BY <1>1, <1>2, <1>9, <2>1 DEF OneOpen
<1>10. Reported /\ prompt => Reported'
  BY <1>1, <1>2, <1>3 DEF Reported
<1>11. prompt => InTime
  BY DEF InTime
<1> QED
  BY <1>1, <1>2, <1>4, <1>6, <1>7, <1>8, <1>9, <1>10, <1>11 DEF LoginInv

LEMMA ReadHeaderKeepsInv ==
    ASSUME LoginInv, ReadHeader
    PROVE  LoginInv'
<1>1. /\ phase = "header" /\ buffer # << >> /\ buffer' = Tail(buffer)
      /\ phase' = IF Head(buffer).part = "header" THEN "body" ELSE "failed"
      /\ UNCHANGED <<device, prompt, right, asked, sending, candidate, attempts>>
  BY DEF ReadHeader, camera
<1>2. /\ UNCHANGED <<candidates, InTime, Reported>> /\ Asking
      /\ Types /\ AnswersWereAsked(Stream) /\ Framed(Stream)
      /\ Len(attempts) = candidate - 1
  BY <1>1 DEF candidates, Asking, InTime, Reported, LoginInv
<1>3. /\ Len(Stream) > 0 /\ Head(buffer) = Stream[1]
      /\ Len(Stream') = Len(Stream) - 1
      /\ DOMAIN Stream' = 1 .. Len(Stream')
      /\ \A i \in 1 .. Len(Stream') : Stream'[i] = Stream[i + 1]
      /\ buffer' \in Seq(Parts)
  BY <1>1, <1>2, ReadTakesFirst
<1>4. Len(Stream) \in Nat /\ DOMAIN Stream = 1 .. Len(Stream)
  BY <1>2, StreamIsTyped
<1>5. Stream[1].part = "header" /\ phase' = "body"
  BY <1>1, <1>2, <1>3 DEF Framed
<1>6. Types' /\ Asking' /\ UNCHANGED Tried
  BY <1>1, <1>2, <1>3, <1>5 DEF Types, Asking, Tried
<1>7. \A i \in DOMAIN Stream' : i + 1 \in DOMAIN Stream /\ Stream'[i] = Stream[i + 1]
  BY <1>3, <1>4
<1>8. AnswersWereAsked(Stream)'
  BY <1>1, <1>2, <1>6, <1>7 DEF AnswersWereAsked
<1>9. Framed(Stream)'
  <2>1. 1 \in DOMAIN Stream' /\ Stream'[1].part = "body"
    <3>1. 1 \in DOMAIN Stream
      BY <1>3, <1>4
    <3>2. 1 + 1 \in DOMAIN Stream /\ Stream[1 + 1] = BodyOf(Stream[1].of)
      BY <1>2, <1>5, <3>1 DEF Framed
    <3>3. 1 \in DOMAIN Stream' /\ Stream'[1] = BodyOf(Stream[1].of)
      BY <1>3, <1>4, <3>2
    <3> QED
      BY <3>3 DEF BodyOf
  <2>2. ASSUME NEW i \in DOMAIN Stream'
        PROVE  IF Stream'[i].part = "header"
                 THEN i + 1 \in DOMAIN Stream' /\ Stream'[i + 1] = BodyOf(Stream'[i].of)
                 ELSE i + 1 \in DOMAIN Stream' => Stream'[i + 1].part = "header"
    BY <1>2, <1>3, <1>4, <1>7 DEF Framed
  <2> QED
    BY <1>5, <2>1, <2>2 DEF Framed
<1>10. InTime => OneOpen(Stream)'
  <2> SUFFICES ASSUME InTime PROVE OneOpen(Stream)'
    OBVIOUS
  <2>1. OneOpen(Stream)
    BY <1>2 DEF LoginInv
  <2>2. asked # << >> => /\ asked = <<candidates[candidate]>>
                         /\ \A i \in DOMAIN Stream : Stream[i].of = Unasked
    BY <2>1 DEF OneOpen
  <2>3. ASSUME NEW i \in DOMAIN Stream', Stream'[i].of # Unasked
        PROVE  /\ Stream'[i].of = candidates'[candidate']
               /\ Stream'[i].part = "body" =>
                      \A j \in DOMAIN Stream' : j > i => Stream'[j].of = Unasked
    <3>1. /\ i + 1 \in DOMAIN Stream /\ Stream'[i] = Stream[i + 1]
          /\ Stream[i + 1].of # Unasked
      BY <1>7, <2>3
    <3>2. /\ Stream[i + 1].of = candidates[candidate]
          /\ Stream[i + 1].part = "body" =>
                 \A j \in DOMAIN Stream : j > i + 1 => Stream[j].of = Unasked
      BY <2>1, <3>1 DEF OneOpen
    <3>3. candidates'[candidate'] = candidates[candidate]
      BY <1>1, <1>2
    <3>4. \A j \in DOMAIN Stream' : j > i => j + 1 > i + 1
      BY <1>3, <1>4, <2>3
    <3> QED
      BY <1>7, <3>1, <3>2, <3>3, <3>4
  <2>4. asked' = asked /\ candidates'[candidate'] = candidates[candidate]
    BY <1>1, <1>2
  <2> QED
    BY <1>5, <1>7, <2>2, <2>3, <2>4 DEF OneOpen
<1> QED
  BY <1>1, <1>2, <1>5, <1>6, <1>8, <1>9, <1>10 DEF LoginInv

LEMMA ReadBodyKeepsInv ==
    ASSUME LoginInv, ReadBody
    PROVE  LoginInv'
<1>1. /\ phase = "body" /\ buffer # << >> /\ buffer' = Tail(buffer)
      /\ UNCHANGED <<device, prompt, right, asked, sending>>
  BY DEF ReadBody, camera
<1>2. /\ UNCHANGED candidates /\ Asking
      /\ Types /\ AnswersWereAsked(Stream) /\ Framed(Stream)
      /\ Len(attempts) = candidate - 1 /\ candidate \in Nat \ {0}
  BY <1>1 DEF candidates, Asking, LoginInv, Types
<1>3. /\ Len(Stream) > 0 /\ Head(buffer) = Stream[1]
      /\ Len(Stream') = Len(Stream) - 1
      /\ DOMAIN Stream' = 1 .. Len(Stream')
      /\ \A i \in 1 .. Len(Stream') : Stream'[i] = Stream[i + 1]
      /\ buffer' \in Seq(Parts)
  BY <1>1, <1>2, ReadTakesFirst
<1>4. Len(Stream) \in Nat /\ DOMAIN Stream = 1 .. Len(Stream)
  BY <1>2, StreamIsTyped
<1>5. \A i \in DOMAIN Stream' : i + 1 \in DOMAIN Stream /\ Stream'[i] = Stream[i + 1]
  BY <1>3, <1>4
<1>6. 1 \in DOMAIN Stream /\ Stream[1].part = "body"
  BY <1>1, <1>2, <1>3, <1>4 DEF Framed
<1>7. ASSUME phase' \in {"header", "write"}
      PROVE  Framed(Stream)'
  <2>1. 1 \in DOMAIN Stream' => Stream'[1].part = "header"
    <3>1. 1 + 1 \in DOMAIN Stream => Stream[1 + 1].part = "header"
      BY <1>2, <1>6 DEF Framed
    <3> QED
      BY <1>3, <1>5, <3>1
  <2>2. ASSUME NEW i \in DOMAIN Stream'
        PROVE  IF Stream'[i].part = "header"
                 THEN i + 1 \in DOMAIN Stream' /\ Stream'[i + 1] = BodyOf(Stream'[i].of)
                 ELSE i + 1 \in DOMAIN Stream' => Stream'[i + 1].part = "header"
    BY <1>2, <1>3, <1>4, <1>5 DEF Framed
  <2>3. Stream' # << >> => 1 \in DOMAIN Stream'
    BY <1>3, <1>4
  <2> QED
    BY <1>7, <2>1, <2>2, <2>3 DEF Framed
<1>8. CASE Head(buffer).of = Unasked /\ phase' = "header" /\ UNCHANGED <<candidate, attempts>>
  <2>1. UNCHANGED <<InTime, Reported, Tried>> /\ Types' /\ Asking'
    BY <1>1, <1>2, <1>3, <1>8 DEF InTime, Reported, Tried, Types, Asking
  <2>2. AnswersWereAsked(Stream)'
    BY <1>1, <1>2, <1>5, <2>1 DEF AnswersWereAsked
  <2>3. ASSUME InTime PROVE OneOpen(Stream)'
    <3>1. OneOpen(Stream)
      BY <1>2, <2>3 DEF LoginInv
    <3>2. asked # << >> => /\ asked = <<candidates[candidate]>>
                           /\ \A i \in DOMAIN Stream : Stream[i].of = Unasked
      BY <3>1 DEF OneOpen
    <3>3. ASSUME NEW i \in DOMAIN Stream', Stream'[i].of # Unasked
          PROVE  /\ Stream'[i].of = candidates'[candidate']
                 /\ Stream'[i].part = "body" =>
                        \A j \in DOMAIN Stream' : j > i => Stream'[j].of = Unasked
      <4>1. /\ i + 1 \in DOMAIN Stream /\ Stream'[i] = Stream[i + 1]
            /\ Stream[i + 1].of # Unasked
        BY <1>5, <3>3
      <4>2. /\ Stream[i + 1].of = candidates[candidate]
            /\ Stream[i + 1].part = "body" =>
                   \A j \in DOMAIN Stream : j > i + 1 => Stream[j].of = Unasked
        BY <3>1, <4>1 DEF OneOpen
      <4>3. candidates'[candidate'] = candidates[candidate]
        BY <1>2, <1>8
      <4>4. \A j \in DOMAIN Stream' : j > i => j + 1 > i + 1
        BY <1>3, <1>4, <3>3
      <4> QED
        BY <1>5, <4>1, <4>2, <4>3, <4>4
    <3>4. asked' = asked /\ candidates'[candidate'] = candidates[candidate]
      BY <1>1, <1>2, <1>8
    <3> QED
      BY <1>5, <1>8, <3>2, <3>3, <3>4 DEF OneOpen
  <2> QED
    BY <1>1, <1>2, <1>7, <1>8, <2>1, <2>2, <2>3 DEF LoginInv
<1>9. CASE /\ Head(buffer).of \in right /\ Outcome("ok")
           /\ phase' = "accepted" /\ UNCHANGED candidate
  <2>1. /\ attempts' \in Seq({"ok", "no", "none"})
        /\ Len(attempts') = Len(attempts) + 1
        /\ DOMAIN attempts' = 1 .. Len(attempts')
        /\ DOMAIN attempts = 1 .. Len(attempts)
        /\ Len(attempts) \in Nat
        /\ \A i \in 1 .. Len(attempts) : attempts'[i] = attempts[i]
        /\ attempts'[Len(attempts) + 1] = "ok"
    BY <1>2, <1>9, OutcomeIsAppended
  <2>2. Types' /\ ~Asking'
    BY <1>1, <1>2, <1>3, <1>9, <2>1 DEF Types, Asking, Final
  <2>3. Stream[1].of \in Tried /\ Stream[1].of # Unasked
    BY <1>2, <1>3, <1>6, <1>9 DEF AnswersWereAsked, LoginInv, Passwords, Common, Unasked
  <2>4. \E i \in 1 .. candidate : candidates[i] \in right
    BY <1>1, <1>3, <1>9, <2>3 DEF Tried
  <2>5. InTime' => InTime
    BY <1>1, <2>1 DEF InTime
  <2>6. ASSUME InTime PROVE Reported'
    <3>1. candidates[candidate] \in right
      BY <1>2, <1>3, <1>6, <1>9, <2>3, <2>6 DEF LoginInv, OneOpen
    <3>2. Reported
      BY <2>6 DEF LoginInv
    <3> QED
      BY <1>1, <1>2, <2>1, <3>1, <3>2 DEF Reported
  <2> QED
    BY <1>1, <1>2, <1>9, <2>2, <2>4, <2>5, <2>6 DEF LoginInv
<1>10. CASE /\ Head(buffer).of \in Passwords \ right /\ Outcome("no")
            /\ candidate' = candidate + 1 /\ phase' = "write"
  <2>1. /\ attempts' \in Seq({"ok", "no", "none"})
        /\ Len(attempts') = Len(attempts) + 1
        /\ DOMAIN attempts' = 1 .. Len(attempts')
        /\ DOMAIN attempts = 1 .. Len(attempts)
        /\ Len(attempts) \in Nat
        /\ \A i \in 1 .. Len(attempts) : attempts'[i] = attempts[i]
        /\ attempts'[Len(attempts) + 1] = "no"
    BY <1>2, <1>10, OutcomeIsAppended
  <2>2. Types' /\ Asking' /\ Len(attempts)' = candidate' - 1
    BY <1>1, <1>2, <1>3, <1>10, <2>1 DEF Types, Asking, Final
  <2>3. UNCHANGED Tried
    BY <1>1, <1>2, <1>10 DEF Tried
  <2>4. AnswersWereAsked(Stream)'
    BY <1>1, <1>2, <1>5, <2>3 DEF AnswersWereAsked
  <2>5. InTime' => InTime
    BY <1>1, <2>1 DEF InTime
  <2>6. ASSUME InTime PROVE OneOpen(Stream)' /\ Reported'
    <3>1. OneOpen(Stream) /\ Reported
      BY <1>2, <2>6 DEF LoginInv
    <3>2. Stream[1].of # Unasked /\ Stream[1].of \notin right
      BY <1>3, <1>10 DEF Passwords, Common, Unasked
    <3>3. /\ asked = << >> /\ Stream[1].of = candidates[candidate]
          /\ \A j \in DOMAIN Stream : j > 1 => Stream[j].of = Unasked
      BY <1>6, <3>1, <3>2 DEF OneOpen
    <3>4. OneOpen(Stream)'
      BY <1>1, <1>3, <1>5, <3>3 DEF OneOpen
    <3>5. Reported'
      BY <1>1, <1>2, <2>1, <3>1, <3>2, <3>3 DEF Reported
    <3> QED
      BY <3>4, <3>5
  <2> QED
    BY <1>1, <1>2, <1>7, <1>10, <2>2, <2>4, <2>5, <2>6 DEF LoginInv
<1> QED
  BY <1>8, <1>9, <1>10 DEF ReadBody

-----------------------------------------------------------------------------
\* The candidates of a password are passwords.
LEMMA CandidatesArePasswords ==
    ASSUME NEW password \in Passwords
    PROVE  /\ LoginCandidates(password) \in Seq(Passwords)
           /\ DOMAIN LoginCandidates(password) = 1 .. Len(LoginCandidates(password))
<1> DEFINE common == IF password = Common THEN << >> ELSE <<Common>>
           empty == IF password = "" THEN << >> ELSE <<"">>
<1>1. /\ <<password>> \in Seq(Passwords)
      /\ common \in Seq(Passwords) /\ empty \in Seq(Passwords)
  <2>1. Common \in Passwords /\ "" \in Passwords
    BY DEF Passwords
  <2>2. \A S, e : e \in S => <<e>> \in Seq(S)
    OBVIOUS
  <2>3. << >> \in Seq(Passwords)
    BY EmptySeq
  <2> QED
    BY <2>1, <2>2, <2>3
<1> HIDE DEF common, empty
<1>2. LoginCandidates(password) = <<password>> \o common \o empty
  BY DEF LoginCandidates, common, empty
<1>3. LoginCandidates(password) \in Seq(Passwords)
  BY <1>1, <1>2, ConcatProperties
<1> QED
  BY <1>3, LenProperties

\* However late the camera answers and whatever else it sends.
THEOREM LoginKeepsTrack == Spec => []LoginInv
<1>1. Init => LoginInv
  <2> SUFFICES ASSUME Init PROVE LoginInv
    OBVIOUS
  <2>1. device \in Passwords
    BY DEF Init, SelectPassword, Passwords, Common
  <2>2. candidates \in Seq(Passwords) /\ DOMAIN candidates = 1 .. Len(candidates)
    BY <2>1, CandidatesArePasswords DEF candidates
  <2>3. \A i \in DOMAIN candidates : candidates[i] \in Passwords
    BY <2>2, ElementOfSeq
  <2>4. right \subseteq Passwords /\ right \subseteq {candidates[i] : i \in DOMAIN candidates}
    BY <2>3 DEF Init
  <2>i. /\ prompt \in BOOLEAN /\ asked = << >> /\ sending = Nothing /\ buffer = << >>
        /\ candidate = 1 /\ phase = "write" /\ attempts = << >>
    BY Zenon DEF Init
  <2>e. << >> \in Seq(Parts) /\ << >> \in Seq({"ok", "no", "none"}) /\ << >> \in Seq(Tried)
    BY EmptySeq
  <2>5. Types /\ Stream = << >> /\ asked \in Seq(Tried)
    BY <2>i, <2>e DEF Types, Stream
  <2>6. /\ Len(attempts) = candidate - 1 /\ attempts = << >> /\ asked = << >>
        /\ phase = "write"
    <3>1. Len(<< >>) = 0
      OBVIOUS
    <3> QED
      BY <2>i, <3>1
  <2>7. AnswersWereAsked(Stream) /\ Framed(Stream) /\ OneOpen(Stream) /\ Reported
    BY <2>5, <2>6 DEF AnswersWereAsked, Framed, OneOpen, Reported
  <2> QED
    BY <2>4, <2>5, <2>6, <2>7 DEF LoginInv
<1>2. LoginInv /\ [Next]_vars => LoginInv'
  <2> SUFFICES ASSUME LoginInv, [Next]_vars PROVE LoginInv'
    OBVIOUS
  <2>1. buffer \in Seq(Parts) /\ (buffer # << >> => Tail(buffer) \in Seq(Parts))
    BY HeadTailProperties DEF LoginInv, Types
  <2>2. CASE \E r \in Responses : CameraHeader(r)
    BY <2>2, HeaderKeepsInv
  <2>3. CASE CameraBody
    BY <2>3, BodyKeepsInv
  <2>4. CASE WriteRequest
    BY <2>4, WriteKeepsInv
  <2>5. CASE WriteFails \/ Reject \/ BodyTimesOut \/ SessionEnds
    BY <2>1, <2>5, GivingUpKeepsInv DEF WriteFails, Reject, BodyTimesOut, SessionEnds,
       camera
  <2>6. CASE WindowEnds
    BY <2>6, WindowKeepsInv
  <2>7. CASE ReadHeader
    BY <2>7, ReadHeaderKeepsInv
  <2>8. CASE ReadBody
    BY <2>8, ReadBodyKeepsInv
  <2>9. CASE UNCHANGED vars
    <3>1. UNCHANGED <<candidates, InTime, Reported, Stream, Tried, Asking, Types>>
      BY <2>9 DEF vars, camera, candidates, InTime, Reported, Stream, Tried, Asking, Types
    <3>2. UNCHANGED <<AnswersWereAsked(Stream), Framed(Stream), OneOpen(Stream)>>
      BY <2>9, <3>1 DEF vars, camera, AnswersWereAsked, Framed, OneOpen
    <3> QED
      BY <2>9, <3>1, <3>2 DEF vars, camera, LoginInv
  <2> QED
    BY <2>2, <2>3, <2>4, <2>5, <2>6, <2>7, <2>8, <2>9 DEF Next
<1> QED
  BY <1>1, <1>2, PTL DEF Spec

-----------------------------------------------------------------------------
\* read_command: the header is read from where a header begins, and the body from where
\* its body does, whatever window ended before.
THEOREM ChannelStaysInSync == Spec => []InSync
<1>1. LoginInv => InSync
  <2> SUFFICES ASSUME LoginInv, buffer # << >>, phase \in {"header", "body"}
               PROVE  Head(buffer).part = phase
    BY DEF InSync
  <2>1. Types /\ Framed(Stream) /\ buffer \in Seq(Parts)
    BY DEF LoginInv, Asking, Types
  <2>2. Head(buffer) = Stream[1] /\ Stream # << >>
    <3>1. CASE sending = Nothing
      BY <2>1, <3>1 DEF Stream
    <3>2. CASE sending # Nothing
      <4>1. BodyOf(sending) \in Parts /\ Stream = Append(buffer, BodyOf(sending))
        BY <2>1, <3>2 DEF Types, BodyOf, Parts, Stream
      <4> QED
        BY <2>1, <4>1, HeadTailAppend, AppendProperties
    <3> QED
      BY <3>1, <3>2
  <2> QED
    BY <2>1, <2>2 DEF Framed
<1> QED
  BY <1>1, LoginKeepsTrack, PTL

\* A camera that answers in time has its say reported: cs2.py:736-738.
THEOREM OutcomesAreTheCameras == Spec => []OutcomesAreTrue
<1>1. LoginInv => OutcomesAreTrue
  BY DEF LoginInv, InTime, Reported, OutcomesAreTrue
<1> QED
  BY <1>1, LoginKeepsTrack, PTL

\* However late it answers, what is accepted and what is rejected is so for a reason.
THEOREM VerdictIsTheCameras == Spec => []VerdictIsTrue
<1>1. LoginInv => VerdictIsTrue
  <2> SUFFICES ASSUME LoginInv, attempts = [i \in DOMAIN candidates |-> "no"]
               PROVE  right = {}
    BY DEF LoginInv, VerdictIsTrue
  <2>1. DOMAIN attempts = DOMAIN candidates /\ \A i \in DOMAIN attempts : attempts[i] = "no"
    OBVIOUS
  <2>2. Reported
    BY <2>1 DEF LoginInv, InTime
  <2>3. \A i \in DOMAIN candidates : candidates[i] \notin right
    BY <2>1, <2>2 DEF Reported
  <2> QED
    BY <2>3 DEF LoginInv
<1> QED
  BY <1>1, LoginKeepsTrack, PTL
=============================================================================
