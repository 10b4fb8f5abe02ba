----------------------------- MODULE CameraLogin -----------------------------
(***************************************************************************)
(* authenticate_camera (src/okam_native/cs2.py) with read_command below it: *)
(* the credentials are tried one after the other on channel 0, each with a *)
(* read window of its own.  Responses carry a command identifier and a     *)
(* result, and nothing that names the request they answer.                 *)
(*                                                                         *)
(* Channel 0 is ordered and reliable (DrwReceiver); a response arrives as  *)
(* a header and a body.  The camera is external: it answers the logins it  *)
(* receives in their order, when it likes, and may send commands nobody    *)
(* asked for.  It may also end the session.                                *)
(***************************************************************************)
EXTENDS Naturals, Sequences

CONSTANT Others  \* how many other commands the camera sends (bounds the model)

ASSUME LoginAssumption == Others \in Nat

\* Passwords: one of the option, one of the account, the initial one, and the empty one.
Common == "888888"
Passwords == {"option", "account", Common, ""}

\* select_camera_password: the option, else what the account says, else the initial one.
SelectPassword(api, configured) ==
    IF configured # "" THEN configured ELSE IF api # "" THEN api ELSE Common

\* login_candidates: in this order, each once.
LoginCandidates(password) ==
    <<password>> \o (IF password = Common THEN << >> ELSE <<Common>>)
                 \o (IF password = "" THEN << >> ELSE <<"">>)

Unasked == "unasked"
Nothing == "nothing"
Responses == Passwords \cup {Unasked}  \* a login is named by the password it tries

VARIABLES
    device,     \* the password authenticate_camera is called with
    prompt,     \* camera: it answers within the window of a request, or never
    right,      \* camera: the credentials it accepts
    asked,      \* camera: the login requests it has not answered
    sending,    \* camera: the response whose header it has sent and whose body it has not
    others,     \* camera: how many other commands it has sent
    buffer,     \* channel 0: headers and bodies that nobody has read
    candidate,  \* the candidate the loop is at
    phase,      \* where authenticate_camera is
    attempts    \* the outcome of each candidate tried

camera == <<device, prompt, right, asked, sending, others>>
vars == <<camera, buffer, candidate, phase, attempts>>

candidates == LoginCandidates(device)

Final == {"accepted", "rejected", "failed"}

TypeOK ==
    /\ device \in Passwords
    /\ prompt \in BOOLEAN
    /\ right \subseteq Passwords
    /\ asked \in Seq(Passwords)
    /\ sending \in Responses \cup {Nothing}
    /\ others \in 0 .. Others
    /\ buffer \in Seq([part : {"header", "body"}, of : Responses])
    /\ candidate \in 1 .. Len(candidates) + 1
    /\ phase \in {"write", "header", "body"} \cup Final
    /\ attempts \in Seq({"ok", "no", "none"})
    /\ Len(attempts) = IF phase = "accepted" THEN candidate ELSE candidate - 1

Init ==
    /\ \E api \in {"account", ""}, configured \in {"option", ""} :
           device = SelectPassword(api, configured)
    /\ prompt \in BOOLEAN
    /\ right \in SUBSET {candidates[i] : i \in DOMAIN candidates}
    /\ asked = << >>
    /\ sending = Nothing
    /\ others = 0
    /\ buffer = << >>
    /\ candidate = 1
    /\ phase = "write"
    /\ attempts = << >>

-----------------------------------------------------------------------------
(* The camera *)

Arrives(part, r) == buffer' = Append(buffer, [part |-> part, of |-> r])

CameraHeader(r) ==
    /\ sending = Nothing
    /\ sending' = r
    /\ Arrives("header", r)
    /\ \/ r = Unasked /\ others < Others /\ others' = others + 1 /\ UNCHANGED asked
       \/ asked # << >> /\ r = Head(asked) /\ asked' = Tail(asked) /\ UNCHANGED others
    /\ UNCHANGED <<device, prompt, right, candidate, phase, attempts>>

CameraBody ==
    /\ sending # Nothing
    /\ sending' = Nothing
    /\ Arrives("body", sending)
    /\ UNCHANGED <<device, prompt, right, asked, others, candidate, phase, attempts>>

-----------------------------------------------------------------------------
(* authenticate_camera *)

Outcome(result) == attempts' = Append(attempts, result)

\* write_command: the write returns once the camera has acknowledged it.
WriteRequest ==
    /\ phase = "write"
    /\ candidate <= Len(candidates)
    /\ asked' = Append(asked, candidates[candidate])
    /\ phase' = "header"
    /\ UNCHANGED <<device, prompt, right, sending, others, buffer, candidate, attempts>>

WriteFails ==
    /\ phase = "write"
    /\ candidate <= Len(candidates)
    /\ phase' = "failed"
    /\ UNCHANGED <<camera, buffer, candidate, attempts>>

\* No candidate is left, or none of the 45 seconds: CameraLoginRejected.
Reject ==
    /\ phase = "write"
    /\ candidate > 1
    /\ phase' = "rejected"
    /\ UNCHANGED <<camera, buffer, candidate, attempts>>

\* No answer has been read when the window is over.
WindowEnds ==
    /\ phase = "header"
    /\ prompt => /\ sending \in {Nothing, Unasked}
                 /\ \A i \in DOMAIN buffer : buffer[i].of = Unasked
    /\ asked' = IF prompt THEN << >> ELSE asked
    /\ Outcome("none")
    /\ candidate' = candidate + 1
    /\ phase' = "write"
    /\ UNCHANGED <<device, prompt, right, sending, others, buffer>>

\* Eight bytes are read as a header; what does not start like one is an error.
ReadHeader ==
    /\ phase = "header"
    /\ buffer # << >>
    /\ buffer' = Tail(buffer)
    /\ phase' = IF Head(buffer).part = "header" THEN "body" ELSE "failed"
    /\ UNCHANGED <<camera, candidate, attempts>>

\* A variant that takes the first result it finds, whatever the command.
WrongReadBody ==
    /\ phase = "body"
    /\ buffer # << >>
    /\ buffer' = Tail(buffer)
    /\ IF Head(buffer).of \in right
         THEN Outcome("ok") /\ phase' = "accepted" /\ UNCHANGED candidate
         ELSE Outcome("no") /\ phase' = "write" /\ candidate' = candidate + 1
    /\ UNCHANGED camera

\* A variant that takes any answer to a login for its success.
WrongAccept ==
    /\ phase = "body"
    /\ buffer # << >>
    /\ buffer' = Tail(buffer)
    /\ IF Head(buffer).of = Unasked
         THEN phase' = "header" /\ UNCHANGED <<candidate, attempts>>
         ELSE Outcome("ok") /\ phase' = "accepted" /\ UNCHANGED candidate
    /\ UNCHANGED camera

\* Another command is skipped; result 0 is accepted, any other result sends the
\* loop on to the next candidate.
ReadBody ==
    /\ phase = "body"
    /\ buffer # << >>
    /\ buffer' = Tail(buffer)
    /\ \/ /\ Head(buffer).of = Unasked
          /\ phase' = "header"
          /\ UNCHANGED <<candidate, attempts>>
       \/ /\ Head(buffer).of \in right
          /\ Outcome("ok")
          /\ phase' = "accepted"
          /\ UNCHANGED candidate
       \/ /\ Head(buffer).of \in Passwords \ right
          /\ Outcome("no")
          /\ candidate' = candidate + 1
          /\ phase' = "write"
    /\ UNCHANGED camera

\* A variant that treats a missing body like a missing answer.
WrongBodyTimesOut ==
    /\ phase = "body"
    /\ buffer = << >>
    /\ Outcome("none")
    /\ candidate' = candidate + 1
    /\ phase' = "write"
    /\ UNCHANGED <<camera, buffer>>

\* The header is consumed, so the channel is given up.
BodyTimesOut ==
    /\ phase = "body"
    /\ buffer = << >>
    /\ phase' = "failed"
    /\ UNCHANGED <<camera, buffer, candidate, attempts>>

\* The session is closed, by the camera or by an error of the socket, while the reader waits.
SessionEnds ==
    /\ phase \in {"header", "body"}
    /\ phase' = "failed"
    /\ UNCHANGED <<camera, buffer, candidate, attempts>>

-----------------------------------------------------------------------------
Next ==
    \/ \E r \in Responses : CameraHeader(r)
    \/ CameraBody
    \/ WriteRequest \/ WriteFails \/ Reject \/ WindowEnds
    \/ ReadHeader \/ ReadBody \/ BodyTimesOut \/ SessionEnds

Spec == Init /\ [][Next]_vars

-----------------------------------------------------------------------------
(* Properties *)

\* The reader never takes a body for a header, or the body of another command for
\* the one it waits for, whatever window ended before.
InSync ==
    buffer # << >> => /\ phase = "header" => Head(buffer).part = "header"
                      /\ phase = "body" => Head(buffer).part = "body"

\* The credential that is reported and used for the stream is one the camera
\* accepts.  cs2.py:736-738: sending the command in one piece "prevents a delayed
\* login response from being attributed to a later credential candidate".
AcceptedIsRight == phase = "accepted" => candidates[candidate] \in right

\* If the camera answers in time or not at all, what is reported of each candidate is
\* what the camera thinks of it, and the one that is used for the stream is right.
OutcomesAreTrue ==
    prompt => \A i \in DOMAIN attempts : /\ attempts[i] = "ok" => candidates[i] \in right
                                         /\ attempts[i] = "no" => candidates[i] \notin right

\* cs2.py:788-789: "Candidate 0 is the enumerated camera credential, 1 the common initial
\* value, 2 the empty value."
IndexNamesTheCredential == phase = "accepted" /\ candidate = 2 => candidates[2] = Common

\* However late the camera answers, nothing is accepted unless one of the
\* credentials tried is right, and if every candidate got an answer and none was
\* accepted then none is right.
VerdictIsTrue ==
    /\ phase = "accepted" => \E i \in 1 .. candidate : candidates[i] \in right
    /\ attempts = [i \in DOMAIN candidates |-> "no"] => right = {}
=============================================================================
