---------------------------- MODULE SnapshotProbe ----------------------------
(***************************************************************************)
(* The snapshot test (run_snapshot_probe in src/okam_native/p2p.py): the   *)
(* app starts a helper, connects its output to an ffmpeg that decodes one  *)
(* frame, waits for both and judges what they leave behind.  Three         *)
(* processes that end in any order; the helper learns from its broken pipe *)
(* that the decoder has what it needs.                                     *)
(*                                                                         *)
(* The helper is HelperProcess seen from outside: an input, an output, a   *)
(* status.  It "leaves" when it stops the stream and disconnects.          *)
(***************************************************************************)
EXTENDS Naturals

CONSTANT Capacity  \* the frames the pipe between the children holds, at least one

VARIABLES
    pc,        \* where run_snapshot_probe is
    raised,    \* an exception is on its way through the finally clause
    holds,     \* helper_process.stdout is open in the app
    helper,    \* "none", "starting", "streaming", "leaving" or "exited"
    status,    \* of the helper: "good" is 0, 4, 5 or 6
    term,      \* the helper has been sent SIGTERM
    decoder,   \* "none", "decoding" or "exited"
    decoded,   \* the decoder has returned 0
    pipe       \* frames in the pipe

app == <<pc, raised, holds>>
vars == <<app, helper, status, term, decoder, decoded, pipe>>

Over == {"passed", "failed"}

TypeOK ==
    /\ pc \in {"spawn", "feed", "decoder", "drop", "communicate", "reap",
               "kill", "terminate", "grace", "judge"} \cup Over
    /\ {raised, holds, term, decoded} \subseteq BOOLEAN
    /\ helper \in {"none", "starting", "streaming", "leaving", "exited"}
    /\ status \in {"none", "good", "bad"}
    /\ status = "none" <=> helper # "exited"
    /\ decoder \in {"none", "decoding", "exited"}
    /\ pipe \in 0 .. Capacity

Init ==
    /\ pc = "spawn"
    /\ raised = FALSE /\ holds = FALSE
    /\ helper = "none" /\ status = "none" /\ term = FALSE
    /\ decoder = "none" /\ decoded = FALSE
    /\ pipe = 0

-----------------------------------------------------------------------------
(* The app *)

\* run_snapshot_probe is called, for the first time or again.
Begin ==
    /\ pc' = "spawn"
    /\ raised' = FALSE /\ holds' = FALSE
    /\ helper' = "none" /\ status' = "none" /\ term' = FALSE
    /\ decoder' = "none" /\ decoded' = FALSE
    /\ pipe' = 0

Raise(place) == pc' = place /\ raised' = TRUE

SpawnHelper ==
    /\ pc = "spawn"
    /\ \/ /\ pc' = "feed" /\ helper' = "starting" /\ holds' = TRUE
          /\ UNCHANGED raised
       \/ Raise("kill") /\ UNCHANGED <<helper, holds>>
    /\ UNCHANGED <<status, term, decoder, decoded, pipe>>

\* The fields are written to the helper, which may be gone already.
Feed ==
    /\ pc = "feed"
    /\ \/ pc' = "decoder" /\ UNCHANGED raised
       \/ helper = "exited" /\ Raise("kill")
    /\ UNCHANGED <<holds, helper, status, term, decoder, decoded, pipe>>

SpawnDecoder ==
    /\ pc = "decoder"
    /\ \/ pc' = "drop" /\ decoder' = "decoding" /\ UNCHANGED raised
       \/ Raise("kill") /\ UNCHANGED decoder
    /\ UNCHANGED <<holds, helper, status, term, decoded, pipe>>

DropPipe ==
    /\ pc = "drop"
    /\ pc' = "communicate"
    /\ holds' = FALSE
    /\ UNCHANGED <<raised, helper, status, term, decoder, decoded, pipe>>

\* The image, an error of the decoder, or the timeout.
Communicate ==
    /\ pc = "communicate"
    /\ \/ decoder = "exited" /\ decoded /\ pc' = "reap" /\ UNCHANGED raised
       \/ decoder = "exited" /\ ~decoded /\ Raise("kill")
       \/ decoder = "decoding" /\ Raise("kill")
    /\ UNCHANGED <<holds, helper, status, term, decoder, decoded, pipe>>

\* The helper's fifteen seconds, and what it wrote to stderr.
Reap ==
    /\ pc = "reap"
    /\ \/ helper = "exited" /\ pc' = "kill" /\ UNCHANGED raised
       \/ helper # "exited" /\ Raise("kill")
    /\ UNCHANGED <<holds, helper, status, term, decoder, decoded, pipe>>

\* finally: first the decoder ...
KillDecoder ==
    /\ pc = "kill"
    /\ pc' = "terminate"
    /\ decoder' = IF decoder = "decoding" THEN "exited" ELSE decoder
    /\ UNCHANGED <<raised, holds, helper, status, term, decoded, pipe>>

\* ... then the helper, politely ...
TerminateHelper ==
    /\ pc = "terminate"
    /\ IF helper \in {"none", "exited"} THEN pc' = "judge" /\ UNCHANGED term
       ELSE pc' = "grace" /\ term' = TRUE
    /\ UNCHANGED <<raised, holds, helper, status, decoder, decoded, pipe>>

\* A variant that does not insist.
WrongGrace ==
    /\ pc = "grace"
    /\ pc' = "judge"
    /\ UNCHANGED <<raised, holds, helper, status, term, decoder, decoded, pipe>>

\* ... and after five seconds with SIGKILL.
Grace ==
    /\ pc = "grace"
    /\ pc' = "judge"
    /\ helper' = "exited"
    /\ status' = IF helper = "exited" THEN status ELSE "bad"
    /\ UNCHANGED <<raised, holds, term, decoder, decoded, pipe>>

\* A variant that does not look at the helper's status.
WrongJudge ==
    /\ pc = "judge"
    /\ IF raised THEN pc' = "failed" ELSE pc' \in Over
    /\ UNCHANGED <<raised, holds, helper, status, term, decoder, decoded, pipe>>

\* The summary must be there, the status known, and the image a JPEG.
Judge ==
    /\ pc = "judge"
    /\ \/ ~raised /\ status = "good" /\ pc' = "passed"
       \/ pc' = "failed"
    /\ UNCHANGED <<raised, holds, helper, status, term, decoder, decoded, pipe>>

AppStep ==
    \/ SpawnHelper \/ Feed \/ SpawnDecoder \/ DropPipe \/ Communicate \/ Reap
    \/ KillDecoder \/ TerminateHelper \/ Grace \/ Judge

-----------------------------------------------------------------------------
(* The helper *)

Readers == holds \/ decoder = "decoding"

Exit(with) == helper' = "exited" /\ status' = with

\* Connected, logged in, started; or not.  A signal kills it in this phase.
HelperStarts ==
    /\ helper = "starting"
    /\ \/ ~term /\ pc # "feed" /\ helper' = "streaming" /\ UNCHANGED status
       \/ Exit("good") \/ Exit("bad")
    /\ UNCHANGED <<app, term, decoder, decoded, pipe>>

HelperWrites ==
    /\ helper = "streaming"
    /\ Readers /\ pipe < Capacity
    /\ pipe' = pipe + 1
    /\ UNCHANGED <<app, helper, status, term, decoder, decoded>>

\* A broken pipe, a signal between two writes, or a camera that fell silent.
HelperLeaves ==
    /\ helper = "streaming"
    /\ ~Readers \/ pipe < Capacity
    /\ helper' = "leaving"
    /\ UNCHANGED <<app, status, term, decoder, decoded, pipe>>

\* The status is 120 when the flush at exit meets the broken pipe once more, and that of
\* a signal when the camera let the helper leave too slowly for the parent.
HelperExits ==
    /\ helper = "leaving"
    /\ Exit("good") \/ Exit("bad")
    /\ UNCHANGED <<app, term, decoder, decoded, pipe>>

-----------------------------------------------------------------------------
(* ffmpeg *)

\* It reads until it has a frame it can decode, or cannot go on.
DecoderReads ==
    /\ decoder = "decoding"
    /\ pipe > 0
    /\ pipe' = pipe - 1
    /\ \/ UNCHANGED <<decoder, decoded>>
       \/ decoder' = "exited" /\ decoded' \in BOOLEAN
    /\ UNCHANGED <<app, helper, status, term>>

\* At the end of its input it may still have a frame to decode.
DecoderEnds ==
    /\ decoder = "decoding"
    /\ pipe = 0 /\ helper = "exited"
    /\ decoder' = "exited" /\ decoded' \in BOOLEAN
    /\ UNCHANGED <<app, helper, status, term, pipe>>

ChildStep ==
    \/ HelperStarts \/ HelperWrites \/ HelperLeaves \/ HelperExits
    \/ DecoderReads \/ DecoderEnds

Next == AppStep \/ ChildStep

Spec == Init /\ [][Next]_vars

-----------------------------------------------------------------------------
(* Properties *)

\* A test that passed has an image, and a helper that left by itself, so that it
\* had the time to stop the stream and to disconnect.
PassedMeansClean ==
    pc = "passed" => decoded /\ status = "good" /\ ~term /\ ~raised
=============================================================================
