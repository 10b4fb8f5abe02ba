-------------------------- MODULE HelperTransports --------------------------
(***************************************************************************)
(* The helper of the image that runs: app_entrypoint.py takes the Python   *)
(* helper on amd64 and the C helper on aarch64, and everything above them, *)
(* the parent with its signals included, is the same.  What the two have   *)
(* in common, their mode, their summary and their end, is the same state   *)
(* here; each has some of its own.                                         *)
(***************************************************************************)
EXTENDS HelperProcess

VARIABLES
    arch,          \* RUNTIME_ARCH
    disconnected,  \* aarch64: the client has disconnected
    session,       \* aarch64: what the client holds
    failed         \* aarch64: a command has failed

amd64Only == <<stopTried, link, error, stuck, camera, lost>>
aarch64Only == <<disconnected, session, failed>>
allVars == <<arch, vars, aarch64Only>>

Aarch64 == INSTANCE HybrisHelper

HelperTypeOK ==
    /\ arch \in {"amd64", "aarch64"}
    /\ IF arch = "amd64" THEN TypeOK ELSE Aarch64!TypeOK

HelperInit ==
    \/ /\ arch = "amd64"
       /\ Init
       /\ disconnected = FALSE /\ session = "none" /\ failed = FALSE
    \/ /\ arch = "aarch64"
       /\ Aarch64!Init
       /\ link = "new" /\ camera = "idle"
       /\ stopTried = FALSE /\ error = FALSE /\ stuck = FALSE /\ lost = FALSE

HelperNext ==
    \/ arch = "amd64" /\ Next /\ UNCHANGED <<arch, aarch64Only>>
    \/ arch = "aarch64" /\ Aarch64!Next /\ UNCHANGED <<arch, amd64Only>>

Step ==
    \/ arch = "amd64" /\ HelperStep /\ UNCHANGED <<arch, aarch64Only>>
    \/ arch = "aarch64" /\ Aarch64!HelperStep /\ UNCHANGED <<arch, amd64Only>>

\* Every wait of a helper has a timeout.
HelperSpec == HelperInit /\ [][HelperNext]_allVars /\ WF_allVars(Step)

-----------------------------------------------------------------------------
(* Properties *)

\* What an amd64 helper that ends by itself leaves behind.  The vendor's library has
\* no such account to give: of aarch64 OneContract says what its client still holds.
Amd64LeavesQuiet == arch = "amd64" => QuietCamera

\* Status 0, which the bridge takes for a clean disconnect, is only reported for
\* what the mode asks for.
ZeroIsEarned == IF arch = "amd64" THEN SuccessIsReal ELSE Aarch64!SuccessIsReal

Either == INSTANCE HelperContract WITH
    session <- IF arch = "amd64" THEN Holds ELSE session,
    failed <- IF arch = "amd64" THEN error ELSE failed,
    process <- Ended

\* docs/architecture.md, "Both transports implement the same credential-safe helper
\* contract": the stream is stopped before the helper disconnects unless a command
\* has failed, and it has disconnected before it ends of its own accord.
OneContract == Either!Spec

\* A helper that is told to stop ends, and if no signal ended it, it has stopped the
\* stream or failed to.
ToldToStopEnds ==
    term ~> pc = "exited" /\ (code # Killed => startSent /\ (stopSent \/ error \/ failed))
=============================================================================
