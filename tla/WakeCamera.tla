----------------------------- MODULE WakeCamera -----------------------------
(***************************************************************************)
(* Waking the camera (src/okam_native/wakeup.py).  wake_camera asks two    *)
(* directory ports of the wake service at once: each names the node the    *)
(* camera is registered with, the node is sent the command and then read   *)
(* until the camera is up or the time is over.  The results are put        *)
(* together when both coroutines are done.                                 *)
(*                                                                         *)
(* A message is a header and a body, each awaited with a timeout.  Its     *)
(* contents are reduced to what the coroutine does with them.              *)
(***************************************************************************)
EXTENDS FiniteSets

CONSTANT Ports  \* WAKE_PORTS

ASSUME PortsAssumption == IsFiniteSet(Ports) /\ Ports # {}

VARIABLES
    at,         \* where _wake_via_port is, for each port
    open,       \* its connections
    late,       \* its deadline has passed
    outcome,    \* what it returned or raised
    verdict,    \* what wake_camera returned or raised
    commanded   \* history: a node has been sent the command, in this call or earlier

call == <<at, open, late, outcome, verdict>>
wakeVars == <<call, commanded>>

\* "elsewhere" is (False, ()), "sent" is (True, states), "raised" is any exception.
Outcomes == {"none", "elsewhere", "sent", "raised"}
Verdicts == {"none", "requested", "unregistered", "unreachable"}

WakeTypeOK ==
    /\ at \in [Ports -> {"dial", "directory", "node", "command", "header", "body",
                         "close", "done"}]
    /\ open \in [Ports -> SUBSET {"directory", "node"}]
    /\ late \in [Ports -> BOOLEAN]
    /\ outcome \in [Ports -> Outcomes]
    /\ verdict \in Verdicts
    /\ commanded \in BOOLEAN

WakeInit ==
    /\ at = [p \in Ports |-> "dial"]
    /\ open = [p \in Ports |-> {}]
    /\ late = [p \in Ports |-> FALSE]
    /\ outcome = [p \in Ports |-> "none"]
    /\ verdict = "none"
    /\ commanded = FALSE

\* The call is over, and its coroutines with it.
Forget ==
    /\ at' = [p \in Ports |-> "dial"]
    /\ open' = [p \in Ports |-> {}]
    /\ late' = [p \in Ports |-> FALSE]
    /\ outcome' = [p \in Ports |-> "none"]
    /\ verdict' = "none"
    /\ UNCHANGED commanded

-----------------------------------------------------------------------------
(* _wake_via_port *)

Awaits(p, from, to) == at[p] = from /\ at' = [at EXCEPT ![p] = to]

\* The coroutine is decided and has its connections to close.
Leave(p, with) ==
    /\ at' = [at EXCEPT ![p] = "close"]
    /\ outcome' = [outcome EXCEPT ![p] = with]

\* Any await may raise: no connection, no answer in time, end of stream, a size or a
\* body that is no message.  While the node is read, see Silence, only the latter two.
Raise(p) ==
    /\ at[p] \in {"dial", "directory", "node", "command", "header", "body"}
    /\ Leave(p, "raised")
    /\ UNCHANGED <<open, late, verdict, commanded>>

Dial(p) ==
    /\ Awaits(p, "dial", "directory")
    /\ open' = [open EXCEPT ![p] = {"directory"}]
    /\ UNCHANGED <<late, outcome, verdict, commanded>>

\* The directory does not know the camera, or names its node.
Elsewhere(p) ==
    /\ at[p] = "directory"
    /\ Leave(p, "elsewhere")
    /\ UNCHANGED <<open, late, verdict, commanded>>

NodeNamed(p) ==
    /\ Awaits(p, "directory", "node")
    /\ UNCHANGED <<open, late, outcome, verdict, commanded>>

DialNode(p) ==
    /\ Awaits(p, "node", "command")
    /\ open' = [open EXCEPT ![p] = @ \cup {"node"}]
    /\ UNCHANGED <<late, outcome, verdict, commanded>>

\* register, wakeup and getStatus in one go; the deadline counts from here.
Command(p) ==
    /\ Awaits(p, "command", "header")
    /\ commanded' = TRUE
    /\ UNCHANGED <<open, late, outcome, verdict>>

Deadline(p) ==
    /\ at[p] \in {"header", "body"} /\ ~late[p]
    /\ late' = [late EXCEPT ![p] = TRUE]
    /\ UNCHANGED <<at, open, outcome, verdict, commanded>>

\* A variant that reads as long as the node answers.
WrongHeader(p) ==
    /\ Awaits(p, "header", "body")
    /\ UNCHANGED <<open, late, outcome, verdict, commanded>>

\* The head of the loop looks at the deadline, the body of a message does not.
Header(p) ==
    /\ Awaits(p, "header", "body")
    /\ ~late[p]
    /\ UNCHANGED <<open, late, outcome, verdict, commanded>>

\* A status that is not the last one.
Status(p) ==
    /\ Awaits(p, "body", "header")
    /\ UNCHANGED <<open, late, outcome, verdict, commanded>>

\* The camera is up.
Activated(p) ==
    /\ at[p] = "body"
    /\ Leave(p, "sent")
    /\ UNCHANGED <<open, late, verdict, commanded>>

\* The time is over, or the node is silent or gone: the command has been sent anyway.
Silence(p) ==
    /\ at[p] \in {"header", "body"}
    /\ Leave(p, "sent")
    /\ UNCHANGED <<open, late, verdict, commanded>>

\* finally: the node first, then the directory.
Close(p) ==
    /\ Awaits(p, "close", "done")
    /\ open' = [open EXCEPT ![p] = {}]
    /\ UNCHANGED <<late, outcome, verdict, commanded>>

Port(p) ==
    \/ Raise(p) \/ Dial(p) \/ Elsewhere(p) \/ NodeNamed(p) \/ DialNode(p) \/ Command(p)
    \/ Header(p) \/ Status(p) \/ Activated(p) \/ Silence(p) \/ Close(p)

-----------------------------------------------------------------------------
(* wake_camera *)

\* A variant that takes any answer for a request.
WrongCombined ==
    IF \A p \in Ports : outcome[p] = "raised" THEN "unreachable" ELSE "requested"

\* What was raised is left out; the rest is put together.
Combined ==
    IF \A p \in Ports : outcome[p] = "raised" THEN "unreachable"
    ELSE IF \A p \in Ports : outcome[p] # "sent" THEN "unregistered"
    ELSE "requested"

Gather ==
    /\ verdict = "none"
    /\ \A p \in Ports : at[p] = "done"
    /\ verdict' = Combined
    /\ UNCHANGED <<at, open, late, outcome, commanded>>

Progress == Gather \/ \E p \in Ports : Port(p)
TimePasses == \E p \in Ports : Deadline(p)

WakeNext == Progress \/ TimePasses

WakeSpec == WakeInit /\ [][WakeNext]_wakeVars

-----------------------------------------------------------------------------
(* Properties *)

\* wakeup.py:154-156, "unreachable", "not registered": a call that fails has sent no
\* command.  It has if the node's answer then raised, which drops what was sent.
FailedMeansUnsent == verdict \in {"unregistered", "unreachable"} => ~commanded
=============================================================================
