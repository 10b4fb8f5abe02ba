------------------------------ MODULE BridgeApi ------------------------------
(***************************************************************************)
(* The answers of the bridge's HTTP server (make_handler in                *)
(* src/okam_native/bridge.py) to a client that keeps its connection, as    *)
(* Home Assistant's does: which request is answered how, what it changes,  *)
(* and what is left of it on the connection.  The streams and snapshots    *)
(* are in BridgeStreams.                                                   *)
(*                                                                         *)
(* The bridge is set by the app (AppStartup), with the token, the camera   *)
(* and the idle timeout of the app's options, which are read at its start. *)
(* That the server takes a body nobody has read for the next request line, *)
(* answers 400 and closes the connection is http.server's doing.           *)
(***************************************************************************)
EXTENDS Naturals

CONSTANTS
    Tokens,   \* API tokens
    Cameras,  \* camera aliases
    AppIdle   \* the idle timeouts the options of the app may name

ASSUME AppIdleAssumption == AppIdle \subseteq 10..600

VARIABLES
    app,      \* "down", "starting" (BRIDGE is None) or "ready"
    bridge,   \* BRIDGE: its token, its camera, and session.idle_timeout
    leftover  \* the client's pooled connection holds a body that was not read

apiVars == <<app, bridge, leftover>>

Bridges(idle) == [token : Tokens, camera : Cameras, idle : idle]

ApiInit ==
    /\ app = "down"
    /\ bridge \in Bridges(AppIdle)
    /\ leftover = FALSE

-----------------------------------------------------------------------------
(* A request has a route, a token, a camera in its path, and an idle timeout as its
   body; "health" and "devices" use less of it. *)

\* The status of the answer: no bridge, then the token, then the path, then the body.
Status(r) ==
    IF leftover THEN 400
    ELSE IF r.route = "health" THEN 200
    ELSE IF app # "ready" THEN 503
    ELSE IF r.token # bridge.token THEN 401
    ELSE IF r.route # "devices" /\ r.camera # bridge.camera THEN 404
    ELSE IF r.route = "config" /\ r.idle \notin 10..600 THEN 400
    ELSE 200

\* do_PATCH stores the idle timeout.
Stored(r) ==
    IF r.route = "config" /\ Status(r) = 200 THEN [bridge EXCEPT !.idle = r.idle] ELSE bridge

\* _authorized_bridge and the test of the path answer before the body is read.
Unread(r) == r.route = "config" /\ Status(r) \in {401, 404, 503}

Serve(r) ==
    /\ app # "down"
    /\ bridge' = Stored(r)
    /\ leftover' = Unread(r)
    /\ UNCHANGED app

\* The client gets no answer in time, whether the request was served or not, and does
\* not use that connection again.
NoAnswer(r) ==
    /\ bridge' \in {bridge} \cup (IF app = "down" THEN {} ELSE {Stored(r)})
    /\ leftover' = FALSE
    /\ UNCHANGED app

-----------------------------------------------------------------------------
(* The app, and the end of a connection that was idle too long *)

StartApp ==
    /\ app = "down"
    /\ app' = "starting"
    /\ bridge' \in Bridges(AppIdle)
    /\ UNCHANGED leftover

Publish ==
    /\ app = "starting"
    /\ app' = "ready"
    /\ UNCHANGED <<bridge, leftover>>

StopApp ==
    /\ app # "down"
    /\ app' = "down"
    /\ leftover' = FALSE
    /\ UNCHANGED bridge

Expire ==
    /\ leftover
    /\ leftover' = FALSE
    /\ UNCHANGED <<app, bridge>>
=============================================================================
