---------------------------- MODULE BridgeStreams ----------------------------
(***************************************************************************)
(* The request handlers of the bridge (src/okam_native/bridge.py) that use *)
(* the shared session: the raw stream, the muxed stream and the snapshot   *)
(* (which NativeStreamSession.snapshot serves), and the PATCH that sets    *)
(* the idle timeout.  Each request runs in a thread of its own and is a    *)
(* viewer of StreamSession; the muxed stream and the snapshot also have a  *)
(* child process (ffmpeg) and a feed thread that copies the subscription   *)
(* into it.  StreamSession's actions are used as they are: a handler that  *)
(* calls the session takes a step of both.                                 *)
(***************************************************************************)
EXTENDS StreamSession

CONSTANTS
    Mixes,     \* what the requests may be for, together: "raw", "muxed", "snapshot" or
               \* "patch", or "none" for a request that is never made
    AppIdle,   \* the idle timeouts the options of the app may name
    Requested  \* the idle timeouts a PATCH asks for

ASSUME MixesAssumption ==
    Mixes \subseteq [Viewers -> {"raw", "muxed", "snapshot", "patch", "none"}]
ASSUME AppIdleAssumption == AppIdle \subseteq 10..600
ASSUME RequestedAssumption == Requested \subseteq Nat

\* The idle timeouts do_PATCH accepts, in seconds.
Timeouts == (AppIdle \cup Requested) \cap 10..600

VARIABLES
    kind,         \* what each request is for
    at,           \* where its handler is
    client,       \* its client is still connected
    child,        \* its muxer or decoder
    feed,         \* its feed thread
    idleTimeout,  \* session.idle_timeout
    interval      \* the interval each idle timer was started with

handler == <<kind, at, client, child, feed>>
settings == <<idleTimeout, interval>>
bridgeVars == <<vars, handler, settings>>

BridgeTypeOK ==
    /\ kind \in Mixes
    /\ at \in [Viewers -> {"arrive", "spawn", "headers", "serve", "close", "release",
                           "reap", "wait", "over", "crashed", "answered"}]
    /\ client \in [Viewers -> BOOLEAN]
    /\ child \in [Viewers -> {"none", "up", "gone"}]
    /\ feed \in [Viewers -> {"none", "up", "gone"}]
    /\ idleTimeout \in Timeouts
    /\ interval \in [Viewers -> Timeouts \cup {0}]

BridgeInit ==
    /\ Init
    /\ kind \in Mixes
    /\ at = [r \in Viewers |-> "arrive"]
    /\ client = [r \in Viewers |-> TRUE]
    /\ child = [r \in Viewers |-> "none"]
    /\ feed = [r \in Viewers |-> "none"]
    /\ idleTimeout \in AppIdle
    /\ interval = [r \in Viewers |-> 0]

Goto(r, place) == at' = [at EXCEPT ![r] = place]

\* Where a handler goes on once it is subscribed.
Subscribed(r) == IF kind[r] # "raw" THEN "spawn" ELSE "headers"

-----------------------------------------------------------------------------
(* Subscribing: session.acquire() *)

Acquire(r) ==
    /\ at[r] = "arrive" /\ kind[r] \in {"raw", "muxed", "snapshot"}
    /\ \/ AcquireAttach(r) /\ Goto(r, Subscribed(r))
       \/ AcquireStart(r) /\ UNCHANGED at
       \/ AcquireRefused(r) /\ Goto(r, "over")   \* 503
    /\ UNCHANGED <<kind, client, child, feed, settings>>

StarterEnds(r) ==
    /\ \/ StartReturns(r) /\ Goto(r, Subscribed(r))
       \/ StartFails(r) /\ Goto(r, "over")       \* 503
    /\ UNCHANGED <<kind, client, child, feed, settings>>

-----------------------------------------------------------------------------
(* Serving *)

\* Popen of the muxer or the decoder.  The snapshot starts its feed at once.
Spawn(r) ==
    /\ at[r] = "spawn"
    /\ child' = [child EXCEPT ![r] = "up"]
    /\ IF kind[r] = "snapshot"
         THEN Goto(r, "serve") /\ feed' = [feed EXCEPT ![r] = "up"]
         ELSE Goto(r, "headers") /\ UNCHANGED feed
    /\ UNCHANGED <<vars, kind, client, settings>>

\* A variant that answers 503 and forgets the subscription.
WrongSpawnFails(r) ==
    /\ at[r] = "spawn"
    /\ Goto(r, "over")
    /\ UNCHANGED <<vars, kind, client, child, feed, settings>>

\* Without ffmpeg there is no subscription to keep.
SpawnFails(r) ==
    /\ at[r] = "spawn"
    /\ Goto(r, "close")
    /\ UNCHANGED <<vars, kind, client, child, feed, settings>>

\* end_headers() writes the response head.  This is outside the try block: when
\* the connection was reset while the camera woke, the exception ends the thread.
SendHeaders(r) ==
    /\ at[r] = "headers"
    /\ \/ Goto(r, "serve") /\ feed' = [feed EXCEPT
             ![r] = IF kind[r] = "muxed" THEN "up" ELSE @]
       \/ ~client[r] /\ Goto(r, "crashed") /\ UNCHANGED feed
    /\ UNCHANGED <<vars, kind, client, child, settings>>

\* The loop ends: END or end of file was read, a write to the client failed, or
\* the decoder is done or ran into its timeout.
ServeEnds(r) ==
    /\ at[r] = "serve"
    /\ \/ kind[r] = "snapshot"
       \/ kind[r] = "muxed" /\ (child[r] = "gone" \/ ~client[r])
       \/ kind[r] = "raw" /\ (viewer[r] = "ended" \/ ~client[r])
    /\ Goto(r, "close")
    /\ UNCHANGED <<vars, kind, client, child, feed, settings>>

\* Afterwards nobody looks whether the client is there.
ClientLeaves(r) ==
    /\ client[r]
    /\ viewer[r] = "starting" \/ at[r] \in {"spawn", "headers", "serve"}
    /\ client' = [client EXCEPT ![r] = FALSE]
    /\ UNCHANGED <<vars, kind, at, child, feed, settings>>

\* A variant whose feed stops on a broken pipe only.
WrongFeedEnds(r) ==
    /\ feed[r] = "up"
    /\ child[r] = "gone"
    /\ feed' = [feed EXCEPT ![r] = "gone"]
    /\ UNCHANGED <<vars, kind, at, client, child, settings>>

\* The feed copies until END, until the subscription is closed, or until the
\* child's stdin breaks; then it closes that stdin.
FeedEnds(r) ==
    /\ feed[r] = "up"
    /\ viewer[r] # "open" \/ child[r] = "gone"
    /\ feed' = [feed EXCEPT ![r] = "gone"]
    /\ UNCHANGED <<vars, kind, at, client, child, settings>>

\* ffmpeg ends: at the end of its input, after one frame, or by failing.
ChildExits(r) ==
    /\ child[r] = "up"
    /\ child' = [child EXCEPT ![r] = "gone"]
    /\ UNCHANGED <<vars, kind, at, client, feed, settings>>

-----------------------------------------------------------------------------
(* The finally block: subscription.close(), then the child *)

CloseSubscription(r) ==
    /\ at[r] = "close"
    /\ BeginClose(r)
    /\ Goto(r, "release")
    /\ UNCHANGED <<kind, client, child, feed, settings>>

\* A timer started by this release takes the idle timeout as it is now.
ReleaseSubscription(r) ==
    /\ at[r] = "release"
    /\ Release(r)
    /\ Goto(r, "reap")
    /\ interval' = IF stopper'[r] = "armed" THEN [interval EXCEPT ![r] = idleTimeout]
                                            ELSE interval
    /\ UNCHANGED <<kind, client, child, feed, idleTimeout>>

\* poll(): a muxer that still runs gets SIGTERM, which it may ignore, and a decoder
\* is killed.
Reap(r) ==
    /\ at[r] = "reap"
    /\ IF child[r] = "up" /\ kind[r] = "muxed"
         THEN Goto(r, "wait") /\ UNCHANGED child
         ELSE /\ Goto(r, "over")
              /\ child' = [child EXCEPT ![r] = IF @ = "up" THEN "gone" ELSE @]
    /\ UNCHANGED <<vars, kind, client, feed, settings>>

\* A variant that gives up after the five seconds and never kills.
WrongReapMuxer(r) ==
    /\ at[r] = "wait"
    /\ Goto(r, "over")
    /\ UNCHANGED <<vars, kind, client, child, feed, settings>>

\* wait(timeout=5): the muxer has ended, or it is killed now.
ReapMuxer(r) ==
    /\ at[r] = "wait"
    /\ child' = [child EXCEPT ![r] = "gone"]
    /\ Goto(r, "over")
    /\ UNCHANGED <<vars, kind, client, feed, settings>>

-----------------------------------------------------------------------------
\* do_PATCH: the new idle timeout is stored, without the lock; a timer that runs
\* already keeps its interval.  One that is out of range is answered 400.
PatchIdleTimeout(r) ==
    /\ at[r] = "arrive" /\ kind[r] = "patch"
    /\ \E t \in Requested : idleTimeout' = IF t \in Timeouts THEN t ELSE idleTimeout
    /\ Goto(r, "answered")
    /\ UNCHANGED <<vars, kind, client, child, feed, interval>>

\* What the session does by itself.
SessionStep ==
    /\ \/ \E v \in Viewers : HelperExit(v) \/ PumpStep(v) \/ TimerStep(v)
       \/ \E s \in Stoppers : StopStep(s)
       \/ CloseSession
    /\ UNCHANGED <<handler, settings>>

RequestStep(r) ==
    \/ Acquire(r) \/ StarterEnds(r) \/ Spawn(r) \/ SpawnFails(r) \/ SendHeaders(r)
    \/ ServeEnds(r) \/ ClientLeaves(r) \/ FeedEnds(r) \/ ChildExits(r)
    \/ CloseSubscription(r) \/ ReleaseSubscription(r) \/ Reap(r) \/ ReapMuxer(r)
    \/ PatchIdleTimeout(r)

BridgeNext == SessionStep \/ \E r \in Viewers : RequestStep(r)

BridgeSpec == BridgeInit /\ [][BridgeNext]_bridgeVars

(***************************************************************************)
(* A handler thread goes on wherever it does not wait for its client or    *)
(* for media.  One whose client has gone does find out: the next chunk     *)
(* cannot be written, and a helper that brings no chunk ends by itself     *)
(* after its own read timeout.  A stranded one has no next chunk; only the *)
(* decoder's timeout, or ffmpeg's own end, ends its request.  ffmpeg ends  *)
(* when its input has ended.                                               *)
(***************************************************************************)
ServeMustEnd(r) == viewer[r] = "stranded" => kind[r] = "snapshot" \/ child[r] = "gone"

BridgeFairness ==
    /\ \A r \in Viewers :
         /\ WF_bridgeVars(StarterEnds(r))
         /\ WF_bridgeVars(Spawn(r) \/ SpawnFails(r))
         /\ WF_bridgeVars(SendHeaders(r))
         /\ WF_bridgeVars(ServeMustEnd(r) /\ ServeEnds(r))
         /\ WF_bridgeVars(FeedEnds(r))
         /\ WF_bridgeVars(feed[r] = "gone" /\ ChildExits(r))
         /\ WF_bridgeVars(CloseSubscription(r))
         /\ WF_bridgeVars(ReleaseSubscription(r))
         /\ WF_bridgeVars(Reap(r) \/ ReapMuxer(r))
         /\ WF_bridgeVars(UNCHANGED <<handler, settings>>
              /\ (PumpJoin(r) \/ PumpCleanup(r) \/ PumpSignalEnd(r)))
         /\ WF_bridgeVars(UNCHANGED <<handler, settings>> /\ DrainStderr(r))
         /\ WF_bridgeVars(UNCHANGED <<handler, settings>> /\ TimerStep(r))
    /\ \A s \in Stoppers : WF_bridgeVars(UNCHANGED <<handler, settings>> /\ StopStep(s))

BridgeFairSpec == BridgeSpec /\ BridgeFairness

-----------------------------------------------------------------------------
(* Properties *)

\* A request that has come to its end has taken its subscription and its child
\* process with it, whichever way it ended.
NothingLeftOver ==
    \A r \in Viewers : at[r] = "over" =>
        r \notin subscribers /\ viewer[r] = "done" /\ child[r] # "up"

\* tests/test_bridge.py:106 says of the muxed endpoint that "it never leaks the
\* subscription": once the handler thread is gone so is its subscription.
NeverLeaksSubscription ==
    \A r \in Viewers : at[r] \in {"over", "crashed"} => r \notin subscribers

\* README.md:164 says of a new idle timeout "The change is applied immediately":
\* a timer that runs has the current interval.
TimeoutAppliesAtOnce ==
    \A r \in Viewers : stopper[r] = "armed" => interval[r] = idleTimeout

\* The end of the helper travels through queue, feed, ffmpeg and handler, and the end
\* of a client through the write that fails: no request is left waiting, and no feed,
\* unless END was given up for its viewer.  A snapshot ends even then.
RequestsEnd ==
    \A r \in Viewers : at[r] = "serve" /\ (~Live \/ ~client[r])
                         ~> \/ at[r] = "over" /\ feed[r] # "up"
                            \/ viewer[r] = "stranded" /\ kind[r] # "snapshot"

\* README.md:22, "Automatic stream stop and clean disconnect after the last viewer
\* leaves": once no client is there, no helper runs or another request is made.
\* The handlers that crashed, which BridgeStreamsLeak shows, are left out.
StopsAfterLast ==
    (\A r \in Viewers : kind[r] = "patch" \/ (at[r] \in {"serve", "over"} /\ ~client[r]))
      ~> \A h \in Viewers : ~Running(h)
=============================================================================
