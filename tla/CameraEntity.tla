---------------------------- MODULE CameraEntity ----------------------------
(***************************************************************************)
(* The Home Assistant entity (custom_components/okam/camera.py): still     *)
(* images, the wake watcher and the live view of one camera, as tasks of   *)
(* one event loop that interleave at every await.  A status is read in the *)
(* bridge at one time and used in the entity at a later one.               *)
(*                                                                         *)
(* The bridge (BridgeStreams, StreamSession) is external here: what its    *)
(* status says, who starts its helper, and when that ends.                 *)
(***************************************************************************)
EXTENDS Naturals, FiniteSets

CONSTANT Requests  \* calls of async_camera_image; one may be made again once it is over

Watcher == "watcher"
Tasks == Requests \cup {Watcher}
States == {"idle", "waking", "streaming"}

ASSUME RequestsAssumption == Watcher \notin Requests

VARIABLES
    session,    \* the state in the status of the bridge
    viewing,    \* a live view is open
    attached,   \* the still images the bridge is decoding
    wokenBy,    \* who made the bridge start its helper the last time
    source,     \* Home Assistant has asked for the stream source and not opened it
    at,         \* where each task is; "none": there is none
    answer,     \* the answer to its request that is under way to it
    published,  \* _bridge_state
    watching,   \* a watcher was started and has not run out of time since
    last,       \* _last_snapshot is set
    removed     \* the entity has been removed

bridgeVars == <<session, viewing, attached, wokenBy>>
vars == <<bridgeVars, source, at, answer, published, watching, last, removed>>

TypeOK ==
    /\ {session, published} \subseteq States
    /\ {viewing, source, watching, last, removed} \subseteq BOOLEAN
    /\ attached \subseteq Requests
    /\ wokenBy \in {"nobody", "viewer", "still"}
    /\ at \in [Tasks -> {"none", "status", "sleep", "lock", "snapshot"}]
    /\ answer \in [Tasks -> States \cup {"none", "image", "failed"}]
    /\ Cardinality({r \in Requests : at[r] = "snapshot"}) <= 1

\* The entity is made from a first status, with the helper running or not.
Init ==
    /\ session \in States /\ published = session
    /\ viewing = FALSE /\ attached = {} /\ wokenBy = "nobody"
    /\ source = FALSE
    /\ at = [t \in Tasks |-> "none"]
    /\ answer = [t \in Tasks |-> "none"]
    /\ watching = FALSE /\ last = FALSE /\ removed = FALSE

-----------------------------------------------------------------------------
(* The bridge *)

\* acquire(): a helper that does not run is started.
Woken(who) ==
    IF session = "idle" THEN session' = "waking" /\ wokenBy' = who
    ELSE UNCHANGED <<session, wokenBy>>

MediaArrives ==
    /\ session = "waking"
    /\ session' = "streaming"
    /\ UNCHANGED <<viewing, attached, wokenBy, source, at, answer, published, watching,
                   last, removed>>

\* The helper ends, by itself or after the idle timeout; its viewers with it.
HelperEnds ==
    /\ session # "idle"
    /\ session' = "idle"
    /\ viewing' = FALSE
    /\ UNCHANGED <<attached, wokenBy, source, at, answer, published, watching, last, removed>>

Answers(t, what) ==
    /\ answer[t] = "none"
    /\ answer' = [answer EXCEPT ![t] = what]

AnswerStatus(t) ==
    /\ at[t] = "status"
    /\ Answers(t, session)
    /\ UNCHANGED <<bridgeVars, source, at, published, watching, last, removed>>

RequestFails(t) ==
    /\ at[t] \in {"status", "snapshot"}
    /\ Answers(t, "failed")
    /\ UNCHANGED <<bridgeVars, source, at, published, watching, last, removed>>

\* The snapshot handler of the bridge acquires a subscription ...
ServeSnapshot(r) ==
    /\ at[r] = "snapshot" /\ answer[r] = "none" /\ r \notin attached
    /\ attached' = attached \cup {r}
    /\ Woken("still")
    /\ UNCHANGED <<viewing, source, at, answer, published, watching, last, removed>>

\* ... decodes a frame, or fails; the entity may have given up meanwhile.
SnapshotServed(r) ==
    /\ r \in attached
    /\ attached' = attached \ {r}
    /\ IF at[r] = "snapshot" /\ answer[r] = "none"
         THEN Answers(r, IF session = "streaming" THEN "image" ELSE "failed")
         ELSE UNCHANGED answer
    /\ UNCHANGED <<session, viewing, wokenBy, source, at, published, watching, last, removed>>

-----------------------------------------------------------------------------
(* The entity *)

\* _ensure_wake_watcher, in a step that takes the task t to a place of its own.
Moves(t, place, ensure) ==
    /\ at' = [at EXCEPT ![t] = place,
                        ![Watcher] = IF t = Watcher THEN place
                                     ELSE IF ensure /\ @ = "none" THEN "status" ELSE @]
    /\ watching' = (watching \/ ensure)

Taken(t) == answer' = [answer EXCEPT ![t] = "none"]

ImageRequest(r) ==
    /\ at[r] = "none" /\ r \notin attached /\ ~removed
    /\ Moves(r, "status", FALSE)
    /\ UNCHANGED <<bridgeVars, source, answer, published, last, removed>>

\* A variant that leaves it to the live view to start the watcher.
WrongImageStatus(r) ==
    /\ at[r] = "status" /\ answer[r] \in States
    /\ published' = answer[r]
    /\ Moves(r, IF answer[r] = "streaming" THEN "lock" ELSE "none", FALSE)
    /\ Taken(r)
    /\ UNCHANGED <<bridgeVars, source, last, removed>>

\* The sleeping image, the waking image and a watcher, or on to a snapshot.
ImageStatus(r) ==
    /\ at[r] = "status" /\ answer[r] \in States
    /\ published' = answer[r]
    /\ Moves(r, IF answer[r] = "streaming" THEN "lock" ELSE "none", answer[r] = "waking")
    /\ Taken(r)
    /\ UNCHANGED <<bridgeVars, source, last, removed>>

\* One snapshot at a time.
TakeLock(r) ==
    /\ at[r] = "lock"
    /\ \A other \in Requests : at[other] # "snapshot"
    /\ Moves(r, "snapshot", FALSE)
    /\ UNCHANGED <<bridgeVars, source, answer, published, last, removed>>

ImageArrives(r) ==
    /\ at[r] = "snapshot" /\ answer[r] = "image"
    /\ last' = TRUE
    /\ Moves(r, "none", FALSE)
    /\ Taken(r)
    /\ UNCHANGED <<bridgeVars, source, published, removed>>

\* except Exception: the last snapshot, or the waking image and a watcher.
ImageFails(r) ==
    /\ answer[r] = "failed"
    /\ Moves(r, "none", ~last)
    /\ Taken(r)
    /\ UNCHANGED <<bridgeVars, source, published, last, removed>>

\* Home Assistant waits ten seconds for an image and then cancels the task.
ImageCancelled(r) ==
    /\ at[r] # "none"
    /\ Moves(r, "none", FALSE)
    /\ Taken(r)
    /\ UNCHANGED <<bridgeVars, source, published, last, removed>>

\* A variant that ends when the bridge cannot be reached.
WrongWatchStatus ==
    /\ at[Watcher] = "status" /\ answer[Watcher] # "none"
    /\ published' = IF answer[Watcher] = "failed" THEN published ELSE answer[Watcher]
    /\ Moves(Watcher, IF answer[Watcher] \in {"streaming", "failed"} THEN "none"
                      ELSE "sleep", FALSE)
    /\ Taken(Watcher)
    /\ UNCHANGED <<bridgeVars, source, last, removed>>

\* The watcher publishes what it reads and ends with "streaming".
WatchStatus ==
    /\ at[Watcher] = "status" /\ answer[Watcher] # "none"
    /\ published' = IF answer[Watcher] = "failed" THEN published ELSE answer[Watcher]
    /\ Moves(Watcher, IF answer[Watcher] = "streaming" THEN "none" ELSE "sleep", FALSE)
    /\ Taken(Watcher)
    /\ UNCHANGED <<bridgeVars, source, last, removed>>

WatchAgain ==
    /\ at[Watcher] = "sleep"
    /\ Moves(Watcher, "status", FALSE)
    /\ UNCHANGED <<bridgeVars, source, answer, published, last, removed>>

\* WAKE_WATCH_SECONDS are over.
WatchExpires ==
    /\ at[Watcher] = "sleep"
    /\ at' = [at EXCEPT ![Watcher] = "none"]
    /\ watching' = FALSE
    /\ UNCHANGED <<bridgeVars, source, answer, published, last, removed>>

StreamSource ==
    /\ ~removed /\ ~source
    /\ source' = TRUE
    /\ at' = [at EXCEPT ![Watcher] = IF @ = "none" THEN "status" ELSE @]
    /\ watching' = TRUE
    /\ UNCHANGED <<bridgeVars, answer, published, last, removed>>

\* The URL is fetched and opened, or that fails.
OpenStream ==
    /\ source
    /\ source' = FALSE
    /\ \/ viewing' = TRUE /\ Woken("viewer")
       \/ UNCHANGED <<session, viewing, wokenBy>>
    /\ UNCHANGED <<attached, at, answer, published, watching, last, removed>>

CloseStream ==
    /\ viewing
    /\ viewing' = FALSE
    /\ UNCHANGED <<session, attached, wokenBy, source, at, answer, published, watching,
                   last, removed>>

\* _cancel_wake_watcher; images that are under way go on.
RemoveEntity ==
    /\ ~removed
    /\ removed' = TRUE
    /\ at' = [at EXCEPT ![Watcher] = "none"]
    /\ Taken(Watcher)
    /\ UNCHANGED <<bridgeVars, source, published, watching, last>>

-----------------------------------------------------------------------------
Next ==
    \/ MediaArrives \/ HelperEnds
    \/ \E t \in Tasks : AnswerStatus(t) \/ RequestFails(t)
    \/ \E r \in Requests :
         \/ ServeSnapshot(r) \/ SnapshotServed(r)
         \/ ImageRequest(r) \/ ImageStatus(r) \/ TakeLock(r)
         \/ ImageArrives(r) \/ ImageFails(r) \/ ImageCancelled(r)
    \/ WatchStatus \/ WatchAgain \/ WatchExpires
    \/ StreamSource \/ OpenStream \/ CloseStream \/ RemoveEntity

Spec == Init /\ [][Next]_vars

\* The event loop runs every task; the bridge can be reached again and again.
FairSpec ==
    /\ Spec
    /\ WF_vars(WatchStatus) /\ WF_vars(WatchAgain)
    /\ SF_vars(AnswerStatus(Watcher)) /\ WF_vars(RequestFails(Watcher))

-----------------------------------------------------------------------------
(* Properties *)

\* While "waking" is what the entity has published, somebody is there to publish
\* what comes next: late answers, failures and the end of one watcher do not
\* strand the waking image, until a watcher has run out of its time.
WakingIsWatched ==
    published = "waking" /\ watching /\ ~removed => at[Watcher] # "none"

\* README.md:151-152, the waking image "is displayed until video arrives": a watcher
\* that lives when there is video gets to publish it, also when the bridge
\* cannot be reached for a while.
StreamingIsPublished ==
    (at[Watcher] # "none" /\ session = "streaming")
        ~> (published = "streaming" \/ session # "streaming" \/ removed \/ ~watching)

\* README.md:149-150, a still image of a sleeping camera is shown "without waking it".
StillNeverWakes == wokenBy # "still"
=============================================================================
