-------------------------- MODULE IntegrationProofs --------------------------
(***************************************************************************)
(* The two halves of custom_components/okam: the entry and its setup       *)
(* (ConfigEntry), for every set of tokens, cameras and idle timeouts, and  *)
(* the entity (CameraEntity), for every set of still images under way.     *)
(***************************************************************************)
EXTENDS ConfigEntry, CameraEntity, FiniteSetTheorems, TLAPS

-----------------------------------------------------------------------------
(* The entry.  TimeoutIsTheEntrys is not inductive: what links the bridge  *)
(* to the entry is what the setup has read (api), so the invariant says    *)
(* what each of the three has of the others at each step of a setup.       *)

\* A form that is being validated has been typed.
FormIsTyped == flow # "none" => form \in Typed

\* A setup that is not followed by another has read the entry as it is.
SetupReadTheEntry ==
    state # "absent" => /\ api \in Data /\ data \in Data
                        /\ reloads = 0 => api = data

\* Past its configure request, a setup and the bridge agree, unless the app was restarted.
BridgeHasTheSetups ==
    /\ app = "down" => ~configured
    /\ state \in {"refresh", "loaded"} /\ configured => bridge.idle = api.idle

EntryInv == RecordsOK /\ FormIsTyped /\ SetupReadTheEntry /\ BridgeHasTheSetups

\* What the form takes is data for an entry.
LEMMA ChosenIsData ==
    ASSUME RecordsOK, form \in Typed, form.camera \in {"", bridge.camera}
    PROVE  Chosen \in Data
  BY DEF RecordsOK, Chosen, Typed, Data, Bridges

\* Only a config request changes the bridge, and then to the timeout it asks for.
LEMMA StoredIsTyped ==
    ASSUME RecordsOK, NEW from \in Data \cup {Nothing}
    PROVE  /\ Stored(Request("config", from)) \in Bridges(AppIdle \cup Idle)
           /\ Status(Request("config", from)) = 200 =>
                  /\ app = "ready"
                  /\ Stored(Request("config", from)).idle = from.idle
           /\ \A route \in {"health", "devices", "status"} : \A f :
                  Stored(Request(route, f)) = bridge
<1> DEFINE r == Request("config", from)
<1>1. r.route = "config" /\ r.idle = from.idle
  BY DEF Request
<1>2. from.idle \in Idle \/ from.idle = 0
  <2>1. CASE from \in Data
    BY <2>1 DEF Data
  <2>2. CASE from = Nothing
    BY <2>2 DEF Nothing
  <2> QED
    BY <2>1, <2>2
<1>3. \A route \in {"health", "devices", "status"} : \A f : Stored(Request(route, f)) = bridge
  BY DEF Stored, Request
<1> HIDE DEF r
<1>4. Status(r) = 200 => app = "ready" /\ r.idle \in 10..600
  <2>1. r.route # "health" /\ r.route = "config"
    BY <1>1
  <2>2. ASSUME app # "ready"
        PROVE  Status(r) # 200
    <3>1. Status(r) = IF leftover THEN 400 ELSE 503
      BY <2>1, <2>2 DEF Status
    <3> QED
      BY <3>1
  <2>3. ASSUME r.idle \notin 10..600
        PROVE  Status(r) # 200
    <3>1. Status(r) \in {400, 401, 404, 503}
      BY <2>1, <2>3 DEF Status
    <3> QED
      BY <3>1
  <2> QED
    BY <2>2, <2>3
<1>5. Status(r) = 200 => Stored(r) = [bridge EXCEPT !.idle = r.idle]
  BY <1>1 DEF Stored
<1>6. Status(r) # 200 => Stored(r) = bridge
  BY DEF Stored
<1>7. bridge \in [token : Tokens, camera : Cameras, idle : AppIdle \cup Idle]
  BY DEF RecordsOK, Bridges
<1>8. Status(r) = 200 => Stored(r) \in Bridges(AppIdle \cup Idle) /\ Stored(r).idle = from.idle
  BY <1>1, <1>2, <1>4, <1>5, <1>7 DEF Bridges
<1> QED
  BY <1>3, <1>4, <1>6, <1>7, <1>8 DEF r, Bridges

\* The coordinator has the data of the entry, with the timeout of its setup.
LEMMA CoordinatorIsData ==
    ASSUME api \in Data, data \in Data
    PROVE  /\ Coordinator \in Data /\ Coordinator.idle = api.idle
           /\ api = data => Coordinator = data
  BY DEF Coordinator, Data

\* One step of the integration or of the app keeps the invariant.
LEMMA EntryStep == EntryInv /\ [EntryNext]_entryVars => EntryInv'
<1> SUFFICES ASSUME EntryInv, [EntryNext]_entryVars
             PROVE  EntryInv'
  OBVIOUS
<1> USE DEF EntryInv
<1>0. /\ \A f : \A route \in {"health", "devices", "status"} : Stored(Request(route, f)) = bridge
      /\ Stored(Request("config", api)) \in Bridges(AppIdle \cup Idle)
      /\ Status(Request("config", api)) = 200 =>
             app = "ready" /\ Stored(Request("config", api)).idle = api.idle
  <2>1. api \in Data \cup {Nothing}
    BY DEF RecordsOK
  <2> QED
    BY <2>1, StoredIsTyped
<1> USE DEF RecordsOK, Settled, FormIsTyped, SetupReadTheEntry, BridgeHasTheSetups
<1>1. CASE SubmitForm
  BY <1>1 DEF SubmitForm, apiVars, entry, history
<1>2. CASE CheckHealth
  BY <1>0, <1>2 DEF CheckHealth, Serve, Unread, FormEnds, entry, history
<1>3. CASE CheckDevices
  <2>1. flow # "none" /\ UNCHANGED <<app, bridge, updated>> /\ FormEnds
    BY <1>0, <1>3 DEF CheckDevices, Serve, Unread
  <2>2. CASE Store /\ form.camera \in {"", bridge.camera}
    <3>1. Chosen \in Data
      BY <2>1, <2>2, ChosenIsData
    <3>2. CASE state = "absent"
      BY <2>1, <2>2, <3>1, <3>2 DEF Store, Setup, FormEnds
    <3>3. CASE state # "absent"
      <4>1. /\ reloads' \in 1..2 /\ data' \in Data
            /\ UNCHANGED <<state, api, configured>>
        <5>1. UNCHANGED configured
          BY <2>2, Zenon DEF Store
        <5>2. reloads' = IF state = "loaded" /\ data # Chosen THEN 2 ELSE 1
          BY <2>2, <3>3, Zenon DEF Store
        <5>3. data' = Chosen /\ UNCHANGED <<state, api>>
          BY <2>2, <3>3, Zenon DEF Store
        <5> QED
          BY <3>1, <5>1, <5>2, <5>3
      <4> QED
        BY <2>1, <4>1 DEF FormEnds
    <3> QED
      BY <3>2, <3>3
  <2>3. CASE UNCHANGED <<entry, history>>
    BY <2>1, <2>3 DEF FormEnds, entry, history
  <2> QED
    BY <1>3, <2>2, <2>3 DEF CheckDevices
<1>4. CASE FormUnanswered
  BY <1>0, <1>4 DEF FormUnanswered, NoAnswer, FormEnds, entry, history
<1>5. CASE Configure
  <2>1. bridge' = Stored(Request("config", api)) /\ app # "down"
    BY <1>5 DEF Configure, Serve
  <2>2. /\ state = "configure" /\ state' \in {"refresh", "error"}
        /\ state' = "refresh" => Status(Request("config", api)) = 200
        /\ UNCHANGED <<data, api, reloads, flow, form, app>>
    BY <1>5 DEF Configure, Serve, forms
  <2>3. bridge' \in Bridges(AppIdle \cup Idle)
    BY <1>0, <2>1
  <2>4. state' = "refresh" => bridge'.idle = api.idle
    BY <1>0, <2>1, <2>2
  <2> QED
    BY <2>1, <2>2, <2>3, <2>4
<1>6. CASE ConfigureUnanswered
  <2>1. bridge' \in Bridges(AppIdle \cup Idle)
    BY <1>0, <1>6 DEF ConfigureUnanswered, NoAnswer
  <2>2. /\ state = "configure" /\ state' = "error"
        /\ UNCHANGED <<data, api, reloads, flow, form, app, configured>>
    BY <1>6 DEF ConfigureUnanswered, NoAnswer, forms, history
  <2> QED
    BY <2>1, <2>2
<1>7. CASE FirstRefresh
  <2>1. bridge' = bridge /\ api' = Coordinator
    BY <1>0, <1>7 DEF FirstRefresh, Serve
  <2>2. /\ state = "refresh" /\ state' \in {"loaded", "retry"}
        /\ UNCHANGED <<data, reloads, flow, form, app, configured>>
    BY <1>7 DEF FirstRefresh, Serve, forms, history
  <2> QED
    BY <2>1, <2>2, CoordinatorIsData
<1>8. CASE RefreshUnanswered
  <2>1. bridge' = bridge /\ api' = Coordinator
    BY <1>0, <1>8 DEF RefreshUnanswered, NoAnswer
  <2>2. /\ state = "refresh" /\ state' = "retry"
        /\ UNCHANGED <<data, reloads, flow, form, app, configured>>
    BY <1>8 DEF RefreshUnanswered, NoAnswer, forms, history
  <2> QED
    BY <2>1, <2>2, CoordinatorIsData
<1>9. CASE Update
  BY <1>0, <1>9 DEF Update, Serve, NoAnswer, entry, forms, history
<1>10. CASE Reload
  BY <1>10 DEF Reload, Setup, apiVars, forms, history
<1>11. CASE Retry
  BY <1>11 DEF Retry, Setup, apiVars, forms, history
<1>12. CASE UserReloads
  BY <1>12 DEF UserReloads, Setup, apiVars, forms, history
<1>13. CASE Remove
  BY <1>13 DEF Remove, apiVars, forms
<1>14. CASE HomeAssistantRestarts
  BY <1>14 DEF HomeAssistantRestarts, Setup, FormEnds, history
<1>15. CASE AppStep
  <2>1. CASE StartApp /\ UNCHANGED history
    BY <1>15, <2>1 DEF AppStep, StartApp, Bridges, entry, forms, history
  <2>2. CASE Publish /\ UNCHANGED history
    BY <1>15, <2>2 DEF AppStep, Publish, entry, forms, history
  <2>3. CASE Expire /\ UNCHANGED history
    BY <1>15, <2>3 DEF AppStep, Expire, entry, forms, history
  <2>4. CASE StopApp /\ accepted' = FALSE /\ configured' = FALSE
    BY <1>15, <2>4 DEF AppStep, StopApp, entry, forms
  <2> QED
    BY <1>15, <2>1, <2>2, <2>3, <2>4 DEF AppStep
<1>16. CASE UNCHANGED entryVars
  BY <1>16 DEF entryVars, apiVars, entry, forms, history
<1> QED
  BY <1>1, <1>2, <1>3, <1>4, <1>5, <1>6, <1>7, <1>8, <1>9, <1>10, <1>11, <1>12, <1>13,
     <1>14,
     <1>15, <1>16 DEF EntryNext

\* __init__.py, config_flow.py: in whatever order forms, reloads, retries, lost answers and
\* restarts come, a loaded entry that is not about to be reloaded has its idle timeout in
\* the bridge of the app process that took it.
THEOREM TimeoutReachesTheBridge == EntrySpec => []TimeoutIsTheEntrys
<1>1. EntryInit => EntryInv
  BY DEF EntryInit, ApiInit, EntryInv, RecordsOK, FormIsTyped, SetupReadTheEntry,
     BridgeHasTheSetups, Bridges, Data
<1>2. EntryInv => TimeoutIsTheEntrys
  BY DEF EntryInv, SetupReadTheEntry, BridgeHasTheSetups, TimeoutIsTheEntrys
<1> QED
  BY <1>1, <1>2, EntryStep, PTL DEF EntrySpec

-----------------------------------------------------------------------------
(* The entity *)

Places == {"none", "status", "sleep", "lock", "snapshot"}

\* _snapshot_lock: two still images are never decoded for the entity at a time.
OneSnapshot ==
    \A r \in Requests : \A other \in Requests :
        at[r] = "snapshot" /\ at[other] = "snapshot" => r = other

TasksOK ==
    /\ {session, published} \subseteq States
    /\ attached \subseteq Requests
    /\ wokenBy \in {"nobody", "viewer", "still"}
    /\ at \in [Tasks -> Places]
    /\ answer \in [Tasks -> States \cup {"none", "image", "failed"}]
    /\ answer[Watcher] # "image"

FlagsOK == {viewing, source, watching, last, removed} \subseteq BOOLEAN

EntityInv == TasksOK /\ OneSnapshot /\ WakingIsWatched

\* A task that moves leaves the others alone, but for the watcher it may start.
LEMMA MovesOne ==
    ASSUME at \in [Tasks -> Places], NEW t \in Tasks, NEW place \in Places, NEW ensure,
           Moves(t, place, ensure)
    PROVE  /\ at' \in [Tasks -> Places]
           /\ at'[t] = place
           /\ \A other \in Requests \ {t} : at'[other] = at[other]
           /\ t # Watcher => /\ at[Watcher] # "none" => at'[Watcher] = at[Watcher]
                             /\ ensure => at'[Watcher] # "none"
<1> USE RequestsAssumption DEF Tasks, Places
<1>1. Watcher \in Tasks
  OBVIOUS
<1>2. PICK place2 : /\ at' = [at EXCEPT ![t] = place, ![Watcher] = place2]
                    /\ place2 = IF t = Watcher THEN place
                                ELSE IF ensure /\ [at EXCEPT ![t] = place][Watcher] = "none"
                                       THEN "status" ELSE [at EXCEPT ![t] = place][Watcher]
  BY DEF Moves
<1> QED
  BY <1>1, <1>2

\* A still image that moves on neither strands a waking image nor decodes a second one.
LEMMA ImageMoves ==
    ASSUME TasksOK, OneSnapshot, WakingIsWatched,
           NEW r \in Requests, NEW place \in Places, NEW ensure \in BOOLEAN,
           Moves(r, place, ensure),
           place = "snapshot" => \A other \in Requests : at[other] # "snapshot",
           published' = published \/ (published' = "waking" => ensure),
           removed' = removed
    PROVE  at' \in [Tasks -> Places] /\ OneSnapshot' /\ WakingIsWatched'
<1>0. r \in Tasks /\ r # Watcher
  BY RequestsAssumption DEF Tasks
<1>1. at \in [Tasks -> Places]
  BY DEF TasksOK
<1>2. /\ at' \in [Tasks -> Places]
      /\ at'[r] = place
      /\ \A other \in Requests \ {r} : at'[other] = at[other]
      /\ at[Watcher] # "none" => at'[Watcher] = at[Watcher]
      /\ ensure => at'[Watcher] # "none"
  BY <1>0, <1>1, MovesOne
<1>3. watching' = (watching \/ ensure)
  BY DEF Moves
<1>4. OneSnapshot'
  BY <1>2 DEF OneSnapshot
<1>5. WakingIsWatched'
  BY <1>2, <1>3 DEF WakingIsWatched
<1> QED
  BY <1>2, <1>4, <1>5

\* One step of the bridge, an image or the watcher keeps the invariant.
LEMMA EntityStep == EntityInv /\ [Next]_vars => EntityInv'
<1> SUFFICES ASSUME EntityInv, [Next]_vars
             PROVE  EntityInv'
  OBVIOUS
<1> USE RequestsAssumption DEF EntityInv, TasksOK
<1>0. /\ Watcher \in Tasks /\ Requests \subseteq Tasks
      /\ \A r \in Requests : r # Watcher
  BY DEF Tasks
<1>1. CASE MediaArrives
  BY <1>1 DEF MediaArrives, OneSnapshot, WakingIsWatched, States
<1>2. CASE HelperEnds
  BY <1>2 DEF HelperEnds, OneSnapshot, WakingIsWatched, States
<1>3. ASSUME NEW t \in Tasks, AnswerStatus(t)
      PROVE  EntityInv'
  BY <1>3 DEF AnswerStatus, Answers, bridgeVars, OneSnapshot, WakingIsWatched, States
<1>4. ASSUME NEW t \in Tasks, RequestFails(t)
      PROVE  EntityInv'
  BY <1>4 DEF RequestFails, Answers, bridgeVars, OneSnapshot, WakingIsWatched
<1>5. ASSUME NEW r \in Requests, ServeSnapshot(r)
      PROVE  EntityInv'
  BY <1>5 DEF ServeSnapshot, Woken, OneSnapshot, WakingIsWatched, States
<1>6. ASSUME NEW r \in Requests, SnapshotServed(r)
      PROVE  EntityInv'
  <2>1. /\ answer' \in [Tasks -> States \cup {"none", "image", "failed"}]
        /\ answer'[Watcher] # "image"
    BY <1>0, <1>6 DEF SnapshotServed, Answers
  <2> QED
    BY <2>1, <1>6 DEF SnapshotServed, OneSnapshot, WakingIsWatched
<1>8. ASSUME NEW r \in Requests, ImageRequest(r)
      PROVE  EntityInv'
  <2>1. at' \in [Tasks -> Places] /\ OneSnapshot' /\ WakingIsWatched'
    BY ImageMoves, <1>8 DEF ImageRequest, Places
  <2> QED
    BY <1>8, <2>1 DEF ImageRequest, bridgeVars
<1>9. ASSUME NEW r \in Requests, ImageStatus(r)
      PROVE  EntityInv'
  <2>1. at' \in [Tasks -> Places] /\ OneSnapshot' /\ WakingIsWatched'
    BY ImageMoves, <1>9 DEF ImageStatus, Places, States
  <2> QED
    BY <1>0, <1>9, <2>1 DEF ImageStatus, Taken, bridgeVars
<1>10. ASSUME NEW r \in Requests, TakeLock(r)
       PROVE  EntityInv'
  <2>1. at' \in [Tasks -> Places] /\ OneSnapshot' /\ WakingIsWatched'
    BY ImageMoves, <1>10 DEF TakeLock, Places
  <2> QED
    BY <1>10, <2>1 DEF TakeLock, bridgeVars
<1>11. ASSUME NEW r \in Requests, ImageArrives(r)
       PROVE  EntityInv'
  <2>1. at' \in [Tasks -> Places] /\ OneSnapshot' /\ WakingIsWatched'
    BY ImageMoves, <1>11 DEF ImageArrives, Places
  <2> QED
    BY <1>0, <1>11, <2>1 DEF ImageArrives, Taken, bridgeVars
<1>12. ASSUME NEW r \in Requests, ImageFails(r)
       PROVE  EntityInv'
  <2>1. at' \in [Tasks -> Places] /\ OneSnapshot' /\ WakingIsWatched'
    BY ImageMoves, <1>12 DEF ImageFails, Places
  <2> QED
    BY <1>0, <1>12, <2>1 DEF ImageFails, Taken, bridgeVars
<1>13. ASSUME NEW r \in Requests, ImageCancelled(r)
       PROVE  EntityInv'
  <2>1. at' \in [Tasks -> Places] /\ OneSnapshot' /\ WakingIsWatched'
    BY ImageMoves, <1>13 DEF ImageCancelled, Places
  <2> QED
    BY <1>0, <1>13, <2>1 DEF ImageCancelled, Taken, bridgeVars
<1>14. CASE WatchStatus
  <2>1. /\ at' \in [Tasks -> Places]
        /\ \A other \in Requests : at'[other] = at[other]
        /\ at'[Watcher] = IF answer[Watcher] = "streaming" THEN "none" ELSE "sleep"
    BY <1>0, <1>14, MovesOne DEF WatchStatus, Places
  <2>2. /\ answer[Watcher] # "none" /\ answer' = [answer EXCEPT ![Watcher] = "none"]
        /\ published' = IF answer[Watcher] = "failed" THEN published ELSE answer[Watcher]
        /\ UNCHANGED <<bridgeVars, removed>>
    BY <1>14 DEF WatchStatus, Taken
  <2>3. TasksOK'
    BY <1>0, <2>1, <2>2 DEF bridgeVars, States
  <2>4. OneSnapshot'
    BY <2>1 DEF OneSnapshot
  <2>5. WakingIsWatched'
    BY <2>1, <2>2 DEF WakingIsWatched
  <2> QED
    BY <2>3, <2>4, <2>5
<1>15. CASE WatchAgain
  <2>1. /\ at' \in [Tasks -> Places]
        /\ \A other \in Requests : at'[other] = at[other]
        /\ at'[Watcher] = "status"
    BY <1>0, <1>15, MovesOne DEF WatchAgain, Places
  <2> QED
    BY <1>15, <2>1 DEF WatchAgain, OneSnapshot, WakingIsWatched, bridgeVars
<1>16. CASE WatchExpires
  BY <1>0, <1>16 DEF WatchExpires, OneSnapshot, WakingIsWatched, bridgeVars, Places
<1>17. CASE StreamSource
  BY <1>0, <1>17 DEF StreamSource, OneSnapshot, WakingIsWatched, bridgeVars, Places
<1>18. CASE OpenStream
  BY <1>18 DEF OpenStream, Woken, OneSnapshot, WakingIsWatched, States
<1>19. CASE CloseStream
  BY <1>19 DEF CloseStream, OneSnapshot, WakingIsWatched
<1>20. CASE RemoveEntity
  BY <1>0, <1>20 DEF RemoveEntity, Taken, OneSnapshot, WakingIsWatched, bridgeVars, Places
<1>21. CASE UNCHANGED vars
  BY <1>21 DEF vars, bridgeVars, OneSnapshot, WakingIsWatched
<1> QED
  BY <1>1, <1>2, <1>3, <1>4, <1>5, <1>6, <1>8, <1>9, <1>10, <1>11, <1>12, <1>13, <1>14,
     <1>15, <1>16, <1>17, <1>18, <1>19, <1>20, <1>21 DEF Next


\* Every step leaves flags flags.
LEMMA FlagsStep == FlagsOK /\ [Next]_vars => FlagsOK'
<1> SUFFICES ASSUME FlagsOK, [Next]_vars
             PROVE  FlagsOK'
  OBVIOUS
<1> USE DEF FlagsOK
<1>1. CASE \/ MediaArrives \/ CloseStream \/ HelperEnds
           \/ \E t \in Tasks : AnswerStatus(t) \/ RequestFails(t)
           \/ \E r \in Requests : ServeSnapshot(r) \/ SnapshotServed(r)
  BY <1>1, Zenon DEF MediaArrives, CloseStream, HelperEnds, AnswerStatus, RequestFails,
     ServeSnapshot, SnapshotServed, bridgeVars
<1>2. CASE \E r \in Requests : \/ ImageRequest(r) \/ ImageStatus(r) \/ TakeLock(r)
                              \/ ImageArrives(r) \/ ImageFails(r) \/ ImageCancelled(r)
  <2>1. watching' \in BOOLEAN /\ last' \in {last, TRUE}
    BY <1>2, Zenon DEF ImageRequest, ImageStatus, TakeLock, ImageArrives, ImageFails,
       ImageCancelled, Moves
  <2>2. UNCHANGED <<viewing, source, removed>>
    BY <1>2, Zenon DEF ImageRequest, ImageStatus, TakeLock, ImageArrives, ImageFails,
       ImageCancelled, bridgeVars
  <2> QED
    BY <2>1, <2>2
<1>3. CASE WatchStatus \/ WatchAgain \/ WatchExpires
  BY <1>3, Zenon DEF WatchStatus, WatchAgain, WatchExpires, Moves, bridgeVars
<1>4. CASE StreamSource \/ OpenStream \/ RemoveEntity
  BY <1>4, Zenon DEF StreamSource, OpenStream, RemoveEntity, bridgeVars
<1>5. CASE UNCHANGED vars
  BY <1>5, Zenon DEF vars, bridgeVars
<1> QED
  BY <1>1, <1>2, <1>3, <1>4, <1>5, Zenon DEF Next

\* camera.py:53-105: of the still images, whatever order they are asked, answered, cancelled
\* and failed in, at most one is being decoded for the entity, and every variable has its
\* type.
THEOREM EntityTypeCorrect == Spec => []TypeOK
<1>1. Init => EntityInv /\ FlagsOK
  <2>1. Init => TasksOK
    BY RequestsAssumption DEF Init, TasksOK, Tasks, Places, States
  <2>2. Init => OneSnapshot /\ WakingIsWatched
    BY DEF Init, OneSnapshot, WakingIsWatched, Tasks
  <2>3. Init => FlagsOK
    BY Zenon DEF Init, FlagsOK
  <2> QED
    BY <2>1, <2>2, <2>3 DEF EntityInv
<1>2. EntityInv /\ FlagsOK => TypeOK
  <2> SUFFICES ASSUME EntityInv, FlagsOK
               PROVE  TypeOK
    OBVIOUS
  <2> DEFINE decoded == {r \in Requests : at[r] = "snapshot"}
  <2>1. decoded = {} \/ \E r : decoded = {r}
    BY DEF EntityInv, OneSnapshot
  <2>2. Cardinality(decoded) <= 1
    <3> HIDE DEF decoded
    <3>1. CASE decoded = {}
      BY <3>1, FS_EmptySet
    <3>2. ASSUME NEW r, decoded = {r}
          PROVE  Cardinality(decoded) = 1
      BY <3>2, FS_Singleton
    <3> QED
      BY <2>1, <3>1, <3>2
  <2> QED
    BY <2>2 DEF TypeOK, EntityInv, TasksOK, FlagsOK, Places
<1> QED
  BY <1>1, <1>2, EntityStep, FlagsStep, PTL DEF Spec

\* camera.py:61-79: late answers, failures, cancelled images and the end of one watcher do
\* not strand the waking image, for any number of still images under way.
THEOREM WakingImageIsWatched == Spec => []WakingIsWatched
<1>1. Init => EntityInv
  <2>1. Init => TasksOK
    BY RequestsAssumption DEF Init, TasksOK, Tasks, Places, States
  <2> QED
    BY <2>1 DEF Init, EntityInv, OneSnapshot, WakingIsWatched, Tasks
<1> QED
  BY <1>1, EntityStep, PTL DEF Spec, EntityInv
=============================================================================
