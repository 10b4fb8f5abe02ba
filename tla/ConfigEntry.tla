----------------------------- MODULE ConfigEntry -----------------------------
(***************************************************************************)
(* The Home Assistant integration over BridgeApi: the forms that make and  *)
(* change the entry (config_flow.py), its setup (__init__.py), the client  *)
(* (api.py) and the coordinator (coordinator.py) of custom_components/okam.*)
(* A form, a setup and a poll are tasks that interleave at every request;  *)
(* a request is one step, as the bridge answers each on its own.           *)
(*                                                                         *)
(* Home Assistant is external: an exception of async_setup_entry is an     *)
(* error that only the user ends, ConfigEntryNotReady is tried again, and  *)
(* reloads of one entry wait for one another.  Nothing writes the options  *)
(* of the entry, and nothing asks for the reauth form.                     *)
(***************************************************************************)
EXTENDS BridgeApi

CONSTANT Idle  \* the idle timeouts a user may type

ASSUME IdleAssumption == Idle \subseteq Nat

VARIABLES
    data,        \* entry.data, or Nothing
    state,       \* of the entry; "configure" and "refresh" are steps of its setup
    api,         \* what the setup has read of the entry: OkamApi, camera_id, idle_timeout
    reloads,     \* the reloads that are due
    flow,        \* where the form is: "none", "health", "devices"
    form,        \* what the user has typed
    updated,     \* coordinator.last_update_success
    accepted,    \* the form took data from this app process
    configured,  \* this app process took the idle timeout of a setup
    excused      \* the last setup failed for what the entry had no part in

entry == <<data, state, api, reloads>>
forms == <<flow, form>>
history == <<accepted, configured, excused>>
entryVars == <<apiVars, entry, forms, updated, history>>

Nothing == [token |-> "", camera |-> "", idle |-> 0]
Data == [token : Tokens, camera : Cameras, idle : Idle]
Typed == [token : Tokens, camera : Cameras \cup {""}, idle : Idle]

Settled == {"loaded", "error", "retry"}

RecordsOK ==
    /\ app \in {"down", "starting", "ready"}
    /\ bridge \in Bridges(AppIdle \cup Idle)
    /\ data \in Data \cup {Nothing} /\ api \in Data \cup {Nothing}
    /\ state \in {"absent", "configure", "refresh"} \cup Settled
    /\ reloads \in 0..2
    /\ flow \in {"none", "health", "devices"} /\ form \in Typed \cup {Nothing}

EntryTypeOK == RecordsOK /\ {leftover, updated, accepted, configured, excused} \subseteq BOOLEAN

EntryInit ==
    /\ ApiInit
    /\ data = Nothing /\ api = Nothing /\ form = Nothing
    /\ state = "absent" /\ reloads = 0 /\ flow = "none"
    /\ updated = FALSE /\ accepted = FALSE /\ configured = FALSE /\ excused = FALSE

Request(route, of) == [route |-> route, token |-> of.token, camera |-> of.camera, idle |-> of.idle]

-----------------------------------------------------------------------------
(* The form: _validate, then a new entry or new data for the one that is there *)

\* The schema bounds the idle timeout.  A user waits for the reloads of the last form.
SubmitForm ==
    /\ flow = "none" /\ reloads = 0
    /\ flow' = "health"
    /\ form' \in {f \in Typed : f.idle \in 10..600}
    /\ UNCHANGED <<apiVars, entry, updated, history>>

FormEnds == flow' = "none" /\ form' = Nothing

CheckHealth ==
    /\ flow = "health"
    /\ Serve(Request("health", form))
    /\ IF Status(Request("health", form)) = 200
         THEN flow' = "devices" /\ UNCHANGED form ELSE FormEnds
    /\ UNCHANGED <<entry, updated, history>>

\* A variant that stores what was typed.
WrongChosen == form

\* A camera that was not named is the first one of the account.
Chosen == IF form.camera = "" THEN [form EXCEPT !.camera = bridge.camera] ELSE form

Setup(from) == state' = "configure" /\ api' = from

\* A variant in which new data wait for the next setup.
WrongStore ==
    /\ data' = Chosen
    /\ IF state = "absent" THEN Setup(Chosen) ELSE UNCHANGED <<state, api>>
    /\ accepted' = TRUE
    /\ UNCHANGED <<reloads, configured, excused>>

\* A new entry is set up.  Changed data are followed by a reload of the flow, and by one
\* of the update listener, which a loaded entry has.
Store ==
    /\ data' = Chosen
    /\ IF state = "absent"
         THEN Setup(Chosen) /\ UNCHANGED reloads
         ELSE /\ reloads' = IF state = "loaded" /\ data # Chosen THEN 2 ELSE 1
              /\ UNCHANGED <<state, api>>
    /\ accepted' = TRUE
    /\ UNCHANGED <<configured, excused>>

\* The camera must be among the devices.
CheckDevices ==
    /\ flow = "devices"
    /\ Serve(Request("devices", form))
    /\ FormEnds
    /\ IF Status(Request("devices", form)) = 200 /\ form.camera \in {"", bridge.camera}
         THEN Store ELSE UNCHANGED <<entry, history>>
    /\ UNCHANGED updated

FormUnanswered ==
    /\ flow # "none"
    /\ NoAnswer(Request(flow, form))
    /\ FormEnds
    /\ UNCHANGED <<entry, updated, history>>

-----------------------------------------------------------------------------
(* async_setup_entry *)

\* await api.configure(...): OkamApiError leaves async_setup_entry.  The entry is not to
\* blame for a body that was left on the connection, or for an answer that is lost.
Configure ==
    /\ state = "configure"
    /\ Serve(Request("config", api))
    /\ IF Status(Request("config", api)) = 200
         THEN state' = "refresh" /\ configured' = TRUE /\ excused' = FALSE
         ELSE state' = "error" /\ excused' = leftover /\ UNCHANGED configured
    /\ UNCHANGED <<data, api, reloads, forms, updated, accepted>>

ConfigureUnanswered ==
    /\ state = "configure"
    /\ NoAnswer(Request("config", api))
    /\ state' = "error"
    /\ excused' = TRUE
    /\ UNCHANGED <<data, api, reloads, forms, updated, accepted, configured>>

\* The coordinator takes the camera from the entry as it is now, the token from the client.
Coordinator == [api EXCEPT !.camera = data.camera]

\* async_config_entry_first_refresh: UpdateFailed becomes ConfigEntryNotReady.
FirstRefresh ==
    /\ state = "refresh"
    /\ api' = Coordinator
    /\ Serve(Request("status", api'))
    /\ updated' = (Status(Request("status", api')) = 200)
    /\ state' = IF updated' THEN "loaded" ELSE "retry"
    /\ UNCHANGED <<data, reloads, forms, history>>

RefreshUnanswered ==
    /\ state = "refresh"
    /\ api' = Coordinator
    /\ NoAnswer(Request("status", api'))
    /\ state' = "retry"
    /\ updated' = FALSE
    /\ UNCHANGED <<data, reloads, forms, history>>

\* The coordinator polls a loaded entry; the entity is available if that works.
Update ==
    /\ state = "loaded"
    /\ LET poll == Request("status", api)
       IN  \/ Serve(poll) /\ updated' = (Status(poll) = 200)
           \/ NoAnswer(poll) /\ updated' = FALSE
    /\ UNCHANGED <<entry, forms, history>>

-----------------------------------------------------------------------------
(* Home Assistant and the user *)

Reload ==
    /\ state \in Settled /\ reloads > 0
    /\ reloads' = reloads - 1
    /\ Setup(data)
    /\ UNCHANGED <<apiVars, data, forms, updated, history>>

Retry ==
    /\ state = "retry"
    /\ Setup(data)
    /\ UNCHANGED <<apiVars, data, reloads, forms, updated, history>>

UserReloads ==
    /\ state \in Settled
    /\ Setup(data)
    /\ UNCHANGED <<apiVars, data, reloads, forms, updated, history>>

Remove ==
    /\ state \in Settled /\ flow = "none"
    /\ state' = "absent" /\ data' = Nothing /\ api' = Nothing /\ reloads' = 0
    /\ accepted' = FALSE
    /\ UNCHANGED <<apiVars, forms, updated, configured, excused>>

\* Home Assistant keeps its entries over a restart, and sets them up again.
HomeAssistantRestarts ==
    /\ state # "absent"
    /\ Setup(data)
    /\ reloads' = 0
    /\ leftover' = FALSE
    /\ updated' = FALSE
    /\ FormEnds
    /\ UNCHANGED <<app, bridge, data, history>>

\* The app starts anew, with other options perhaps.
AppStep ==
    /\ \/ (StartApp \/ Publish \/ Expire) /\ UNCHANGED history
       \/ StopApp /\ accepted' = FALSE /\ configured' = FALSE /\ UNCHANGED excused
    /\ UNCHANGED <<entry, forms, updated>>

EntryNext ==
    \/ SubmitForm \/ CheckHealth \/ CheckDevices \/ FormUnanswered
    \/ Configure \/ ConfigureUnanswered \/ FirstRefresh \/ RefreshUnanswered \/ Update
    \/ Reload \/ Retry \/ UserReloads \/ Remove \/ HomeAssistantRestarts
    \/ AppStep

(***************************************************************************)
(* Home Assistant goes on with its reloads and retries, a request ends by  *)
(* an answer or by its timeout, and the network does not lose the answer   *)
(* of every refresh.  Nothing is asked of the user.                        *)
(***************************************************************************)
EntryFairness ==
    /\ WF_entryVars(Reload) /\ WF_entryVars(Retry)
    /\ WF_entryVars(Configure \/ ConfigureUnanswered)
    /\ SF_entryVars(FirstRefresh)

EntrySpec == EntryInit /\ [][EntryNext]_entryVars /\ EntryFairness

-----------------------------------------------------------------------------
(* Properties *)

\* While an entry is loaded and no reload is due, the bridge has the entry's idle
\* timeout, unless the app has been restarted since: whatever form, setup, retry and
\* lost answer came before, and in whatever order.
TimeoutIsTheEntrys ==
    state = "loaded" /\ reloads = 0 /\ configured => bridge.idle = data.idle

\* As long as the app is not restarted, an entry whose data the form has accepted
\* loads, without a hand of the user, or ends in an error it had no part in: a body
\* that another request left, or an answer that was lost (api.py:43).  Such an error is
\* for ever: __init__.py:45 does not make it ConfigEntryNotReady.
AcceptedLoads ==
    <>[]accepted => []<>(state = "loaded" \/ (state = "error" /\ excused))

\* README.md:155, "the bridge waits for the configured idle timeout": also after the app
\* was restarted.
TimeoutIsKept ==
    state = "loaded" /\ reloads = 0 /\ app = "ready" => bridge.idle = data.idle

\* A setup that fails was refused for what it asked: the entry is not the bridge's, or
\* the app was not there.
RefusedForCause ==
    [][Configure /\ state' = "error" =>
         app # "ready" \/ api.token # bridge.token \/ api.camera # bridge.camera]_entryVars
=============================================================================
