# Verification of the O-KAM native bridge

TLA+ models of okam-ha-native, the TLC configurations that check them and the
proofs that TLAPS checks. `PROJECT.json` maps every definition that stands for
code to its lines; its paths start at the directory that holds the repository as
`src/`, so that `src/src/okam_native/session.py` is the repository's
`src/okam_native/session.py`. Below, the files of that directory go by their names.

    tlc -config StreamSession.cfg StreamSession.tla       # one of the checks
    tlapm BridgeStreamsProofs.tla                         # one of the proofs

## 1. The system

A battery camera serves one client at a time and sleeps between clients. The
app wakes it, connects to it over a UDP protocol (CS2), logs in, starts its
H.264 stream and shares the one stream among all viewers of Home Assistant;
when the last viewer is gone for a while it lets the camera sleep again.

| part | source | state | operations | hard about it |
|---|---|---|---|---|
| stream session | `session.py`, `NativeStreamSession` | the helper process, the table of subscribers, the idle timer, closed, cached stream units, what the last helper reported | `acquire`, `release`, `close`, the starter, a pump and a stderr drain per helper, `_stop_if_idle`, `_terminate` | five kinds of threads under one lock, the starter keeps the lock for tens of seconds, processes are ended outside it |
| viewer queue | `session.py`, `StreamSubscription` and `_pump` | a bounded queue, closed | put / evict / put again, iterate | two producers evict without a common lock |
| preamble cache | `session.py`, `_note_media`, `_record_unit`, `_preamble` | bytes not cut yet, newest SPS, PPS, IDR | one call per read | reads cut start codes anywhere |
| bridge API | `bridge.py` | a thread per request, its ffmpeg and feed thread, idle timeout | raw stream, muxed stream, snapshot, PATCH | children, clients and helper end in any order |
| CS2 rendezvous | `cs2.py`, `connect`, `close` | endpoints, relay latches, peer, close targets | four timers, a branch per packet | lost, late and reordered packets; two ways to a session |
| CS2 channel | `cs2.py`, `write`, `_retransmit`, `_handle_data`, `_handle_ack` | sequence numbers, pending, out of order, buffer | send, acknowledge, repeat, hold, deliver | loss, duplication, reordering, wrap, give-up |
| login and commands | `cs2.py`, `authenticate_camera`, `read_command` | candidate, attempts, channel 0 | write, read header, read body | answers carry no request identifier |
| amd64 helper | `amd64_helper.py` | mode, progress, result, signal flag | connect, login, start, read, stop, close | signals at any moment, errors after the start |
| aarch64 helper | `hybris_connect.c` | the same, on the vendor's library | the same | the same |
| wake-up | `wakeup.py` | two coroutines with two connections each | directory, node, command, statuses | partial failure, a deadline |
| snapshot test | `p2p.py`, `run_snapshot_probe` | helper, ffmpeg, the pipe between them | spawn, feed, communicate, reap, kill | three processes that end in any order |
| app startup | `app_entrypoint.py` | STATUS, BRIDGE, the attempts | load, account, tests, publish, stop | retries with flags that are never cleared; signals |
| packet codec | `cs2.py`, `_key_hash`, `encrypt_packet`, `decrypt_packet` | none between packets | hash, combine each byte with the one before, choose forms, test | two loops that must stay in step; keys that make packets look clear |
| camera entity | `custom_components/okam/camera.py` | published state, watcher task, last image | still image, watcher, stream source, removal | a status is read before an await and used after it |
| integration | `custom_components/okam/`, `config_flow.py`, `__init__.py`, `api.py`, `coordinator.py` | the entry's data, its state, what a setup has read of it, the connection that is kept | form, setup, poll, reload | forms, setups and restarts of either side interleave at every request |

Not modelled, with the reason:

* the parsers of addresses, identifiers, service parameters, CGI results, H.264
  frames and JPEG headers, and the requests of `account.py` and `p2p.py` to the
  vendor's services: functions on bytes without state; their results, or their
  failure (`AppStartup!Fails`), are inputs here;
* of `bridge.py`: the formula of `/ready` over the flags of `STATUS`, the texts of
  the answers, and `POST .../stream/start` and `stop`, which change nothing;
* of the integration: the form for a new token (`async_step_reauth`), which only a
  `ConfigEntryAuthFailed` opens and nothing raises; the options of an entry, which
  nothing writes; the address of the bridge, of which there is one, and with it the
  unique id, which a reconfiguration leaves as it was; the snapshot interval;
  `entity.py`, `placeholders.py`, `const.py`, which are declarations;
* `redaction.py` and `acceptance.py` (functions on text and on a report);
* `tools/`, the native probes and the loader stubs (programs of the developers);
* image build and CI.

How the parts call each other:

    Home Assistant --HTTP--> BridgeStreams --acquire/close--> StreamSession
      CameraEntity             (ffmpeg, feeds)                  | starter, SIGTERM, SIGKILL
      ConfigEntry --HTTP--> BridgeApi                           v
    AppStartup --tests--> SnapshotProbe --SIGTERM--> HelperProcess / HybrisHelper
        |                                              | connect, login, write, read
        +--wake--> WakeCamera                          v
                                        RelayConnect, CameraLogin, DrwSender, DrwReceiver
                                                       |
                                                       v
                                                   WireCodec

What makes each part correct:

* session: one helper at a time and none after `close()`; no helper without
  somebody who will stop it; no viewer that waits without being told;
* queue and cache: a viewer's stream has gaps at most, and its units are whole;
* requests: whatever ends first, the others end too, and nothing is left over;
* CS2: ordered, complete, without repetition; what was acknowledged was kept;
  who holds the session is told of its end;
* login: a verdict is the camera's and belongs to the credential it is reported
  of;
* helpers: one contract for both, a status that means what the parent reads from
  it, a camera that is let go;
* startup: "ready" is earned by tests, nothing survives an attempt or the process;
* entity: what is shown is followed by what comes next;
* codec: a packet is read as what it was, whatever form it was sent in;
* integration: a loaded entry and the bridge agree, and an accepted entry loads.

## 2. Modules

| module | models | composed with |
|---|---|---|
| `StreamSession` | `NativeStreamSession`, every operation; a lock section is one step except the starter | refines `SharedHelper` |
| `SharedHelper` | what the session promises about its helper | |
| `BridgeStreams` | the handlers that use the session, the PATCH, `NativeStreamSession.snapshot` | EXTENDS `StreamSession` |
| `BridgeApi` | the answers of the bridge to a client that keeps its connection | |
| `ConfigEntry` | the forms, the setup, the client and the coordinator of the integration | EXTENDS `BridgeApi` |
| `SubscriptionQueue` | one viewer's queue, each queue operation a step | |
| `AnnexBScan` | the preamble cache, byte by byte where bytes matter | |
| `DrwReceiver` | receiving half of a channel | refines `OrderedStream` |
| `DrwSender` | sending half of a channel | |
| `WireCodec` | the envelope of a packet, byte by byte | |
| `OrderedStream` | what the channel promises its reader | |
| `CameraLogin` | the choice of the passwords, `authenticate_camera` and `read_command` | |
| `RelayConnect` | `connect`, the readiness answers of `_pump` afterwards, and `close` | |
| `HelperProcess` | `amd64_helper.py` | |
| `HybrisHelper` | `hybris_connect.c` | |
| `HelperTransports` | the helper of the architecture that runs | EXTENDS `HelperProcess`, INSTANCE `HybrisHelper`; refines `HelperContract` |
| `HelperContract` | what both helpers promise | |
| `WakeCamera` | `wake_camera` and its coroutines | |
| `SnapshotProbe` | `run_snapshot_probe` | |
| `AppStartup` | `main()` of the app, and the starter it gives to the session | |
| `AppAcceptance` | the app with its wake-ups, those of its starter too, and its snapshot test in full | EXTENDS `AppStartup`, `WakeCamera`, INSTANCE `SnapshotProbe` |
| `CameraEntity` | the Home Assistant entity | |
| `BridgeStreamsProofs` | theorems about `StreamSession` and `BridgeStreams` | |
| `DrwChannelProofs` | theorems about both halves of a channel and its envelope | |
| `ViewerProofs` | theorems about `SubscriptionQueue` and `AnnexBScan`: all that one viewer gets | |
| `IntegrationProofs` | theorems about `ConfigEntry` and `CameraEntity` | |
| `CameraLoginProofs`, `RelayConnectProofs`, `HelperTransportsProofs`, `AppAcceptanceProofs` | theorems about the module of that name | |
| `MCBridgeStreams`, `MCAnnexBScan` | constants for TLC | |
| `MCDrwChannel` | constants for TLC, and a choice of one of `DrwReceiver`, `DrwSender` and `WireCodec` for a behaviour: three instances in one run, not a composition | EXTENDS the three |

State and actions follow the code: a variable is a field or the place of a
thread, and its comment names it; an action is a handler, or the part of one
between two points at which another thread can be seen. What is not named:

* **threads.** A `viewer` of `StreamSession` is a request thread, `pump[h]` and
  `drained[h]` the two threads of helper `h`, `stopper[t]` a `threading.Timer` or
  the main thread in `close()`. A viewer starts at most one helper and arms at
  most one timer, so both are named by it and need no bound.
* **blocking calls.** The starter is two steps (`AcquireStart`, then
  `StartReturns` or `StartFails`) with the lock held between them. `_terminate`
  is two steps outside the lock. Timeouts that the code waits for are free to
  pass whenever the code's guard allows, which is more than the real clock does.
  The one exception is the `wait(timeout=5)` after a SIGKILL, of `_terminate`,
  `_muxed_stream` and `run_snapshot_probe`: it is taken to succeed.
* **END that is given up.** At the end of a helper `_pump` takes every viewer out of
  the table and then puts END into its queue. On a queue that is full again, or empty,
  after the eviction it gives END up: such a viewer is `"stranded"`, and only its own
  client, or its ffmpeg, ends it. `PumpSignalEnd` may strand any of them;
  `SubscriptionQueue` shows when that happens.
* **the outside.** The camera, the relays, the directory, ffmpeg, the vendor
  library and the bridge seen by Home Assistant are modelled from what the code
  relies on, and marked external in the map. The camera of `DrwReceiver` repeats
  a packet until it is acknowledged and keeps to a window; that of `CameraLogin`
  answers logins in order; that of `HelperProcess` is idle, bound or streaming.
  The camera's side of `WireCodec` is taken to be the code's, as only the code is
  there to read. `BridgeApi` takes from `http.server` that a body nobody has read
  begins the next request line, which is answered 400, and that the connection is
  closed then; `ConfigEntry` takes from Home Assistant that an exception of a setup
  is an error nobody retries and `ConfigEntryNotReady` is not, and that the reloads
  of an entry wait for one another. A request of which the client got no answer is
  served before it gives up, or never.
* **requests of the integration** are one step each: the bridge answers from the
  fields of `BridgeApi`, which no other request holds on to.
* **history variables.** `yielded`, `produced`, `lost` (`SubscriptionQueue`),
  `returned` and `got` (`DrwSender`), `bound`, `touched`, `closeSent`
  (`RelayConnect`), `camera`, `lost` (`HelperProcess`), `wokenBy`, `watching`
  (`CameraEntity`), `commanded` (`WakeCamera`), `received` and `cut` (`AnnexBScan`), `accepted`,
  `configured` and `excused` (`ConfigEntry`), `drifted` (`RelayConnect`), `stopTried`
  (`HelperProcess`) record what the code does not keep, for the properties.

Definitions named `Wrong...` are variants of the definition that follows, each
with one plausible mistake. They are not part of any specification; each shows
that some property notices the mistake.

## 3. What is checked

| run | instance | question and answer |
|---|---|---|
| `session` | 2 viewers, shutdown, helpers that exit clean, silent or by SIGKILL; 658 000 states | Helper, table, timers and pumps fit together (`Consistent`), no running helper is forgotten (`NoOrphan`), no waiting viewer dropped unless its pump is about to put END or has given it up (`NoSilentDrop`), the session implements `SharedHelper` (`SharedSpec`), a helper nobody watches stops (`IdleHelperStops`). |
| `bridge` | two raw streams, or a muxed stream or a snapshot beside a `PATCH`; 323 000 states | A request that is over has left neither subscription nor child behind (`NothingLeftOver`); the end of the helper, or of the client, reaches every thread of a request, unless the request was stranded (`RequestsEnd`). |
| `channel` | inward: 9 packets numbered modulo 8, window 4, lag 4, 3 slots; outward: 2 writes of up to 2 chunks, 2 transmissions each; envelope: 3-bit bytes, keys of up to 2, packets of up to 5; 476 000 states | The reader gets the packets in order, complete and once (`StreamSpec`, `AllArrive`); an acknowledged packet is kept (`AckedIsKept`); a write that returned is with the camera (`WrittenIsReceived`); a chunk is tracked until an error (`NothingForgotten`); a packet is read as what it was (`PacketIsRead`). |
| `login` | 2 or 3 candidates, 2 unasked commands, a camera that is prompt or as late as it likes, a session that may end; 47 000 states | The reader stays at command boundaries (`InSync`); the verdict over all candidates is the camera's (`VerdictIsTrue`); each outcome is, if the camera is prompt (`OutcomesAreTrue`). |
| `rendezvous` | 2 relays, a camera that NAT shows at 2 ports, with and without `prefer_relay`; 306 000 states | A preferred relay is the peer and the one the handshake went through (`PeerIsTheRelay`); whoever took the session for ready in `connect` is told of its end at its port, and who did so at another port afterwards at its host (`BoundIsReleased`); no order of answers is a dead end (`Connects`). |
| `helpers` | both helpers, all modes | A helper that ends by itself on amd64 has tried to stop each stream it started and let the camera go, unless a datagram was lost (`Amd64LeavesQuiet`); 0 means what the mode asks for (`ZeroIsEarned`); both keep `HelperContract` (`OneContract`); a helper told to stop ends (`ToldToStopEnds`). |
| `app` | 3 attempts, 2 wake ports, pipe of 2 frames; 1.1 million states | "Ready" is earned by one attempt (`CameraReadyIsEarned`); a wake-up reported as requested was sent (`RequestedWasSent`); no connection or child survives an attempt (`AttemptLeavesNothing`); a snapshot test that passed had a clean helper (`PassedMeansClean`); a signal ends the app, whatever its starters are doing (`StopExits`). |
| `entity` | 2 still image requests that repeat, the watcher, a live view; 215 000 states | A waking image is watched (`WakingIsWatched`) and video is published (`StreamingIsPublished`). |
| `preamble` | every stream of 5 units of 5 kinds, reads of up to 4 bytes, a scan of 8 and a preamble of 13; 1.2 million states | The cache is what one scan of the whole stream finds, and still a whole unit of the camera once the limit has cut into the scan (`ScanIsExact`); a viewer's units are the camera's except at the seam (`BrokenOnlyAtSeam`). |
| `queue` | 3 slots, 6 chunks | Whoever waits on a closed queue finds something in it or is about to be given it (`ClosedIsWoken`); the iterator ends after `close()` even if END was given up (`CloseEndsIteration`), and after the end of the helper unless the pump gave END up (`HelperEndEndsIteration`). |
| `integration` | 2 tokens, 2 cameras, idle timeouts below, at and above the app's own, restarts of both sides; 112 000 states | A loaded entry has its timeout in the bridge (`TimeoutIsTheEntrys`); an entry that was accepted loads, again and again, or is in an error it had no part in (`AcceptedLoads`). |
| `subscription_leak` | one raw stream | **Violated.** See finding 1. |

### Why the bounds are enough

* *Viewers.* Two are what it takes for one to start a helper while the pump of
  the other's cleans up, or to attach while a timer decides. The theorems of
  section 5 hold for any set, that of two pumps of old helpers beside a running one
  included.
* *Numbers.* Modulus 8 with `Half` 4 keeps the proportions of 2^16 and 0x8000;
  9 packets go through the wrap, and a late datagram may come from as far behind
  as the distance test can tell (`Lag <= Half`). Three slots with a window of
  four are the same tight fit as more slots with a larger window: the first
  packet of a window is never held.
* *Attempts, retries.* Three attempts are the code's. Two transmissions have a
  first, a repeated and a last one; the give-up is reached.
* *Requests.* Two raw streams share a helper, its timer and its end; a child and its
  feed are one request's own, so one muxed stream or one snapshot has all their
  orders. Of requests of different kinds together, and of any number, the theorems
  of section 5 say what is safe; a shutdown is checked in `session`. Of the idle
  timeouts a `PATCH` asks for one is too short to be accepted and one is not.
* *Reads of up to four bytes* cut the three-byte start code at every place; five
  units have a parameter set, a newer one and a keyframe in every order. With reads
  of up to three bytes the scan never reaches its limit of eight, with four it does;
  a preamble of two parameter sets and a keyframe fits in its limit or misses it by
  one, as a unit ends in a zero or not.
* *Bytes of three bits* have a table that takes one byte to 0, so that keys of both
  sorts occur, and a packet with one byte of body behind the four that decide its
  form. The theorem has no such bound.
* *Two tokens and two cameras* are a right and a wrong one, before and after a
  restart of the app with other options.
* *The queue's 3 slots and 6 chunks* fill it twice over; the code's 32 differ by
  the number of chunks in front.
* *NAT, relays.* A second relay is what it takes to answer out of turn; of the
  seven ports that are punched, one that is right and one that is near.
* *Free clocks.* Timeouts pass at any time in the models, so no result rests on
  the lengths 2, 5, 10 or 45 s. Where an answer in time matters it is a variable
  (`prompt`), and where the parent's patience matters it is a constant (`Stalls`).

Deadlock is not checked in the runs that end (`CHECK_DEADLOCK FALSE`): every
request, session, helper, queue and startup comes to an end or stays idle for
ever. That nothing is stuck before is what the liveness properties say.

### Fairness

Fairness is asked only of what the code or its timeouts move: lock sections,
started threads, bounded waits, starters (each wait in them has a timeout), the
death of a process that got SIGKILL, the steps of an event loop. Nobody has to
arrive, leave, answer, send or close:

* `StreamSession`: weak fairness for every thread. A lock section is disabled
  while a starter runs; each viewer starts once, so it is disabled only finitely
  often and weak fairness is enough.
* `BridgeStreams`: the same, and for handlers, feeds, and an ffmpeg whose input
  has been closed. ffmpeg with open input, clients and helpers may stay for ever.
* `DrwReceiver`, `RelayConnect`: strong fairness for the delivery of what is
  repeated: a network that loses everything delivers nothing, one that does not
  lets a repeated datagram through. It is not asked for any single datagram.
* `SubscriptionQueue`, `CameraEntity`, `HelperTransports`: weak fairness for the
  threads, tasks and helpers, whose waits are bounded by timeouts.
* `AppAcceptance`: weak fairness for `main()`, for the clock of a wake-up and for a
  starter; strong fairness for `close()`, which competes with starters for a lock
  that is released between them. The children of a test and the node of the wake
  service owe nothing.
* `ConfigEntry`: weak fairness for Home Assistant's reloads and retries, and for the
  first request of a setup to be answered or to time out; strong fairness for the
  answer to the first refresh, which is tried again: not every one is lost. Nothing
  is asked of the user: an entry in error stays there, and `AcceptedLoads` says which
  errors those are (a body that another request left, or an answer that was lost).
  Nobody has to fill in a form, and an idle connection need not expire.

## 4. Where code and text differ

1. **A subscription is leaked** (`subscription_leak`,
   `NeverLeaksSubscription`, `bridge.py:330`). Both stream handlers write the
   response head after `acquire()` and outside the `try`; a client that reset its
   connection while the camera woke raises there, and nobody closes the
   subscription: the camera streams until the helper ends by itself.
   `tests/test_bridge.py:106` says the muxed endpoint "never leaks the
   subscription".

The following are further configurations, each of which TLC refutes when run by
hand. They are stated and kept so that a change of the code can be checked
against them. TLC stops at the first property it refutes: in a configuration with
several, remove that one to see the next.

| configuration (module) | property | the code | the text |
|---|---|---|---|
| `StreamSessionDocs` (`StreamSession`) | `IdleStopSparesViewers` | decides under the lock, terminates outside it (`session.py:330-335`): a viewer that attaches in between loses its stream | `README.md:155-156` |
| `StreamSessionDocs` (`StreamSession`) | `OnlyLatestTimerStops` | a fired timer that waited for the lock stops a helper used since (`session.py:331`) | `README.md:155-157` |
| `StreamSessionDocs` (`StreamSession`) | `CacheFromCurrentHelper` | a late chunk of an ended helper enters the cache after its reset (`session.py:273`) | `session.py:245` |
| `BridgeStreamsStranded` (`MCBridgeStreams`) | `StopsAfterLast` | the pump gives the END of its helper up (`session.py:300`): a request whose client is gone then waits in `get()` for ever, and if the pump had taken it from the table of the next helper, that helper runs on without a timer | `README.md:22` |
| `BridgeStreamsPatch` (`MCBridgeStreams`) | `TimeoutAppliesAtOnce` | a running timer keeps its interval (`bridge.py:209`) | `README.md:164`, "applied immediately" |
| `DrwChannelDocs` (`MCDrwChannel`) | `AckedIsKept` | acknowledges before it looks for room (`cs2.py:647`, `656`); needs a camera window beyond 64 packets | `cs2.py:259` |
| `DrwChannelDocs` (`MCDrwChannel`) | `WrittenIsDelivered` | a number is taken before `sendto`, or given up, and never sent again: what follows waits for it (`cs2.py:528`, `671`) | `cs2.py:259` |
| `SubscriptionQueueDrop` (`SubscriptionQueue`) | `DropsOnlyOlder` | the newest chunk is dropped when END took the freed slot (`session.py:282`) | `docs/architecture.md:42` |
| `CameraLoginDocs` (`CameraLogin`) | `AcceptedIsRight` | a late answer counts for the next candidate (`cs2.py:864`) | `cs2.py:736-738` |
| `CameraLoginDocs` (`CameraLogin`) | `IndexNamesTheCredential` | equal candidates are tried once, so the index of the second may mean the third credential (`cs2.py:794`) | `cs2.py:788-789` |
| `DrwChannelDocs` (`MCDrwChannel`) | `EveryKeyWorks` | with one key in 256 every encrypted packet starts like a clear one and is dropped (`cs2.py:688`) | `cs2.py:259` |
| `HelperProcessDocs` (`HelperProcess`) | `TermDisconnects` | SIGTERM before the handlers are installed (`amd64_helper.py:162`) | `README.md:22` |
| `HelperProcessDocs` (`HelperProcess`) | `CaughtTermDisconnects` | SIGTERM during a read of up to 45 s, then SIGKILL after 10 s (`amd64_helper.py:165`) | `docs/architecture.md:39-40` |
| `HelperProcessDocs` (`HelperProcess`) | `StatusIsKnown` | exit status 120 after a broken pipe (`amd64_helper.py:180`) | `p2p.py:417-418` |
| `RelayConnectDrift` (`RelayConnect`) | `BindingIsClosed` | a port of the peer that `_pump` told to be ready after `connect()` gets no close (`cs2.py:607`, `562`) | `cs2.py:559-561` |
| `AnnexBScanBoundary` (`MCAnnexBScan`) | `ViewerUnitsAreReal` | a viewer attached in mid-unit gets one unit spliced from two (`session.py:99`) | `session.py:97-98` |
| `WakeCameraUnsent` (`WakeCamera`) | `FailedMeansUnsent` | a coroutine that raises after the command is dropped from the result (`wakeup.py:147`) | `wakeup.py:154-156` |
| `CameraEntityStill` (`CameraEntity`) | `StillNeverWakes` | the status is old when the image is fetched (`camera.py:95`) | `README.md:149-150` |
| `ConfigEntryDocs` (`ConfigEntry`) | `TimeoutIsKept` | the app reads its own options when it starts, and nobody sends the entry's timeout again (`app_entrypoint.py:391`) | `README.md:155` |
| `ConfigEntryDocs` (`ConfigEntry`) | `RefusedForCause` | a refused PATCH leaves its body on the connection, and the next request gets 400 (`bridge.py:199`, `231-236`) | `bridge.py:126`, HTTP/1.1 |

## 5. What is proved

For every value of the constants that the modules' assumptions allow. Each safety
property and each action property that a run checks is stated by a theorem, and so is
each refinement.
Every proof has one shape: an inductive invariant, the step from it to the
properties, and one case per action. TLC has checked each invariant on the instance
of the run before it was proved. Hardly a property here is inductive by itself; what
its invariant adds is named below.

**The session and the bridge** (`BridgeStreamsProofs`). For every set of viewers,
every way a helper may end, with or without shutdown, of `StreamSession!Spec`:

* `TypeCorrect`: `TypeOK`, by induction, one step per action;
* `StaysConsistent`: `Consistent`. `OneHelper`, `ClosedMeansStopped` and
  `SubscribedIsServed` are what one wants of the session, and none is inductive:
  that a new helper is the only one needs that no helper runs while the lock is
  held by a starter; that `close()` leaves none needs to know whose victim the
  helper is; that a subscriber has a pump needs that the pump of the current
  process has not yet cleaned up. `Consistent` conjoins these, and is inductive
  relative to `TypeOK`;
* `SessionSafe`: the three above, which follow from it in one step;
* `NobodyDropped` (`NoSilentDrop`) and `NobodyOrphaned` (`NoOrphan`): inductive
  relative to `Consistent`;
* `KeepsSharedHelper`: every step maps to a step of `SharedHelper` or a stutter,
  with "the current helper" as the process the session knows, while it runs.

For any set of requests of any kinds, of `BridgeStreams!BridgeSpec`:

* `BridgeRunsSession`: every behaviour of the bridge is one of `StreamSession`, so
  that the theorems above hold there too (`BridgeSessionSafe` has the two that
  matter most to a client);
* `BridgeTypeCorrect` (`BridgeTypeOK`);
* `NothingStays` (`NothingLeftOver`). The invariant `InStep` ties the place of a
  handler to what session and child know of it: a handler that is over has released,
  and its child is up at most between spawn and reap. That whoever has released is
  not in the table comes from `Consistent`.

**The queue of a viewer** (`ViewerProofs`). For any size of the queue and
any number of chunks, of `SubscriptionQueue!Spec`:

* `CloseAlwaysWakes` (`ClosedIsWoken`). An iterator in `get()` does not look at
  `_closed`, so somebody has to put. Both putters evict, both may find the slot
  they have freed taken, and both then may give up. `WokenInv` adds that the flag is
  set by the first step of `close()`, so that a closed subscription with an iterator
  in `get()` and an empty queue always has a putter that is about to put.

**The preamble of a viewer** (`ViewerProofs`). For any units of the camera (start codes
in the middle of a unit and units that end in zeros included), any number of them, any
size of the reads and any limits of scan and preamble, of `AnnexBScan!ScanSpec`:

* `CacheIsExact` (`ScanIsExact`). The scan sees the end of the stream only, the
  property speaks of all of it. `ScanInv` says what ties the two: what is left over is
  the end of what was read, holds no complete unit, and, as long as nothing was cut off,
  begins with a start code or with the stream. So a unit that becomes complete with a
  chunk begins in what is scanned or was complete before, and the newest one of a kind
  in the scan is the newest of the stream (`ScanFindsNewest`); if the scan has none, that
  of the cache still is. Once something was cut off, every unit cut out is still the
  bytes of one in the stream;
* `PreambleBreaksOnlyAtSeam` (`BrokenOnlyAtSeam`). `ViewerGotThese` keeps for a viewer's
  bytes where the seam is, and that behind it they are the stream's. That a preamble has
  no units but its parameter sets is `UnitsOfConcat`: no start code lies across the end
  of one recorded unit and the beginning of the next, whatever bytes the first ends in,
  as no end of a start code begins one.

Their lemmas say how start codes, spans and units move between sequences that have a
part in common (`AgreeingUnits`, `EndUnits`, `GrownSpans`), what an append does to such
parts (`AgreeGrows`), and that a bounded set has a greatest element, from the
well-foundedness of finite sets (`GreatestExists`).

**The channel** (`DrwChannelProofs`). For any number of writes, chunks and
transmissions and any loss, repetition and reordering, of `DrwSender!SenderSpec`:

* `StaysAccounted`: the inductive invariant `Accounted`. An acknowledgement under
  way is for a chunk the camera has; the chunks of the write under way are with
  the camera or pending;
* `WritesAreReceived` and `NothingIsForgotten`, which follow from it.

For any modulus, lag, window and number of packets, of `DrwReceiver!Spec`, under the
hypothesis `Window <= Limit + 1`:

* `ReceiverKeepsTrack`: `ReceiverInv`. The code knows packets by their numbers modulo
  2^16 only; the invariant says which packet a number stands for. What is in a slot
  is ahead of the reader by less than `Half` and has the slot as its number, what is
  under way is not older than `Lag`, and what the camera thinks has arrived is kept;
* `AcknowledgedIsKept` (`AckedIsKept`). `_handle_data` acknowledges before it looks
  for room, so that this is a matter of counting: the slots that are taken are those
  of different packets of the camera's window other than the one the reader waits
  for, at most `Window - 1`, so that `Limit` of them suffice;
* `ReceiverIsAStream`: every step maps to a step of `OrderedStream` or a stutter.

The hypothesis is about the camera, which is not in the repository: with 64 slots it
must not have more than 65 packets under way. It is tight: `DrwChannelDocs.cfg`, with
2 slots and a window of 4, refutes `AckedIsKept`. The arithmetic modulo `Modulus`
is in lemmas of its own (`RemaindersDiffer`, `RemainderOfDistance`, ...).

For bytes of any size, any table, and any set of keys and packets, of
`WireCodec!CodecSpec`:

* `PacketsAreRead` (`PacketIsRead`). The decoder is right because of what the encoder
  has done many steps before. The invariant says what each loop has computed so far:
  every encoded byte is the clear one combined with the pad of the encoded byte
  before it, every decoded byte is the clear one; and what starts like a clear packet
  is one, or the key is not usable, since the pad of the first byte would be 0 then.

**Login** (`CameraLoginProofs`). For any candidates, any number of unasked commands
and a camera that is prompt or late, of `CameraLogin!Spec`:

* `ChannelStaysInSync` (`InSync`), `OutcomesAreTheCameras` (`OutcomesAreTrue`),
  `VerdictIsTheCameras` (`VerdictIsTrue`). They follow from `LoginInv`, which looks
  at the buffer and what is still being sent as one stream: headers and bodies take
  turns in it, beginning with the part the reader waits for. Answers carry no
  identifier; but as long as no window has ended without one, the only login that is
  open is the one the loop is at, so that what has been reported is the camera's
  answer (`InTime`). That holds of a prompt camera always, and of a late one
  whenever every candidate got an answer, which is all that the verdict needs.

**Rendezvous** (`RelayConnectProofs`). For any set of relays, whatever port NAT shows
the camera at, over any loss and order of answers, of `RelayConnect!Spec`:

* `PeerIsArranged` (`PeerIsTheRelay`) and `BindingsAreReleased` (`BoundIsReleased`), from
  `ConnectInv`: the relay that is named to the directory is the one that gave its
  port, the answers that follow are for that relay only, a preferred relay is the
  only path and its handshake is over when it is taken, whoever has taken the
  session for ready in `connect` is on the list of those that get a close, and so is
  the peer, whose host is that of every port `_pump` has answered since.

**The helpers** (`HelperTransportsProofs`). In every mode, wherever the helper fails
and whenever a signal comes, of `HelperTransports!HelperSpec`:

* `CameraIsLetGo` (`Amd64LeavesQuiet`), `ZeroIsAlwaysEarned` (`ZeroIsEarned`), from an
  invariant for each of the two programs that says what has been achieved, and what is
  held, at each of their places; in the Python one also how far the camera follows;
* `HelpersKeepContract` (`OneContract`): every step of either maps to a step of
  `HelperContract` or a stutter.

**The app** (`AppAcceptanceProofs`). For any number of attempts, wake ports and frames
in the pipe, of `AppAcceptance!AppSpec`:

* `ReadyIsEarned` (`CameraReadyIsEarned`), `AttemptsLeaveNothing`
  (`AttemptLeavesNothing`), `RequestsWereSent` (`RequestedWasSent`), `PassesAreClean`
  (`PassedMeansClean`). `AppInv` has a part for each of the three modules: `Started`
  and `Earning` say what `main()` has set up and earned at each of its places, and
  that a session is open only with a bridge; `Waken` that only a coroutine that has
  sent the command reads from its node, and one that is done has no connection;
  `Probing` which children there may be at each place of the test and what has been
  seen when nothing was raised. What ties them together is that outside a test there
  is no child, so that the parts can be taken one step of `AppNext` at a time.

**The integration** (`IntegrationProofs`). For any tokens, cameras and timeouts, of
`ConfigEntry!EntrySpec`:

* `TimeoutReachesTheBridge` (`TimeoutIsTheEntrys`). The bridge and the entry are
  linked only by what the last setup has read, so the invariant is in two halves:
  a setup that is not about to be repeated has read the entry as it is, and past its
  configure request it agrees with the bridge, until the app restarts.

**The entity** (`IntegrationProofs`). For any set of still image requests, whatever
the bridge does between the awaits of a task, of `CameraEntity!Spec`:

* `EntityTypeCorrect` (`TypeOK`, with at most one snapshot at a time), and
  `WakingImageIsWatched` (`WakingIsWatched`). `EntityInv` conjoins the two with what
  the tasks may get: a watcher never gets an image. What matters in the step is that
  "waking" is published by a still image only together with a watcher for it, that a
  watcher which publishes it goes on, and that a watcher which runs out of time says so
  (`ImageMoves`, `MovesOne`).

The proofs rest on assumptions on the constants that the modules name (`MainAssumption`,
`NoneAssumption`, `ExitsAssumption`, `AppIdleAssumption`, `IdleAssumption`,
`SizeAssumption`, `ConnectAssumption`, `AttemptsAssumption`, `CapacityAssumption`,
`RequestsAssumption`, `ScanAssumption`), which only keep the names apart and the
bounds natural (a queue and a pipe hold at least one item; of the receiver they also
say that the window and the lag are within what the distance test can tell); those of
the codec (`ByteAssumption`, `XorAssumption`, `InputAssumption`) say that the table
maps bytes to bytes, that `Xor` of two bytes undoes itself, and that what is sent
has the length it declares.

Model-checked only is all liveness (`IdleHelperStops`, `RequestsEnd`, `HelperEndEndsIteration`,
`AllArrive`, `Connects`, `ToldToStopEnds`, `StopExits`, `StreamingIsPublished`,
`CloseEndsIteration`, `AcceptedLoads`): the prover does not reach fairness and ENABLED.

## 6. Plan

Done, in this order: `StreamSession` with `SharedHelper` and its proofs,
`BridgeStreams`, the channel, login, rendezvous, the helpers, startup with wake-up
and snapshot test, entity, cache and queue; then the envelope of the packets with
its proof, the integration over the bridge's API with its proof, the kinds of
requests in `BridgeStreams`, the passwords of a login, and the limits of the cache.

Next, in the order of what matters most:

1. *The session of a helper*: `RelayConnect`, `CameraLogin`, `DrwSender` and
   `DrwReceiver` composed under one deadline, so that `HelperProcess` commands become theirs.
2. *The bridge seen by the entity*: `CameraEntity` over `BridgeStreams` instead of
   an external bridge, with the reload of the entry from `ConfigEntry`.
3. *Several subscriptions and the pump* in `SubscriptionQueue`, tied to
   `StreamSession` by a refinement.
4. *Proofs*: of the compositions of 1, 2 and 3 the refinements, as
   `BridgeRunsSession` does it; the modules' theorems are the safety half of what
   the compositions need.
