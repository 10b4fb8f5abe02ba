---------------------------- MODULE StreamSession ----------------------------
(***************************************************************************)
(* NativeStreamSession (src/okam_native/session.py): one native helper     *)
(* process shared by a counted set of viewers.  The threads are            *)
(*   - a viewer per HTTP request: acquire, consume, close/release;         *)
(*   - a pump and a stderr drain per helper the session has started;       *)
(*   - a threading.Timer per release that left no viewer behind;           *)
(*   - the main thread, which closes the session at shutdown.              *)
(* They share the session's fields under one lock.  A section under the    *)
(* lock is one step, except _start_locked: the starter wakes the camera    *)
(* and spawns the helper, which takes tens of seconds, with the lock held, *)
(* and everything that needs no lock goes on meanwhile.                    *)
(*                                                                         *)
(* A viewer subscribes once, starts at most one helper and arms at most    *)
(* one timer, so helpers and timers are named by the viewer they are due   *)
(* to and no bound on them is needed.                                      *)
(***************************************************************************)
EXTENDS Naturals

CONSTANTS
    Viewers,    \* the stream and snapshot requests that call acquire()
    Main,       \* the main thread, as a caller of _terminate
    None,       \* Python's None
    Exits,      \* how a helper may end: with its summary and return code 0
                \* ("clean"), its summary and another one ("error"), or no
                \* summary ("silent")
    Shutdown    \* whether the main thread may close the session

ASSUME MainAssumption == Main \notin Viewers
ASSUME NoneAssumption == None \notin Viewers \cup {Main}
ASSUME ExitsAssumption == Exits \subseteq {"clean", "error", "silent"}
ASSUME ShutdownAssumption == Shutdown \in BOOLEAN

VARIABLES
    lock,         \* the viewer inside _start_locked, or None: _lock
    closed,       \* _closed
    process,      \* _process: a helper, or None
    subscribers,  \* _subscribers
    idleTimer,    \* _idle_timer: a timer, or None
    media,        \* the helpers whose bytes are in _media_ready, _scan, _sps,
                  \* _pps and _keyframe since they were last reset
    lastLine,     \* the helper whose summary is the last one in _stderr
    report,       \* the helper whose summary set _clean_disconnect
    failed,       \* the helper whose return code set _last_error
    viewer,       \* where each request is
    helper,       \* what each helper process does, or how it has exited
    drained,      \* the stderr thread of the helper has ended
    pump,         \* where the pump of the helper is
    targets,      \* the queues the pump took from _subscribers to end
    stopper,      \* where each idle timer, and the main thread in close(), is
    victim        \* the process a stopper has passed to _terminate

session == <<process, subscribers, idleTimer>>
cache   == <<media, lastLine, report, failed>>
pumps   == <<drained, pump, targets>>
stops   == <<stopper, victim>>
vars    == <<lock, closed, session, cache, viewer, helper, pumps, stops>>

Stoppers == Viewers \cup {Main}

\* process.poll() is None.
Running(h) == helper[h] = "running"

\* The session has a helper and it runs.
Live == process # None /\ Running(process)

\* A timer that _idle_timer names and that has not passed its is_set() test
\* never runs; one that has is not stopped by cancel().
Cancelled ==
    IF idleTimer # None /\ stopper[idleTimer] = "armed"
      THEN [stopper EXCEPT ![idleTimer] = "idle"]
      ELSE stopper

TypeOK ==
    /\ lock \in Viewers \cup {None}
    /\ closed \in BOOLEAN
    /\ process \in Viewers \cup {None}
    /\ subscribers \subseteq Viewers
    /\ idleTimer \in Viewers \cup {None}
    /\ media \subseteq Viewers
    /\ lastLine \in Viewers \cup {None}
    /\ report \in Viewers \cup {None}
    /\ failed \in Viewers \cup {None}
    /\ viewer \in [Viewers -> {"new", "starting", "open", "ended", "stranded", "closing",
                               "done"}]
    /\ helper \in [Viewers -> {"none", "running", "clean", "error", "silent"}]
    /\ drained \in [Viewers -> BOOLEAN]
    /\ pump \in [Viewers -> {"off", "read", "joined", "end"}]
    /\ targets \in [Viewers -> SUBSET Viewers]
    /\ stopper \in [Stoppers -> {"idle", "armed", "fired", "signal", "wait"}]
    /\ victim \in [Stoppers -> Viewers \cup {None}]

Init ==
    /\ lock = None
    /\ closed = FALSE
    /\ process = None
    /\ subscribers = {}
    /\ idleTimer = None
    /\ media = {}
    /\ lastLine = None
    /\ report = None
    /\ failed = None
    /\ viewer = [v \in Viewers |-> "new"]
    /\ helper = [h \in Viewers |-> "none"]
    /\ drained = [h \in Viewers |-> FALSE]
    /\ pump = [h \in Viewers |-> "off"]
    /\ targets = [h \in Viewers |-> {}]
    /\ stopper = [s \in Stoppers |-> "idle"]
    /\ victim = [s \in Stoppers |-> None]

-----------------------------------------------------------------------------
(* acquire() *)

\* The session is closed: P2PError.
AcquireRefused(v) ==
    /\ lock = None
    /\ viewer[v] = "new"
    /\ closed
    /\ viewer' = [viewer EXCEPT ![v] = "done"]
    /\ UNCHANGED <<lock, closed, session, cache, helper, pumps, stops>>

\* The forms named Wrong... are variants with a plausible bug, used to show that
\* the properties below do fail on one.

\* The helper runs: cancel the idle timer and subscribe.
AcquireAttach(v) ==
    /\ lock = None
    /\ viewer[v] = "new"
    /\ ~closed
    /\ Live
    /\ stopper' = Cancelled
    /\ idleTimer' = None
    /\ subscribers' = subscribers \cup {v}
    /\ viewer' = [viewer EXCEPT ![v] = "open"]
    /\ UNCHANGED <<lock, closed, process, cache, helper, pumps, victim>>

\* A variant that tests _closed before it takes the lock, so too early.
WrongAcquireStart(v) ==
    /\ lock = None
    /\ viewer[v] = "new"
    /\ ~Live
    /\ lock' = v
    /\ stopper' = Cancelled
    /\ idleTimer' = None
    /\ media' = {}
    /\ lastLine' = None
    /\ report' = None
    /\ failed' = None
    /\ viewer' = [viewer EXCEPT ![v] = "starting"]
    /\ UNCHANGED <<closed, process, subscribers, helper, pumps, victim>>

\* No helper runs: reset what the last one left and call the starter.  The
\* old _process stays until the starter returns.
AcquireStart(v) ==
    /\ lock = None
    /\ viewer[v] = "new"
    /\ ~closed
    /\ ~Live
    /\ lock' = v
    /\ stopper' = Cancelled
    /\ idleTimer' = None
    /\ media' = {}
    /\ lastLine' = None
    /\ report' = None
    /\ failed' = None
    /\ viewer' = [viewer EXCEPT ![v] = "starting"]
    /\ UNCHANGED <<closed, process, subscribers, helper, pumps, victim>>

\* The starter returns a running helper: its threads start, and the viewer is
\* subscribed before the lock is given up.
StartReturns(v) ==
    /\ lock = v
    /\ viewer[v] = "starting"
    /\ lock' = None
    /\ process' = v
    /\ helper' = [helper EXCEPT ![v] = "running"]
    /\ pump' = [pump EXCEPT ![v] = "read"]
    /\ subscribers' = subscribers \cup {v}
    /\ viewer' = [viewer EXCEPT ![v] = "open"]
    /\ UNCHANGED <<closed, idleTimer, cache, drained, targets, stops>>

\* The starter raises: the camera did not wake, or nothing could be spawned.
StartFails(v) ==
    /\ lock = v
    /\ viewer[v] = "starting"
    /\ lock' = None
    /\ viewer' = [viewer EXCEPT ![v] = "done"]
    /\ UNCHANGED <<closed, session, cache, helper, pumps, stops>>

-----------------------------------------------------------------------------
(* close() and release() of a subscription *)

\* The consumer stops, because the client left or because it read END: it marks
\* the subscription closed and ends its own queue.  A stranded one waits in get(),
\* and another thread has to close it, as snapshot() does when its decoder is late.
BeginClose(v) ==
    /\ viewer[v] \in {"open", "ended", "stranded"}
    /\ viewer' = [viewer EXCEPT ![v] = "closing"]
    /\ UNCHANGED <<lock, closed, session, cache, helper, pumps, stops>>

\* A variant that looks for other viewers before it takes itself out.
WrongRelease(v) ==
    /\ lock = None
    /\ viewer[v] = "closing"
    /\ viewer' = [viewer EXCEPT ![v] = "done"]
    /\ subscribers' = subscribers \ {v}
    /\ IF subscribers = {} /\ process # None /\ ~closed
         THEN /\ stopper' = [Cancelled EXCEPT ![v] = "armed"]
              /\ idleTimer' = v
         ELSE UNCHANGED <<stopper, idleTimer>>
    /\ UNCHANGED <<lock, closed, process, cache, helper, pumps, victim>>

\* release(): the last one out arms the idle timer.
Release(v) ==
    /\ lock = None
    /\ viewer[v] = "closing"
    /\ viewer' = [viewer EXCEPT ![v] = "done"]
    /\ subscribers' = subscribers \ {v}
    /\ IF subscribers' = {} /\ process # None /\ ~closed
         THEN /\ stopper' = [Cancelled EXCEPT ![v] = "armed"]
              /\ idleTimer' = v
         ELSE UNCHANGED <<stopper, idleTimer>>
    /\ UNCHANGED <<lock, closed, process, cache, helper, pumps, victim>>

-----------------------------------------------------------------------------
(* The helper process *)

\* The helper ends, on its own or after SIGTERM.
HelperExit(h) ==
    /\ Running(h)
    /\ \E kind \in Exits : helper' = [helper EXCEPT ![h] = kind]
    /\ UNCHANGED <<lock, closed, session, cache, viewer, pumps, stops>>

-----------------------------------------------------------------------------
(* _pump() and _drain_stderr() *)

\* A variant that credits the chunk to whatever process the session has.
WrongPumpNote(h) ==
    /\ lock = None
    /\ pump[h] = "read"
    /\ media' = media \cup {process}
    /\ UNCHANGED <<lock, closed, session, lastLine, report, failed, viewer, helper,
                   pumps, stops>>

\* The pump has read a chunk, while the helper runs or from what it left in the
\* pipe.  Under the lock: media is ready, and the chunk goes into the cache.
PumpNote(h) ==
    /\ lock = None
    /\ pump[h] = "read"
    /\ media' = media \cup {h}
    /\ UNCHANGED <<lock, closed, session, lastLine, report, failed, viewer, helper,
                   pumps, stops>>

\* End of file, process.wait(), and stderr_thread.join(timeout=2): the join times
\* out when a starter keeps the lock that the stderr thread needs.
PumpJoin(h) ==
    /\ pump[h] = "read"
    /\ ~Running(h)
    /\ drained[h] \/ lock # None
    /\ pump' = [pump EXCEPT ![h] = "joined"]
    /\ UNCHANGED <<lock, closed, session, cache, viewer, helper, drained, targets, stops>>

\* A variant that forgets whatever process is there.
WrongForget(h) ==
    /\ lock = None
    /\ pump[h] = "joined"
    /\ targets' = [targets EXCEPT ![h] = subscribers]
    /\ subscribers' = {}
    /\ process' = None
    /\ report' = IF lastLine # None THEN lastLine ELSE report
    /\ failed' = IF helper[h] # "clean" THEN h ELSE failed
    /\ pump' = [pump EXCEPT ![h] = "end"]
    /\ UNCHANGED <<lock, closed, idleTimer, media, lastLine, viewer, helper,
                   drained, stops>>

\* A variant that clears the subscribers before it takes them.
WrongTakeEmpty(h) ==
    /\ lock = None
    /\ pump[h] = "joined"
    /\ targets' = [targets EXCEPT ![h] = {}]
    /\ subscribers' = {}
    /\ process' = IF process = h THEN None ELSE process
    /\ report' = IF lastLine # None THEN lastLine ELSE report
    /\ failed' = IF helper[h] # "clean" THEN h ELSE failed
    /\ pump' = [pump EXCEPT ![h] = "end"]
    /\ UNCHANGED <<lock, closed, idleTimer, media, lastLine, viewer, helper,
                   drained, stops>>

\* Under the lock: take and clear every subscriber, forget the process if it is
\* still this one, and report the last summary in _stderr.
PumpCleanup(h) ==
    /\ lock = None
    /\ pump[h] = "joined"
    /\ targets' = [targets EXCEPT ![h] = subscribers]
    /\ subscribers' = {}
    /\ process' = IF process = h THEN None ELSE process
    /\ report' = IF lastLine # None THEN lastLine ELSE report
    /\ failed' = IF helper[h] # "clean" THEN h ELSE failed
    /\ pump' = [pump EXCEPT ![h] = "end"]
    /\ UNCHANGED <<lock, closed, idleTimer, media, lastLine, viewer, helper,
                   drained, stops>>

\* Put END into the queues taken above; the lock is not held any more.  A queue
\* that is full may give END up (SubscriptionQueue has the three calls): nobody
\* puts anything there any more, and its viewer is stranded.
PumpSignalEnd(h) ==
    /\ pump[h] = "end"
    /\ LET waiting == {v \in targets[h] : viewer[v] = "open"}
       IN  \E givenUp \in SUBSET waiting :
             viewer' = [v \in Viewers |-> IF v \in givenUp THEN "stranded"
                                          ELSE IF v \in waiting THEN "ended"
                                          ELSE viewer[v]]
    /\ targets' = [targets EXCEPT ![h] = {}]
    /\ pump' = [pump EXCEPT ![h] = "off"]
    /\ UNCHANGED <<lock, closed, session, cache, helper, drained, stops>>

\* The stderr thread appends what the helper left, its summary at the end, and
\* ends at end of file.  It takes the lock only when there is something.
DrainStderr(h) ==
    /\ helper[h] \in {"clean", "error", "silent"}
    /\ ~drained[h]
    /\ drained' = [drained EXCEPT ![h] = TRUE]
    /\ \/ /\ helper[h] = "silent"
          /\ UNCHANGED lastLine
       \/ /\ helper[h] # "silent"
          /\ lock = None
          /\ lastLine' = h
    /\ UNCHANGED <<lock, closed, session, media, report, failed, viewer, helper,
                   pump, targets, stops>>

-----------------------------------------------------------------------------
(* The idle timer, close() of the session, and _terminate() *)

\* The interval is over and is_set() was false: nothing cancels the timer now.
TimerFires(t) ==
    /\ stopper[t] = "armed"
    /\ stopper' = [stopper EXCEPT ![t] = "fired"]
    /\ UNCHANGED <<lock, closed, session, cache, viewer, helper, pumps, victim>>

\* _stop_if_idle() decides under the lock.
StopIfIdle(t) ==
    /\ lock = None
    /\ stopper[t] = "fired"
    /\ idleTimer' = None
    /\ IF subscribers # {} \/ closed
         THEN /\ stopper' = [stopper EXCEPT ![t] = "idle"]
              /\ UNCHANGED victim
         ELSE /\ stopper' = [stopper EXCEPT ![t] = "signal"]
              /\ victim' = [victim EXCEPT ![t] = process]
    /\ UNCHANGED <<lock, closed, process, subscribers, cache, viewer, helper, pumps>>

\* close() of the session by the main thread.
CloseSession ==
    /\ lock = None
    /\ Shutdown /\ ~closed
    /\ closed' = TRUE
    /\ stopper' = [Cancelled EXCEPT ![Main] = "signal"]
    /\ idleTimer' = None
    /\ victim' = [victim EXCEPT ![Main] = process]
    /\ UNCHANGED <<lock, process, subscribers, cache, viewer, helper, pumps>>

\* _terminate(), outside the lock: nothing to do, or SIGTERM.
Terminate(s) ==
    /\ stopper[s] = "signal"
    /\ IF victim[s] # None /\ Running(victim[s])
         THEN /\ stopper' = [stopper EXCEPT ![s] = "wait"]
              /\ UNCHANGED victim
         ELSE /\ stopper' = [stopper EXCEPT ![s] = "idle"]
              /\ victim' = [victim EXCEPT ![s] = None]
    /\ UNCHANGED <<lock, closed, session, cache, viewer, helper, pumps>>

\* A variant that gives up after the 10 seconds and never kills.
WrongAwaitExit(s) ==
    /\ stopper[s] = "wait"
    /\ stopper' = [stopper EXCEPT ![s] = "idle"]
    /\ victim' = [victim EXCEPT ![s] = None]
    /\ UNCHANGED <<lock, closed, session, cache, viewer, helper, pumps>>

\* The process left within 10 seconds, or it is killed.
AwaitExit(s) ==
    /\ stopper[s] = "wait"
    /\ stopper' = [stopper EXCEPT ![s] = "idle"]
    /\ victim' = [victim EXCEPT ![s] = None]
    /\ helper' = [helper EXCEPT
         ![victim[s]] = IF Running(victim[s]) THEN "silent" ELSE @]
    /\ UNCHANGED <<lock, closed, session, cache, viewer, pumps>>

-----------------------------------------------------------------------------
ViewerStep(v) ==
    \/ AcquireRefused(v) \/ AcquireAttach(v) \/ AcquireStart(v)
    \/ StartReturns(v) \/ StartFails(v) \/ BeginClose(v) \/ Release(v)

PumpStep(h) ==
    \/ PumpNote(h) \/ PumpJoin(h) \/ PumpCleanup(h)
    \/ PumpSignalEnd(h) \/ DrainStderr(h)

StopStep(s) == Terminate(s) \/ AwaitExit(s)

TimerStep(t) == TimerFires(t) \/ StopIfIdle(t)

Next ==
    \/ \E v \in Viewers : ViewerStep(v) \/ HelperExit(v) \/ PumpStep(v) \/ TimerStep(v)
    \/ \E s \in Stoppers : StopStep(s)
    \/ CloseSession

Spec == Init /\ [][Next]_vars

(***************************************************************************)
(* Every thread the session starts goes on, a starter returns or raises    *)
(* (its waits are all bounded), and a viewer that has read END closes.     *)
(* No client need arrive, leave or close, no helper need write or exit by  *)
(* itself, and a stranded viewer may stay for ever.  A lock section is     *)
(* enabled again and again only while starters run, which each viewer does *)
(* once, so weak fairness is enough.                                       *)
(***************************************************************************)
Fairness ==
    /\ \A v \in Viewers :
         /\ WF_vars(StartReturns(v) \/ StartFails(v))
         /\ WF_vars(viewer[v] = "ended" /\ BeginClose(v))
         /\ WF_vars(Release(v))
         /\ WF_vars(PumpJoin(v) \/ PumpCleanup(v) \/ PumpSignalEnd(v))
         /\ WF_vars(DrainStderr(v))
         /\ WF_vars(TimerStep(v))
    /\ \A s \in Stoppers : WF_vars(StopStep(s))

FairSpec == Spec /\ Fairness

-----------------------------------------------------------------------------
(* Safety *)

\* At most one helper runs, and it is the one the session knows: an old pump
\* that cleans up late, a stop in progress and a restart never leave a second
\* one, or one that nobody will stop.
OneHelper == \A h \in Viewers : Running(h) => process = h

\* Once close() has returned no helper runs, although a request may have been
\* inside the starter when close() was called: it waits for the lock.
ClosedMeansStopped ==
    closed /\ stopper[Main] = "idle" => \A h \in Viewers : ~Running(h)

\* Whoever is in _subscribers has a helper whose pump has yet to take the
\* subscribers: nobody is left in the table after its pump is gone.
SubscribedIsServed ==
    subscribers # {} => process # None /\ pump[process] \in {"read", "joined"}

\* A running helper is never forgotten: a request has yet to close (a stranded one
\* may never do so), an idle timer has yet to decide, or a stop is under way.
NoOrphan ==
    \A h \in Viewers : Running(h) /\ ~closed =>
        \/ \E v \in Viewers : viewer[v] \in {"open", "ended", "stranded", "closing"}
        \/ \E t \in Viewers : stopper[t] \in {"armed", "fired"}
        \/ \E s \in Stoppers : stopper[s] \in {"signal", "wait"} /\ victim[s] = h

\* A viewer that waits on its queue is in _subscribers, or a pump is about to
\* put END there: whatever helpers, pumps and timers do to the table, only an END
\* given up on a full queue leaves a viewer without a word ("stranded").
NoSilentDrop ==
    \A v \in Viewers : viewer[v] = "open" =>
        v \in subscribers \/ \E h \in Viewers : pump[h] = "end" /\ v \in targets[h]

\* How lock, table, helper, pump and main thread fit together: no helper runs
\* while one is being started, only a helper whose pump still reads can run, a
\* pump has not let go of the current process, whoever is subscribed has not
\* been released, and after close() only the main thread's victim still runs.
Consistent ==
    /\ \A v \in Viewers : viewer[v] = "starting" <=> lock = v
    /\ lock # None => ~closed /\ \A h \in Viewers : ~Running(h)
    /\ \A v \in Viewers : viewer[v] \in {"new", "starting"} =>
         helper[v] = "none" /\ pump[v] = "off"
    /\ process # None => pump[process] \in {"read", "joined"}
    /\ \A h \in Viewers : Running(h) => process = h /\ pump[h] = "read"
    /\ subscribers # {} => process # None
    /\ \A v \in subscribers : viewer[v] \in {"open", "ended", "stranded", "closing"}
    /\ ~closed => stopper[Main] = "idle"
    /\ closed => \A h \in Viewers : Running(h) =>
         stopper[Main] \in {"signal", "wait"} /\ victim[Main] = h
    /\ \A s \in Stoppers : stopper[s] = "wait" => victim[s] # None

-----------------------------------------------------------------------------
(* What the repository says and the code does not do *)

\* README.md:155-157: the stream stops after the final viewer has closed and
\* the idle time has passed.  So an idle timer never signals the helper while
\* somebody is subscribed.
IdleStopSparesViewers ==
    [][\A t \in Viewers : stopper[t] = "signal" /\ stopper'[t] = "wait"
          => subscribers = {}]_vars

\* README.md:155-157: the stop waits for the idle timeout after the final viewer
\* has closed.  So the timer that stops the helper is the last one armed.
OnlyLatestTimerStops ==
    [][\A t \in Viewers : stopper[t] = "fired" /\ stopper'[t] = "signal"
          => idleTimer = t]_vars

\* session.py:245: "A new helper means a new encoder state, so cached units are
\* stale."  So the cache only holds what the current helper wrote.
CacheFromCurrentHelper == process # None => media \subseteq {process}

-----------------------------------------------------------------------------
(* Liveness *)

Quiet == \A v \in Viewers : viewer[v] \in {"new", "done"}

\* After the last viewer has left, the camera is let go: its helper stops, or
\* another viewer arrives.
IdleHelperStops == Quiet ~> (~Quiet \/ \A h \in Viewers : ~Running(h))

-----------------------------------------------------------------------------
(* Refinement: the session keeps the promise of SharedHelper *)

Shared == INSTANCE SharedHelper WITH
    Helpers <- Viewers, NoHelper <- None,
    current <- IF Live THEN process ELSE None,
    spent <- {h \in Viewers : helper[h] # "none"},
    shut <- closed

\* Every step of the session is a step of SharedHelper or changes nothing there.
SharedSpec == Shared!Spec
=============================================================================
