-------------------------- MODULE SubscriptionQueue --------------------------
(***************************************************************************)
(* The queue of one subscription (src/okam_native/session.py): a           *)
(* queue.Queue(maxsize) that the pump fills, a consumer iterates over, and *)
(* close() ends from a third thread.  Each call on the queue is atomic;    *)
(* the three calls of a put that makes room (put, get, put) are not.       *)
(* This module has one pump; StreamSession has the case in which the pumps *)
(* of two helpers meet.                                                    *)
(***************************************************************************)
EXTENDS Naturals, Sequences

CONSTANTS
    Capacity,  \* maxsize: 32
    Chunks     \* how many chunks the pump delivers before END

ASSUME SizeAssumption == Capacity \in Nat \ {0} /\ Chunks \in Nat

END == 0                  \* the marker; the chunks are 1, 2, ...
Items == 0 .. Chunks
Putters == {"pump", "close"}

VARIABLES
    queue,     \* _chunks
    closed,    \* _closed
    produced,  \* the last chunk the pump has taken on, Chunks + 1 for END
    at,        \* where each putter is in its put
    consumer,  \* where the iterator is
    yielded,   \* the last chunk the iterator has yielded
    lost       \* what each putter has given up: its second put failed, or it found
               \* nothing to evict

vars == <<queue, closed, produced, at, consumer, yielded, lost>>

TypeOK ==
    /\ queue \in Seq(Items) /\ Len(queue) <= Capacity
    /\ closed \in BOOLEAN
    /\ produced \in 0 .. Chunks + 1
    /\ at \in [Putters -> {"idle", "put", "evict", "again", "done"}]
    /\ consumer \in {"test", "get", "ended"}
    /\ yielded \in 0 .. Chunks
    /\ lost \in [Putters -> SUBSET Items]

Init ==
    /\ queue = << >>
    /\ closed = FALSE
    /\ produced = 0
    /\ at = [p \in Putters |-> "idle"]
    /\ consumer = "test"
    /\ yielded = 0
    /\ lost = [p \in Putters |-> {}]

Full == Len(queue) = Capacity

\* What a putter puts: the pump its chunk, and END after the last; close() END.
Item(p) == IF p = "close" \/ produced > Chunks THEN END ELSE produced

Goto(p, place) == at' = [at EXCEPT ![p] = place]

\* After a put the pump goes on to the next chunk, unless that was END.
Done(p) ==
    Goto(p, IF p = "close" \/ produced > Chunks THEN "done" ELSE "idle")

GiveUp(p) == lost' = [lost EXCEPT ![p] = @ \cup {Item(p)}]

-----------------------------------------------------------------------------
(* _pump: the next chunk, or END *)

PumpTakes ==
    /\ at["pump"] = "idle"
    /\ produced' = produced + 1
    /\ Goto("pump", "put")
    /\ UNCHANGED <<queue, closed, consumer, yielded, lost>>

\* A variant that sets the flag and leaves the queue alone.
WrongClose ==
    /\ at["close"] = "idle"
    /\ closed' = TRUE
    /\ Goto("close", "done")
    /\ UNCHANGED <<queue, produced, consumer, yielded, lost>>

\* close(): only the first call does anything.
Close ==
    /\ at["close"] = "idle"
    /\ closed' = TRUE
    /\ Goto("close", "put")
    /\ UNCHANGED <<queue, produced, consumer, yielded, lost>>

-----------------------------------------------------------------------------
(* put_nowait(item); when Full: get_nowait(), put_nowait(item) *)

Put(p) ==
    /\ at[p] = "put"
    /\ IF Full
         THEN Goto(p, "evict") /\ UNCHANGED queue
         ELSE Done(p) /\ queue' = Append(queue, Item(p))
    /\ UNCHANGED <<closed, produced, consumer, yielded, lost>>

\* The consumer may have emptied the queue meanwhile: queue.Empty, and the item
\* is given up.
Evict(p) ==
    /\ at[p] = "evict"
    /\ IF queue = << >>
         THEN Done(p) /\ GiveUp(p) /\ UNCHANGED queue
         ELSE Goto(p, "again") /\ queue' = Tail(queue) /\ UNCHANGED lost
    /\ UNCHANGED <<closed, produced, consumer, yielded>>

\* The other putter may have taken the place: queue.Full, and the item is given up.
PutAgain(p) ==
    /\ at[p] = "again"
    /\ Done(p)
    /\ IF Full
         THEN GiveUp(p) /\ UNCHANGED queue
         ELSE queue' = Append(queue, Item(p)) /\ UNCHANGED lost
    /\ UNCHANGED <<closed, produced, consumer, yielded>>

-----------------------------------------------------------------------------
(* __iter__: while not closed: get(), stop at END, yield *)

\* A variant that relies on END alone: while True.
WrongTest ==
    /\ consumer = "test"
    /\ consumer' = "get"
    /\ UNCHANGED <<queue, closed, produced, at, yielded, lost>>

Test ==
    /\ consumer = "test"
    /\ consumer' = IF closed THEN "ended" ELSE "get"
    /\ UNCHANGED <<queue, closed, produced, at, yielded, lost>>

\* A variant that takes END for its own only once it is closed.
WrongGet ==
    /\ consumer = "get"
    /\ queue # << >>
    /\ queue' = Tail(queue)
    /\ IF Head(queue) = END
         THEN consumer' = (IF closed THEN "ended" ELSE "test") /\ UNCHANGED yielded
         ELSE consumer' = "test" /\ yielded' = Head(queue)
    /\ UNCHANGED <<closed, produced, at, lost>>

Get ==
    /\ consumer = "get"
    /\ queue # << >>
    /\ queue' = Tail(queue)
    /\ IF Head(queue) = END
         THEN consumer' = "ended" /\ UNCHANGED yielded
         ELSE consumer' = "test" /\ yielded' = Head(queue)
    /\ UNCHANGED <<closed, produced, at, lost>>

-----------------------------------------------------------------------------
Next ==
    \/ PumpTakes \/ Close \/ Test \/ Get
    \/ \E p \in Putters : Put(p) \/ Evict(p) \/ PutAgain(p)

Spec == Init /\ [][Next]_vars

\* The threads go on; nobody has to close, and chunks need not come.
Fairness ==
    /\ WF_vars(Test) /\ WF_vars(Get)
    /\ \A p \in Putters : WF_vars(Put(p) \/ Evict(p) \/ PutAgain(p))

FairSpec == Spec /\ Fairness

-----------------------------------------------------------------------------
(* Properties *)

\* An iterator that waits while close() is called is woken: something is queued, or
\* one of the two putters has yet to put.  Each of them may evict what the other has
\* put, and each may give its item up, but never so that nothing is left.
ClosedIsWoken ==
    closed /\ consumer = "get" =>
        queue # << >> \/ at["close"] = "put" \/ \E p \in Putters : at[p] = "again"

\* close() ends the iteration, even when its END is given up because the queue
\* was full: then the iterator is not blocked, and it tests _closed before it
\* blocks again.
CloseEndsIteration == closed ~> consumer = "ended"

\* The end of the helper ends the iteration too, unless the pump has given its END
\* up: the queue was full, and the iterator emptied it before the pump could evict.
\* With nobody to close the subscription, the iterator then waits for ever.
HelperEndEndsIteration ==
    at["pump"] = "done" ~> consumer = "ended" \/ END \in lost["pump"]

\* docs/architecture.md:42, "A slow viewer drops older queued chunks": the item
\* that is dropped is never the one just produced.
DropsOnlyOlder == \A p \in Putters : lost[p] \subseteq {END}
=============================================================================
