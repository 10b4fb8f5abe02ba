----------------------------- MODULE ViewerProofs -----------------------------
(***************************************************************************)
(* Proofs about what one viewer gets: its chunks through its queue         *)
(* (SubscriptionQueue), and the preamble before them (AnnexBScan).  They   *)
(* hold for any number of chunks, any size of the queue, any units of the  *)
(* camera, wherever the reads cut them, and any limits of the scan.        *)
(***************************************************************************)
EXTENDS SubscriptionQueue, AnnexBScan, FiniteSetTheorems, SequenceTheorems, TLAPS

-----------------------------------------------------------------------------
(* The queue *)

\* The flag is set by the first step of close(), and an iterator inside get() that is
\* to end has something to take, or one of the putters has yet to put.
WokenInv ==
    /\ queue \in Seq(Items)
    /\ at \in [Putters -> {"idle", "put", "evict", "again", "done"}]
    /\ at["close"] = "idle" => ~closed
    /\ ClosedIsWoken

\* A queue that is full, or to which something was put, is not empty.
LEMMA NotEmpty ==
    ASSUME NEW s \in Seq(Items), NEW x \in Items
    PROVE  /\ Append(s, x) \in Seq(Items) /\ Append(s, x) # << >>
           /\ Len(s) = Capacity => s # << >>
           /\ s # << >> => Tail(s) \in Seq(Items)
BY SizeAssumption

\* A chunk or END.
LEMMA ItemIs ==
    ASSUME NEW p \in Putters, produced \in Nat
    PROVE  Item(p) \in Items
BY SizeAssumption DEF Item, Items, END

\* The items are numbered as they are taken.
LEMMA ProducedIsNat == ASSUME produced \in Nat, [Next]_vars PROVE produced' \in Nat
<1>1. CASE PumpTakes
  BY <1>1 DEF PumpTakes
<1>2. CASE Close
  BY <1>2 DEF Close
<1>3. CASE Test \/ Get
  BY <1>3 DEF Test, Get
<1>4. ASSUME NEW p \in Putters, Put(p) \/ Evict(p) \/ PutAgain(p) PROVE produced' \in Nat
  BY <1>4 DEF Put, Evict, PutAgain
<1>5. CASE UNCHANGED vars
  BY <1>5 DEF vars
<1> QED
  BY <1>1, <1>2, <1>3, <1>4, <1>5 DEF Next

\* A putter that is through with its put, the item queued or given up, is somewhere
\* a putter can be, and nobody else moves.
LEMMA DoneKeeps ==
    ASSUME at \in [Putters -> {"idle", "put", "evict", "again", "done"}],
           NEW p \in Putters, Done(p)
    PROVE  /\ at' \in [Putters -> {"idle", "put", "evict", "again", "done"}]
           /\ at'["close"] = "idle" => at["close"] = "idle"
           /\ \A q \in Putters : q # p => at'[q] = at[q]
BY DEF Done, Goto, Putters

\* The same for a putter that goes on to its next call.
LEMMA GotoKeeps ==
    ASSUME at \in [Putters -> {"idle", "put", "evict", "again", "done"}],
           NEW p \in Putters, NEW place \in {"put", "evict", "again"}, Goto(p, place)
    PROVE  /\ at' \in [Putters -> {"idle", "put", "evict", "again", "done"}]
           /\ at'["close"] = "idle" => at["close"] = "idle"
           /\ at'[p] = place /\ \A q \in Putters : q # p => at'[q] = at[q]
BY DEF Goto, Putters

\* Put, or put again: afterwards the queue is not empty.
LEMMA PutsKeep ==
    ASSUME WokenInv, produced \in Nat, NEW p \in Putters, Put(p) \/ PutAgain(p)
    PROVE  WokenInv'
<1> USE DEF WokenInv
<1>1. queue \in Seq(Items) /\ Item(p) \in Items
  BY ItemIs
<1>2. queue' \in Seq(Items) /\ queue' # << >>
  <2>1. CASE Full
    <3>1. queue' = queue
      BY <2>1 DEF Put, PutAgain
    <3> QED
      BY <1>1, <2>1, <3>1, NotEmpty DEF Full
  <2>2. CASE ~Full
    <3>1. queue' = Append(queue, Item(p))
      BY <2>2 DEF Put, PutAgain
    <3> QED
      BY <1>1, <3>1, NotEmpty
  <2> QED
    BY <2>1, <2>2
<1>3. Done(p) \/ Goto(p, "evict")
  BY DEF Put, PutAgain
<1>4. /\ at' \in [Putters -> {"idle", "put", "evict", "again", "done"}]
      /\ at'["close"] = "idle" => at["close"] = "idle"
  BY <1>3, DoneKeeps, GotoKeeps
<1>5. closed' = closed
  BY DEF Put, PutAgain
<1> QED
  BY <1>2, <1>4, <1>5 DEF ClosedIsWoken

\* Making room: whoever finds nothing to evict leaves the other one with its put.
LEMMA EvictKeeps ==
    ASSUME WokenInv, NEW p \in Putters, Evict(p)
    PROVE  WokenInv'
<1> USE DEF WokenInv
<1>1. at[p] = "evict" /\ closed' = closed /\ consumer' = consumer
  BY DEF Evict
<1>2. CASE queue = << >>
  <2>1. Done(p) /\ queue' = queue
    BY <1>2 DEF Evict
  <2>2. /\ at' \in [Putters -> {"idle", "put", "evict", "again", "done"}]
        /\ at'["close"] = "idle" => at["close"] = "idle"
        /\ \A q \in Putters : q # p => at'[q] = at[q]
    BY <2>1, DoneKeeps
  <2>3. closed /\ consumer = "get" =>
          \/ at["close"] = "put" /\ "close" # p
          \/ \E q \in Putters : at[q] = "again" /\ q # p
    BY <1>1, <1>2 DEF ClosedIsWoken
  <2>4. closed /\ consumer = "get" =>
          at'["close"] = "put" \/ \E q \in Putters : at'[q] = "again"
    BY <2>2, <2>3 DEF Putters
  <2> QED
    BY <1>1, <2>1, <2>2, <2>4 DEF ClosedIsWoken
<1>3. CASE queue # << >>
  <2>1. Goto(p, "again") /\ queue' = Tail(queue)
    BY <1>3 DEF Evict
  <2>2. queue' \in Seq(Items)
    BY <1>3, <2>1, NotEmpty
  <2>3. /\ at' \in [Putters -> {"idle", "put", "evict", "again", "done"}]
        /\ at'["close"] = "idle" => at["close"] = "idle"
        /\ at'[p] = "again"
    BY <2>1, GotoKeeps
  <2> QED
    BY <1>1, <2>2, <2>3 DEF ClosedIsWoken
<1> QED
  BY <1>2, <1>3

\* For any size of the queue and any number of chunks: an iterator that waits when
\* close() is called is woken, whichever of pump, close() and iterator comes between
\* the calls of another, and although either putter may give its END up.
THEOREM CloseAlwaysWakes == Spec => []ClosedIsWoken
<1> DEFINE Inv == WokenInv /\ produced \in Nat
<1>1. Init => Inv
  BY DEF Init, WokenInv, ClosedIsWoken, Putters
<1>2. Inv /\ [Next]_vars => Inv'
  <2> SUFFICES ASSUME WokenInv, produced \in Nat, [Next]_vars PROVE WokenInv'
    BY ProducedIsNat
  <2>1. CASE PumpTakes
    <3>1. /\ at' \in [Putters -> {"idle", "put", "evict", "again", "done"}]
          /\ at'["close"] = at["close"]
          /\ \A p \in Putters : at[p] = "again" => at'[p] = "again"
      BY <2>1 DEF PumpTakes, WokenInv, Goto, Putters
    <3>2. queue' = queue /\ closed' = closed /\ consumer' = consumer
      BY <2>1 DEF PumpTakes
    <3> QED
      BY <3>1, <3>2 DEF WokenInv, ClosedIsWoken
  <2>2. CASE Close
    <3>1. /\ at' \in [Putters -> {"idle", "put", "evict", "again", "done"}]
          /\ at'["close"] = "put"
      BY <2>2 DEF Close, WokenInv, Goto, Putters
    <3>2. queue' = queue
      BY <2>2 DEF Close
    <3> QED
      BY <3>1, <3>2 DEF WokenInv, ClosedIsWoken
  <2>3. CASE Test
    BY <2>3 DEF Test, WokenInv, ClosedIsWoken
  <2>4. CASE Get
    <3>1. queue' \in Seq(Items) /\ consumer' # "get" /\ closed' = closed /\ at' = at
      BY <2>4, NotEmpty DEF Get, WokenInv
    <3> QED
      BY <3>1 DEF WokenInv, ClosedIsWoken
  <2>5. ASSUME NEW p \in Putters, Put(p) \/ Evict(p) \/ PutAgain(p) PROVE WokenInv'
    BY <2>5, PutsKeep, EvictKeeps
  <2>6. CASE UNCHANGED vars
    BY <2>6 DEF vars, WokenInv, ClosedIsWoken
  <2> QED
    BY <2>1, <2>2, <2>3, <2>4, <2>5, <2>6 DEF Next
<1>3. Inv => ClosedIsWoken
  BY DEF WokenInv
<1> HIDE DEF Inv
<1> QED
  BY <1>1, <1>2, <1>3, PTL DEF Spec

-----------------------------------------------------------------------------
(* The preamble: start codes and units of sequences that have a part in common *)

\* The bytes of b from lo to hi are those of c, d places further on.
Agree(b, c, d, lo, hi) ==
    /\ 1 <= lo /\ hi <= Len(b) /\ 1 <= lo + d /\ hi + d <= Len(c)
    /\ \A i \in lo .. hi : b[i] = c[i + d]

\* A start code is its three bytes.
LEMMA StartIsThreeBytes ==
    ASSUME NEW b \in Seq(Bytes), NEW i \in Int
    PROVE  i \in StartsOf(b) <=> /\ i \in 1 .. Len(b) - 2
                                 /\ b[i] = 0 /\ b[i + 1] = 0 /\ b[i + 2] = 1
<1> DEFINE three == SubSeq(b, i, i + 2)
           T == Bytes \cup {0, 1}
<1>1. START \in Seq(T) /\ Len(START) = 3 /\ START[1] = 0 /\ START[2] = 0 /\ START[3] = 1
  BY DEF START
<1>2. ASSUME i \in 1 .. Len(b) - 2
      PROVE  /\ three \in Seq(T) /\ Len(three) = 3
             /\ three[1] = b[i] /\ three[2] = b[i + 1] /\ three[3] = b[i + 2]
  <2>1. \A k \in i .. i + 2 : b[k] \in T
    BY <1>2, ElementOfSeq
  <2>2. /\ three \in Seq(T) /\ Len(three) = 3
        /\ \A k \in 1 .. i + 2 - i + 1 : three[k] = b[i + k - 1]
    BY <2>1, SubSeqProperties
  <2> HIDE DEF three, T
  <2>3. three[1] = b[i + 1 - 1] /\ three[2] = b[i + 2 - 1] /\ three[3] = b[i + 3 - 1]
    <3>1. {1, 2, 3} \subseteq 1 .. i + 2 - i + 1
      OBVIOUS
    <3> QED
      BY <2>2, <3>1
  <2>4. i + 1 - 1 = i /\ i + 2 - 1 = i + 1 /\ i + 3 - 1 = i + 2
    OBVIOUS
  <2> QED
    BY <2>2, <2>3, <2>4
<1>3. ASSUME i \in 1 .. Len(b) - 2, b[i] = 0, b[i + 1] = 0, b[i + 2] = 1
      PROVE  three = START
  <2>1. \A k \in 1 .. 3 : three[k] = START[k]
    BY <1>1, <1>2, <1>3
  <2> HIDE DEF three, T
  <2> QED
    BY <1>1, <1>2, <1>3, <2>1, SeqEqual
<1>4. i \in StartsOf(b) <=> i \in 1 .. Len(b) - 2 /\ three = START
  BY DEF StartsOf
<1> HIDE DEF three
<1> QED
  BY <1>1, <1>2, <1>3, <1>4

\* Where two sequences agree they have the same start codes and the same units.
LEMMA AgreeingUnits ==
    ASSUME NEW b \in Seq(Bytes), NEW c \in Seq(Bytes), NEW d \in Int,
           NEW lo \in Int, NEW hi \in Int, Agree(b, c, d, lo, hi)
    PROVE  /\ \A i \in lo .. hi - 2 : i \in StartsOf(b) <=> i + d \in StartsOf(c)
           /\ \A i, j \in lo .. hi - 2 : <<i, j>> \in SpansOf(b) <=> <<i + d, j + d>> \in SpansOf(c)
           /\ \A i, j \in lo .. hi - 2 :
                  <<i, j>> \in SpansOf(b) => Cut(b, <<i, j>>) = Cut(c, <<i + d, j + d>>)
<1>1. Len(b) \in Nat /\ Len(c) \in Nat
  OBVIOUS
<1>2. \A i \in lo .. hi - 2 : i \in StartsOf(b) <=> i + d \in StartsOf(c)
  <2> TAKE i \in lo .. hi - 2
  <2>1. b[i] = c[i + d] /\ b[i + 1] = c[i + 1 + d] /\ b[i + 2] = c[i + 2 + d]
    BY DEF Agree
  <2>2. i \in 1 .. Len(b) - 2 /\ i + d \in 1 .. Len(c) - 2
    <3>1. 1 <= lo /\ hi <= Len(b) /\ 1 <= lo + d /\ hi + d <= Len(c)
      BY DEF Agree
    <3> QED
      BY <1>1, <3>1
  <2>3. i + 1 + d = i + d + 1 /\ i + 2 + d = i + d + 2
    OBVIOUS
  <2>4. i \in StartsOf(b) <=> b[i] = 0 /\ b[i + 1] = 0 /\ b[i + 2] = 1
    BY <2>2, StartIsThreeBytes
  <2>5. i + d \in StartsOf(c) <=> c[i + d] = 0 /\ c[i + d + 1] = 0 /\ c[i + d + 2] = 1
    <3>1. \A k \in 1 .. Len(c) - 2 :
              k \in StartsOf(c) <=> c[k] = 0 /\ c[k + 1] = 0 /\ c[k + 2] = 1
      BY StartIsThreeBytes
    <3> QED
      BY <2>2, <3>1
  <2> QED
    BY <2>1, <2>3, <2>4, <2>5
<1>3. \A i, j \in lo .. hi - 2 : <<i, j>> \in SpansOf(b) <=> <<i + d, j + d>> \in SpansOf(c)
  <2> TAKE i, j \in lo .. hi - 2
  <2>1. /\ StartsOf(b) \subseteq Int /\ StartsOf(c) \subseteq Int
    BY <1>1 DEF StartsOf
  <2>2. <<i, j>> \in SpansOf(b) <=>
            /\ i \in StartsOf(b) /\ j \in StartsOf(b) /\ i < j
            /\ \A k \in StartsOf(b) : k <= i \/ k >= j
    BY DEF SpansOf
  <2>3. <<i + d, j + d>> \in SpansOf(c) <=>
            /\ i + d \in StartsOf(c) /\ j + d \in StartsOf(c) /\ i + d < j + d
            /\ \A k \in StartsOf(c) : k <= i + d \/ k >= j + d
    BY DEF SpansOf
  <2>4. ASSUME \A k \in StartsOf(b) : k <= i \/ k >= j, NEW k \in StartsOf(c)
        PROVE  k <= i + d \/ k >= j + d
    <3>1. k - d \in lo .. hi - 2 => k - d \in StartsOf(b)
      <4>1. k - d + d = k /\ k - d \in Int
        BY <2>1
      <4> QED
        BY <1>2, <4>1
    <3> QED
      BY <2>1, <2>4, <3>1
  <2>5. ASSUME \A k \in StartsOf(c) : k <= i + d \/ k >= j + d, NEW k \in StartsOf(b)
        PROVE  k <= i \/ k >= j
    <3>1. CASE k \in lo .. hi - 2
      <4>1. k + d \in StartsOf(c) /\ k \in Int
        BY <1>2, <2>5, <3>1
      <4>2. k + d <= i + d \/ k + d >= j + d
        BY <2>5, <4>1
      <4> QED
        BY <4>1, <4>2
    <3>2. CASE k \notin lo .. hi - 2
      BY <2>1, <2>5, <3>2
    <3> QED
      BY <3>1, <3>2
  <2> QED
    BY <1>2, <2>2, <2>3, <2>4, <2>5
<1>4. \A i, j \in lo .. hi - 2 :
          <<i, j>> \in SpansOf(b) => Cut(b, <<i, j>>) = Cut(c, <<i + d, j + d>>)
  <2> TAKE i, j \in lo .. hi - 2
  <2> HAVE <<i, j>> \in SpansOf(b)
  <2>1. i < j
    BY DEF SpansOf
  <2> DEFINE u == SubSeq(b, i, j - 1)
             v == SubSeq(c, i + d, j + d - 1)
  <2>2. /\ u \in Seq(Bytes) /\ Len(u) = j - i
        /\ \A k \in 1 .. j - i : u[k] = b[i + k - 1]
    <3>1. \A k \in i .. j - 1 : b[k] \in Bytes
      BY <1>1, ElementOfSeq DEF Agree
    <3> QED
      BY <2>1, <3>1, SubSeqProperties
  <2>3. /\ v \in Seq(Bytes) /\ Len(v) = j - i
        /\ \A k \in 1 .. j - i : v[k] = c[i + d + k - 1]
    <3>1. \A k \in i + d .. j + d - 1 : c[k] \in Bytes
      BY <1>1, ElementOfSeq DEF Agree
    <3>2. /\ v \in Seq(Bytes) /\ Len(v) = IF i + d <= j + d - 1 THEN j + d - 1 - (i + d) + 1 ELSE 0
          /\ \A k \in 1 .. j + d - 1 - (i + d) + 1 : v[k] = c[i + d + k - 1]
      BY <3>1, SubSeqProperties
    <3>3. j + d - 1 - (i + d) + 1 = j - i /\ i + d <= j + d - 1
      BY <2>1
    <3> HIDE DEF v
    <3> QED
      BY <3>2, <3>3
  <2>4. \A k \in 1 .. j - i : b[i + k - 1] = c[i + d + k - 1]
    <3> TAKE k \in 1 .. j - i
    <3>1. i + k - 1 \in lo .. hi /\ i + k - 1 + d = i + d + k - 1
      OBVIOUS
    <3> QED
      BY <3>1 DEF Agree
  <2>5. u = v
    <3> HIDE DEF u, v
    <3> QED
      BY <2>2, <2>3, <2>4, SeqEqual
  <2> QED
    BY <2>5 DEF Cut
<1> QED
  BY <1>2, <1>3, <1>4

\* A nonempty set of numbers that has a bound has a greatest element.
LEMMA GreatestExists ==
    ASSUME NEW n \in Nat, NEW T, T \subseteq 1 .. n, T # {}
    PROVE  \E x \in T : \A y \in T : y <= x
<1> DEFINE From(x) == {y \in T : x <= y}
           F == {From(x) : x \in T}
<1>1. F \subseteq FiniteSubsetsOf(T) /\ F # {}
  <2>1. IsFiniteSet(1 .. n)
    BY FS_Interval
  <2>2. IsFiniteSet(T)
    BY <2>1, FS_Subset
  <2>3. \A x : From(x) \in SUBSET T
    OBVIOUS
  <2>4. \A x : IsFiniteSet(From(x))
    <3> HIDE DEF From
    <3> QED
      BY <2>2, <2>3, FS_Subset
  <2>5. \A x : From(x) \in FiniteSubsetsOf(T)
    <3> HIDE DEF From
    <3> QED
      BY <2>3, <2>4 DEF FiniteSubsetsOf
  <2>6. F # {}
    OBVIOUS
  <2> HIDE DEF From
  <2> QED
    BY <2>5, <2>6
<1>2. \E f \in F : \A g \in F : ~ (<<g, f>> \in StrictSubsetOrdering(T))
  <2> HIDE DEF F
  <2> QED
    BY <1>1, FS_StrictSubsetOrderingWellFounded, WFMin
<1>3. PICK x \in T : \A y \in T : ~ (<<From(y), From(x)>> \in StrictSubsetOrdering(T))
  BY <1>2
<1>4. ASSUME NEW y \in T, y > x
      PROVE  FALSE
  <2>1. From(y) \subseteq From(x) /\ x \in From(x) /\ x \notin From(y)
    <3>1. T \subseteq Int
      OBVIOUS
    <3>2. \A z \in T : y <= z => x <= z
      BY <1>4, <3>1
    <3>3. ~ (y <= x) /\ x <= x
      BY <1>4, <3>1
    <3> QED
      BY <3>2, <3>3
  <2>2. <<From(y), From(x)>> \in StrictSubsetOrdering(T)
    BY <2>1 DEF StrictSubsetOrdering
  <2> QED
    BY <1>3, <2>2
<1> QED
  BY <1>3, <1>4

\* The spans of a sequence, one by one.
LEMMA SpanFacts ==
    ASSUME NEW b \in Seq(Bytes), NEW s \in SpansOf(b)
    PROVE  /\ s = <<s[1], s[2]>> /\ s[1] < s[2]
           /\ {s[1], s[2]} \subseteq 1 .. Len(b) - 2
           /\ {s[1], s[2]} \subseteq StartsOf(b)
           /\ \A k \in StartsOf(b) : k <= s[1] \/ k >= s[2]
  BY DEF SpansOf, StartsOf

\* Spans that start in the same place are one.
LEMMA SpanIsItsStart ==
    ASSUME NEW b \in Seq(Bytes), NEW s \in SpansOf(b), NEW t \in SpansOf(b), s[1] = t[1]
    PROVE  s = t
<1>1. s = <<s[1], s[2]>> /\ t = <<t[1], t[2]>> /\ s[1] < s[2] /\ t[1] < t[2]
  BY SpanFacts
<1>2. s[1] \in Int /\ s[2] \in Int /\ t[2] \in Int
  BY SpanFacts
<1>3. (s[2] <= t[1] \/ s[2] >= t[2]) /\ (t[2] <= s[1] \/ t[2] >= s[2])
  BY SpanFacts
<1> QED
  BY <1>1, <1>2, <1>3

\* Of a set of spans one is the newest.
LEMMA NewestExists ==
    ASSUME NEW b \in Seq(Bytes), NEW C, C \subseteq SpansOf(b), C # {}
    PROVE  LET m == CHOOSE s \in C : \A t \in C : t[1] <= s[1]
           IN  m \in C /\ \A t \in C : t[1] <= m[1]
<1>1. \A s \in C : s[1] \in 1 .. Len(b)
  <2> TAKE s \in C
  <2>1. s[1] \in 1 .. Len(b) - 2
    BY SpanFacts
  <2> QED
    BY <2>1
<1> DEFINE T == {s[1] : s \in C}
<1>2. T \subseteq 1 .. Len(b) /\ T # {} /\ Len(b) \in Nat
  BY <1>1
<1>3. \E x \in T : \A y \in T : y <= x
  <2> HIDE DEF T
  <2> QED
    BY <1>2, GreatestExists
<1>4. \E s \in C : \A t \in C : t[1] <= s[1]
  BY <1>3
<1> QED
  BY <1>4

-----------------------------------------------------------------------------
(* The preamble: what the scan computes *)

\* The spans of the units of a kind that are recorded.
Candidates(bytes, kind) ==
    {s \in SpansOf(bytes) : Recorded(Cut(bytes, s)) /\ KindOf(Cut(bytes, s)) = kind}

IsNewest(bytes, kind, unit) ==
    \/ Candidates(bytes, kind) = {} /\ unit = << >>
    \/ \E s \in Candidates(bytes, kind) :
           unit = Cut(bytes, s) /\ \A t \in Candidates(bytes, kind) : t[1] <= s[1]

\* There is one newest unit of a kind.
LEMMA NewestIsUnique ==
    ASSUME received \in Seq(Bytes), NEW kind, NEW unit, IsNewest(received, kind, unit)
    PROVE  unit = Newest(kind)
<1> DEFINE C == Candidates(received, kind)
           m == CHOOSE s \in C : \A t \in C : t[1] <= s[1]
<1>1. Newest(kind) = IF C = {} THEN << >> ELSE Cut(received, m)
  BY DEF Newest, Candidates
<1>2. C \subseteq SpansOf(received)
  BY DEF Candidates
<1>3. CASE C = {} /\ unit = << >>
  BY <1>1, <1>3
<1>4. ASSUME NEW s \in C, unit = Cut(received, s), \A t \in C : t[1] <= s[1]
      PROVE  unit = Newest(kind)
  <2> HIDE DEF C
  <2>1. m \in C /\ \A t \in C : t[1] <= m[1]
    BY <1>2, <1>4, NewestExists
  <2>2. s[1] \in Int /\ m[1] \in Int
    BY <1>2, <2>1, SpanFacts
  <2>3. s[1] = m[1]
    BY <1>4, <2>1, <2>2
  <2>4. s = m
    BY <1>2, <2>1, <2>3, SpanIsItsStart
  <2> QED
    BY <1>1, <1>4, <2>4
<1> QED
  BY <1>3, <1>4 DEF IsNewest

\* What is cached after a scan.
LEMMA CachedMeans ==
    ASSUME NEW bytes \in Seq(Bytes), NEW kind
    PROVE  \/ Candidates(bytes, kind) = {} /\ Cached(bytes, kind) = cache[kind]
           \/ \E s \in Candidates(bytes, kind) :
                  /\ Cached(bytes, kind) = Cut(bytes, s)
                  /\ \A t \in Candidates(bytes, kind) : t[1] <= s[1]
<1> DEFINE C == Candidates(bytes, kind)
           m == CHOOSE s \in C : \A t \in C : t[1] <= s[1]
<1>1. Cached(bytes, kind) = IF C = {} THEN cache[kind] ELSE Cut(bytes, m)
  BY DEF Cached, Candidates
<1>2. C \subseteq SpansOf(bytes)
  BY DEF Candidates
<1>3. C # {} => m \in C /\ \A t \in C : t[1] <= m[1]
  <2> HIDE DEF C
  <2> QED
    BY <1>2, NewestExists
<1> QED
  BY <1>1, <1>3

\* The end of a sequence, from place n + 1 on.
LEMMA EndOf ==
    ASSUME NEW b \in Seq(Bytes), NEW n \in 0 .. Len(b)
    PROVE  /\ SubSeq(b, n + 1, Len(b)) \in Seq(Bytes)
           /\ Len(SubSeq(b, n + 1, Len(b))) = Len(b) - n
           /\ Agree(SubSeq(b, n + 1, Len(b)), b, n, 1, Len(b) - n)
<1> DEFINE e == SubSeq(b, n + 1, Len(b))
<1>1. Len(b) \in Nat /\ \A i \in n + 1 .. Len(b) : b[i] \in Bytes
  BY ElementOfSeq
<1>2. /\ e \in Seq(Bytes)
      /\ Len(e) = IF n + 1 <= Len(b) THEN Len(b) - (n + 1) + 1 ELSE 0
      /\ \A i \in 1 .. Len(b) - (n + 1) + 1 : e[i] = b[n + 1 + i - 1]
  BY <1>1, SubSeqProperties
<1> HIDE DEF e
<1>3. Len(e) = Len(b) - n
  BY <1>1, <1>2
<1>4. \A i \in 1 .. Len(b) - n : e[i] = b[i + n]
  <2> TAKE i \in 1 .. Len(b) - n
  <2>1. i \in 1 .. Len(b) - (n + 1) + 1 /\ n + 1 + i - 1 = i + n
    BY <1>1
  <2> QED
    BY <1>2, <2>1
<1>5. Agree(e, b, n, 1, Len(b) - n)
  BY <1>1, <1>3, <1>4 DEF Agree
<1> QED
  BY <1>2, <1>3, <1>5 DEF e

\* What is left over has no complete unit, and begins with the last start code.
LEMMA LeftoverMeans ==
    ASSUME NEW bytes \in Seq(Bytes)
    PROVE  /\ Leftover(bytes) \in Seq(Bytes) /\ Len(Leftover(bytes)) <= Len(bytes)
           /\ Agree(Leftover(bytes), bytes, Len(bytes) - Len(Leftover(bytes)), 1,
                    Len(Leftover(bytes)))
           /\ SpansOf(Leftover(bytes)) = {}
           /\ Leftover(bytes) = bytes \/ 1 \in StartsOf(Leftover(bytes))
<1> DEFINE rest == Leftover(bytes)
<1>0. Len(bytes) \in Nat
  OBVIOUS
<1>1. CASE SpansOf(bytes) = {}
  <2>1. rest = bytes
    BY <1>1 DEF Leftover
  <2>2. Agree(bytes, bytes, Len(bytes) - Len(bytes), 1, Len(bytes))
    BY <1>0 DEF Agree
  <2> QED
    BY <1>0, <1>1, <2>1, <2>2
<1>2. CASE SpansOf(bytes) # {}
  <2> DEFINE last == CHOOSE i \in StartsOf(bytes) : \A j \in StartsOf(bytes) : j <= i
  <2>1. rest = SubSeq(bytes, last, Len(bytes))
    BY <1>2 DEF Leftover
  <2>2. StartsOf(bytes) \subseteq 1 .. Len(bytes) /\ StartsOf(bytes) # {}
    BY <1>0, <1>2 DEF StartsOf, SpansOf
  <2>3. last \in StartsOf(bytes) /\ \A j \in StartsOf(bytes) : j <= last
    <3>1. \E i \in StartsOf(bytes) : \A j \in StartsOf(bytes) : j <= i
      BY <1>0, <2>2, GreatestExists
    <3> QED
      BY <3>1
  <2> HIDE DEF last, rest
  <2>4. last \in 1 .. Len(bytes) - 2 /\ last - 1 + 1 = last /\ last - 1 \in 0 .. Len(bytes)
    BY <1>0, <2>3 DEF StartsOf
  <2>5. /\ rest \in Seq(Bytes) /\ Len(rest) = Len(bytes) - (last - 1)
        /\ Agree(rest, bytes, last - 1, 1, Len(rest))
    BY <2>1, <2>4, EndOf
  <2>6. \A i \in 1 .. Len(rest) - 2 : i \in StartsOf(rest) <=> i + (last - 1) \in StartsOf(bytes)
    BY <2>4, <2>5, AgreeingUnits
  <2>7. 1 \in StartsOf(rest)
    BY <1>0, <2>3, <2>4, <2>5, <2>6
  <2>8. \A i \in StartsOf(rest) : i = 1
    <3> TAKE i \in StartsOf(rest)
    <3>1. i \in 1 .. Len(rest) - 2
      BY DEF StartsOf
    <3>2. i + (last - 1) <= last
      BY <2>3, <2>6, <3>1
    <3> QED
      BY <2>4, <3>1, <3>2
  <2>9. SpansOf(rest) = {}
    BY <2>8 DEF SpansOf
  <2>10. Len(bytes) - Len(rest) = last - 1 /\ Len(rest) <= Len(bytes)
    BY <1>0, <2>4, <2>5
  <2> QED
    BY <2>5, <2>7, <2>9, <2>10 DEF rest
<1> QED
  BY <1>1, <1>2

\* What is scanned is the end of what was left over and the chunk.
LEMMA ScannedMeans ==
    ASSUME scan \in Seq(Bytes), NEW chunk \in Seq(Bytes)
    PROVE  /\ Scanned(chunk) \in Seq(Bytes) /\ Len(Scanned(chunk)) <= Len(scan) + Len(chunk)
           /\ Len(Scanned(chunk)) <= MaxScan
           /\ Agree(Scanned(chunk), scan \o chunk,
                    Len(scan) + Len(chunk) - Len(Scanned(chunk)), 1, Len(Scanned(chunk)))
<1> DEFINE bytes == scan \o chunk
<1>1. bytes \in Seq(Bytes) /\ Len(bytes) = Len(scan) + Len(chunk) /\ Len(bytes) \in Nat
  BY ConcatProperties
<1> HIDE DEF bytes
<1>2. Scanned(chunk) = IF Len(bytes) > MaxScan
                         THEN SubSeq(bytes, Len(bytes) - MaxScan + 1, Len(bytes)) ELSE bytes
  BY DEF Scanned, bytes
<1>3. CASE Len(bytes) > MaxScan
  <2> DEFINE n == Len(bytes) - MaxScan
  <2>1. n \in 0 .. Len(bytes) /\ Len(bytes) - n = MaxScan
    BY <1>1, <1>3, ScanAssumption
  <2>2. Scanned(chunk) = SubSeq(bytes, n + 1, Len(bytes))
    BY <1>2, <1>3
  <2> HIDE DEF n
  <2>3. /\ Scanned(chunk) \in Seq(Bytes) /\ Len(Scanned(chunk)) = MaxScan
        /\ Agree(Scanned(chunk), bytes, n, 1, MaxScan)
    BY <1>1, <2>1, <2>2, EndOf
  <2>4. n = Len(bytes) - Len(Scanned(chunk))
    BY <2>3 DEF n
  <2> QED
    BY <1>1, <1>3, <2>3, <2>4 DEF bytes
<1>4. CASE ~ (Len(bytes) > MaxScan)
  <2>1. Scanned(chunk) = bytes /\ Len(bytes) <= MaxScan
    BY <1>1, <1>2, <1>4, ScanAssumption
  <2>2. Agree(bytes, bytes, Len(bytes) - Len(bytes), 1, Len(bytes))
    BY <1>1 DEF Agree
  <2> QED
    BY <1>1, <2>1, <2>2 DEF bytes
<1> QED
  BY <1>3, <1>4

\* A unit that is cut out is made of the bytes of its span.
LEMMA CutIsBytes ==
    ASSUME NEW b \in Seq(Bytes), NEW s \in SpansOf(b)
    PROVE  /\ Cut(b, s) \in Seq(Bytes) /\ Len(Cut(b, s)) = s[2] - s[1]
           /\ Agree(Cut(b, s), b, s[1] - 1, 1, s[2] - s[1])
<1> DEFINE u == SubSeq(b, s[1], s[2] - 1)
<1>1. s[1] < s[2] /\ s[1] \in 1 .. Len(b) - 2 /\ s[2] \in 1 .. Len(b) - 2 /\ Len(b) \in Nat
  BY SpanFacts
<1>2. \A k \in s[1] .. s[2] - 1 : b[k] \in Bytes
  BY <1>1, ElementOfSeq
<1>3. /\ u \in Seq(Bytes)
      /\ Len(u) = IF s[1] <= s[2] - 1 THEN s[2] - 1 - s[1] + 1 ELSE 0
      /\ \A k \in 1 .. s[2] - 1 - s[1] + 1 : u[k] = b[s[1] + k - 1]
  <2> DEFINE m == s[1]
             n == s[2] - 1
  <2>1. m \in Int /\ n \in Int /\ \A k \in m .. n : b[k] \in Bytes
    BY <1>1, <1>2
  <2> HIDE DEF m, n
  <2>2. /\ SubSeq(b, m, n) \in Seq(Bytes)
        /\ Len(SubSeq(b, m, n)) = IF m <= n THEN n - m + 1 ELSE 0
        /\ \A k \in 1 .. n - m + 1 : SubSeq(b, m, n)[k] = b[m + k - 1]
    BY <2>1, SubSeqProperties
  <2> QED
    BY <2>2 DEF m, n
<1>4. u = Cut(b, s)
  BY DEF Cut
<1> HIDE DEF u
<1>5. Len(u) = s[2] - s[1]
  BY <1>1, <1>3
<1>6. \A k \in 1 .. s[2] - s[1] : u[k] = b[k + (s[1] - 1)]
  <2> TAKE k \in 1 .. s[2] - s[1]
  <2>1. k \in 1 .. s[2] - 1 - s[1] + 1 /\ s[1] + k - 1 = k + (s[1] - 1)
    BY <1>1
  <2> QED
    BY <1>3, <2>1
<1>7. 1 <= 1 + (s[1] - 1) /\ s[2] - s[1] + (s[1] - 1) <= Len(b)
  BY <1>1
<1>8. Agree(u, b, s[1] - 1, 1, s[2] - s[1])
  BY <1>5, <1>6, <1>7, <1>1 DEF Agree
<1> QED
  BY <1>3, <1>4, <1>5, <1>8

\* The units of the end of a sequence are units of the sequence.
LEMMA UnitsOfEnd ==
    ASSUME NEW e \in Seq(Bytes), NEW b \in Seq(Bytes), NEW d \in Int, NEW lo \in Int,
           Agree(e, b, d, lo, Len(e))
    PROVE  \A s \in SpansOf(e) :
               s[1] >= lo => /\ <<s[1] + d, s[2] + d>> \in SpansOf(b)
                             /\ Cut(e, s) = Cut(b, <<s[1] + d, s[2] + d>>)
<1> DEFINE hi == Len(e)
<1>3. /\ \A i, j \in lo .. hi - 2 :
             <<i, j>> \in SpansOf(e) <=> <<i + d, j + d>> \in SpansOf(b)
      /\ \A i, j \in lo .. hi - 2 :
             <<i, j>> \in SpansOf(e) => Cut(e, <<i, j>>) = Cut(b, <<i + d, j + d>>)
  <2>1. hi \in Int /\ Agree(e, b, d, lo, hi)
    OBVIOUS
  <2> HIDE DEF hi
  <2> QED
    BY <2>1, AgreeingUnits
<1> TAKE s \in SpansOf(e)
<1> HAVE s[1] >= lo
<1>1. s = <<s[1], s[2]>> /\ s[1] \in lo .. hi - 2 /\ s[2] \in lo .. hi - 2
  BY SpanFacts
<1>2. <<s[1], s[2]>> \in SpansOf(e)
  BY <1>1
<1> HIDE DEF hi
<1>4. /\ <<s[1] + d, s[2] + d>> \in SpansOf(b)
      /\ Cut(e, <<s[1], s[2]>>) = Cut(b, <<s[1] + d, s[2] + d>>)
  BY <1>1, <1>2, <1>3
<1> QED
  BY <1>1, <1>4

\* e is the end of b, from place off + 1 on.
IsEnd(e, b, off) == off \in Nat /\ Len(e) = Len(b) - off /\ Agree(e, b, off, 1, Len(e))

\* An end has the start codes and units that begin in it, and no others.
LEMMA EndUnits ==
    ASSUME NEW e \in Seq(Bytes), NEW b \in Seq(Bytes), NEW off, IsEnd(e, b, off)
    PROVE  /\ \A i \in 1 .. Len(e) - 2 : i \in StartsOf(e) <=> i + off \in StartsOf(b)
           /\ \A s \in SpansOf(e) : /\ <<s[1] + off, s[2] + off>> \in SpansOf(b)
                                    /\ Cut(e, s) = Cut(b, <<s[1] + off, s[2] + off>>)
           /\ \A s \in SpansOf(b) :
                  s[1] > off => /\ <<s[1] - off, s[2] - off>> \in SpansOf(e)
                                /\ Cut(e, <<s[1] - off, s[2] - off>>) = Cut(b, s)
<1>1. off \in Nat /\ off \in Int /\ Len(e) \in Int /\ Len(b) \in Int /\ 1 \in Int
  BY DEF IsEnd
<1>2. Agree(e, b, off, 1, Len(e))
  BY DEF IsEnd
<1>3. /\ \A i \in 1 .. Len(e) - 2 : i \in StartsOf(e) <=> i + off \in StartsOf(b)
      /\ \A i, j \in 1 .. Len(e) - 2 :
             <<i, j>> \in SpansOf(e) <=> <<i + off, j + off>> \in SpansOf(b)
      /\ \A i, j \in 1 .. Len(e) - 2 :
             <<i, j>> \in SpansOf(e) => Cut(e, <<i, j>>) = Cut(b, <<i + off, j + off>>)
  BY <1>1, <1>2, AgreeingUnits
<1>4. ASSUME NEW s \in SpansOf(e)
      PROVE  /\ <<s[1] + off, s[2] + off>> \in SpansOf(b)
             /\ Cut(e, s) = Cut(b, <<s[1] + off, s[2] + off>>)
  <2>1. s[1] >= 1 /\ s = <<s[1], s[2]>>
    BY SpanFacts
  <2> QED
    BY <1>1, <1>2, <2>1, UnitsOfEnd
<1>5. ASSUME NEW s \in SpansOf(b), s[1] > off
      PROVE  /\ <<s[1] - off, s[2] - off>> \in SpansOf(e)
             /\ Cut(e, <<s[1] - off, s[2] - off>>) = Cut(b, s)
  <2> DEFINE i == s[1] - off
             j == s[2] - off
  <2>1. s = <<s[1], s[2]>> /\ s[1] < s[2] /\ s[1] \in Nat /\ s[2] \in 1 .. Len(b) - 2
    BY SpanFacts
  <2>2. Len(e) = Len(b) - off
    BY DEF IsEnd
  <2>3. i \in 1 .. Len(e) - 2 /\ j \in 1 .. Len(e) - 2 /\ i + off = s[1] /\ j + off = s[2]
    BY <1>1, <1>5, <2>1, <2>2
  <2>4. <<i + off, j + off>> = s
    BY <2>1, <2>3
  <2> HIDE DEF i, j
  <2>5. <<i, j>> \in SpansOf(e)
    BY <1>3, <2>3, <2>4
  <2>6. Cut(e, <<i, j>>) = Cut(b, s)
    BY <1>3, <2>3, <2>4, <2>5
  <2> QED
    BY <2>5, <2>6 DEF i, j
<1> QED
  BY <1>3, <1>4, <1>5

\* A sequence begins as what it was made of, and ends as what was appended.
LEMMA ConcatAgrees ==
    ASSUME NEW b \in Seq(Bytes), NEW c \in Seq(Bytes)
    PROVE  /\ b \o c \in Seq(Bytes) /\ Len(b \o c) = Len(b) + Len(c)
           /\ Agree(b, b \o c, 0, 1, Len(b))
           /\ Agree(c, b \o c, Len(b), 1, Len(c))
<1> DEFINE g == b \o c
<1>1. /\ g \in Seq(Bytes) /\ Len(g) = Len(b) + Len(c) /\ Len(b) \in Nat /\ Len(c) \in Nat
      /\ \A i \in 1 .. Len(b) + Len(c) : g[i] = IF i <= Len(b) THEN b[i] ELSE c[i - Len(b)]
  BY ConcatProperties
<1> HIDE DEF g
<1>2. Agree(b, g, 0, 1, Len(b))
  BY <1>1 DEF Agree
<1>3. \A i \in 1 .. Len(c) : c[i] = g[i + Len(b)]
  BY <1>1
<1>4. Agree(c, g, Len(b), 1, Len(c))
  BY <1>1, <1>3 DEF Agree
<1> QED
  BY <1>1, <1>2, <1>4 DEF g

\* What is read later leaves the starts and spans there are.
LEMMA GrownSpans ==
    ASSUME NEW b \in Seq(Bytes), NEW g \in Seq(Bytes), Agree(b, g, 0, 1, Len(b))
    PROVE  /\ \A i \in 1 .. Len(b) - 2 : i \in StartsOf(b) <=> i \in StartsOf(g)
           /\ \A s : s \in SpansOf(b) <=> s \in SpansOf(g) /\ s[2] <= Len(b) - 2
           /\ \A s \in SpansOf(b) : Cut(b, s) = Cut(g, s)
           /\ UnitsOf(b) \subseteq UnitsOf(g)
<1>1. Len(b) \in Nat /\ Len(g) \in Nat
  OBVIOUS
<1>2. Agree(b, g, 0, 1, Len(b))
  OBVIOUS
<1>3. \A i \in Int : i + 0 = i
  OBVIOUS
<1>4. /\ \A i \in 1 .. Len(b) - 2 : i \in StartsOf(b) <=> i + 0 \in StartsOf(g)
      /\ \A i, j \in 1 .. Len(b) - 2 : <<i, j>> \in SpansOf(b) <=> <<i + 0, j + 0>> \in SpansOf(g)
      /\ \A i, j \in 1 .. Len(b) - 2 :
             <<i, j>> \in SpansOf(b) => Cut(b, <<i, j>>) = Cut(g, <<i + 0, j + 0>>)
  BY <1>1, <1>2, AgreeingUnits
<1>5. \A i \in 1 .. Len(b) - 2 : i \in StartsOf(b) <=> i \in StartsOf(g)
  BY <1>1, <1>3, <1>4
<1>6. ASSUME NEW s \in SpansOf(b)
      PROVE  s \in SpansOf(g) /\ s[2] <= Len(b) - 2 /\ Cut(b, s) = Cut(g, s)
  <2>1. s = <<s[1], s[2]>> /\ s[1] \in 1 .. Len(b) - 2 /\ s[2] \in 1 .. Len(b) - 2
    BY SpanFacts
  <2>2. s[1] + 0 = s[1] /\ s[2] + 0 = s[2]
    BY <2>1
  <2>3. <<s[1], s[2]>> \in SpansOf(b)
    BY <2>1
  <2> QED
    BY <1>4, <2>1, <2>2, <2>3
<1>7. ASSUME NEW s \in SpansOf(g), s[2] <= Len(b) - 2
      PROVE  s \in SpansOf(b)
  <2>1. s = <<s[1], s[2]>> /\ s[1] \in 1 .. Len(b) - 2 /\ s[2] \in 1 .. Len(b) - 2
    BY <1>1, <1>7, SpanFacts
  <2>2. s[1] + 0 = s[1] /\ s[2] + 0 = s[2]
    BY <2>1
  <2>3. <<s[1], s[2]>> \in SpansOf(g)
    BY <2>1
  <2> QED
    BY <1>4, <2>1, <2>2, <2>3
<1>8. UnitsOf(b) \subseteq UnitsOf(g)
  BY <1>6 DEF UnitsOf
<1> QED
  BY <1>5, <1>6, <1>7, <1>8

-----------------------------------------------------------------------------
(* The preamble: the invariant of the scan and the step that reads *)

\* What is cached is a unit of the camera, and of its kind.
CacheOfUnits ==
    \A k \in Kinds : cache[k] # << >> =>
        cache[k] \in UnitsOf(received) /\ Recorded(cache[k]) /\ KindOf(cache[k]) = k

\* As long as nothing was cut off the scan, it is the newest there is.
CacheIsNewest == ~cut => \A k \in Kinds : IsNewest(received, k, cache[k])

\* What is left over is the end of what was read and has no complete unit; as long as
\* nothing was cut off, it begins where the last unit does, or with everything.
ScanIsEnd ==
    /\ IsEnd(scan, received, Len(received) - Len(scan))
    /\ SpansOf(scan) = {}
    /\ ~cut => Len(scan) = Len(received) \/ 1 \in StartsOf(scan)

ScanInv == CacheOfUnits /\ CacheIsNewest /\ ScanIsEnd

\* A step that reads: the chunk, what is scanned, and where that is in what was read.
LEMMA ReadMeans ==
    ASSUME ScanTypeOK, NEW n \in 1 .. ChunkSize, ReadChunk(n)
    PROVE  \E chunk \in Seq(Bytes), bytes \in Seq(Bytes) :
               /\ received' = received \o chunk
               /\ bytes = Scanned(chunk) /\ Len(bytes) <= MaxScan
               /\ Len(bytes) <= Len(scan) + Len(chunk)
               /\ Agree(bytes, scan \o chunk, Len(scan) + Len(chunk) - Len(bytes), 1, Len(bytes))
               /\ cache' = [k \in Kinds |-> Cached(bytes, k)]
               /\ scan' = Leftover(bytes)
               /\ cut' = (cut \/ bytes # scan \o chunk)
               /\ viewer' = IF viewer = NoViewer THEN NoViewer ELSE viewer \o chunk
               /\ pipe' \in Seq(Bytes)
               /\ UNCHANGED <<count, live>>
<1> DEFINE chunk == SubSeq(pipe, 1, n)
           bytes == Scanned(chunk)
<1>1. pipe \in Seq(Bytes) /\ scan \in Seq(Bytes) /\ received \in Seq(Bytes)
  BY DEF ScanTypeOK
<1>2. n \in 0 .. Len(pipe) /\ n \in Nat /\ n <= Len(pipe)
  BY <1>1, ScanAssumption DEF ReadChunk
<1>3. chunk \in Seq(Bytes)
  <2>1. \A i \in 1 .. n : pipe[i] \in Bytes
    BY <1>1, <1>2, ElementOfSeq
  <2> QED
    BY <1>2, <2>1, SubSeqProperties
<1>4. pipe' \in Seq(Bytes)
  <2>1. pipe' = SubSeq(pipe, n + 1, Len(pipe))
    BY DEF ReadChunk
  <2> QED
    BY <1>1, <1>2, <2>1, EndOf
<1>5. /\ received' = received \o chunk
      /\ cache' = [k \in Kinds |-> Cached(bytes, k)]
      /\ scan' = Leftover(bytes)
      /\ cut' = (cut \/ bytes # scan \o chunk)
      /\ viewer' = IF viewer = NoViewer THEN NoViewer ELSE viewer \o chunk
      /\ UNCHANGED <<count, live>>
  BY DEF ReadChunk
<1> HIDE DEF chunk
<1>6. /\ bytes \in Seq(Bytes) /\ Len(bytes) <= MaxScan
      /\ Len(bytes) <= Len(scan) + Len(chunk)
      /\ Agree(bytes, scan \o chunk, Len(scan) + Len(chunk) - Len(bytes), 1, Len(bytes))
  BY <1>1, <1>3, ScannedMeans
<1> QED
  BY <1>3, <1>4, <1>5, <1>6

\* What is left over is the end of the stream r, has no complete unit, and begins
\* where the last unit does, or with everything.
ScanRests(r, off) ==
    /\ IsEnd(scan, r, off)
    /\ SpansOf(scan) = {}
    /\ off = 0 \/ 1 \in StartsOf(scan)

\* A scan of the end of the stream r, now g: what is cached is the newest of the whole.
LEMMA ScanFindsNewest ==
    ASSUME NEW r \in Seq(Bytes), NEW g \in Seq(Bytes), NEW bytes \in Seq(Bytes),
           scan \in Seq(Bytes), Agree(r, g, 0, 1, Len(r)),
           NEW off \in Nat, ScanRests(r, off), IsEnd(bytes, g, off),
           NEW k, IsNewest(r, k, cache[k])
    PROVE  IsNewest(g, k, Cached(bytes, k))
<1>1. Len(r) \in Nat /\ Len(g) \in Nat /\ Len(scan) \in Nat /\ Len(bytes) \in Nat
  OBVIOUS
<1>2. IsEnd(scan, r, off)
  BY DEF ScanRests
<1>3. /\ \A s : s \in SpansOf(r) <=> s \in SpansOf(g) /\ s[2] <= Len(r) - 2
      /\ \A s \in SpansOf(r) : Cut(r, s) = Cut(g, s)
  BY GrownSpans
<1>4. \A i \in 1 .. Len(r) - 2 : i \in StartsOf(r) => i \in StartsOf(g)
  BY GrownSpans
\* Spans of the stream are old, or begin in what is scanned.
<1>5. ASSUME NEW s \in SpansOf(g), s[1] <= off
      PROVE  s \in SpansOf(r)
  <2>1. s[1] \in Nat /\ s[1] >= 1 /\ s[2] \in Nat
    BY SpanFacts
  <2>2. 1 \in StartsOf(scan) /\ 1 \in 1 .. Len(scan) - 2
    BY <1>5, <2>1 DEF ScanRests, StartsOf
  <2>3. 1 + off \in StartsOf(r)
    BY <1>2, <2>2, EndUnits
  <2>4. off + 1 \in 1 .. Len(r) - 2
    BY <1>1, <1>2, <2>2 DEF IsEnd
  <2>5. off + 1 \in StartsOf(g)
    BY <1>4, <2>3, <2>4
  <2>6. s[2] <= off + 1
    BY <1>5, <2>1, <2>5, SpanFacts
  <2> QED
    BY <1>1, <1>3, <2>1, <2>4, <2>6
<1>6. ASSUME NEW s \in SpansOf(g), s[1] > off
      PROVE  /\ <<s[1] - off, s[2] - off>> \in SpansOf(bytes)
             /\ Cut(bytes, <<s[1] - off, s[2] - off>>) = Cut(g, s)
  BY <1>6, EndUnits
<1>7. ASSUME NEW s \in SpansOf(bytes)
      PROVE  /\ <<s[1] + off, s[2] + off>> \in SpansOf(g)
             /\ Cut(bytes, s) = Cut(g, <<s[1] + off, s[2] + off>>)
  BY EndUnits
<1>9. CASE Candidates(bytes, k) = {} /\ Cached(bytes, k) = cache[k]
  <2>1. Candidates(g, k) = Candidates(r, k)
    <3>1. ASSUME NEW s \in Candidates(g, k)
          PROVE  s \in Candidates(r, k)
      <4>1. s \in SpansOf(g) /\ Recorded(Cut(g, s)) /\ KindOf(Cut(g, s)) = k
        BY DEF Candidates
      <4>2. ~ (s[1] > off)
        BY <1>6, <1>9, <4>1 DEF Candidates
      <4>3. s \in SpansOf(r)
        BY <1>1, <1>5, <4>1, <4>2, SpanFacts
      <4> QED
        BY <1>3, <4>1, <4>3 DEF Candidates
    <3>2. ASSUME NEW s \in Candidates(r, k)
          PROVE  s \in Candidates(g, k)
      BY <1>3 DEF Candidates
    <3> QED
      BY <3>1, <3>2
  <2>2. \A s \in Candidates(r, k) : Cut(r, s) = Cut(g, s)
    BY <1>3 DEF Candidates
  <2> QED
    BY <1>9, <2>1, <2>2 DEF IsNewest
<1>10. ASSUME NEW m \in Candidates(bytes, k), Cached(bytes, k) = Cut(bytes, m),
              \A t \in Candidates(bytes, k) : t[1] <= m[1]
       PROVE  IsNewest(g, k, Cached(bytes, k))
  <2> DEFINE m2 == <<m[1] + off, m[2] + off>>
  <2>1. m \in SpansOf(bytes) /\ m[1] \in Nat /\ m[1] >= 1
    BY <1>1, SpanFacts DEF Candidates
  <2>2. m2 \in Candidates(g, k) /\ Cut(bytes, m) = Cut(g, m2) /\ m2[1] = m[1] + off
    BY <1>7, <2>1 DEF Candidates
  <2>3. ASSUME NEW t \in Candidates(g, k)
        PROVE  t[1] <= m2[1]
    <3>1. t \in SpansOf(g) /\ t[1] \in Nat
      BY <1>1, SpanFacts DEF Candidates
    <3>2. CASE t[1] <= off
      BY <1>1, <2>1, <2>2, <3>1, <3>2
    <3>3. CASE t[1] > off
      <4>1. <<t[1] - off, t[2] - off>> \in Candidates(bytes, k)
        BY <1>6, <3>1, <3>3 DEF Candidates
      <4>2. t[1] - off <= m[1]
        BY <1>10, <4>1
      <4> QED
        BY <1>1, <2>1, <2>2, <3>1, <4>2
    <3> QED
      BY <1>1, <3>1, <3>2, <3>3
  <2> HIDE DEF m2
  <2> QED
    BY <1>10, <2>2, <2>3 DEF IsNewest
<1> QED
  BY <1>9, <1>10, CachedMeans

\* The end of an end is an end.
LEMMA EndOfEnd ==
    ASSUME NEW e, NEW b, NEW c, NEW d1, NEW d2,
           Len(b) \in Nat, Len(c) \in Nat, Len(e) \in Nat, IsEnd(e, b, d1), IsEnd(b, c, d2)
    PROVE  IsEnd(e, c, d1 + d2)
<1>1. /\ d1 \in Nat /\ d2 \in Nat /\ d1 + d2 \in Nat
      /\ Len(e) = Len(b) - d1 /\ Len(b) = Len(c) - d2
  BY DEF IsEnd
<1>2. Len(e) = Len(c) - (d1 + d2)
  BY <1>1
<1>3. \A i \in 1 .. Len(e) : e[i] = c[i + (d1 + d2)]
  <2> TAKE i \in 1 .. Len(e)
  <2>0. \A k \in 1 .. Len(b) : b[k] = c[k + d2]
    BY DEF IsEnd, Agree
  <2>1. e[i] = b[i + d1]
    BY DEF IsEnd, Agree
  <2>4. i + d1 \in 1 .. Len(b)
    BY <1>1
  <2>2. b[i + d1] = c[i + d1 + d2]
    BY <2>0, <2>4
  <2>3. i + d1 + d2 = i + (d1 + d2)
    BY <1>1
  <2> QED
    BY <2>1, <2>2, <2>3
<1> QED
  BY <1>1, <1>2, <1>3 DEF IsEnd, Agree

\* Where the ends of two sequences agree, they agree when both get a chunk.
LEMMA AgreeGrows ==
    ASSUME NEW e \in Seq(Bytes), NEW b \in Seq(Bytes), NEW c \in Seq(Bytes),
           NEW d \in Int, NEW lo \in Int,
           Agree(e, b, d, lo, Len(e)), Len(b) - Len(e) = d
    PROVE  Agree(e \o c, b \o c, d, lo, Len(e \o c))
<1> DEFINE x == e \o c
           y == b \o c
<1>1. /\ Len(x) = Len(e) + Len(c) /\ Len(y) = Len(b) + Len(c)
      /\ Len(e) \in Nat /\ Len(b) \in Nat /\ Len(c) \in Nat
  BY ConcatProperties
<1>2. \A i \in 1 .. Len(e) + Len(c) : x[i] = IF i <= Len(e) THEN e[i] ELSE c[i - Len(e)]
  BY ConcatProperties
<1>3. \A i \in 1 .. Len(b) + Len(c) : y[i] = IF i <= Len(b) THEN b[i] ELSE c[i - Len(b)]
  BY ConcatProperties
<1> HIDE DEF x, y
<1>4. 1 <= lo /\ 1 <= lo + d /\ \A i \in lo .. Len(e) : e[i] = b[i + d]
  BY DEF Agree
<1>5. ASSUME NEW i \in lo .. Len(x)
      PROVE  x[i] = y[i + d]
  <2>1. i \in 1 .. Len(e) + Len(c) /\ i + d \in 1 .. Len(b) + Len(c)
    BY <1>1, <1>4
  <2>2. x[i] = IF i <= Len(e) THEN e[i] ELSE c[i - Len(e)]
    BY <1>2, <2>1
  <2>3. y[i + d] = IF i + d <= Len(b) THEN b[i + d] ELSE c[i + d - Len(b)]
    BY <1>3, <2>1
  <2>4. CASE i <= Len(e)
    <3>1. i \in lo .. Len(e) /\ i + d <= Len(b)
      BY <1>1, <2>4
    <3>2. e[i] = b[i + d]
      BY <1>4, <3>1
    <3>3. x[i] = e[i]
      BY <2>2, <2>4
    <3>4. y[i + d] = b[i + d]
      BY <2>3, <3>1
    <3> QED
      BY <3>2, <3>3, <3>4
  <2>5. CASE i > Len(e)
    <3>1. \A k, m, n \in Int : n - m = d /\ k > m
              => k - m = k + d - n /\ ~ (k <= m) /\ ~ (k + d <= n)
      OBVIOUS
    <3>2. i \in Int /\ Len(e) \in Int /\ Len(b) \in Int /\ Len(b) - Len(e) = d
      BY <1>1, <2>1
    <3>3. i - Len(e) = i + d - Len(b) /\ ~ (i <= Len(e)) /\ ~ (i + d <= Len(b))
      BY <2>5, <3>1, <3>2
    <3> QED
      BY <2>2, <2>3, <3>3
  <2> QED
    BY <1>1, <2>4, <2>5
<1>6. Len(x) + d <= Len(y)
  BY <1>1
<1> QED
  BY <1>4, <1>5, <1>6 DEF Agree, x, y

\* If e ends b, then e and a chunk end b and the chunk.
LEMMA EndGrows ==
    ASSUME NEW e \in Seq(Bytes), NEW b \in Seq(Bytes), NEW c \in Seq(Bytes), NEW d,
           IsEnd(e, b, d)
    PROVE  IsEnd(e \o c, b \o c, d)
<1>1. /\ d \in Nat /\ d \in Int /\ 1 \in Int /\ Len(b) - Len(e) = d
      /\ Len(e) = Len(b) - d /\ Agree(e, b, d, 1, Len(e))
  BY DEF IsEnd
<1>2. Agree(e \o c, b \o c, d, 1, Len(e \o c))
  BY <1>1, AgreeGrows
<1>3. Len(e \o c) = Len(b \o c) - d
  <2>1. /\ Len(e \o c) = Len(e) + Len(c) /\ Len(b \o c) = Len(b) + Len(c)
        /\ Len(e) \in Nat /\ Len(b) \in Nat /\ Len(c) \in Nat
    BY ConcatAgrees
  <2> QED
    BY <1>1, <2>1
<1> QED
  BY <1>1, <1>2, <1>3 DEF IsEnd

\* Reading a chunk keeps what is known of the cache and of the scan.
LEMMA ReadKeepsScan ==
    ASSUME ScanTypeOK, ScanInv, NEW n \in 1 .. ChunkSize, ReadChunk(n)
    PROVE  ScanInv'
<1>1. PICK chunk \in Seq(Bytes), bytes \in Seq(Bytes) :
          /\ received' = received \o chunk
          /\ bytes = Scanned(chunk) /\ Len(bytes) <= MaxScan
          /\ Len(bytes) <= Len(scan) + Len(chunk)
          /\ Agree(bytes, scan \o chunk, Len(scan) + Len(chunk) - Len(bytes), 1, Len(bytes))
          /\ cache' = [k \in Kinds |-> Cached(bytes, k)]
          /\ scan' = Leftover(bytes)
          /\ cut' = (cut \/ bytes # scan \o chunk)
  BY ReadMeans
<1>2. /\ scan \in Seq(Bytes) /\ received \in Seq(Bytes)
      /\ Len(scan) \in Nat /\ Len(received) \in Nat
  BY DEF ScanTypeOK
<1> DEFINE g == received \o chunk
           both == scan \o chunk
           off == Len(received) - Len(scan)
           dropped == Len(both) - Len(bytes)
           rest == Leftover(bytes)
           behind == Len(bytes) - Len(rest)
<1>3. /\ g \in Seq(Bytes) /\ Len(g) = Len(received) + Len(chunk)
      /\ both \in Seq(Bytes) /\ Len(both) = Len(scan) + Len(chunk)
      /\ Len(chunk) \in Nat /\ Len(both) \in Nat /\ Len(bytes) \in Nat /\ Len(g) \in Nat
      /\ Agree(received, g, 0, 1, Len(received))
  BY <1>2, ConcatAgrees
<1>4. off \in Nat /\ IsEnd(scan, received, off) /\ SpansOf(scan) = {}
  BY DEF ScanInv, ScanIsEnd, IsEnd
<1>5. IsEnd(both, g, off)
  BY <1>2, <1>4, EndGrows
<1>6. IsEnd(bytes, both, dropped)
  <2>1. dropped \in Nat /\ Len(bytes) = Len(both) - dropped
    BY <1>1, <1>3
  <2>2. Len(scan) + Len(chunk) - Len(bytes) = dropped
    BY <1>3
  <2> HIDE DEF dropped
  <2> QED
    BY <1>1, <2>1, <2>2 DEF IsEnd
<1>7. /\ rest \in Seq(Bytes) /\ Len(rest) \in Nat
      /\ IsEnd(rest, bytes, behind)
      /\ SpansOf(rest) = {}
      /\ rest = bytes \/ 1 \in StartsOf(rest)
  <2>1. /\ rest \in Seq(Bytes) /\ Len(rest) <= Len(bytes) /\ SpansOf(rest) = {}
        /\ Agree(rest, bytes, behind, 1, Len(rest))
        /\ rest = bytes \/ 1 \in StartsOf(rest)
    BY LeftoverMeans
  <2>2. Len(rest) \in Nat
    BY <2>1
  <2> HIDE DEF rest
  <2>3. behind \in Nat /\ Len(rest) = Len(bytes) - behind
    BY <1>3, <2>1, <2>2
  <2> QED
    BY <2>1, <2>2, <2>3 DEF IsEnd
<1> HIDE DEF g, both, off, dropped, rest, behind
<1>8. IsEnd(bytes, g, dropped + off)
  BY <1>3, <1>5, <1>6, EndOfEnd
<1>9. IsEnd(rest, g, behind + (dropped + off))
  BY <1>3, <1>7, <1>8, EndOfEnd
<1>10. cut' \/ bytes = both
  BY <1>1 DEF both
<1>11. ASSUME ~cut'
       PROVE  ~cut /\ bytes = both /\ dropped = 0 /\ dropped + off = off
  <2>1. ~cut /\ bytes = both
    BY <1>1, <1>11, Zenon DEF both
  <2>2. dropped = 0
    BY <1>3, <2>1 DEF dropped
  <2> QED
    BY <1>4, <2>1, <2>2
<1>12. ScanIsEnd'
  <2>1. IsEnd(scan, received, Len(received) - Len(scan))'
    <3>1. Len(g) - Len(rest) = behind + (dropped + off)
      BY <1>3, <1>7, <1>9 DEF IsEnd
    <3> QED
      BY <1>1, <1>9, <3>1 DEF g, rest
  <2>2. (SpansOf(scan) = {})'
    BY <1>1, <1>7 DEF rest
  <2>3. ASSUME ~cut', Len(rest) # Len(g)
        PROVE  1 \in StartsOf(rest)
    <3>1. CASE rest = bytes
      <4>1. off # 0
        BY <1>3, <1>5, <1>11, <2>3, <3>1 DEF IsEnd
      <4>2. 1 \in StartsOf(scan)
        BY <1>2, <1>11, <2>3, <4>1 DEF ScanInv, ScanIsEnd, off
      <4>3. 1 \in 1 .. Len(scan) - 2
        BY <4>2 DEF StartsOf
      <4>4. Agree(scan, both, 0, 1, Len(scan))
        BY <1>2, ConcatAgrees DEF both
      <4>5. 1 \in StartsOf(both)
        BY <1>2, <1>3, <4>2, <4>3, <4>4, GrownSpans
      <4> QED
        BY <1>11, <2>3, <3>1, <4>5
    <3> QED
      BY <1>7, <3>1
  <2> QED
    BY <1>1, <2>1, <2>2, <2>3 DEF ScanIsEnd, g, rest
<1>13. CacheIsNewest'
  <2> SUFFICES ASSUME ~cut', NEW k \in Kinds
               PROVE  IsNewest(g, k, Cached(bytes, k))
    BY <1>1 DEF CacheIsNewest, g
  <2>1. IsNewest(received, k, cache[k])
    BY <1>11 DEF ScanInv, CacheIsNewest
  <2>2. ScanRests(received, off)
    <3>1. off = 0 \/ 1 \in StartsOf(scan)
      BY <1>2, <1>11 DEF ScanInv, ScanIsEnd, off
    <3> QED
      BY <1>4, <3>1 DEF ScanRests
  <2>3. IsEnd(bytes, g, off)
    BY <1>5, <1>11
  <2> QED
    BY <1>2, <1>3, <1>4, <2>1, <2>2, <2>3, ScanFindsNewest
<1>14. CacheOfUnits'
  <2> SUFFICES ASSUME NEW k \in Kinds, Cached(bytes, k) # << >>
               PROVE  /\ Cached(bytes, k) \in UnitsOf(g)
                      /\ Recorded(Cached(bytes, k)) /\ KindOf(Cached(bytes, k)) = k
    BY <1>1 DEF CacheOfUnits, g
  <2>1. CASE Cached(bytes, k) = cache[k]
    <3>1. UnitsOf(received) \subseteq UnitsOf(g)
      BY <1>2, <1>3, GrownSpans
    <3> QED
      BY <2>1, <3>1 DEF ScanInv, CacheOfUnits
  <2>2. ASSUME NEW m \in Candidates(bytes, k), Cached(bytes, k) = Cut(bytes, m)
        PROVE  /\ Cached(bytes, k) \in UnitsOf(g)
               /\ Recorded(Cached(bytes, k)) /\ KindOf(Cached(bytes, k)) = k
    <3>1. m \in SpansOf(bytes) /\ Recorded(Cut(bytes, m)) /\ KindOf(Cut(bytes, m)) = k
      BY DEF Candidates
    <3>2. \E s \in SpansOf(g) : Cut(bytes, m) = Cut(g, s)
      <4>1. \A s \in SpansOf(bytes) :
                /\ <<s[1] + (dropped + off), s[2] + (dropped + off)>> \in SpansOf(g)
                /\ Cut(bytes, s)
                     = Cut(g, <<s[1] + (dropped + off), s[2] + (dropped + off)>>)
        BY <1>3, <1>8, EndUnits
      <4> QED
        BY <3>1, <4>1
    <3> QED
      BY <2>2, <3>1, <3>2 DEF UnitsOf
  <2> QED
    BY <2>1, <2>2, CachedMeans
<1> QED
  BY <1>12, <1>13, <1>14 DEF ScanInv

-----------------------------------------------------------------------------
(* The preamble: the theorems about the cache *)

\* A unit the camera sends is made of bytes.
LEMMA UnitsAreBytes ==
    ASSUME NEW u \in Units
    PROVE  u \in Seq(Bytes)
<1>1. u \in Seq(0 .. 255)
  BY ScanAssumption
<1>2. \A i \in 1 .. Len(u) : u[i] \in Bytes
  BY <1>1 DEF Bytes, Range
<1> DEFINE n == Len(u)
<1>3. n \in Nat /\ u = [i \in 1 .. n |-> u[i]]
  BY <1>1
<1> HIDE DEF n
<1>4. \A i \in 1 .. n : u[i] \in Bytes
  BY <1>2 DEF n
<1> QED
  BY <1>3, <1>4

\* A preamble is the parameter sets and what is there of a keyframe, or nothing.
LEMMA PreambleIsBytes ==
    ASSUME ScanTypeOK
    PROVE  /\ Preamble \in Seq(Bytes)
           /\ Preamble # << >> =>
                /\ Preamble = cache[SPS] \o cache[PPS] \o cache[IDR]
                /\ cache[SPS] # << >> /\ cache[PPS] # << >>
<1>1. /\ cache[SPS] \in Seq(Bytes) /\ cache[PPS] \in Seq(Bytes) /\ cache[IDR] \in Seq(Bytes)
  BY DEF ScanTypeOK, Kinds
<1>2. cache[SPS] \o cache[PPS] \in Seq(Bytes)
  BY <1>1, ConcatProperties
<1>3. cache[SPS] \o cache[PPS] \o cache[IDR] \in Seq(Bytes)
  BY <1>1, <1>2, ConcatProperties
<1>4. << >> \in Seq(Bytes)
  OBVIOUS
<1> QED
  BY <1>3, <1>4 DEF Preamble

\* The pump starts with nothing read, nothing left over and nothing cached.
LEMMA ScanInitInv == ScanInit => ScanTypeOK /\ ScanInv
<1> SUFFICES ASSUME ScanInit
             PROVE  ScanTypeOK /\ ScanInv
  OBVIOUS
<1>1. << >> \in Seq(Bytes) /\ Len(<< >>) = 0
  OBVIOUS
<1>2. ScanTypeOK
  <2>1. pipe \in Seq(Bytes) /\ received \in Seq(Bytes) /\ scan \in Seq(Bytes)
    BY <1>1 DEF ScanInit
  <2>2. cut \in BOOLEAN
    BY DEF ScanInit
  <2>3. cache \in [Kinds -> Seq(Bytes)]
    BY <1>1 DEF ScanInit
  <2>4. count \in 0 .. UnitCount /\ Len(scan) <= MaxScan /\ live \in 0 .. Len(received)
    BY <1>1, ScanAssumption DEF ScanInit
  <2>5. viewer = NoViewer
    BY DEF ScanInit
  <2> QED
    BY <2>1, <2>2, <2>3, <2>4, <2>5 DEF ScanTypeOK
<1>3. \A b : b = << >> => SpansOf(b) = {}
  BY DEF SpansOf, StartsOf
<1>4. CacheOfUnits
  BY DEF ScanInit, CacheOfUnits
<1>5. CacheIsNewest
  BY <1>3 DEF ScanInit, CacheIsNewest, IsNewest, Candidates
<1>6. ScanIsEnd
  BY <1>1, <1>3 DEF ScanInit, ScanIsEnd, IsEnd, Agree
<1> QED
  BY <1>2, <1>4, <1>5, <1>6 DEF ScanInv

\* Every step of the camera, the pump or a viewer keeps types and invariant.
LEMMA ScanStepKeepsInv ==
    ScanTypeOK /\ ScanInv /\ [ScanNext]_scanVars => ScanTypeOK' /\ ScanInv'
<1> SUFFICES ASSUME ScanTypeOK, ScanInv, [ScanNext]_scanVars
             PROVE  ScanTypeOK' /\ ScanInv'
  OBVIOUS
<1>1. ASSUME NEW unit \in Units, CameraUnit(unit)
      PROVE  ScanTypeOK' /\ ScanInv'
  <2>1. ScanTypeOK'
    BY <1>1, UnitsAreBytes, ScanAssumption DEF CameraUnit, ScanTypeOK
  <2>2. ScanInv'
    BY <1>1 DEF CameraUnit, ScanInv, CacheOfUnits, CacheIsNewest, ScanIsEnd,
                IsNewest, Candidates
  <2> QED
    BY <2>1, <2>2
<1>2. ASSUME NEW n \in 1 .. ChunkSize, ReadChunk(n)
      PROVE  ScanTypeOK' /\ ScanInv'
  <2>1. PICK chunk \in Seq(Bytes), bytes \in Seq(Bytes) :
            /\ received' = received \o chunk
            /\ bytes = Scanned(chunk) /\ Len(bytes) <= MaxScan
            /\ Len(bytes) <= Len(scan) + Len(chunk)
            /\ cache' = [k \in Kinds |-> Cached(bytes, k)]
            /\ scan' = Leftover(bytes)
            /\ cut' = (cut \/ bytes # scan \o chunk)
            /\ viewer' = IF viewer = NoViewer THEN NoViewer ELSE viewer \o chunk
            /\ pipe' \in Seq(Bytes)
            /\ UNCHANGED <<count, live>>
    BY <1>2, ReadMeans
  <2>2. received' \in Seq(Bytes) /\ Len(received') = Len(received) + Len(chunk)
    BY <2>1, ConcatAgrees DEF ScanTypeOK
  <2>3. viewer' = NoViewer \/ viewer' \in Seq(Bytes)
    <3>1. CASE viewer = NoViewer
      BY <2>1, <3>1
    <3>2. CASE viewer # NoViewer
      <4>1. viewer \in Seq(Bytes) /\ viewer \o chunk \in Seq(Bytes)
        BY <3>2, ConcatAgrees DEF ScanTypeOK
      <4> QED
        BY <2>1, <3>2, <4>1
    <3> QED
      BY <3>1, <3>2
  <2>4. scan' \in Seq(Bytes) /\ Len(scan') <= MaxScan
    <3>1. Leftover(bytes) \in Seq(Bytes) /\ Len(Leftover(bytes)) <= Len(bytes)
      BY LeftoverMeans
    <3>2. Len(Leftover(bytes)) \in Nat /\ Len(bytes) \in Nat
      BY <3>1
    <3>3. Len(Leftover(bytes)) <= MaxScan
      BY <2>1, <3>1, <3>2, ScanAssumption
    <3> QED
      BY <2>1, <3>1, <3>3
  <2>5. cache' \in [Kinds -> Seq(Bytes)]
    <3>1. ASSUME NEW k \in Kinds
          PROVE  Cached(bytes, k) \in Seq(Bytes)
      <4>1. cache[k] \in Seq(Bytes)
        BY DEF ScanTypeOK
      <4>2. \A s \in Candidates(bytes, k) : Cut(bytes, s) \in Seq(Bytes)
        BY CutIsBytes DEF Candidates
      <4> QED
        BY <4>1, <4>2, CachedMeans
    <3> QED
      BY <2>1, <3>1
  <2>6. cut' \in BOOLEAN
    <3>1. cut \in BOOLEAN
      BY DEF ScanTypeOK
    <3> QED
      BY <2>1, <3>1, Zenon
  <2>7. live' \in 0 .. Len(received') /\ count' \in 0 .. UnitCount
    <3>1. /\ live \in 0 .. Len(received) /\ count \in 0 .. UnitCount
          /\ Len(received) \in Nat /\ Len(chunk) \in Nat
      BY DEF ScanTypeOK
    <3> QED
      BY <2>1, <2>2, <3>1
  <2>8. ScanTypeOK'
    BY <2>1, <2>2, <2>3, <2>4, <2>5, <2>6, <2>7 DEF ScanTypeOK
  <2> QED
    BY <1>2, <2>8, ReadKeepsScan
<1>3. CASE Acquire
  <2>1. Preamble \in Seq(Bytes)
    BY PreambleIsBytes
  <2>2. ScanTypeOK'
    BY <1>3, <2>1 DEF Acquire, ScanTypeOK
  <2>3. ScanInv'
    BY <1>3 DEF Acquire, ScanInv, CacheOfUnits, CacheIsNewest, ScanIsEnd,
                IsNewest, Candidates
  <2> QED
    BY <2>2, <2>3
<1>4. CASE UNCHANGED scanVars
  <2>1. ScanTypeOK'
    BY <1>4 DEF scanVars, ScanTypeOK
  <2>2. ScanInv'
    BY <1>4 DEF scanVars, ScanInv, CacheOfUnits, CacheIsNewest, ScanIsEnd,
                IsNewest, Candidates
  <2> QED
    BY <2>1, <2>2
<1> QED
  BY <1>1, <1>2, <1>3, <1>4 DEF ScanNext

\* The invariant the theorems about the preamble rest on.
LEMMA ScanStaysSound == ScanSpec => [](ScanTypeOK /\ ScanInv)
  BY ScanInitInv, ScanStepKeepsInv, PTL DEF ScanSpec

\* The scan and the cache hold bytes the camera sent, and what is left over between two
\* reads stays within MAX_SCAN_BYTES.
THEOREM ScanTypeCorrect == ScanSpec => []ScanTypeOK
  BY ScanStaysSound, PTL

\* However the reads cut the stream, _note_media caches what a scan of the whole stream
\* would find; where the limit cut into it, each cached unit is still one the camera sent.
THEOREM CacheIsExact == ScanSpec => []ScanIsExact
<1>1. ScanTypeOK /\ ScanInv => ScanIsExact
  <2> SUFFICES ASSUME ScanTypeOK, ScanInv, NEW k \in Kinds
               PROVE  IF cut THEN cache[k] # << >> => cache[k] \in UnitsOf(received)
                             ELSE cache[k] = Newest(k)
    BY DEF ScanIsExact
  <2>1. CASE cut
    BY <2>1 DEF ScanInv, CacheOfUnits
  <2>2. CASE ~cut
    <3>1. IsNewest(received, k, cache[k]) /\ received \in Seq(Bytes)
      BY <2>2 DEF ScanInv, CacheIsNewest, ScanTypeOK
    <3>2. cache[k] = Newest(k)
      BY <3>1, NewestIsUnique
    <3> QED
      BY <2>2, <3>2
  <2> QED
    BY <2>1, <2>2
<1> QED
  BY <1>1, ScanStaysSound, PTL

-----------------------------------------------------------------------------
(* The preamble: what the viewer gets *)

\* Bytes that begin with a start code and have no other.
OneUnit(u) == 1 \in StartsOf(u) /\ \A i \in StartsOf(u) : i = 1

\* A unit that was cut out and recorded is one.
LEMMA RecordedIsOneUnit ==
    ASSUME NEW b \in Seq(Bytes), NEW u \in UnitsOf(b), Recorded(u)
    PROVE  u \in Seq(Bytes) /\ Len(u) > 3 /\ OneUnit(u)
<1>1. PICK s \in SpansOf(b) : u = Cut(b, s)
  BY DEF UnitsOf
<1>2. /\ s[1] < s[2] /\ s[1] \in 1 .. Len(b) - 2 /\ s[2] \in 1 .. Len(b) - 2
      /\ s[1] \in StartsOf(b) /\ \A k \in StartsOf(b) : k <= s[1] \/ k >= s[2]
  BY SpanFacts
<1>3. u \in Seq(Bytes) /\ Len(u) = s[2] - s[1] /\ Agree(u, b, s[1] - 1, 1, Len(u))
  BY <1>1, CutIsBytes
<1>4. Len(u) > 3
  BY DEF Recorded, START
<1>5. \A i \in 1 .. Len(u) - 2 : i \in StartsOf(u) <=> i + (s[1] - 1) \in StartsOf(b)
  <2>1. s[1] - 1 \in Int /\ Len(u) \in Int /\ 1 \in Int
    BY <1>2, <1>3
  <2> QED
    BY <1>3, <2>1, AgreeingUnits
<1>6. 1 \in StartsOf(u)
  <2>1. 1 + (s[1] - 1) = s[1] /\ 1 \in 1 .. Len(u) - 2
    BY <1>2, <1>3, <1>4
  <2> QED
    BY <1>2, <1>5, <2>1
<1>7. ASSUME NEW i \in StartsOf(u)
      PROVE  i = 1
  <2>1. i \in 1 .. Len(u) - 2
    BY DEF StartsOf
  <2>2. i + (s[1] - 1) <= s[1] \/ i + (s[1] - 1) >= s[2]
    BY <1>2, <1>5, <2>1
  <2> QED
    BY <1>2, <1>3, <2>1, <2>2
<1> QED
  BY <1>3, <1>4, <1>6, <1>7 DEF OneUnit

\* Of one unit and what begins with a start code, one can cut out that unit and what
\* one can cut out of the rest: no start code lies across the two.
LEMMA UnitsOfConcat ==
    ASSUME NEW u \in Seq(Bytes), NEW p \in Seq(Bytes), OneUnit(u),
           p = << >> \/ 1 \in StartsOf(p)
    PROVE  UnitsOf(u \o p) \subseteq UnitsOf(p) \cup {u}
<1> DEFINE x == u \o p
           n == Len(u)
<1>1. /\ x \in Seq(Bytes) /\ Len(x) = n + Len(p) /\ n \in Nat /\ Len(p) \in Nat
      /\ Agree(u, x, 0, 1, n) /\ Agree(p, x, n, 1, Len(p))
  BY ConcatAgrees
<1> HIDE DEF x
<1>2. ASSUME NEW i \in StartsOf(x), i <= n - 2
      PROVE  i = 1
  <2>1. i \in 1 .. n - 2
    BY <1>1, <1>2 DEF StartsOf
  <2>2. i \in StartsOf(u)
    BY <1>1, <2>1, GrownSpans
  <2> QED
    BY <2>2 DEF OneUnit
<1>3. CASE p = << >>
  <2>1. ASSUME NEW i \in StartsOf(x)
        PROVE  i = 1
    <3>1. Len(p) = 0
      BY <1>3
    <3>2. i <= n - 2
      BY <1>1, <3>1 DEF StartsOf
    <3> QED
      BY <1>2, <3>2
  <2>2. SpansOf(x) = {}
    BY <2>1 DEF SpansOf
  <2> QED
    BY <2>2 DEF UnitsOf, x
<1>4. CASE 1 \in StartsOf(p)
  <2>1. /\ 1 \in 1 .. Len(p) - 2 /\ p[1] = 0 /\ p[1 + 1] = 0
    BY <1>4, StartIsThreeBytes
  <2>2. IsEnd(p, x, n)
    BY <1>1 DEF IsEnd
  <2>3. x[n + 1] = 0 /\ x[n + 2] = 0
    <3>1. \A i \in 1 .. Len(p) : p[i] = x[i + n]
      BY <1>1 DEF Agree
    <3>2. 1 \in 1 .. Len(p) /\ 1 + 1 \in 1 .. Len(p)
      BY <1>1, <2>1
    <3>3. p[1] = x[1 + n] /\ p[1 + 1] = x[1 + 1 + n]
      BY <3>1, <3>2
    <3>4. 1 + n = n + 1 /\ 1 + 1 + n = n + 2
      BY <1>1
    <3> QED
      BY <2>1, <3>3, <3>4
  <2>4. ASSUME NEW i \in StartsOf(x), i <= n
        PROVE  i = 1
    <3>1. i \in Int /\ x[i + 2] = 1
      <4>1. i \in Int
        BY DEF StartsOf
      <4> QED
        BY <1>1, <4>1, StartIsThreeBytes
    <3>2. i # n /\ i # n - 1
      <4>1. n - 1 + 2 = n + 1
        BY <1>1
      <4> QED
        BY <2>3, <3>1, <4>1
    <3>3. i <= n - 2
      BY <1>1, <2>4, <3>1, <3>2
    <3> QED
      BY <1>2, <3>3
  <2>5. n + 1 \in StartsOf(x)
    <3>1. 1 + n \in StartsOf(x)
      BY <1>1, <1>4, <2>1, <2>2, EndUnits
    <3>2. 1 + n = n + 1
      BY <1>1
    <3> QED
      BY <3>1, <3>2
  <2>6. ASSUME NEW s \in SpansOf(x)
        PROVE  Cut(x, s) \in UnitsOf(p) \cup {u}
    <3>1. /\ s[1] < s[2] /\ s[1] \in Nat /\ s[2] \in Nat
          /\ s[1] \in StartsOf(x) /\ s[2] \in StartsOf(x)
          /\ \A k \in StartsOf(x) : k <= s[1] \/ k >= s[2]
      BY <1>1, SpanFacts
    <3>2. CASE s[1] > n
      <4>1. /\ <<s[1] - n, s[2] - n>> \in SpansOf(p)
            /\ Cut(p, <<s[1] - n, s[2] - n>>) = Cut(x, s)
        <5>1. \A t \in SpansOf(x) :
                  t[1] > n => /\ <<t[1] - n, t[2] - n>> \in SpansOf(p)
                              /\ Cut(p, <<t[1] - n, t[2] - n>>) = Cut(x, t)
          <6> HIDE DEF n
          <6> QED
            BY <1>1, <2>2, EndUnits
        <5> QED
          BY <3>2, <5>1
      <4> QED
        BY <4>1 DEF UnitsOf
    <3>3. CASE s[1] <= n
      <4>1. s[1] = 1
        BY <2>4, <3>1, <3>3
      <4>2. ~ (s[2] <= n)
        BY <2>4, <3>1, <4>1
      <4>3. n + 1 <= s[1] \/ n + 1 >= s[2]
        BY <2>5, <3>1
      <4>4. s[2] - s[1] = n /\ s[1] - 1 = 0
        BY <1>1, <3>1, <3>3, <4>1, <4>2, <4>3
      <4>5. /\ Cut(x, s) \in Seq(Bytes) /\ Len(Cut(x, s)) = n
            /\ Agree(Cut(x, s), x, 0, 1, n)
        BY <1>1, <4>4, CutIsBytes
      <4>6. \A i \in 1 .. n : Cut(x, s)[i] = u[i]
        BY <1>1, <4>5 DEF Agree
      <4>7. Cut(x, s) = u
        BY <4>5, <4>6, SeqEqual
      <4> QED
        BY <4>7
    <3> QED
      BY <1>1, <3>1, <3>2, <3>3
  <2> QED
    BY <2>6 DEF UnitsOf, x
<1> QED
  BY <1>3, <1>4

\* What a viewer got, v, of the bytes r that were read, from the place where it came:
\* a preamble up to the seam and then the bytes that were read.  The preamble starts
\* with parameter sets, and what one can cut out of it are units of the camera.
SeamIsAt(v, r, from, seam) ==
    /\ seam >= 0
    /\ Agree(v, r, from - seam, seam + 1, Len(v))
    /\ seam > 0 => Len(v) > Len(START) /\ KindOf(v) = SPS
    /\ \A s \in SpansOf(v) : s[2] + Len(START) <= seam + 1 => Cut(v, s) \in UnitsOf(r)

GotThese(v, r, from) == SeamIsAt(v, r, from, Len(v) - (Len(r) - from))

ViewerGotThese == viewer # NoViewer => GotThese(viewer, received, live)

\* The units of a preamble are the two parameter sets it starts with.
LEMMA UnitsOfPreamble ==
    ASSUME ScanTypeOK, ScanInv, Preamble # << >>
    PROVE  /\ Len(Preamble) > 3 /\ KindOf(Preamble) = SPS
           /\ UnitsOf(Preamble) \subseteq UnitsOf(received)
<1> DEFINE a == cache[SPS]
           b == cache[PPS]
           c == cache[IDR]
<1>1. /\ a \in Seq(Bytes) /\ b \in Seq(Bytes) /\ c \in Seq(Bytes) /\ received \in Seq(Bytes)
  BY DEF ScanTypeOK, Kinds
<1>2. \A k \in Kinds : cache[k] # << >> =>
          /\ cache[k] \in UnitsOf(received) /\ KindOf(cache[k]) = k
          /\ Len(cache[k]) > 3 /\ OneUnit(cache[k])
  BY <1>1, RecordedIsOneUnit DEF ScanInv, CacheOfUnits
<1>3. a # << >> /\ b # << >> /\ Preamble = a \o b \o c
  BY PreambleIsBytes
<1>4. /\ a \in UnitsOf(received) /\ KindOf(a) = SPS /\ Len(a) > 3 /\ OneUnit(a)
      /\ b \in UnitsOf(received) /\ Len(b) > 3 /\ OneUnit(b)
      /\ c = << >> \/ OneUnit(c)
  BY <1>2, <1>3 DEF Kinds
<1> HIDE DEF a, b, c
<1> DEFINE p == b \o c
<1>5. /\ p \in Seq(Bytes) /\ Len(p) = Len(b) + Len(c) /\ Agree(b, p, 0, 1, Len(b))
  BY <1>1, ConcatAgrees
<1>6. Preamble = a \o p
  <2>1. (a \o b) \o c = a \o (b \o c)
    BY <1>1, ConcatAssociative
  <2> QED
    BY <1>3, <2>1
<1>7. UnitsOf(p) \subseteq {b}
  <2>1. c = << >> \/ 1 \in StartsOf(c)
    BY <1>4 DEF OneUnit
  <2>2. UnitsOf(c) = {}
    <3>1. \A i \in StartsOf(c) : i = 1
      BY <1>4 DEF OneUnit, StartsOf
    <3> QED
      BY <3>1 DEF UnitsOf, SpansOf
  <2>3. UnitsOf(b \o c) \subseteq UnitsOf(c) \cup {b}
    BY <1>1, <1>4, <2>1, UnitsOfConcat
  <2> QED
    BY <2>2, <2>3
<1>8. 1 \in StartsOf(p)
  <2>1. 1 \in StartsOf(b) /\ 1 \in 1 .. Len(b) - 2
    BY <1>4 DEF OneUnit, StartsOf
  <2> HIDE DEF p
  <2> QED
    BY <1>1, <1>5, <2>1, GrownSpans
<1> HIDE DEF p
<1>9. UnitsOf(a \o p) \subseteq UnitsOf(p) \cup {a}
  BY <1>1, <1>4, <1>5, <1>8, UnitsOfConcat
<1>10. /\ Len(a \o p) = Len(a) + Len(p) /\ Agree(a, a \o p, 0, 1, Len(a))
       /\ Len(a) \in Nat /\ Len(p) \in Nat
  BY <1>1, <1>5, ConcatAgrees
<1>11. Len(a \o p) > 3
  BY <1>4, <1>10
<1>12. KindOf(a \o p) = SPS
  <2>1. 4 \in 1 .. Len(a) /\ 4 + 0 = 4
    BY <1>4, <1>10
  <2>2. a[4] = (a \o p)[4]
    BY <1>10, <2>1 DEF Agree
  <2>3. Len(START) + 1 = 4
    BY DEF START
  <2> QED
    BY <1>4, <2>2, <2>3 DEF KindOf
<1> QED
  BY <1>4, <1>6, <1>7, <1>9, <1>11, <1>12

\* A viewer that comes gets nothing of what was read before, but for the preamble.
LEMMA AcquireGivesThese ==
    ASSUME ScanTypeOK, ScanInv
    PROVE  GotThese(Preamble, received, Len(received))
<1> DEFINE p == Preamble
           seam == Len(p) - (Len(received) - Len(received))
<1>1. p \in Seq(Bytes) /\ Len(p) \in Nat /\ Len(received) \in Nat
  <2>1. p \in Seq(Bytes)
    BY PreambleIsBytes
  <2>2. received \in Seq(Bytes)
    BY DEF ScanTypeOK
  <2> HIDE DEF p
  <2> QED
    BY <2>1, <2>2
<1>2. p # << >> => /\ Len(p) > 3 /\ KindOf(p) = SPS /\ UnitsOf(p) \subseteq UnitsOf(received)
  BY UnitsOfPreamble
<1> HIDE DEF p
<1>3. seam = Len(p)
  BY <1>1
<1>4. Agree(p, received, Len(received) - seam, seam + 1, Len(p))
  BY <1>1, <1>3 DEF Agree
<1>5. seam > 0 => Len(p) > Len(START) /\ KindOf(p) = SPS
  <2>1. Len(START) = 3
    BY DEF START
  <2>2. seam > 0 => p # << >>
    BY <1>3
  <2> QED
    BY <1>2, <2>1, <2>2
<1>6. \A s \in SpansOf(p) : Cut(p, s) \in UnitsOf(received)
  <2>1. CASE p = << >>
    BY <2>1 DEF SpansOf, StartsOf
  <2>2. CASE p # << >>
    BY <1>2, <2>2 DEF UnitsOf
  <2> QED
    BY <2>1, <2>2
<1> QED
  BY <1>1, <1>3, <1>4, <1>5, <1>6 DEF GotThese, SeamIsAt, p

\* A chunk that goes to the viewer as it was read leaves the seam where it is.
LEMMA ChunkKeepsThese ==
    ASSUME NEW v \in Seq(Bytes), NEW r \in Seq(Bytes), NEW c \in Seq(Bytes),
           NEW from \in 0 .. Len(r), GotThese(v, r, from)
    PROVE  GotThese(v \o c, r \o c, from)
<1> DEFINE x == v \o c
           y == r \o c
           seam == Len(v) - (Len(r) - from)
           d == from - seam
<1>1. /\ x \in Seq(Bytes) /\ Len(x) = Len(v) + Len(c) /\ Agree(v, x, 0, 1, Len(v))
      /\ y \in Seq(Bytes) /\ Len(y) = Len(r) + Len(c) /\ Agree(r, y, 0, 1, Len(r))
      /\ Len(v) \in Nat /\ Len(r) \in Nat /\ Len(c) \in Nat
  BY ConcatAgrees
<1>2. /\ seam >= 0 /\ Agree(v, r, d, seam + 1, Len(v))
      /\ seam > 0 => Len(v) > Len(START) /\ KindOf(v) = SPS
      /\ \A s \in SpansOf(v) : s[2] + Len(START) <= seam + 1 => Cut(v, s) \in UnitsOf(r)
  BY DEF GotThese, SeamIsAt
<1>3. seam \in Nat /\ seam <= Len(v) /\ d \in Int /\ seam + 1 \in Int /\ Len(r) - Len(v) = d
  BY <1>1, <1>2
<1>4. Len(x) - (Len(y) - from) = seam
  BY <1>1
<1> HIDE DEF seam, d
<1>5. Agree(x, y, d, seam + 1, Len(x))
  BY <1>2, <1>3, AgreeGrows
<1> HIDE DEF x, y
<1>6. Len(START) = 3
  BY DEF START
<1>7. seam > 0 => Len(x) > Len(START) /\ KindOf(x) = SPS
  <2> SUFFICES ASSUME seam > 0
               PROVE  Len(x) > Len(START) /\ KindOf(x) = SPS
    OBVIOUS
  <2>1. 4 \in 1 .. Len(v) /\ 4 + 0 = 4 /\ KindOf(v) = SPS
    BY <1>1, <1>2, <1>6
  <2>2. v[4] = x[4]
    BY <1>1, <2>1 DEF Agree
  <2>3. Len(START) + 1 = 4
    BY <1>6
  <2> QED
    BY <1>1, <1>2, <1>6, <2>1, <2>2, <2>3 DEF KindOf
<1>8. ASSUME NEW s \in SpansOf(x), s[2] + Len(START) <= seam + 1
      PROVE  Cut(x, s) \in UnitsOf(y)
  <2>1. s[2] \in Int
    BY <1>1, SpanFacts
  <2>2. s[2] <= Len(v) - 2
    BY <1>1, <1>3, <1>6, <1>8, <2>1
  <2>3. s \in SpansOf(v) /\ Cut(v, s) = Cut(x, s)
    BY <1>1, <2>2, GrownSpans
  <2>4. UnitsOf(r) \subseteq UnitsOf(y)
    BY <1>1, GrownSpans
  <2> QED
    BY <1>2, <1>8, <2>3, <2>4
<1> QED
  <2>1. SeamIsAt(x, y, from, seam)
    BY <1>3, <1>5, <1>7, <1>8 DEF SeamIsAt, d
  <2>2. GotThese(x, y, from)
    BY <1>4, <2>1 DEF GotThese
  <2> QED
    BY <2>2 DEF x, y

\* Every step keeps what is known of the viewer's bytes.
LEMMA ViewerStepKeepsInv ==
    ScanTypeOK /\ ScanInv /\ ViewerGotThese /\ [ScanNext]_scanVars => ViewerGotThese'
<1> SUFFICES ASSUME ScanTypeOK, ScanInv, ViewerGotThese, [ScanNext]_scanVars
             PROVE  ViewerGotThese'
  OBVIOUS
<1>1. ASSUME NEW unit \in Units, CameraUnit(unit)
      PROVE  ViewerGotThese'
  BY <1>1 DEF CameraUnit, ViewerGotThese
<1>2. ASSUME NEW n \in 1 .. ChunkSize, ReadChunk(n)
      PROVE  ViewerGotThese'
  <2>1. PICK chunk \in Seq(Bytes) :
            /\ received' = received \o chunk /\ live' = live
            /\ viewer' = IF viewer = NoViewer THEN NoViewer ELSE viewer \o chunk
    BY <1>2, ReadMeans
  <2> SUFFICES ASSUME viewer # NoViewer
               PROVE  GotThese(viewer', received', live')
    BY <2>1 DEF ViewerGotThese
  <2>2. viewer \in Seq(Bytes) /\ received \in Seq(Bytes) /\ live \in 0 .. Len(received)
    BY DEF ScanTypeOK
  <2>3. GotThese(viewer, received, live)
    BY DEF ViewerGotThese
  <2>4. GotThese(viewer \o chunk, received \o chunk, live)
    BY <2>2, <2>3, ChunkKeepsThese
  <2> QED
    BY <2>1, <2>4
<1>3. CASE Acquire
  BY <1>3, AcquireGivesThese DEF Acquire, ViewerGotThese
<1>4. CASE UNCHANGED scanVars
  BY <1>4 DEF scanVars, ViewerGotThese
<1> QED
  BY <1>1, <1>2, <1>3, <1>4 DEF ScanNext

\* A viewer's preamble starts with the parameter sets, and every unit it cuts out before
\* or behind the seam is one of the camera's: acquire() can break a unit only at the seam.
THEOREM PreambleBreaksOnlyAtSeam == ScanSpec => []BrokenOnlyAtSeam
<1>1. ScanInit => ViewerGotThese
  BY DEF ScanInit, ViewerGotThese
<1>2. ScanTypeOK /\ ViewerGotThese => BrokenOnlyAtSeam
  <2> DEFINE seam == Len(viewer) - (Len(received) - live)
             d == live - seam
  <2> SUFFICES ASSUME ScanTypeOK, ViewerGotThese, viewer # NoViewer
               PROVE  /\ seam > 0 => KindOf(viewer) = SPS
                      /\ \A s \in SpansOf(viewer) :
                           s[2] + Len(START) <= seam + 1 \/ s[1] > seam
                             => Cut(viewer, s) \in UnitsOf(received)
    BY DEF BrokenOnlyAtSeam
  <2>1. /\ viewer \in Seq(Bytes) /\ received \in Seq(Bytes)
        /\ Len(viewer) \in Int /\ Len(received) \in Int /\ live \in Int
    BY DEF ScanTypeOK
  <2>2. /\ Agree(viewer, received, d, seam + 1, Len(viewer))
        /\ seam > 0 => KindOf(viewer) = SPS
        /\ \A s \in SpansOf(viewer) :
             s[2] + Len(START) <= seam + 1 => Cut(viewer, s) \in UnitsOf(received)
    BY DEF ViewerGotThese, GotThese, SeamIsAt
  <2>3. d \in Int /\ seam \in Int /\ seam + 1 \in Int
    BY <2>1
  <2> HIDE DEF seam, d
  <2>4. ASSUME NEW s \in SpansOf(viewer), s[1] > seam
        PROVE  Cut(viewer, s) \in UnitsOf(received)
    <3>1. s[1] >= seam + 1
      <4>1. s[1] \in Int
        BY <2>1, SpanFacts
      <4> QED
        BY <2>3, <2>4, <4>1
    <3>2. /\ <<s[1] + d, s[2] + d>> \in SpansOf(received)
          /\ Cut(viewer, s) = Cut(received, <<s[1] + d, s[2] + d>>)
      BY <2>1, <2>2, <2>3, <3>1, UnitsOfEnd
    <3> QED
      BY <3>2 DEF UnitsOf
  <2> QED
    BY <2>2, <2>4
<1> QED
  BY <1>1, <1>2, ScanStaysSound, ViewerStepKeepsInv, PTL DEF ScanSpec
==============================================================================
