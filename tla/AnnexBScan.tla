----------------------------- MODULE AnnexBScan -----------------------------
(***************************************************************************)
(* The preamble cache of NativeStreamSession (src/okam_native/session.py): *)
(* the pump reads the H.264 stream in chunks that know nothing of units,   *)
(* cuts the units out at their start codes, and keeps the newest parameter *)
(* sets and keyframe for viewers that come later.  A viewer gets these and *)
(* then every chunk read after it came.                                    *)
(*                                                                         *)
(* Bytes are those the scan tells apart: the start code is 0, 0, 1, and of *)
(* the byte behind it only the low five bits, the kind of the unit, matter. *)
(***************************************************************************)
EXTENDS Integers, Sequences, Functions

CONSTANTS
    Units,        \* the units the camera may send, each with its start code
    UnitCount,    \* how many units it sends (bounds the model)
    ChunkSize,    \* the most bytes of one read: 65536
    MaxPreamble,  \* MAX_PREAMBLE_BYTES
    MaxScan       \* MAX_SCAN_BYTES

ASSUME ScanAssumption ==
    /\ Units \subseteq Seq(0 .. 255)
    /\ UnitCount \in Nat /\ ChunkSize \in Nat \ {0}
    /\ MaxPreamble \in Nat /\ MaxScan \in Nat

START == <<0, 0, 1>>      \* ANNEX_B_START
SPS == 7
PPS == 8
IDR == 5
Kinds == {SPS, PPS, IDR}

VARIABLES
    count,     \* how many units the camera has sent
    pipe,      \* bytes the pump has not read
    received,  \* all bytes it has read
    scan,      \* _scan
    cut,       \* bytes have been cut off the scan, as there were too many
    cache,     \* _sps, _pps and _keyframe, by kind; empty when there is none
    viewer,    \* the bytes the viewer got; before it comes, NoViewer
    live       \* where its live bytes start in "received"

scanVars == <<count, pipe, received, scan, cut, cache, viewer, live>>

NoViewer == <<-1>>

Bytes == UNION {Range(u) : u \in Units}

ScanTypeOK ==
    /\ count \in 0 .. UnitCount
    /\ {pipe, received, scan} \subseteq Seq(Bytes)
    /\ Len(scan) <= MaxScan /\ cut \in BOOLEAN
    /\ cache \in [Kinds -> Seq(Bytes)]
    /\ viewer = NoViewer \/ viewer \in Seq(Bytes)
    /\ live \in 0 .. Len(received)

ScanInit ==
    /\ count = 0
    /\ pipe = << >> /\ received = << >>
    /\ scan = << >> /\ cut = FALSE
    /\ cache = [k \in Kinds |-> << >>]
    /\ viewer = NoViewer
    /\ live = 0

-----------------------------------------------------------------------------
(* The units of a sequence of bytes *)

\* A start code cannot overlap another one.
StartsOf(bytes) == {i \in 1 .. Len(bytes) - 2 : SubSeq(bytes, i, i + 2) = START}

\* The pairs of a start code and the next one.
SpansOf(bytes) ==
    {s \in StartsOf(bytes) \X StartsOf(bytes) :
        s[1] < s[2] /\ \A k \in StartsOf(bytes) : k <= s[1] \/ k >= s[2]}

Cut(bytes, span) == SubSeq(bytes, span[1], span[2] - 1)

KindOf(unit) == unit[Len(START) + 1] % 32

-----------------------------------------------------------------------------
(* _note_media and _record_unit *)

\* The bytes scanned: what was left over and the chunk, without the oldest bytes
\* beyond the limit.
Scanned(chunk) ==
    LET bytes == scan \o chunk
    IN  IF Len(bytes) > MaxScan THEN SubSeq(bytes, Len(bytes) - MaxScan + 1, Len(bytes))
        ELSE bytes

\* A unit without a payload, or one that is too long, is not recorded.
Recorded(unit) == Len(unit) > Len(START) /\ Len(unit) <= MaxPreamble

\* The newest unit of the kind that is complete.
Cached(bytes, kind) ==
    LET spans == {s \in SpansOf(bytes) : Recorded(Cut(bytes, s))
                                         /\ KindOf(Cut(bytes, s)) = kind}
    IN  IF spans = {} THEN cache[kind]
        ELSE Cut(bytes, CHOOSE s \in spans : \A t \in spans : t[1] <= s[1])

\* A variant that throws the last unit away although it is not complete.
WrongLeftover(bytes) == IF SpansOf(bytes) = {} THEN bytes ELSE << >>

\* The last unit stays; it may not be complete.
Leftover(bytes) ==
    IF SpansOf(bytes) = {} THEN bytes
    ELSE LET last == CHOOSE i \in StartsOf(bytes) : \A j \in StartsOf(bytes) : j <= i
         IN  SubSeq(bytes, last, Len(bytes))

\* The pump reads a chunk, notes it, and hands it to the viewers there are.
ReadChunk(n) ==
    LET chunk == SubSeq(pipe, 1, n)
        bytes == Scanned(chunk)
    IN  /\ n <= Len(pipe)
        /\ pipe' = SubSeq(pipe, n + 1, Len(pipe))
        /\ received' = received \o chunk
        /\ cache' = [k \in Kinds |-> Cached(bytes, k)]
        /\ scan' = Leftover(bytes)
        /\ cut' = (cut \/ bytes # scan \o chunk)
        /\ viewer' = IF viewer = NoViewer THEN NoViewer ELSE viewer \o chunk
        /\ UNCHANGED <<count, live>>

-----------------------------------------------------------------------------
(* _preamble, the camera and acquire() *)

\* A variant that gives a keyframe without the parameter sets.
WrongPreamble ==
    LET all == cache[SPS] \o cache[PPS] \o cache[IDR]
    IN  IF Len(all) <= MaxPreamble THEN all ELSE << >>

Preamble ==
    LET all == cache[SPS] \o cache[PPS] \o cache[IDR]
    IN  IF cache[SPS] # << >> /\ cache[PPS] # << >> /\ Len(all) <= MaxPreamble
          THEN all ELSE << >>

CameraUnit(unit) ==
    /\ count < UnitCount
    /\ pipe = << >>
    /\ pipe' = unit
    /\ count' = count + 1
    /\ UNCHANGED <<received, scan, cut, cache, viewer, live>>

Acquire ==
    /\ viewer = NoViewer
    /\ viewer' = Preamble
    /\ live' = Len(received)
    /\ UNCHANGED <<count, pipe, received, scan, cut, cache>>

-----------------------------------------------------------------------------
ScanNext ==
    \/ \E unit \in Units : CameraUnit(unit)
    \/ \E n \in 1 .. ChunkSize : ReadChunk(n)
    \/ Acquire

ScanSpec == ScanInit /\ [][ScanNext]_scanVars

-----------------------------------------------------------------------------
(* Properties *)

UnitsOf(bytes) == {Cut(bytes, s) : s \in SpansOf(bytes)}

\* Reference definition: the newest complete unit of a kind in the whole stream.
Newest(kind) ==
    LET spans == {s \in SpansOf(received) : Recorded(Cut(received, s))
                                            /\ KindOf(Cut(received, s)) = kind}
    IN  IF spans = {} THEN << >>
        ELSE Cut(received, CHOOSE s \in spans : \A t \in spans : t[1] <= s[1])

\* Wherever the reads cut the stream, the cache holds what a scan of the whole stream
\* would find.  If the limit has cut into it, what is cached is still a unit the camera
\* sent, whole and never spliced from two.
ScanIsExact ==
    \A k \in Kinds : IF cut THEN cache[k] # << >> => cache[k] \in UnitsOf(received)
                            ELSE cache[k] = Newest(k)

\* A viewer's preamble starts with the parameter sets, and a unit it cuts out
\* before or behind the seam of preamble and live bytes is one of the camera's.
BrokenOnlyAtSeam ==
    LET seam == Len(viewer) - (Len(received) - live)
    IN  viewer # NoViewer =>
          /\ seam > 0 => KindOf(viewer) = SPS
          /\ \A s \in SpansOf(viewer) :
               s[2] + Len(START) <= seam + 1 \/ s[1] > seam => Cut(viewer, s) \in UnitsOf(received)

\* session.py:97, "Start the viewer on a decodable boundary": every unit a viewer
\* can cut out of what it is given is a unit the camera sent.
ViewerUnitsAreReal ==
    viewer # NoViewer => UnitsOf(viewer) \subseteq UnitsOf(received)
=============================================================================
