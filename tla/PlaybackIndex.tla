----------------------------- MODULE PlaybackIndex -----------------------------
(***************************************************************************)
(* What an HLS playback session serves: the byte-range index of one file   *)
(* on disk, or the manifest of MediaMTX's segments                         *)
(* (services/hls_playback_service.py, and the range route of               *)
(* routers/recordings.py), for one camera.                                 *)
(*                                                                         *)
(* A file is a sequence of boxes, each a type and a length in bytes; in a  *)
(* file that is still written the last one is cut short (cut).  A fragment *)
(* (moof, mdat) lasts a second.  Durations are in quarters of a second.    *)
(***************************************************************************)
EXTENDS Integers, Sequences, FiniteSetsExt

CONSTANTS
  Libraries,  \* what may be on disk: sets of files [start (seconds), boxes]
  Horizon     \* bound on the seconds a window may begin and end at

Box   == [type : STRING, length : Nat \ {0}, cut : BOOLEAN]
Files == [start : Nat, boxes : Seq(Box)]

IndexAssumption == Libraries \subseteq SUBSET Files /\ Horizon \in Nat

VARIABLES
  library,  \* the files on disk
  window,   \* the session's [start, end, total]; total is what MediaMTX reported
  index     \* the session's file, if it has one, and its byte_segments

vars == <<library, window, index>>

SEGMENT_DURATION == 20
Shortest         == 2   \* half a second: the manifest leaves out less
Second           == 4

NoIndex  == [file |-> {}, init |-> 0, slices |-> {}]
NoWindow == [start |-> 0, end |-> 0, total |-> 0]

Size(boxes) ==
  LET upTo[i \in 0..Len(boxes)] == IF i = 0 THEN 0 ELSE upTo[i - 1] + boxes[i].length
  IN upTo[Len(boxes)]
------------------------------------------------------------------------------
(* _scan_fmp4 *)

Start == [at |-> 0, init |-> 0, moof |-> -1, fragments |-> <<>>, broken |-> FALSE]

\* The walk stops at a box that does not fit; a fragment is a moof and the first
\* mdat after it
ScanBox(scan, box) ==
  LET end == scan.at + box.length
  IN IF scan.broken \/ box.cut THEN [scan EXCEPT !.broken = TRUE]
     ELSE CASE box.type \in {"ftyp", "moov"} -> [scan EXCEPT !.at = end, !.init = end]
            [] box.type = "moof"             -> [scan EXCEPT !.at = end, !.moof = scan.at]
            [] box.type = "mdat" /\ scan.moof >= 0 ->
                 [scan EXCEPT !.at = end, !.moof = -1,
                              !.fragments = Append(@, <<scan.moof, end - scan.moof>>)]
            [] OTHER                         -> [scan EXCEPT !.at = end]

Scan(boxes) ==
  LET upTo[i \in 0..Len(boxes)] == IF i = 0 THEN Start ELSE ScanBox(upTo[i - 1], boxes[i])
  IN upTo[Len(boxes)]
Usable(boxes) == Scan(boxes).init > 0 /\ Scan(boxes).fragments # <<>>
------------------------------------------------------------------------------
(* _resolve_recording_file and _attach_byte_index *)

\* The latest file that begins at the start of the window, a second after it, or before
Resolve(start) ==
  LET begun == {f \in library : f.start <= start + 1}
  IN {f \in begun : \A g \in begun : g.start <= f.start}

\* Python's round of a / b: a half goes to the even side
Rounded(a, b) ==
  LET whole == a \div b  rest == 2 * (a % b)
  IN IF rest > b \/ (rest = b /\ whole % 2 = 1) THEN whole + 1 ELSE whole

\* Mutant: the last group, if it is not full, is left out
GroupsWithoutRest(n, k) == {<<k * i + 1, k * i + k>> : i \in 0..((n \div k) - 1)}

\* The fragments in groups of k, as pairs of a first and a last fragment
Groups(n, k) == {<<k * i + 1, Min({k * i + k, n})>> : i \in 0..((n - 1) \div k)}

\* frags_per_seg, from the duration MediaMTX reported spread over the fragments
PerSegment(n, total) ==
  IF total = 0 THEN SEGMENT_DURATION \div Second
               ELSE Max({1, Rounded(SEGMENT_DURATION * n, total)})

Slices(fragments, k) ==
  LET Slice(group) == [offset |-> fragments[group[1]][1],
                       length |-> fragments[group[2]][1] + fragments[group[2]][2]
                                    - fragments[group[1]][1]]
  IN {Slice(group) : group \in Groups(Len(fragments), k)}

\* The window may reach past the file: its end is not looked at
Attach(file, total) ==
  LET scan == Scan(file.boxes)
  IN IF Usable(file.boxes) /\ (total = 0 \/ Size(file.boxes) > scan.init)
     THEN [file |-> {file}, init |-> scan.init,
           slices |-> Slices(scan.fragments, PerSegment(Len(scan.fragments), total))]
     ELSE NoIndex
------------------------------------------------------------------------------
(* The proxied manifest: its segments are 0 .. ProxySegments(total) - 1 *)

ProxySegments(total) ==
  LET rest == total % SEGMENT_DURATION
  IN (total \div SEGMENT_DURATION) + (IF rest < Shortest THEN 0 ELSE 1)

\* get_hls_segment and stream_segment
Served(i, total) ==
  /\ i < (total \div SEGMENT_DURATION) + 1
  /\ i * SEGMENT_DURATION < total

\* get_hls_media: _parse_byte_range of a slice's range, clamped to the file
RangeServed(slice, size) ==
  LET last == slice.offset + slice.length - 1
  IN IF slice.offset >= size THEN <<0, size - 1>> ELSE <<slice.offset, Min({last, size - 1})>>
------------------------------------------------------------------------------
Seconds(file) == Len(Scan(file.boxes).fragments)
Recorded(file, start, end) ==
  Max({0, Min({end, file.start + Seconds(file)}) - Max({start, file.start})})

Init ==
  /\ library \in Libraries
  /\ window = NoWindow
  /\ index = NoIndex

\* create_session, with what MediaMTX has of the window, to a quarter of a second
Create(start, end) ==
  /\ window = NoWindow /\ start < end
  /\ LET whole == Second * MapThenSumSet(LAMBDA f : Recorded(f, start, end), library)
     IN \E total \in 0..(Second * Horizon) :
          /\ total <= whole /\ whole < total + Second
          /\ window' = [start |-> start, end |-> end, total |-> total]
          /\ IF Resolve(start) = {} THEN UNCHANGED index
             ELSE \E file \in Resolve(start) : index' = Attach(file, total)
  /\ UNCHANGED library

SessionEnds ==
  /\ window # NoWindow
  /\ window' = NoWindow
  /\ index' = NoIndex
  /\ UNCHANGED library

Next == (\E start, end \in 0..Horizon : Create(start, end)) \/ SessionEnds
Spec == Init /\ [][Next]_vars
------------------------------------------------------------------------------
TypeOK ==
  /\ library \in Libraries
  /\ window \in [start : 0..Horizon, end : 0..Horizon, total : 0..(Second * Horizon)]
  /\ index.file \subseteq library

\* The bytes of a whole fragment, by the order of the boxes alone: those of a moof
\* that an mdat follows, of that mdat and of what is between them
FragmentBytes(boxes) ==
  LET begins(i) == Size(SubSeq(boxes, 1, i - 1))
      whole == {i \in DOMAIN boxes : \A k \in 1..i : ~boxes[k].cut}
      pairs == {p \in whole \X whole :
                  /\ p[1] < p[2] /\ boxes[p[1]].type = "moof" /\ boxes[p[2]].type = "mdat"
                  /\ \A k \in (p[1] + 1)..(p[2] - 1) : boxes[k].type \notin {"moof", "mdat"}}
  IN UNION {begins(p[1])..(begins(p[2]) + boxes[p[2]].length - 1) : p \in pairs}

Bytes(slice) == slice.offset..(slice.offset + slice.length - 1)

\* However the boxes of a recording lie, one still being written included, every
\* byte of a whole fragment is in exactly one slice of the playlist, a slice begins
\* with a moof, and the range request of a slice gets that slice.
SlicesTile ==
  \A file \in index.file :
    LET size == Size(file.boxes)
    IN /\ FragmentBytes(file.boxes) \subseteq UNION {Bytes(s) : s \in index.slices}
       /\ \A s, t \in index.slices : s # t => Bytes(s) \cap Bytes(t) = {}
       /\ \A s \in index.slices :
            /\ s.offset \in FragmentBytes(file.boxes)
            /\ RangeServed(s, size) = <<s.offset, s.offset + s.length - 1>>

\* Every segment the proxied manifest names is served and not empty, and the
\* manifest is less than half a second short of the recording.
ManifestIsServed ==
  LET n == ProxySegments(window.total)
  IN /\ \A i \in 0..(n - 1) : Served(i, window.total)
     /\ window.total - Min({n * SEGMENT_DURATION, window.total}) < Shortest

\* A session's playlist names what can be served, and all of the recording it is
\* made from: both of the above, for the one file and for MediaMTX's segments.
PlaylistIsWhole == SlicesTile /\ ManifestIsServed
==============================================================================
