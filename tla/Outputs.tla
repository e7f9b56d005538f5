------------------------------ MODULE Outputs ------------------------------
(***************************************************************************)
(* What comskip's output formats say of a list of breaks: the adapters of  *)
(* output/*_adapter.cpp, with edl.cpp and the part of xml_cutlists.cpp     *)
(* that joins chapters.  Formats differ in what they list (breaks, or the  *)
(* programme between), in what they leave out as too short, in where they  *)
(* put an edge and in what they make of the end of the recording.          *)
(*                                                                         *)
(* A file is the set of ranges it cuts and of those it keeps, in frames of *)
(* the recording; formatting and units are left out.  Frames are evenly    *)
(* spaced, the first at time 0.  A list read from a file (`table` false)   *)
(* has no frames behind it: times are then computed, one frame later.      *)
(***************************************************************************)
EXTENDS Integers, Sequences, FiniteSets

CONSTANTS
  FrameCount,  \* frame_count
  Fps,         \* the frames of a second
  EdlOffset,   \* edl_offset
  CutOffset    \* videoredo_offset

\* Ranges of breaks and blocks; breaks are given in order.
Range(from, to) == [from |-> from, to |-> to]
AtLeast(a, b) == IF a < b THEN b ELSE a
AtMost(a, b) == IF a > b THEN b ELSE a

\* get_frame_pts, as a frame; the last frame of the count has no time of its own.
Time(table, f) == IF table THEN AtMost(AtLeast(f, 1), FrameCount - 1) ELSE f + 1
TimeRange(table, from, to) == Range(Time(table, from), Time(table, to))

Previous(list, i) == IF i = 1 THEN -1 ELSE list[i - 1].to
\* There is programme after the last break: the lists end with two frames for it.
Open(list) == list = <<>> \/ list[Len(list)].to < FrameCount - 2
LastFrames == Range(FrameCount - 2, FrameCount - 1)
WithTail(list) == IF Open(list) THEN Append(list, LastFrames) ELSE list
LongerThan(n, list) == {i \in DOMAIN list : list[i].to - list[i].from > n}

\* What every adapter asks of a list before it writes any of its files.
Accepted(list) ==
  \A i \in DOMAIN list :
    /\ 0 <= list[i].from /\ list[i].from <= list[i].to
    /\ Previous(list, i) < list[i].from
    /\ list[i].from < FrameCount /\ list[i].to <= FrameCount

Cuts(ranges) == [cut |-> ranges, kept |-> {}]
Keeps(ranges) == [cut |-> {}, kept |-> ranges]

-----------------------------------------------------------------------------
(* The frame list and the edit decision list, one break at a time. *)

TextRange(table, from, to) == TimeRange(table, from, to)

Edge(from) == IF from < 5 THEN 0 ELSE from
Shifted(f) == IF EdlOffset >= 0 THEN AtLeast(f - EdlOffset, 0) ELSE f - EdlOffset
EdlRange(table, from, to) == TimeRange(table, Shifted(Edge(from)), Shifted(to))

-----------------------------------------------------------------------------
(* Formats that list breaks. *)

Moved(f) == AtLeast(f - CutOffset - 1, 0)
VideoRedo(table, list) ==
  Cuts({TimeRange(table, Moved(list[i].from), Moved(list[i].to)) : i \in LongerThan(2, list)})

\* Byte positions are known only of frames that were read.
Edlx(table, list) ==
  Cuts(IF table THEN {Range(list[i].from, AtMost(list[i].to, FrameCount - 1)) : i \in LongerThan(2, list)} ELSE {})

Btv(table, list) == Cuts({TimeRange(table, list[i].from, list[i].to) : i \in DOMAIN list})
Plist(table, list) == Btv(table, WithTail(list))

Dvrmstb(table, list) ==
  Cuts({TimeRange(table, IF list[i].from = 1 THEN 0 ELSE list[i].from, list[i].to) : i \in LongerThan(1, list)})

Players(table, list) == Cuts({TimeRange(table, list[i].from, list[i].to) : i \in LongerThan(2, list)})
Chapters(table, list) == Cuts({TimeRange(table, list[i].from, list[i].to) : i \in LongerThan(Fps, list)})
Scf(list) == Cuts({Range(list[i].from, list[i].to) : i \in LongerThan(Fps, list)})
Vdr(table, list) == Cuts({TimeRange(table, Edge(list[i].from), list[i].to) : i \in LongerThan(2, list)})
Schnitt(table, list) == Cuts({TimeRange(table, list[i].from, list[i].to) : i \in LongerThan(1, list)})

-----------------------------------------------------------------------------
(* Formats that list the programme between breaks, or both. *)

Cuttermaran(table, list) ==
  LET all == WithTail(list)
  IN Keeps({TimeRange(table, Previous(all, i) + 1, all[i].from - 1) :
              i \in {k \in DOMAIN all : Previous(all, k) + 1 < all[k].from}})

\* Mutant: the programme after the last break is forgotten.
ShowsBefore(table, list) ==
  {TimeRange(table, Previous(list, i) + 1, list[i].from) : i \in {k \in DOMAIN list : k > 1 \/ list[k].from > 5}}
\* A show starts with the recording unless a break does.
Shows(table, list) ==
  LET all == WithTail(list)
  IN {TimeRange(table, Previous(all, i) + 1, all[i].from) : i \in {k \in DOMAIN all : k > 1 \/ all[k].from > 5}}
FfSplit(table, list) == Keeps(Shows(table, list))
FfMeta(table, list) ==
  [cut |-> {TimeRange(table, IF list[i].from <= 5 THEN 0 ELSE list[i].from, list[i].to) :
              i \in {k \in DOMAIN list : list[k].to - (IF list[k].from <= 5 THEN 0 ELSE list[k].from) > 2}},
   kept |-> Shows(table, list)]

\* VirtualDub gets no range for the programme before the first break.
Vcf(table, list) ==
  LET all == WithTail(list)
  IN Keeps({Range(Time(table, Previous(all, i) - 1),
                  Time(table, Previous(all, i) - 1) + Time(table, all[i].from) - Time(table, Previous(all, i))) :
              i \in {k \in DOMAIN all : k > 1 /\ all[k].from - Previous(all, k) > 5 /\ Previous(all, k) > 0}})

Retained(table, list) ==
  LET all == WithTail(list)
  IN Keeps({TimeRange(table, IF i = 1 THEN 0 ELSE Previous(all, i) + 1, all[i].from) : i \in DOMAIN all})

\* A clip is a position and a length.
Clip(table, from, before, to) ==
  Range(Time(table, from), Time(table, from) + Time(table, to) - Time(table, before))
Womble(table, list) ==
  [cut |-> {Clip(table, list[i].from, list[i].from, list[i].to) : i \in DOMAIN list},
   kept |-> {Clip(table, Previous(list, i) + 1, Previous(list, i), list[i].from) :
               i \in {k \in DOMAIN list : list[k].from - Previous(list, k) > Fps}}
            \cup {Clip(table, p + 1, p, FrameCount - 1) : p \in IF Open(list) THEN {Previous(list, Len(list) + 1)} ELSE {}}]

\* The last ranges end the list with all that is left of the recording.
Closes(range) == range.to >= FrameCount - 2
Mpgtx(table, list) ==
  LET all == WithTail(list)
  IN Keeps({IF Closes(all[i]) THEN Range(Time(table, Previous(all, i) + 1), FrameCount)
            ELSE Range(IF Previous(all, i) < Fps THEN 1 ELSE Time(table, Previous(all, i)), Time(table, all[i].from)) :
              i \in DOMAIN all})

DvrCut(table, list) ==
  LET all == WithTail(list)
  IN Keeps({TimeRange(table, Previous(all, i), all[i].from) :
              i \in {k \in DOMAIN all : all[k].from - Previous(all, k) > Fps}})

\* Bookmarks: the number a list declares and the number it has.
MlsDeclared(list) == 2 * Len(list) + 1 - (IF WithTail(list)[1].from < Fps THEN 1 ELSE 0)
MlsMarks(list) ==
  LET all == WithTail(list)
      places(Test(_)) == Cardinality({i \in DOMAIN all : Test(all[i])})
      goesOn(r) == ~Closes(r)
      long(r) == Closes(r) /\ r.from < r.to - 5
  IN Len(all) - (IF all[1].from < Fps THEN 1 ELSE 0)  \* where a show begins
     + places(goesOn) + 2 * places(long)              \* where a break does, and where the last ends

\* A break of five frames or less at the end gets no bookmarks.
ShortClose(list) == list # <<>> /\ Closes(list[Len(list)]) /\ list[Len(list)].from >= list[Len(list)].to - 5

-----------------------------------------------------------------------------
(* Chapters for Matroska: of the blocks, when there are any. *)

\* Where the verdict changes.
Ends(blocks) == {i \in DOMAIN blocks : i = Len(blocks) \/ blocks[i + 1].cut # blocks[i].cut}
First(blocks, i) ==
  CHOOSE k \in 1..i : (k = 1 \/ k - 1 \in Ends(blocks)) /\ \A n \in k..i - 1 : n \notin Ends(blocks)
OfVerdict(table, blocks, cut) ==
  {TimeRange(table, blocks[First(blocks, i)].from, blocks[i].to) : i \in {k \in Ends(blocks) : blocks[k].cut = cut}}

Starts(list, i) == IF i = 1 THEN 0 ELSE Previous(list, i)
Mkv(table, list, blocks) ==
  IF table /\ blocks # <<>>
  THEN [cut |-> OfVerdict(table, blocks, TRUE), kept |-> OfVerdict(table, blocks, FALSE)]
  ELSE [cut |-> {TimeRange(table, list[i].from, list[i].to) : i \in DOMAIN list},
        kept |-> {TimeRange(table, Starts(list, i), list[i].from) :
                    i \in {k \in DOMAIN list : Starts(list, k) < list[k].from}}
                 \cup {TimeRange(table, p, FrameCount - 1) :
                         p \in {Starts(list, Len(list) + 1)} \cap 0..(FrameCount - 2)}]

-----------------------------------------------------------------------------
(* The files of each adapter, in the order it writes them. *)

Groups == <<"xml", "sidecars", "scripts", "players", "editors", "lists">>
Files(group) ==
  CASE group = "xml" -> <<"VPrj3", "edlx", "btv", "cpf", "dvr", "plist", "mkv">>
    [] group = "sidecars" -> <<"ffmeta", "ffsplit">>
    [] group = "scripts" -> <<"vcf", "Xcl", "avs">>
    [] group = "players" -> <<"chp", "cut", "scf", "bcf">>
    [] group = "editors" -> <<"vdr", "VPrj">>
    [] group = "lists" -> <<"wme", "mpgtx", "dvrcut", "schnitt">>

Content(file, table, list, blocks) ==
  CASE file \in {"VPrj3", "VPrj"} -> VideoRedo(table, list)
    [] file = "edlx" -> Edlx(table, list)
    [] file = "btv" -> Btv(table, list)
    [] file = "cpf" -> Cuttermaran(table, list)
    [] file = "dvr" -> Dvrmstb(table, list)
    [] file = "plist" -> Plist(table, list)
    [] file = "mkv" -> Mkv(table, list, blocks)
    [] file = "ffmeta" -> FfMeta(table, list)
    [] file = "ffsplit" -> FfSplit(table, list)
    [] file = "vcf" -> Vcf(table, list)
    [] file \in {"Xcl", "avs"} -> Retained(table, list)
    [] file = "chp" -> Chapters(table, list)
    [] file \in {"cut", "bcf"} -> Players(table, list)
    [] file = "scf" -> Scf(list)
    [] file = "vdr" -> Vdr(table, list)
    [] file = "wme" -> Womble(table, list)
    [] file = "mpgtx" -> Mpgtx(table, list)
    [] file = "dvrcut" -> DvrCut(table, list)
    [] file = "schnitt" -> Schnitt(table, list)
=============================================================================
