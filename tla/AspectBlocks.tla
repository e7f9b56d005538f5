---------------------------- MODULE AspectBlocks ----------------------------
(***************************************************************************)
(* Stretches of one aspect ratio: ProcessARInfo of                         *)
(* detection/scene_analysis.cpp for each frame, the end of the list and    *)
(* its tidying in BuildMasterCommList (detection/detection.cpp), and the   *)
(* cuts that BuildBlocks (detection/blocks.cpp) makes of it.               *)
(*                                                                         *)
(* A new ratio counts after it was read for a while, and then from where   *)
(* it was first read; after longer without any reading that fits, the      *)
(* ratio is undefined.  Tidying joins stretches, one at a time, each time  *)
(* from the last pair on, until nothing is left to join.                   *)
(*                                                                         *)
(* A ratio is a number, 0 is undefined; readings that differ by less than  *)
(* ar_delta are one ratio.                                                 *)
(***************************************************************************)
EXTENDS Integers, Sequences, FiniteSets

CONSTANTS
  AspectFrames, \* frame_count: the frames of the recording
  Ratios,   \* bound: the ratios that are read, positive numbers
  Trend,    \* the frames of aspect_ratio_trend, 0.8 s
  Lost,     \* the frames of 3 s
  Slip,     \* volume_slip
  Cases     \* bound: what else decides, see CaseType

CaseType ==
  [logos : SUBSET (1..AspectFrames),         \* the frames with the logo, none without the method
   shortest : Nat,                           \* cut_on_ar_change in frames, 0 unless it is above 2
   cutting : {"none", "all", "quiet"}]       \* where the ratio changes: not at all, everywhere, or where it is quiet

ASSUME AspectAssumption ==
  /\ AspectFrames \in Nat \ {0} /\ Ratios \subseteq Nat \ {0} /\ {Trend, Lost} \subseteq Nat
  /\ Cases \subseteq CaseType

Undefined == 0
\* A box that is not symmetrical says nothing.
Unreliable == -1
Readings == Ratios \cup {Undefined, Unreliable}

VARIABLES
  stage,   \* "frames", "tidy", "slip", "cut", "done"
  frameRead, \* framenum_real
  ratio,   \* last_ar_ratio
  aspectTrend, \* ar_ratio_trend, with its counter, and ar_ratio_start
  misses,  \* ar_misratio_trend_counter
  list,    \* ar_block: the closed stretches and the open one
  stale,   \* ar_block[ar_block_count], behind the end of the list
  case,
  entry,   \* the index of the loop over the list
  cuts,    \* the frames inserted with FrameCause::aspect_ratio
  dominantRatio \* dominant_ar

aspectVars == <<stage, frameRead, ratio, aspectTrend, misses, list, stale, case, entry, cuts, dominantRatio>>

Newest == list[Len(list)]
Stretch(from, r) == [start |-> from, end |-> 0, ratio |-> r]
NoTrend(at) == [ratio |-> aspectTrend.ratio, count |-> 0, start |-> at]

AspectInit ==
  /\ stage = "frames" /\ frameRead = 1 /\ misses = 0 /\ stale = Undefined /\ entry = 0 /\ cuts = {} /\ dominantRatio = Undefined
  /\ case \in Cases
  \* ProcessARInfoInit takes the first box as it is.
  /\ \E r \in Ratios \cup {Undefined} :
       /\ ratio = r /\ aspectTrend = [ratio |-> r, count |-> 0, start |-> 1]
       /\ list = <<Stretch(1, r)>>

-----------------------------------------------------------------------------
(* Frame by frame. *)

\* Mutant: the new stretch begins where the ratio was accepted, the old one ends where it
\* was first read.
TurnedLate(from, r) == Append([list EXCEPT ![Len(list)].end = from - 1], Stretch(frameRead + 1, r))

\* The open stretch ends before `from`, where one with ratio r begins.
Turned(from, r) == Append([list EXCEPT ![Len(list)].end = from - 1], Stretch(from, r))

\* Nothing fits the ratio for 3 s: it is undefined, from 3 s before.
Missed(at, count, t, l, r) ==
  IF count > Lost /\ r # Undefined
  THEN /\ ratio' = Undefined /\ aspectTrend' = [t EXCEPT !.ratio = Undefined]
       /\ list' = Append([l EXCEPT ![Len(l)].end = at - Lost - 1], Stretch(at - Lost, Undefined))
       /\ misses' = count
  ELSE ratio' = r /\ aspectTrend' = t /\ list' = l /\ misses' = count

\* ProcessARInfo, for the reading of frame f + 1.
Read(r) ==
  LET at == frameRead + 1
      turns == r = aspectTrend.ratio /\ aspectTrend.count + 1 > Trend
  IN /\ frameRead' = at
     /\ IF r = Unreliable THEN Missed(at, misses, NoTrend(at), list, ratio)
        ELSE IF r = ratio THEN Missed(at, 0, NoTrend(at), list, ratio)
        ELSE IF r # aspectTrend.ratio
        THEN Missed(at, misses + 1, [ratio |-> r, count |-> 0, start |-> at], list, ratio)
        ELSE IF turns
        THEN Missed(at, 1, [aspectTrend EXCEPT !.count = 0], Turned(aspectTrend.start, r), r)
        ELSE Missed(at, misses + 1, [aspectTrend EXCEPT !.count = @ + 1], list, ratio)

Frame ==
  /\ stage = "frames" /\ frameRead < AspectFrames
  /\ \E r \in Readings : Read(r)
  /\ UNCHANGED <<stage, stale, case, entry, cuts, dominantRatio>>

\* Of the ratios on the list, the one with the most frames; the least of those alike.
FramesOf(l, r) ==
  LET of == {n \in 1..AspectFrames : \E i \in DOMAIN l : l[i].ratio = r /\ n \in l[i].start..l[i].end}
  IN Cardinality(of)
Dominant(l) ==
  CHOOSE r \in Ratios \cup {Undefined} :
    \A o \in Ratios : /\ FramesOf(l, o) <= (IF r = Undefined THEN 0 ELSE FramesOf(l, r))
                      /\ r # Undefined /\ o < r => FramesOf(l, o) < FramesOf(l, r)

\* A ratio becomes the one of the histogram that stands for those near it, or undefined where
\* there is none; one that stands for others stays.
Snaps ==
  {snap \in [Ratios -> Ratios \cup {Undefined}] : \A r \in Ratios : snap[r] # Undefined => snap[snap[r]] = snap[r]}
Snapped(l, snap) ==
  [i \in DOMAIN l |-> [l[i] EXCEPT !.ratio = IF @ = Undefined THEN Undefined ELSE snap[@]]]

\* After the last frame the open stretch is closed.
Close ==
  /\ stage = "frames" /\ frameRead = AspectFrames /\ stage' = "tidy"
  /\ \E snap \in Snaps : list' = Snapped([list EXCEPT ![Len(list)].end = AspectFrames], snap)
  /\ dominantRatio' = Dominant(list') /\ entry' = Len(list)
  /\ UNCHANGED <<frameRead, ratio, aspectTrend, misses, stale, case, cuts>>

-----------------------------------------------------------------------------
(* Tidying. *)

Length(i) == list[i].end - list[i].start

\* Mutant: an undefined stretch is made undefined again.
AnyShort(i) == case.shortest > 0 /\ Length(i) < case.shortest

TooShort(i) == case.shortest > 0 /\ Length(i) < case.shortest /\ list[i].ratio # Undefined
\* The logo goes through: a box that only seemed larger.
LogoThrough(i) ==
  /\ list[i - 1].ratio # Undefined /\ list[i].ratio > list[i - 1].ratio
  /\ list[i - 1].end \in case.logos /\ list[i].start \in case.logos
Headless(i) == i = 2 /\ list[1].ratio = Undefined
Alike(i) == list[i].ratio = list[i - 1].ratio
Interrupted(i) == i > 2 /\ list[i - 1].ratio = Undefined /\ list[i].ratio = list[i - 2].ratio

Joinable(i) == TooShort(i) \/ LogoThrough(i) \/ Headless(i) \/ Alike(i) \/ Interrupted(i)

\* The stretches from a to b become one of ratio r.
Merged(a, b, r) ==
  [i \in 1..(Len(list) - (b - a)) |->
    IF i < a THEN list[i]
    ELSE IF i = a THEN [start |-> list[a].start, end |-> list[b].end, ratio |-> r]
    ELSE list[i + (b - a)]]

Longer(i) == IF Length(i) > Length(i - 1) THEN list[i].ratio ELSE list[i - 1].ratio

\* One change to the list; the storage behind it keeps what was there before the others moved up.
Join(i) ==
  IF TooShort(i) THEN list' = [list EXCEPT ![i].ratio = Undefined] /\ UNCHANGED stale
  ELSE IF LogoThrough(i) THEN list' = Merged(i - 1, i, Longer(i)) /\ stale' = Newest.ratio
  ELSE IF Headless(i) \/ Alike(i) THEN list' = Merged(i - 1, i, list[i].ratio) /\ stale' = Newest.ratio
  ELSE list' = Merged(i - 2, i, list[i].ratio) /\ stale' = list[Len(list) - 1].ratio

\* After a change the pass begins again from the end.
Tidy ==
  /\ stage = "tidy" /\ entry > 1
  /\ IF Joinable(entry) THEN Join(entry) /\ entry' = Len(list') ELSE entry' = entry - 1 /\ UNCHANGED <<list, stale>>
  /\ UNCHANGED <<stage, frameRead, ratio, aspectTrend, misses, case, cuts, dominantRatio>>

TidyDone ==
  /\ stage = "tidy" /\ entry <= 1 /\ stage' = "slip" /\ entry' = Len(list)
  /\ UNCHANGED <<frameRead, ratio, aspectTrend, misses, list, stale, case, cuts, dominantRatio>>

-----------------------------------------------------------------------------
(* Cuts. *)

\* Each end, from the last on, moves to the quietest frame near it, with the start of the
\* next stretch.
SlipEnd ==
  /\ stage = "slip" /\ entry > 0 /\ entry' = entry - 1
  /\ \E a \in (list[entry].end - Slip)..(list[entry].end + Slip) :
       /\ a \in 0..(AspectFrames - 1) \/ a = list[entry].end
       /\ list' = [i \in DOMAIN list |->
            IF i = entry THEN [list[i] EXCEPT !.end = a]
            ELSE IF i = entry + 1 /\ a # list[entry].end THEN [list[i] EXCEPT !.start = a] ELSE list[i]]
  /\ UNCHANGED <<stage, frameRead, ratio, aspectTrend, misses, stale, case, cuts, dominantRatio>>

SlipDone ==
  /\ stage = "slip" /\ entry = 0 /\ stage' = "cut"
  /\ UNCHANGED <<frameRead, ratio, aspectTrend, misses, list, stale, case, entry, cuts, dominantRatio>>

\* The ratio of the entry after i, which for the last one is what is left behind it.
NextRatio(i) == IF i < Len(list) THEN list[i + 1].ratio ELSE stale

\* quiet: the stretches whose end is at a low volume.
Cutting(quiet) ==
  {i \in DOMAIN list : case.cutting = "all" \/ (case.cutting = "quiet" /\ i \in quiet)}
CutAll ==
  /\ stage = "cut" /\ stage' = "done"
  /\ \E quiet \in SUBSET DOMAIN list :
       cuts' = {list[i].end : i \in {j \in Cutting(quiet) : list[j].ratio # Undefined /\ NextRatio(j) # Undefined}}
  /\ UNCHANGED <<frameRead, ratio, aspectTrend, misses, list, stale, case, entry, dominantRatio>>

AspectOver == stage = "done" /\ UNCHANGED aspectVars

AspectNext == Frame \/ Close \/ Tidy \/ TidyDone \/ SlipEnd \/ SlipDone \/ CutAll \/ AspectOver
AspectSpec == AspectInit /\ [][AspectNext]_aspectVars /\ WF_aspectVars(Tidy \/ TidyDone)

-----------------------------------------------------------------------------
(* What must hold. *)

\* The stretches follow one another without gap from the first frame: a ratio accepted
\* late begins before the frames that were read with it, a lost one ends in the past, and
\* neither may reach back over the stretch before; tidying keeps the whole covered.
StretchesTile ==
  stage \in {"frames", "tidy"} =>
    /\ list[1].start = 1
    /\ \A i \in 1..(Len(list) - 1) : list[i].start <= list[i].end /\ list[i + 1].start = list[i].end + 1
    /\ IF stage = "frames" THEN Newest.start <= frameRead ELSE Newest.end = AspectFrames /\ Newest.start <= AspectFrames

\* Tidying ends, although it makes stretches undefined that others are joined over, and
\* leaves nothing to join or to drop.
TidySettles ==
  stage = "tidy" ~> (stage = "slip" /\ \A i \in 2..Len(list) : ~Joinable(i))

=============================================================================
