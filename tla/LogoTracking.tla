---------------------------- MODULE LogoTracking ----------------------------
(* The station logo (detection/logo.cpp, driven by DetectCommercials): searched *)
(* for in sampled pictures, tested once per sample, and turned from flickering  *)
(* tests into stretches, frame flags and a frame count; with two_pass_logo the   *)
(* analysis starts over when a logo is found, and once more for a second one.   *)
(*                                                                              *)
(* A picture is its size and the logo it shows, 0 for none; the pictures of one *)
(* sampling interval are taken to be alike, so an edge mask is known by the     *)
(* logo it was made from and a test with it succeeds where that logo is shown.  *)
(* logo_filter and delay_logo_search are at their default 0, no logo file is    *)
(* loaded and frames are numbered from 1.                                       *)
EXTENDS Integers, Sequences, FiniteSets

CONSTANTS
  Recordings,    \* what may be broadcast: sequences of [size, logo], one per interval
  Sample,        \* frames of a sampling interval
  MinHits,       \* minHitsForTrend: 10
  ShrinkHead, ShrinkTail,  \* shrink_logo and shrink_logo_tail, in frames
  MinBlock,      \* the shortest stretch kept at the end, in frames
  Buffers,       \* num_logo_buffers: 50
  Persist,       \* 0.95 of them: for how many samples an edge must hold
  Verified,      \* 0.9 of them: how many of the pictures kept must show the logo
  BreakLimit,    \* 1.2 max_commercialbreak, in frames
  GiveUp,        \* give_up_logo_search, in frames
  Added          \* added_recording, in frames

VARIABLES
  recording,  \* what is broadcast
  twoPass,    \* two_pass_logo
  frame,      \* frame_count
  size,       \* of the last picture
  enabled,    \* the logo method is on
  mask,       \* the logo of the active mask; 0 while logoInfoAvailable is off
  second,     \* secondLogoSearch
  buffer,     \* logoFrameNum and logoFrameBuffer in order of age: the pictures kept
  hits,       \* doublCheckLogoCount, up to the two it is tested for
  limit,      \* giveUpOnLogoSearch
  present,    \* lastLogoTest
  trend,      \* logoTrendCounter
  start,      \* logo_block[logo_block_count].start
  blocks,     \* the closed logo blocks
  flags,      \* logo_present of the frames
  count,      \* frames_with_logo
  ended,      \* BuildMasterCommList has been called
  turn        \* the logo block its loop over them is at, 0 at its end

vars == <<recording, twoPass, frame, size, enabled, mask, second, buffer, hits, limit,
          present, trend, start, blocks, flags, count, ended, turn>>

ParametersOK ==
  /\ Recordings \subseteq Seq([size : Nat, logo : Nat])
  /\ Sample \in Nat \ {0} /\ MinHits \in Nat \ {0} /\ ShrinkHead \in Nat /\ ShrinkTail \in Nat
  /\ Buffers \in Nat \ {0} /\ Persist \in 1..Buffers

\* What of the state one frame works on.
State ==
  [enabled |-> enabled, mask |-> mask, second |-> second, buffer |-> buffer, hits |-> hits,
   limit |-> limit, present |-> present, trend |-> trend, start |-> start,
   blocks |-> blocks, flags |-> flags, count |-> count]

\* The picture of a frame.
Picture(f) == recording[(f + Sample - 1) \div Sample]
\* The logo seen in the sample a frame belongs to: its own test or the last one before it.
Sampled(f) == IF f < Sample THEN 0 ELSE Picture((f \div Sample) * Sample).logo

\* What InitComSkip leaves of a pass over the recording.
Cleared(s) ==
  [s EXCEPT !.buffer = <<>>, !.present = FALSE, !.trend = 0, !.blocks = <<>>, !.count = 0]

Init ==
  /\ recording \in Recordings /\ twoPass \in BOOLEAN
  /\ frame = 0 /\ size = 0 /\ enabled = TRUE /\ mask = 0 /\ second = FALSE
  /\ buffer = <<>> /\ hits = 0 /\ limit = GiveUp
  /\ present = FALSE /\ trend = 0 /\ start = 0 /\ blocks = <<>>
  /\ flags = <<>> /\ count = 0 /\ ended = FALSE /\ turn = 0

------------------------------------------------------------------------------
(* From tests to stretches. *)

\* The state with the flags of a range of frames set.
Flagged(s, from, to, value) ==
  [s EXCEPT !.flags = [f \in DOMAIN @ |-> IF f \in from..to THEN value ELSE @[f]]]

\* Mutant of History: all the hits are counted, not the samples between them.
HistoryOfHits == MinHits * Sample
\* The frames from the first hit of a trend to the one that completes it.
History == (MinHits - 1) * Sample

OpenedAt(f) == IF f > History THEN f - History ELSE 0

Opened(s, f) ==
  [Flagged(s, OpenedAt(f), f - 1, TRUE) EXCEPT
     !.present = TRUE, !.trend = 0, !.start = OpenedAt(f), !.count = @ + History]

\* A stretch long enough to be shrunk; a shorter one is discarded, flags and count stay.
Kept(from, to) == to - from > 2 * ShrinkHead + ShrinkTail

\* A stretch ends one sample before the test that missed the logo.
ClosedAt(f) == f - Sample

Closed(s, f) ==
  LET to == ClosedAt(f) - ShrinkHead - ShrinkTail
      gone == [s EXCEPT !.present = FALSE, !.trend = 0]
  IN IF Kept(s.start, ClosedAt(f))
     THEN [Flagged(gone, to, f - 1, FALSE) EXCEPT
             !.blocks = Append(@, [from |-> s.start + ShrinkHead, to |-> to]),
             !.count = @ - (2 * Sample + 2 * ShrinkHead + ShrinkTail)]
     ELSE gone

\* ProcessLogoTest.
Tested(s, f, seen) ==
  CASE seen = s.present -> [s EXCEPT !.trend = 0]
    [] s.present /\ ~seen -> Closed(s, f)
    [] ~s.present /\ seen /\ s.trend + 1 = MinHits -> Opened(s, f)
    [] OTHER -> [s EXCEPT !.trend = @ + 1]

------------------------------------------------------------------------------
(* The search for a logo. *)

Full(buf) == Len(buf) = Buffers

\* A picture kept is its frame and the logo it shows.
Kepts(buf) == {buf[i] : i \in DOMAIN buf}

\* FillLogoBuffer.
Filled(buf, f) ==
  Append(IF Full(buf) THEN SubSeq(buf, 2, Buffers) ELSE buf,
         [frame |-> f, logo |-> Picture(f).logo])

\* A logo whose edges held in the last Persist pictures kept, if there is one.
Candidates(buf) ==
  {logo \in {kept.logo : kept \in Kepts(buf)} \ {0} :
     \A i \in Buffers - Persist + 1 .. Buffers : buf[i].logo = logo}

Shows(buf, logo) == {kept \in Kepts(buf) : kept.logo = logo}

\* The frames of the intervals that kept pictures stand for.
Intervals(kepts) == UNION {kept.frame..kept.frame + Sample - 1 : kept \in kepts}

\* The pictures kept are tested with the candidate mask, and their frames flagged.
DoubleChecked(s, logo) ==
  LET seen == Intervals(Shows(s.buffer, logo))
      all == Intervals(Kepts(s.buffer))
  IN [s EXCEPT !.flags = [f \in DOMAIN @ |-> IF f \in all THEN f \in seen ELSE @[f]]]

\* last_non_logo_frame: the end of the last picture without the logo, or the oldest kept.
LastWithout(buf, logo) ==
  LET missed == Intervals(Kepts(buf) \ Shows(buf, logo)) \union {Head(buf).frame}
  IN CHOOSE f \in missed : \A g \in missed : g <= f

\* The candidate becomes the mask, and a stretch opens after the last picture without it.
Accepted(s, logo) ==
  [s EXCEPT !.mask = logo, !.present = TRUE, !.trend = Buffers,
            !.start = LastWithout(s.buffer, logo) + 1]

\* An attempt that finds a candidate counts, one that finds none starts the count again.
Attempts(s) == IF Candidates(s.buffer) = {} THEN 0 ELSE IF s.hits = 0 THEN 1 ELSE 2

Candidate(buf) == CHOOSE logo \in Candidates(buf) : TRUE
Tried(s) == DoubleChecked(s, Candidate(s.buffer))
MostShow(buf) == Cardinality(Shows(buf, Candidate(buf))) >= Verified

\* The second attempt in a row that finds a candidate has it tested.
Checked(s) ==
  IF Attempts(s) <= 1 THEN s
  ELSE IF MostShow(s.buffer) THEN Accepted(Tried(s), Candidate(s.buffer)) ELSE Tried(s)

\* SearchForLogoEdges, at frame f.
Searched(s, f) ==
  LET checked == Checked(s)
  IN [checked EXCEPT !.hits = Attempts(s),
                     !.enabled = ~(checked.mask = 0 /\ twoPass /\ f > checked.limit),
                     !.limit = checked.limit + Added]

\* The logo is searched for until there is a mask, and in one pass while it is away.
Searching(s) == s.mask = 0 \/ (~s.present /\ ~twoPass)

Looked(s, f) ==
  LET more == [s EXCEPT !.buffer = Filled(@, f)]
  IN IF ~Searching(s) THEN s
     ELSE IF Full(more.buffer) THEN Searched(more, f) ELSE more

\* In one pass, a logo that is away while the buffer is full has the buffer start again.
Emptied(s) == IF ~s.present /\ ~twoPass /\ Full(s.buffer) THEN [s EXCEPT !.buffer = <<>>] ELSE s

\* A mask that does not come back after the first break is given up for a second one.
MaySearchAgain(s, f) ==
  /\ twoPass /\ ~s.second /\ s.blocks # <<>> /\ ~s.present
  /\ f - s.blocks[Len(s.blocks)].to > BreakLimit /\ 2 * s.count < f

Followed(s, f) ==
  LET tested == Emptied(Tested(s, f, Picture(f).logo = s.mask))
  IN IF s.mask = 0 THEN s
     ELSE IF MaySearchAgain(tested, f)
     THEN [tested EXCEPT !.mask = 0, !.second = TRUE, !.buffer = <<>>]
     ELSE tested

------------------------------------------------------------------------------
(* The analysis. *)

Frames == Len(recording) * Sample

\* ResetLogoBuffers gives the first place to the frame of a change, whose picture is never
\* put there: it stays empty and shows no logo.
Bare(f) == [frame |-> f, logo |-> 0]

\* A picture of another size: its buffers are made anew and the mask is gone.
Resized(s, f, new) ==
  IF new = size THEN s
  ELSE [s EXCEPT !.mask = 0, !.present = FALSE, !.trend = 0,
                 !.buffer = IF size = 0 THEN <<>> ELSE <<Bare(f)>>]

Become(s) ==
  /\ enabled' = s.enabled /\ mask' = s.mask /\ second' = s.second /\ buffer' = s.buffer
  /\ hits' = s.hits /\ limit' = s.limit /\ present' = s.present /\ trend' = s.trend
  /\ start' = s.start /\ blocks' = s.blocks /\ flags' = s.flags /\ count' = s.count

\* What is kept of a frame: its flag, and one more frame with a logo.
Shown(s, f) ==
  [Flagged(s, f, f, s.mask # 0 /\ s.present) EXCEPT
     !.count = @ + (IF s.present THEN 1 ELSE 0)]

Sampling(s, f) == s.enabled /\ f % Sample = 0

\* A frame of the recording: SubmitFrame and DetectCommercials.  The logo found in the
\* first of two passes takes the analysis back to the start of the recording.
Decode ==
  /\ ~ended /\ frame < Frames
  /\ size' = Picture(frame + 1).size
  /\ \E f \in {frame + 1} :
     \E sized \in {Resized([State EXCEPT !.flags = Append(SubSeq(@, 1, frame), FALSE)],
                           f, Picture(f).size)} :
     \E looked \in {IF Sampling(sized, f) THEN Looked(sized, f) ELSE sized} :
        IF twoPass /\ sized.mask = 0 /\ looked.mask # 0
        THEN /\ frame' = 0
             /\ \E s \in {Cleared(looked)} : Become(s)
        ELSE /\ frame' = f
             /\ \E tested \in {IF Sampling(sized, f) THEN Followed(looked, f) ELSE looked} :
                \E s \in {Shown(tested, f)} : Become(s)
  /\ UNCHANGED <<recording, twoPass, ended, turn>>

\* The end of the recording: BuildMasterCommList closes the stretch that is open.
Finish ==
  /\ ~ended /\ frame = Frames
  /\ \E s \in {IF enabled THEN Tested(State, frame, FALSE) ELSE State} :
       Become(s) /\ turn' = IF enabled THEN Len(s.blocks) ELSE 0
  /\ ended' = TRUE
  /\ UNCHANGED <<recording, twoPass, frame, size>>

Long(b) == b.to - b.from >= MinBlock

\* A turn of its loop: a logo block that is too short is taken out, from the last to the first.
Tidy ==
  /\ turn > 0
  /\ blocks' = IF Long(blocks[turn]) THEN blocks
               ELSE SubSeq(blocks, 1, turn - 1) \o SubSeq(blocks, turn + 1, Len(blocks))
  /\ turn' = turn - 1
  /\ UNCHANGED <<recording, twoPass, frame, size, enabled, mask, second, buffer, hits, limit,
                 present, trend, start, flags, count, ended>>

Next == Decode \/ Finish \/ Tidy

Spec == Init /\ [][Next]_vars /\ WF_vars(Next)
------------------------------------------------------------------------------
(* Correctness. *)

\* Logo blocks are not empty and come in order, the open one after the closed ones: what
\* CheckFrameForLogo and CalculateLogoFraction (logo.cpp 1289-1314) rely on.
BlocksApart ==
  /\ \A i \in DOMAIN blocks : blocks[i].from < blocks[i].to
  /\ \A i, j \in DOMAIN blocks : i < j => blocks[i].to < blocks[j].from
  /\ present => \A i \in DOMAIN blocks : blocks[i].to < start

\* Every frame of a logo block is flagged: Evidence exports the flags, scoring reads the
\* blocks.
BlocksFlagged == \A i \in DOMAIN blocks : \A f \in blocks[i].from .. blocks[i].to - 1 : flags[f]

\* A frame is flagged only where the sample it belongs to showed a logo.
FlagsGrounded == \A f \in 1..frame : flags[f] => Sampled(f) # 0

\* A sample without the logo closes the stretch (docs/algorithm, "a single sample without the
\* logo closes the stretch"): none lies in the one that is open.
NoneMissed == present => \A f \in start..frame : Sampled(f) = mask

\* However often the analysis starts over for a logo, it comes to the end (docs/algorithm,
\* "starts again from frame 1 with the logo already known").
AnalysisEnds == <>(ended /\ turn = 0)
=============================================================================
