----------------------------- MODULE CutPoints -----------------------------
(***************************************************************************)
(* The list of cut candidates, black[]: what CheckSceneHasChanged          *)
(* (detection/scene_analysis.cpp) inserts for each frame, what             *)
(* BuildMasterCommList (detection/detection.cpp) adds after the last one   *)
(* for silence and for the ends of logo stretches, and what BuildBlocks    *)
(* (detection/blocks.cpp) removes and adds before it makes blocks.         *)
(*                                                                         *)
(* The list is kept sorted by frame; a frame that is there already takes   *)
(* the new cause and keeps its measures.  What is seen and heard of the    *)
(* frames is data.                                                         *)
(***************************************************************************)
EXTENDS Integers, Sequences, FiniteSets, SequencesExt

CONSTANTS
  CutFrames,  \* frame_count
  MinSilence, \* min_silence
  LongRun,    \* the frames of 5 s
  Around,     \* the frames of 2.5 s
  Window,     \* the 10 frames around a quiet run
  CutReach,   \* the frames of 30 s
  VolumeSlip, \* volume_slip
  MaxSilence, MaxVolume, \* max_silence and max_volume
  Films,      \* bound: what the frames are, see FrameType
  Plans       \* bound: settings and stretches, see PlanType

\* Levels: 0 is the darkest, 3 is white (250 and more), and 0 is the most uniform; volume -1 is
\* unknown.
FrameType ==
  [volume : Nat \cup {-1}, dark : 0..3, busy : BOOLEAN, flat : 0..2,
   change : Nat,        \* schange_percent, of 100 alike
   resized : BOOLEAN, known : BOOLEAN]  \* another size than before; a known cutscene

PlanType ==
  [darkest : 0..2, flattest : 0..2,   \* the thresholds found from the whole recording
   least : 0..2,                      \* a little above the most uniform frame
   intelligent : BOOLEAN,             \* intelligent_brightness: they are used
   after : Nat, before : Nat,         \* after_logo and before_logo in frames, 999 at the edge
   far : Nat,                         \* a quarter of max_commercialbreak
   silent : Nat,                      \* remove_silent_segments in frames, 0 for none
   logos : Seq(Nat \X Nat),           \* the logo stretches
   turns : SUBSET (1..CutFrames), channels : SUBSET (1..CutFrames)]  \* ends of aspect and of audio stretches

ASSUME CutAssumption ==
  /\ {MinSilence, LongRun, Around, Window, CutReach, VolumeSlip, MaxSilence, MaxVolume} \subseteq Nat
  /\ CutFrames \in Nat \ {0} /\ Films \subseteq [1..CutFrames -> FrameType] /\ Plans \subseteq PlanType
  \* The first frame has none before it, and is stored as if nothing were alike.
  /\ \A shots \in Films : shots[1].change = 0

VARIABLES
  phase,  \* the pass that runs
  film, plan,
  candidate, \* the frame, or the index, of the loop that runs
  black,  \* black[0 .. black_count - 1]
  run,    \* the silent run that grows
  found   \* only observed: black[] as the filters got it
cutVars == <<phase, film, plan, candidate, black, run, found>>

Quiet0 == [start |-> 0, count |-> 0, still |-> 0, change |-> FALSE]
CutInit ==
  /\ film \in Films /\ plan \in Plans
  /\ phase = "watch" /\ candidate = 1 /\ black = <<>> /\ run = Quiet0 /\ found = <<>>

Entry(f, cause) ==
  [frame |-> f, cause |-> cause, volume |-> film[f].volume, dark |-> film[f].dark, flat |-> film[f].flat]

\* InsertBlackFrame.
Insert(list, e) ==
  LET ahead == Cardinality({i \in DOMAIN list : list[i].frame < e.frame})
  IN IF \E i \in DOMAIN list : list[i].frame = e.frame
     THEN [list EXCEPT ![ahead + 1].cause = @ \cup e.cause]
     ELSE SubSeq(list, 1, ahead) \o <<e>> \o SubSeq(list, ahead + 1, Len(list))

Entries(frames, cause) == [f \in frames |-> Entry(f, cause)]

\* The entries of the frames `new` has, in the order of the code's loops.
InsertAll(list, new) ==
  LET upTo[f \in 0..CutFrames] ==
        IF f = 0 THEN list ELSE IF f \in DOMAIN new THEN Insert(upTo[f - 1], new[f]) ELSE upTo[f - 1]
  IN upTo[CutFrames]
WithVolume(f, cause, volume) == [Entry(f, cause) EXCEPT !.volume = volume]

-----------------------------------------------------------------------------
(* Frame by frame, with thresholds of level 1. *)

IsBlack(f) == film[f].dark <= 1 /\ ~film[f].busy
CutLevel == 15  \* schange_cutlevel
Lowest == 90    \* schange_threshold
Causes(f) ==
  (IF IsBlack(f) THEN {"black"} ELSE IF film[f].flat <= 1 /\ film[f].dark < 3 THEN {"flat"} ELSE {})
  \cup (IF film[f].resized THEN {"size"} ELSE {})
  \* The change of the frame before counts, unless one of the two is black.  (The jump in
  \* brightness is of that frame with itself: there is none but in the first.)
  \cup (IF ~IsBlack(f) /\ (f = 2 \/ ~IsBlack(f - 1)) /\ film[f - 1].change < CutLevel THEN {"scene"} ELSE {})
  \cup (IF film[f].known THEN {"cutscene"} ELSE {})
  \cup (IF film[f].volume = 0 \/ (MinSilence = 1 /\ film[f].volume \in 0..(MaxSilence - 1)) THEN {"silence"} ELSE {})

\* The first frame is only measured.
Watch ==
  /\ phase = "watch" /\ candidate < CutFrames /\ candidate' = candidate + 1
  /\ black' = IF Causes(candidate + 1) = {} THEN black ELSE Insert(black, Entry(candidate + 1, Causes(candidate + 1)))
  /\ UNCHANGED <<phase, film, plan, run, found>>

-----------------------------------------------------------------------------
(* After the last frame. *)

\* There is no frame 0; its storage is silent.
StoredVolume(f) == IF f = 0 THEN 0 ELSE film[f].volume
IsSoft(f) == StoredVolume(f) < MaxVolume

\* The frame with the greatest change around the first quiet run from frame j on, which
\* must end before frame t; none else.
Around1(j, t) ==
  LET soft == {f \in j..(t - 1) : IsSoft(f)}
      q == CHOOSE f \in soft : \A g \in soft : f <= g
      ends == {f \in q..t : f = t \/ ~IsSoft(f)}
      r == CHOOSE f \in ends : \A g \in ends : f <= g
      window == {f \in (q - Window)..(r + Window - 1) : f >= 1}
  IN IF soft = {} \/ r + Window >= t THEN {}
     ELSE {CHOOSE f \in window : \A g \in window :
             film[f].change < film[g].change \/ (film[f].change = film[g].change /\ f <= g)}
\* The same backwards, down to frame t.
Around2(j, t) ==
  LET soft == {f \in (t + 1)..j : IsSoft(f)}
      q == CHOOSE f \in soft : \A g \in soft : f >= g
      ends == {f \in t..q : f = t \/ ~IsSoft(f)}
      r == CHOOSE f \in ends : \A g \in ends : f >= g
      window == {f \in (r - Window + 1)..(q + Window) : f < CutFrames}
  IN IF soft = {} \/ r - Window <= t THEN {}
     ELSE {CHOOSE f \in window : \A g \in window :
             film[f].change < film[g].change \/ (film[f].change = film[g].change /\ f >= g)}

Least(a, b) == IF a < b THEN a ELSE b
Most(a, b) == IF a > b THEN a ELSE b

\* A cut some time after the logo goes, unless another stretch or the end is near.
AfterLogo(i) ==
  LET e == plan.logos[i][2]
      next == IF i < Len(plan.logos) THEN plan.logos[i + 1][1] ELSE CutFrames
      j == Least(e + plan.after, CutFrames - 1)
  IN IF plan.after = 0 \/ next - e < plan.far THEN {}
     ELSE IF plan.after = 999 THEN {e} ELSE Around1(j, Least(j + CutReach, CutFrames - 1))
BeforeLogo(i) ==
  LET s == plan.logos[i][1]
      last == IF i > 1 THEN plan.logos[i - 1][2] ELSE 0
      j == Most(s - plan.before, 1)
  IN IF plan.before = 0 \/ s - last < plan.far THEN {}
     ELSE IF plan.before = 999 THEN {s} ELSE Around2(j, Most(j - CutReach, 1))

LogoCuts ==
  /\ phase = "watch" /\ candidate = CutFrames /\ phase' = "silent" /\ candidate' = 1
  /\ LET at == UNION {AfterLogo(i) \cup BeforeLogo(i) : i \in DOMAIN plan.logos}
         edge == (IF plan.after = 999 THEN {plan.logos[i][2] : i \in DOMAIN plan.logos} ELSE {})
                 \cup (IF plan.before = 999 THEN {plan.logos[i][1] : i \in DOMAIN plan.logos} ELSE {})
     \* At the edge of a stretch it counts as silent.
     IN black' = InsertAll(black, [f \in at |-> WithVolume(f, {"logo"}, IF f \in edge THEN 0 ELSE film[f].volume)])
  /\ UNCHANGED <<film, plan, run, found>>

\* remove_silent_segments: both ends of a long silence.
SilenceEnd(i) ==
  CHOOSE j \in (i + 1)..CutFrames : /\ j = CutFrames \/ film[j].volume >= 10
                            /\ \A m \in (i + 1)..(j - 1) : film[m].volume < 10
SilentSegment ==
  /\ phase = "silent" /\ plan.silent > 0 /\ candidate < CutFrames
  /\ IF film[candidate].volume >= 5 THEN candidate' = candidate + 1 /\ UNCHANGED black
     ELSE LET j == SilenceEnd(candidate)
          IN /\ candidate' = j + 2
             \* The second end takes the volume of the frame behind it.
             /\ black' = IF j - 1 - candidate > plan.silent
                         THEN Insert(Insert(black, Entry(candidate, {"silence"})), WithVolume(j - 1, {"silence"}, film[j].volume))
                         ELSE black
  /\ UNCHANGED <<phase, film, plan, run, found>>

SilentDone ==
  /\ phase = "silent" /\ (plan.silent = 0 \/ candidate >= CutFrames) /\ phase' = "runs" /\ candidate' = 1
  /\ UNCHANGED <<film, plan, black, run, found>>

Loudness(from, to) ==
  LET sum[f \in (from - 1)..to] == IF f < from THEN 0 ELSE sum[f - 1] + film[f].volume
  IN IF to < from THEN 0 ELSE sum[to]

\* A run counts when it is neither short nor long, has a change of scene or is nearly
\* still, and the sound before and after it is loud enough, or it is very quiet.
Counts(i) ==
  LET before == Loudness(Most(run.start - Around, 1), run.start - 1) \div Least(Around, run.start + 1)
      after == Loudness(i, Least(i + Around, CutFrames) - 1) \div Least(Around, CutFrames - i + 1)
  IN /\ MinSilence < run.count /\ run.count < LongRun
     /\ 10 * run.still > 7 * run.count \/ run.change \/ film[i].change < Lowest
     /\ \/ 10 * before > 9 * MaxVolume /\ 10 * after > 9 * MaxVolume
        \/ before > 4 * MaxVolume \/ after > 4 * MaxVolume
        \/ run.still > MinSilence

\* A frame of no volume is a candidate and neither prolongs nor ends a run; a run that
\* reaches the end of the recording is not looked at.
SilenceRun ==
  /\ phase = "runs" /\ candidate < CutFrames /\ candidate' = candidate + 1
  /\ IF film[candidate].volume < 6 THEN black' = Insert(black, Entry(candidate, {"silence"})) /\ UNCHANGED run
     ELSE IF MinSilence = 0 THEN UNCHANGED <<black, run>>
     ELSE IF film[candidate].volume < MaxSilence
     THEN /\ run' = [start |-> IF run.start = 0 THEN candidate ELSE run.start, count |-> run.count + 1,
                     still |-> run.still + (IF film[candidate].volume < 9 THEN 1 ELSE 0),
                     change |-> run.change \/ film[candidate].change < Lowest \/ film[candidate].flat <= 1]
          /\ UNCHANGED black
     ELSE /\ black' = IF Counts(candidate) THEN InsertAll(black, Entries(run.start..(candidate - 1), {"silence"})) ELSE black
          /\ run' = Quiet0
  /\ UNCHANGED <<phase, film, plan, found>>

\* The end of the recording is a candidate: the measures of a frame that is there stay.
MarkEnd ==
  /\ phase = "runs" /\ candidate >= CutFrames /\ phase' = "volumes"
  /\ black' = Insert(black, [frame |-> CutFrames, cause |-> {"black"}, volume |-> 0, dark |-> 0, flat |-> 0])
  /\ UNCHANGED <<film, plan, candidate, run, found>>

-----------------------------------------------------------------------------
(* BuildBlocks, before the blocks. *)

\* The quietest known volume around a candidate; for a change of scene alone, whether
\* there is some quiet around it.  The window takes frame 0 in.
Overlapped(f) == Most(f - VolumeSlip, 0)..(Least(f + VolumeSlip, CutFrames) - 1)
Measured(e) ==
  LET known == {StoredVolume(a) : a \in {b \in Overlapped(e.frame) : StoredVolume(b) >= 0}} \cup {e.volume}
      soft == {a \in Overlapped(e.frame) : IsSoft(a)}
      softer == {a \in soft : StoredVolume(a) < MaxVolume \div 4}
  IN IF e.cause = {"scene"}
     THEN [e EXCEPT !.volume = IF softer # {} \/ 4 * Cardinality(soft) > VolumeSlip
                               THEN MaxVolume \div 2 ELSE 10 * MaxVolume]
     ELSE [e EXCEPT !.volume = CHOOSE v \in known : \A w \in known : v <= w]

Flattest == Most(IF plan.intelligent THEN plan.flattest ELSE 1, plan.least)
Darkest == IF plan.intelligent THEN plan.darkest ELSE 1

Measure ==
  /\ phase = "volumes" /\ phase' = "loud"
  /\ LET more == {f \in 1..(CutFrames - 1) : plan.intelligent /\ film[f].flat < plan.flattest /\ film[f].dark < 3}
         list == InsertAll(black, Entries(more, {"flat"}))
     IN black' = [i \in DOMAIN list |-> Measured(list[i])]
  /\ found' = black' /\ candidate' = Len(black')
  /\ UNCHANGED <<film, plan, run>>

TooLoud(e) == "cutscene" \notin e.cause /\ e.volume > MaxVolume
TooBright(e) == e.cause \cap {"cutscene", "size"} = {} /\ "black" \in e.cause /\ e.dark > Darkest
TooUneven(e) == "cutscene" \notin e.cause /\ "flat" \in e.cause /\ e.flat > Flattest
Fails(test, e) ==
  \/ test = "loud" /\ TooLoud(e)
  \/ test = "bright" /\ TooBright(e)
  \/ test = "uneven" /\ TooUneven(e)

\* Mutant: the loop stops before the first entry.
DropButFirst(test, next) ==
  /\ phase = test
  /\ IF candidate <= 1 THEN phase' = next /\ candidate' = Len(black) /\ UNCHANGED black
     ELSE /\ candidate' = candidate - 1
          /\ black' = IF Fails(test, black[candidate]) THEN RemoveAt(black, candidate) ELSE black
          /\ UNCHANGED phase
  /\ UNCHANGED <<film, plan, run, found>>

\* A loop from the last entry to the first that removes while it counts.
Drop(test, next) ==
  /\ phase = test
  /\ IF candidate = 0 THEN phase' = next /\ candidate' = Len(black) /\ UNCHANGED black
     ELSE /\ candidate' = candidate - 1
          /\ black' = IF Fails(test, black[candidate]) THEN RemoveAt(black, candidate) ELSE black
          /\ UNCHANGED phase
  /\ UNCHANGED <<film, plan, run, found>>

DropLoud == Drop("loud", "bright")
DropBright == Drop("bright", "uneven")
DropUneven == Drop("uneven", "turns")

\* Cuts where the picture changes its shape or the sound its channels.
Turns ==
  /\ phase = "turns" /\ phase' = "listed"
  /\ black' = InsertAll(InsertAll(black, Entries(plan.turns, {"ratio"})), Entries(plan.channels, {"size"}))
  /\ UNCHANGED <<film, plan, candidate, run, found>>

CutOver == phase = "listed" /\ UNCHANGED cutVars

CutNext ==
  \/ Watch \/ LogoCuts \/ SilentSegment \/ SilentDone \/ SilenceRun \/ MarkEnd
  \/ Measure \/ DropLoud \/ DropBright \/ DropUneven \/ Turns \/ CutOver
CutSpec == CutInit /\ [][CutNext]_cutVars

-----------------------------------------------------------------------------
(* What must hold. *)

\* docs/algorithm: the candidate list, sorted by frame number.  BuildBlocks walks it in
\* this order although silence, logo and shape insert into its middle.
CandidatesSorted ==
  \A i \in 1..Len(black) : black[i].frame \in 1..CutFrames /\ (i > 1 => black[i - 1].frame < black[i].frame)

\* The tests of the three loops, on the candidates as they came.
Passes(e) ==
  \/ "cutscene" \in e.cause
  \/ /\ e.volume <= MaxVolume
     /\ "black" \in e.cause => "size" \in e.cause \/ e.dark <= Darkest
     /\ "flat" \in e.cause => e.flat <= Flattest

\* The three loops that remove while they count leave every candidate that passes the
\* three tests, and no other.
FiltersExact ==
  phase = "turns" => ToSet(black) = {e \in ToSet(found) : Passes(e)}

\* BuildBlocks gets the candidates in order, and of those found the ones that pass.
CandidatesExact == CandidatesSorted /\ FiltersExact
=============================================================================
