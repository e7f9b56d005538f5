------------------------------- MODULE Blocks -------------------------------
(***************************************************************************)
(* From cut candidates to the list of breaks: what BuildMasterCommList of  *)
(* detection/detection.cpp does after the last frame, with BuildBlocks and *)
(* CleanLogoBlocks (detection/blocks.cpp), the aspect-ratio clean-up of    *)
(* WeighBlocks (detection/scoring.cpp) and OutputBlocks                    *)
(* (output/cutlists.cpp).                                                  *)
(*                                                                         *)
(* A candidate is a frame with the causes it was inserted for; groups of   *)
(* close candidates become cuts, the pieces between cuts are blocks, and   *)
(* passes over the blocks join some.  The scores decide which blocks are   *)
(* commercials; what they are made from is data, so any verdict is         *)
(* possible here.  Runs of commercials are breaks, and more passes extend, *)
(* delete, shorten and pad them.  Each turn of a loop is a step.           *)
(*                                                                         *)
(* Times are frames: frames are evenly spaced.  Frame numbers begin at 1.  *)
(***************************************************************************)
EXTENDS Integers, Sequences, FiniteSets

CONSTANTS
  N,         \* framesprocessed: the frames of the recording
  Second,    \* the frames of a second
  Many,      \* silent frames above which a group is narrowed to its middle
  MinBlack,  \* min_black_frames_for_break
  Glitch,    \* the frames of the longest aspect-ratio glitch
  Lists,     \* bound: the lists of candidates, each frame with its causes
  Logos,     \* bound: the sets of frames inside logo stretches
  Settings   \* bound: the settings of the list, see SettingsType

SettingsType ==
  [after : Nat,        \* delete_block_after_commercial
   show : Nat,         \* min_show_segment_length
   min : Nat,          \* min_commercialbreak
   max : Nat,          \* max_commercialbreak
   edge : Nat,         \* min_commercial_break_at_start_or_end
   afterLast : Nat,    \* delete_show_after_last_commercial
   beforeFirst : Nat,  \* delete_show_before_first_commercial
   keepFirst : Nat,    \* always_keep_first_seconds
   keepLast : Nat,     \* always_keep_last_seconds
   padStart : Int,     \* padding - remove_before
   padEnd : Int]       \* padding - remove_after

\* Of a candidate: black, non_uniform, scene_change, resolution_change, silence and
\* aspect_ratio.  The first four are of the picture; the other causes act alike.
Picture == {"black", "flat", "scene", "size"}
Causes == Picture \cup {"silence", "ratio", "other"}

ASSUME BlocksAssumption ==
  /\ N \in Nat \ {0} /\ Second \in Nat \ {0} /\ Many \in Nat \ {0} /\ MinBlack \in Nat /\ Glitch \in Nat
  /\ Lists \subseteq [1..N -> SUBSET Causes]
  /\ \A frames \in Logos : frames \subseteq 1..N
  /\ Settings \subseteq SettingsType

VARIABLES
  pc,        \* the loop or pass that runs
  cands,     \* what the groups have not taken yet of black[]: frames with their causes
  group,     \* the group that grows
  prev,      \* prev_start and prev_head
  blocks,    \* cblock[0 .. block_count - 1]; tail is b_tail, head b_head
  at,        \* the index of a loop over the blocks
  logo,      \* the frames CheckFrameForLogo() holds of, none when logos are not connected
  settings,
  ads,       \* the blocks whose score is above the threshold
  breaks,    \* commercial[]
  left       \* the breaks that the loop of H6 has to look at

building == <<cands, group, prev>>
listing == <<settings, ads, breaks, left>>
vars == <<pc, cands, group, prev, blocks, at, logo, settings, ads, breaks, left>>

NoGroup == [start |-> 1, end |-> 1, cause |-> {}, silent |-> 0, picture |-> 0, first |-> 0, last |-> 0]

\* Any list of candidates, as the filters for loud, bright and uneven frames leave it.
Init ==
  /\ pc = "validate" /\ cands \in Lists /\ group = NoGroup
  /\ prev = [start |-> 1, head |-> 0] /\ blocks = <<>> /\ at = 0
  /\ logo = {} /\ settings = (CHOOSE s \in Settings : TRUE) /\ ads = {} /\ breaks = {} /\ left = {}

-----------------------------------------------------------------------------
(* The cuts. *)

\* ValidateBlackFrames: causes that are not spaced like commercials are dropped; black
\* is only reported.  The last frame (framesprocessed, which is frame_count) is a black
\* candidate before and after this.
Validate ==
  /\ pc = "validate"
  /\ \E doubtful \in SUBSET {"flat", "scene", "silence"} :
       cands' = [f \in 1..N |-> (cands[f] \ doubtful) \cup (IF f = N THEN {"black"} ELSE {})]
  /\ pc' = "open"
  /\ UNCHANGED <<group, prev, blocks, at, logo, listing>>

Ahead == {f \in 1..N : cands[f] # {}}
Coming(f) == f \in Ahead /\ \A g \in Ahead : f <= g

OpenGroup ==
  /\ pc = "open" /\ pc' = "pull"
  /\ \E f \in 1..N :
       /\ Coming(f)
       /\ group' = [NoGroup EXCEPT !.start = f, !.end = f, !.cause = cands[f]]
       /\ cands' = [cands EXCEPT ![f] = {}]
  /\ UNCHANGED <<prev, blocks, at, logo, listing>>

\* Less than a second after the end of the group.
Near(f) == Coming(f) /\ f - group.end < Second

\* A change of aspect ratio alone does not stretch the group, and a group that is only
\* that moves to what comes.  The first candidate of a group is in neither count.
With(f, c) ==
  LET pictured == c \cap Picture # {}
  IN [start |-> IF c # {"ratio"} /\ group.cause = {"ratio"} THEN f ELSE group.start,
      end |-> IF c # {"ratio"} THEN f ELSE group.end,
      cause |-> group.cause \cup c,
      silent |-> group.silent + (IF "silence" \in c THEN 1 ELSE 0),
      picture |-> group.picture + (IF pictured THEN 1 ELSE 0),
      first |-> IF pictured /\ group.first = 0 THEN f ELSE group.first,
      last |-> IF pictured THEN f ELSE group.last]

Pull ==
  /\ pc = "pull"
  /\ \E f \in 1..N : Near(f) /\ group' = With(f, cands[f]) /\ cands' = [cands EXCEPT ![f] = {}]
  /\ UNCHANGED <<pc, prev, blocks, at, logo, listing>>

\* The part of the group that counts: its pictures when silence outnumbers them, its
\* middle when it is silence alone.
Core ==
  IF group.picture > 0 /\ 2 * group.silent > 3 * group.picture
  THEN [from |-> group.first, to |-> group.last]
  ELSE IF group.picture = 0 /\ group.silent > Many
  THEN [from |-> group.start - 1 + group.silent \div 2, to |-> group.end + 1 - group.silent \div 2]
  ELSE [from |-> group.start, to |-> group.end]

Half == (Core.to - Core.from + 1) \div 2

\* Mutant: the rest of the black before a block stays with no block.
EndedHeadless ==
  [start |-> prev.start,
   end |-> IF Core.to = N THEN N ELSE Core.from + Half - 1,
   head |-> prev.head, tail |-> Half, cause |-> group.cause]

\* The block that the cut in the middle of the core ends.
Ended ==
  [start |-> prev.start - prev.head,
   end |-> IF Core.to = N THEN N ELSE Core.from + Half - 1,
   head |-> prev.head, tail |-> Half, cause |-> group.cause]

\* A first block of a second or less is thrown away, its frames go to the next.
Kept == blocks # <<>> \/ Ended.end - Ended.start > Second \/ Ended.end = N

CloseGroup ==
  /\ pc = "pull" /\ ~\E f \in 1..N : Near(f)
  /\ IF Kept
     THEN /\ blocks' = Append(blocks, Ended)
          /\ prev' = [start |-> Core.to + 1, head |-> Core.to - Core.from - Half + 1]
     ELSE UNCHANGED <<blocks, prev>>
  /\ group' = NoGroup
  /\ pc' = IF Ahead # {} THEN "open" ELSE "combine"
  /\ at' = IF Ahead # {} THEN at ELSE Len(blocks')
  /\ UNCHANGED <<cands, logo, listing>>

-----------------------------------------------------------------------------
(* Passes that join blocks. *)

\* Block i with the n blocks after it, as the code joins them: f_end and b_tail of the
\* last of them.
Joined(i, n, cause) ==
  [k \in 1..(Len(blocks) - n) |->
    IF k < i THEN blocks[k]
    ELSE IF k = i
    THEN [blocks[i] EXCEPT !.end = blocks[i + n].end, !.tail = blocks[i + n].tail, !.cause = cause]
    ELSE blocks[k + n]]

Span(b) == b.end - b.start

\* Too little black between two blocks, from the last pair to the first.
Combine ==
  /\ pc = "combine" /\ at > 1
  /\ blocks' = IF /\ blocks[at].head + blocks[at - 1].tail < MinBlack
                  /\ blocks[at - 1].cause = {"black"}
               THEN Joined(at - 1, 1, blocks[at].cause) ELSE blocks
  /\ at' = at - 1
  /\ UNCHANGED <<pc, building, logo, listing>>

CombineDone ==
  /\ pc = "combine" /\ at <= 1 /\ pc' = "glitches" /\ at' = 1
  /\ UNCHANGED <<building, blocks, logo, listing>>

\* cut_cause() leaves silence out.
CutCause(b) == b.cause \ {"silence"}

IsGlitch(i) ==
  /\ CutCause(blocks[i]) = {"ratio"} /\ CutCause(blocks[i + 1]) = {"ratio"}
  /\ Span(blocks[i + 1]) < Glitch

\* A short block between two changes of aspect ratio; whether the blocks around it have
\* the same ratio is data.
JoinGlitch ==
  /\ pc = "glitches" /\ at <= Len(blocks) - 2
  /\ \E sameRatio \in BOOLEAN :
       blocks' = IF IsGlitch(at) /\ sameRatio THEN Joined(at, 2, blocks[at].cause) ELSE blocks
  /\ at' = at + 1
  /\ UNCHANGED <<pc, building, logo, listing>>

\* The logo stretches, any, matter from here on.
GlitchesDone ==
  /\ pc = "glitches" /\ at > Len(blocks) - 2 /\ pc' = "logos" /\ at' = Len(blocks)
  /\ logo' \in Logos
  /\ UNCHANGED <<building, blocks, listing>>

\* The logo on both sides of the cut before block i.
LogoAcross(i) == blocks[i - 1].end \in logo /\ blocks[i].start \in logo

\* Mutant: the logo is asked for at the starts of both blocks.
JoinLogoStarts ==
  /\ pc = "logos" /\ at > 1
  /\ blocks' = IF blocks[at - 1].start \in logo /\ blocks[at].start \in logo
               THEN Joined(at - 1, 1, blocks[at].cause) ELSE blocks
  /\ at' = at - 1
  /\ UNCHANGED <<pc, building, logo, listing>>

\* CleanLogoBlocks, from the last pair to the first.
JoinLogo ==
  /\ pc = "logos" /\ at > 1
  /\ blocks' = IF LogoAcross(at) THEN Joined(at - 1, 1, blocks[at].cause) ELSE blocks
  /\ at' = at - 1
  /\ UNCHANGED <<pc, building, logo, listing>>

-----------------------------------------------------------------------------
(* The list of breaks. *)

Break(i, j) == [start |-> blocks[i].start, end |-> blocks[j].end, first |-> i, last |-> j]

\* The maximal runs of commercials.
Runs(set) ==
  {run \in set \X set :
    run[1] <= run[2] /\ run[1]..run[2] \subseteq set /\ run[1] - 1 \notin set /\ run[2] + 1 \notin set}

\* The scores are known: BuildCommercial.  The settings of the list matter from here on.
Decide ==
  /\ pc = "logos" /\ at <= 1
  /\ \E verdict \in SUBSET (1..Len(blocks)) :
       ads' = verdict /\ breaks' = {Break(run[1], run[2]) : run \in Runs(verdict)}
  /\ settings' \in Settings
  /\ pc' = "extendAfter"
  /\ UNCHANGED <<building, blocks, at, logo, left>>

Count == Len(blocks)
Final(set) == CHOOSE b \in set : \A o \in set : o.last <= b.last
Leading(set) == CHOOSE b \in set : \A o \in set : b.first <= o.first
Duration(b) == b.end - b.start

\* H5: a short block after a break, of a score below the threshold; a score that is the
\* threshold makes no commercial and is not below it.
FollowedByShort(b, below) == b.last < Count /\ Span(blocks[b.last + 1]) < settings.after /\ b.last + 1 \in below
ExtendAfter ==
  /\ pc = "extendAfter" /\ pc' = "extendLast"
  /\ \E below \in SUBSET ((1..Count) \ ads) :
       /\ breaks' = {IF FollowedByShort(b, below) THEN Break(b.first, b.last + 1) ELSE b : b \in breaks}
       /\ ads' = ads \cup {b.last + 1 : b \in {o \in breaks : FollowedByShort(o, below)}}
  /\ UNCHANGED <<building, blocks, at, logo, settings, left>>

\* H5: too little programme after the last break.  Only the last block takes the score.
ExtendLast ==
  /\ pc = "extendLast" /\ pc' = "extendFirst"
  /\ LET b == Final(breaks)
     IN IF breaks # {} /\ b.last < Count /\ 2 * (blocks[Count].end - blocks[b.last].end) < settings.show
        THEN breaks' = (breaks \ {b}) \cup {Break(b.first, Count)} /\ ads' = ads \cup {Count}
        ELSE UNCHANGED <<breaks, ads>>
  /\ UNCHANGED <<building, blocks, at, logo, settings, left>>

\* H5: too little programme before the first break.
ExtendFirst ==
  /\ pc = "extendFirst" /\ pc' = "length"
  /\ LET b == Leading(breaks)
     IN IF breaks # {} /\ b.first = 2 /\ blocks[1].end < settings.min
        THEN breaks' = (breaks \ {b}) \cup {Break(1, b.last)} /\ ads' = ads \cup {1}
        ELSE UNCHANGED <<breaks, ads>>
  /\ left' = breaks'
  /\ UNCHANGED <<building, blocks, at, logo, settings>>

TooLong(b) == Duration(b) > settings.max /\ b # Leading(breaks) /\ b # Final(breaks)

\* H6, from the last break to the first: a break too short, or too long and not the
\* first or last that is there, unless it is at an edge of the recording.  A break that
\* begins in the first second and lasts 10.2 s is never deleted either.
Deletable(b) ==
  /\ b.start > Second \/ 5 * Duration(b) < 51 * Second
  /\ TooLong(b) \/ Duration(b) < settings.min
  /\ blocks[Count].end - b.start > settings.edge /\ b.end > settings.edge

DeleteByLength ==
  /\ pc = "length" /\ left # {}
  /\ LET b == Final(left)
     IN /\ left' = left \ {b}
        /\ IF Deletable(b) THEN breaks' = breaks \ {b} /\ ads' = ads \ (b.first..b.last)
                           ELSE UNCHANGED <<breaks, ads>>
  /\ UNCHANGED <<pc, building, blocks, at, logo, settings>>

LengthDone ==
  /\ pc = "length" /\ left = {} /\ pc' = "afterLast"
  /\ UNCHANGED <<building, blocks, at, logo, listing>>

\* Mutant: the first break is taken for the last.
DeleteAfterFirst ==
  /\ pc = "afterLast" /\ pc' = "beforeFirst"
  /\ LET b == Leading(breaks)
     IN IF breaks # {} /\ b.last < Count /\ blocks[Count].end - blocks[b.first].start < settings.afterLast
        THEN breaks' = (breaks \ {b}) \cup {[b EXCEPT !.end = blocks[Count].end, !.last = Count]}
             /\ ads' = ads \cup (b.last + 1)..Count
        ELSE UNCHANGED <<breaks, ads>>
  /\ UNCHANGED <<building, blocks, at, logo, settings, left>>

\* Little recording from the start of the last break on.  (The value 1 stands for another
\* rule, by the planned end.)
DeleteAfterLast ==
  /\ pc = "afterLast" /\ pc' = "beforeFirst"
  /\ LET b == Final(breaks)
     IN IF breaks # {} /\ b.last < Count /\ blocks[Count].end - blocks[b.first].start < settings.afterLast
        THEN breaks' = (breaks \ {b}) \cup {[b EXCEPT !.end = blocks[Count].end, !.last = Count]}
             /\ ads' = ads \cup (b.last + 1)..Count
        ELSE UNCHANGED <<breaks, ads>>
  /\ UNCHANGED <<building, blocks, at, logo, settings, left>>

\* Little recording up to the end of the first break, which the second block begins.
DeleteBeforeFirst ==
  /\ pc = "beforeFirst" /\ pc' = "keepFirst"
  /\ LET b == Leading(breaks)
     IN IF breaks # {} /\ b.first = 2 /\ blocks[b.last].end < settings.beforeFirst
        THEN breaks' = (breaks \ {b}) \cup {[b EXCEPT !.start = blocks[1].start, !.first = 1]}
             /\ ads' = ads \cup {1}
        ELSE UNCHANGED <<breaks, ads>>
  /\ UNCHANGED <<building, blocks, at, logo, settings, left>>

\* Breaks that end in the first seconds go, one that reaches over them is shortened.
KeepFirst ==
  /\ pc = "keepFirst" /\ pc' = "keepLast"
  /\ LET kept == {b \in breaks : b.end >= settings.keepFirst}
     IN breaks' = {IF b.start < settings.keepFirst THEN [b EXCEPT !.start = settings.keepFirst] ELSE b
                    : b \in kept}
  /\ UNCHANGED <<building, blocks, at, logo, settings, ads, left>>

KeepLast ==
  /\ pc = "keepLast" /\ pc' = "pad"
  /\ LET limit == blocks[Count].end - settings.keepLast
         kept == {b \in breaks : b.start <= limit}
     IN breaks' = {IF b.end > limit THEN [b EXCEPT !.end = limit] ELSE b : b \in kept}
  /\ UNCHANGED <<building, blocks, at, logo, settings, ads, left>>

\* ApplyCommercialPadding: clamped to the recording, empty ones dropped.
Padded(b) ==
  LET start == b.start + settings.padStart
      end == b.end - settings.padEnd
  IN [b EXCEPT !.start = IF start < 0 THEN 0 ELSE start, !.end = IF end > N THEN N ELSE end]

Pad ==
  /\ pc = "pad" /\ pc' = "written"
  /\ breaks' = {p \in {Padded(b) : b \in breaks} : p.end > p.start}
  /\ UNCHANGED <<building, blocks, at, logo, settings, ads, left>>

Over == pc = "written" /\ UNCHANGED vars

Next ==
  \/ Validate \/ OpenGroup \/ Pull \/ CloseGroup
  \/ Combine \/ CombineDone \/ JoinGlitch \/ GlitchesDone \/ JoinLogo
  \/ Decide \/ ExtendAfter \/ ExtendLast \/ ExtendFirst \/ DeleteByLength \/ LengthDone
  \/ DeleteAfterLast \/ DeleteBeforeFirst \/ KeepFirst \/ KeepLast \/ Pad \/ Over

Spec == Init /\ [][Next]_vars

-----------------------------------------------------------------------------
(* What must hold. *)

\* The blocks cover the frames from 1 to a frame: none is empty, none is apart from or
\* over the next.
Cover(to) ==
  /\ blocks # <<>> /\ blocks[1].start = 1 /\ blocks[Len(blocks)].end = to
  /\ \A i \in 1..Len(blocks) : blocks[i].start <= blocks[i].end
  /\ \A i \in 1..(Len(blocks) - 1) : blocks[i + 1].start = blocks[i].end + 1

\* The blocks cover the recording once all candidates are grouped, whatever the groups
\* were narrowed to and whichever blocks were joined (docs/algorithm: an ordered list
\* that covers the whole recording without gaps).
BlocksTile == pc \notin {"validate", "open", "pull"} => Cover(N)

listed == pc \notin {"validate", "open", "pull", "combine", "glitches", "logos"}

\* One sweep from the end is enough: no cut is left with the logo on both sides.
NoLogoSeam == listed => \A i \in 2..Len(blocks) : ~LogoAcross(i)

\* Whatever pass extended or deleted them, breaks are whole blocks and no block is in
\* two of them; after the passes that shorten them they are apart, inside the recording,
\* and leave the seconds alone that are always kept (unless settings widen breaks).
BreaksSound ==
  /\ listed => \A b, o \in breaks : b # o => b.last < o.first \/ o.last < b.first
  /\ listed /\ pc \notin {"keepLast", "pad", "written"} =>
       \A b \in breaks : b = Break(b.first, b.last) /\ b.first <= b.last
  /\ pc = "written" /\ settings.padStart >= 0 /\ settings.padEnd >= 0 =>
       \A b \in breaks :
         /\ settings.keepFirst <= b.start /\ 0 <= b.start /\ b.start < b.end /\ b.end <= N - settings.keepLast
         /\ \A o \in breaks : b # o => b.end < o.start \/ o.end < b.start
=============================================================================
