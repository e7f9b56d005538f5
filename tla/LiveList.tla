------------------------------ MODULE LiveList ------------------------------
(***************************************************************************)
(* The list of breaks published while a recording grows:                   *)
(* BuildCommListAsYouGo (detection/live.cpp), run by DetectCommercials     *)
(* after a frame that is no candidate, at most every 15 s, and once more   *)
(* when the analysis ends.  Each run starts from the black frames and the logo  *)
(* flags as they are then; a stretch with logo that is found later turns   *)
(* flags on behind it.                                                     *)
(*                                                                         *)
(* Frames are taken in units of some seconds.  What a unit holds is data:  *)
(* whether it shows the logo, and whether it is dark, of one colour or     *)
(* quiet.                                                                  *)
(***************************************************************************)
EXTENDS Integers, Sequences, FiniteSets, SequencesExt

CONSTANTS
  LiveFilms,      \* bound: recordings, Seq([logo : BOOLEAN, causes : SUBSET {"black", "flat", "silence"}])
  LivePlans,      \* bound: settings, see LivePlanType
  MinAd, MaxAd,   \* min_commercial_size, max_commercial_size
  MinBreak, MaxBreak,  \* min_commercialbreak, max_commercialbreak
  Near,           \* an ad that starts within 10 s of a break belongs to it
  Wait,           \* 15 s between two lists
  Radius,         \* shrink_logo
  Slip,           \* volume_slip
  Grid,           \* 5 s
  Fresh,          \* incommercial_frames
  Hits            \* minHitsForTrend

LivePlanType ==
  [logo : BOOLEAN,      \* the logo method is on and a logo is known
   div5 : BOOLEAN,      \* require_div5
   padding : Int]       \* padding, or less than 0 for remove_before and remove_after

VARIABLES
  plan, broadcast,
  units,   \* frame[]: logo |-> currentGoodEdge > logo_threshold, causes |-> isblack
  flags,   \* logo_present
  present, trend, start,  \* lastLogoTest, logoTrendCounter, the start of the open stretch
  at,      \* lastFrameCommCalculated
  shown,   \* commercial[], and what was written of it to the list files
  inBreak, \* the .incommercial file
  liveOver
liveListVars == <<plan, broadcast, units, flags, present, trend, start, at, shown, inBreak, liveOver>>

LiveListInit ==
  /\ plan \in LivePlans /\ broadcast \in LiveFilms
  /\ units = <<>> /\ flags = <<>> /\ present = FALSE /\ trend = 0 /\ start = 0
  /\ at = 0 /\ shown = <<>> /\ inBreak = "none" /\ liveOver = FALSE

Now == Len(units)
\* The candidates a break may begin or end at, in order; the first one is left out.  With the logo
\* method the logo must be gone near it, or darkness and silence meet.
IsCut(u, logos, f) ==
  LET near(reach) == {g \in 1..Len(u) - 1 : g >= f - reach /\ g < f + reach}
  IN /\ u[f].causes # {}
     /\ \E g \in 1..f - 1 : u[g].causes # {}
     /\ \/ ~plan.logo /\ u[f].causes \cap {"black", "flat"} # {}
        \/ \E g \in near(Radius) : ~logos[g]
        \/ "silence" \in u[f].causes /\ \E g \in near(Slip) : "black" \in u[g].causes
Cuts(u, logos) == SelectSeq([f \in DOMAIN u |-> f], LAMBDA f : IsCut(u, logos, f))

\* CheckFramesForLogo, with a share of one half.
HasLogo(u, from, to) == 2 * Cardinality({f \in from..to : u[f].logo}) > to - from + 1

\* From cut a to cut b there may be an ad, a whole number of 5 s if so required.
Fits(list, a, b) ==
  LET goesOn == list # <<>> /\ a - Last(list).to < Near
  IN /\ b - a >= MinAd /\ b - a <= MaxBreak
     /\ plan.div5 => (b - a) % Grid = 0
     /\ IF goesOn THEN b - Last(list).to <= MaxAd ELSE b - a <= MaxAd

\* Mutant: every later ad goes on with the last break.
WithLast(u, list, cuts, i, x) ==
  IF list # <<>> THEN [list EXCEPT ![Len(list)].to = cuts[x]] ELSE <<[from |-> cuts[i], to |-> cuts[x]]>>
\* The list with the ad from cut i to cut x of cuts: it goes on with the last break, or starts
\* one; an ad with a logo ends the break before it, or is skipped.
With(u, list, cuts, i, x) ==
  LET goesOn == list # <<>> /\ cuts[i] - Last(list).to < Near
      logo == plan.logo /\ HasLogo(u, IF goesOn THEN cuts[x - 1] ELSE cuts[i], cuts[x])
  IN IF goesOn THEN [list EXCEPT ![Len(list)].to = cuts[IF logo THEN x - 1 ELSE x]]
     ELSE IF logo THEN list
     ELSE Append(list, [from |-> cuts[i], to |-> cuts[x]])

\* The breaks of all lengths: from each cut the first one that fits is taken, and gone on from.
Candidates(u, cuts) ==
  LET step(s, i) ==
        LET fit == {x \in i + 1..Len(cuts) : Fits(s.list, cuts[i], cuts[x])}
            x == CHOOSE y \in fit : \A z \in fit : y <= z
        IN IF i < s.next \/ fit = {} THEN s ELSE [next |-> x, list |-> With(u, s.list, cuts, i, x)]
  IN FoldLeft(step, [next |-> 1, list |-> <<>>], [i \in DOMAIN cuts |-> i]).list

\* PadCommercialInterval, with the recording up to frame last.
Padded(break, last) ==
  [from |-> IF break.from + plan.padding < 0 THEN 0 ELSE break.from + plan.padding,
   to |-> IF break.to - plan.padding > last THEN last ELSE break.to - plan.padding]

\* The breaks neither too short nor too long, padded.
Published(u, logos) ==
  LET listed == SelectSeq(Candidates(u, Cuts(u, logos)), LAMBDA b : b.to - b.from \in MinBreak..MaxBreak)
  IN SelectSeq([i \in DOMAIN listed |-> Padded(listed[i], Len(u))], LAMBDA b : b.from < b.to)

\* BuildCommListAsYouGo after the frame, with a list calculated at frame `last` before.
Build(last) ==
  IF Now' - last <= Wait \/ \A f \in DOMAIN units' : units'[f].causes = {}
  THEN at' = last /\ UNCHANGED <<shown, inBreak>>
  ELSE /\ at' = Now' /\ shown' = Published(units', flags')
       /\ inBreak' = IF shown' # <<>> /\ Last(shown').to > Now' - Fresh THEN "1" ELSE "0"

\* The flags with those from a unit on set.
From(f, value) == [g \in DOMAIN flags |-> IF g >= f THEN value ELSE flags[g]]

\* ProcessLogoTest, of the next frame; its own flag is the result of the test.
LogoTest(seen) ==
  LET f == Now + 1
      opens == ~present /\ seen /\ trend + 1 = Hits
      closes == present /\ ~seen
  IN /\ present' = ((present /\ seen) \/ opens)
     /\ trend' = IF ~present /\ seen /\ ~opens THEN trend + 1 ELSE 0
     /\ start' = IF opens THEN f - Hits + 1 ELSE start
     /\ flags' = Append(CASE opens -> From(f - Hits + 1, TRUE)
                          [] closes /\ f - 1 - start > 3 * Radius -> From(f - 1 - 2 * Radius, FALSE)
                          [] OTHER -> flags,
                        present')

\* DetectCommercials.
LiveFrame ==
  /\ ~liveOver /\ Now < Len(broadcast)
  /\ units' = SubSeq(broadcast, 1, Now + 1)
  /\ IF plan.logo THEN LogoTest(broadcast[Now + 1].logo)
     ELSE flags' = Append(flags, FALSE) /\ UNCHANGED <<present, trend, start>>
  /\ IF broadcast[Now + 1].causes # {} THEN UNCHANGED <<at, shown, inBreak>> ELSE Build(at)
  /\ UNCHANGED <<plan, broadcast, liveOver>>

\* The list as it is left behind, when the analysis ends.
LiveEnd ==
  /\ ~liveOver /\ Now = Len(broadcast) /\ liveOver' = TRUE
  /\ UNCHANGED <<plan, broadcast, units, flags, present, trend, start>>
  /\ Build(0)

LiveListOver == liveOver /\ UNCHANGED liveListVars

LiveListNext == LiveFrame \/ LiveEnd \/ LiveListOver
LiveListSpec == LiveListInit /\ [][LiveListNext]_liveListVars

-----------------------------------------------------------------------------
(* Properties. *)

\* How long a cut point may still come or go after its frame.
Unsettled == IF Hits - 2 > 2 * Radius THEN Radius + Hits - 2 ELSE 3 * Radius

\* A break that ended so long before a list was calculated that no later ad can go on with it, and
\* no later test of the logo reaches back to it, is in every later list as it was.
SettledKept ==
  \A k \in DOMAIN shown :
    shown[k].to + plan.padding + MaxAd + Unsettled <= at => \E l \in DOMAIN shown' : shown'[l] = shown[k]
SettledStays == [][SettledKept]_liveListVars
=============================================================================
