------------------------------ MODULE MCSignals ------------------------------
(***************************************************************************)
(* What comskip does with a recording frame by frame, checked in one run:  *)
(* the scan threads and the logo (module MCDetector), the cut candidates   *)
(* (CutPoints), the stretches of one aspect ratio (AspectBlocks), the      *)
(* captions (Captions), the volumes of the frames (AudioVolumes), and the  *)
(* list kept of a live recording (LiveList).  They share no state, so a    *)
(* behaviour is of one of them: `part` says which, and the others stand    *)
(* still.                                                                  *)
(***************************************************************************)
EXTENDS MCDetector, CutPoints, AspectBlocks, AudioVolumes, Captions

VARIABLES
  settings, broadcast, units, liveFlags, shows, logoTrend, since, builtAt, listed, inBreak, liveOver

-----------------------------------------------------------------------------
(* Cut candidates: five frames of five kinds after one of programme. *)

Scene == [volume |-> 60, dark |-> 2, busy |-> TRUE, flat |-> 2, change |-> 99, resized |-> FALSE, known |-> FALSE]
Loud == [Scene EXCEPT !.volume = 100]
Shots ==
  {Scene, [Scene EXCEPT !.volume = 7, !.flat = 1, !.change = 10],
   [Scene EXCEPT !.volume = 0, !.dark = 0, !.busy = FALSE, !.flat = 0, !.known = TRUE],
   [Scene EXCEPT !.volume = -1, !.dark = 1, !.busy = FALSE, !.flat = 1],
   [Scene EXCEPT !.volume = 250, !.dark = 3, !.flat = 1, !.change = 80, !.resized = TRUE]}
Opening == [Loud EXCEPT !.change = 0]
MCFilms == {[i \in 1..CutFrames |-> IF i = 1 THEN Opening ELSE IF i \in DOMAIN s THEN s[i] ELSE Loud] : s \in [3..6 -> Shots]}
CutPlan ==
  [darkest |-> 1, flattest |-> 1, least |-> 0, intelligent |-> FALSE, after |-> 0, before |-> 0, far |-> 2, silent |-> 0,
   logos |-> <<<<1, 3>>, <<8, 11>>>>, turns |-> {}, channels |-> {}]
MCPlans ==
  {CutPlan,
   [CutPlan EXCEPT !.darkest = 0, !.flattest = 2, !.intelligent = TRUE, !.after = 999, !.turns = {4}],
   [CutPlan EXCEPT !.least = 2, !.after = 1, !.before = 1, !.silent = 1, !.channels = {6}]}

CutIdle == phase = "idle" /\ film = 0 /\ plan = 0 /\ candidate = 0 /\ black = <<>> /\ run = 0 /\ found = <<>>

-----------------------------------------------------------------------------
(* Aspect ratios: two, with and without a logo and a shortest stretch. *)

MCCases ==
  {[logos |-> l, shortest |-> s, cutting |-> IF s > 0 THEN "quiet" ELSE IF l = {} THEN "none" ELSE "all"] :
    l \in {{}, 4..7}, s \in {0, 3}}

AspectIdle ==
  /\ stage = "idle" /\ frameRead = 0 /\ ratio = 0 /\ aspectTrend = 0 /\ misses = 0 /\ list = 0 /\ stale = 0
  /\ case = 0 /\ entry = 0 /\ cuts = 0 /\ dominantRatio = 0

-----------------------------------------------------------------------------
(* Captions: packets of the first field, packets with two commands, rows of a DVD *)
(* or of a caption track, and programme data.                                     *)

Packet(form, pairs) == [form |-> form, type |-> 0, whole |-> TRUE, pairs |-> pairs]
GA(pairs) == Packet("GA", pairs)
First(p) == [field |-> 1, pair |-> p]
Pairs(a, b) == <<First(a), First(b)>>
Code(code, of, type, data, weight) ==
  [field |-> 2, xds |-> [code |-> code, of |-> of, type |-> type, data |-> data, weight |-> weight]]
NoBytes == <<0, 0>>
Start(type) == Code("start", 1, type, NoBytes, 1)
Data(d) == Code("data", 0, "", d, d[1] + d[2])
End(weight) == Code("end", 0, "", NoBytes, weight)

Commanding == {GA(<<>>)} \cup {GA(<<First(p)>>) : p \in {"load", "roll", "direct", "erase", "flip", "letters"}}
Twice ==
  {GA(<<First("load"), First("load"), First("sign")>>), GA(Pairs("letters", "letters")),
   GA(<<First("forget"), First("line"), [field |-> 3, pair |-> "load"]>>), GA(Pairs("odd", "flip"))}
Rows ==
  {Packet("CC", Pairs("roll", "bad")), Packet("two", Pairs("letters", "erase")), Packet("two", Pairs("load", "sign")),
   Packet("four", Pairs("letters", "letters")), [Packet("four", Pairs("erase", "flip")) EXCEPT !.whole = FALSE],
   [Packet("five", Pairs("direct", "letters")) EXCEPT !.type = 2], [Packet("five", Pairs("erase", "sign")) EXCEPT !.type = 4]}
Programme ==
  {GA(<<Start("name"), Data(<<1, 2>>), End(0)>>), GA(<<Start("name"), Data(<<2, 2>>), End(3)>>),
   GA(<<Start("length"), Data(<<1, 2>>), Data(<<2, 2>>), End(0)>>), GA(<<Start("chip"), Data(<<1, 1>>)>>),
   GA(<<Start("chip"), Data(<<2, 0>>), End(1)>>), GA(<<Start("chip"), End(3)>>), GA(<<Start("name"), Data(<<1, 1>>)>>),
   GA(<<Code("more", 1, "", NoBytes, 2)>>), GA(<<Code("more", LastClass, "", NoBytes, 2)>>),
   GA(<<Data(<<1, 1>>), End(1)>>), GA(<<Data(<<2, 0>>), Data(<<2, 2>>)>>)}
MCMixes == <<Commanding, Twice, Rows, Programme>>
MCSplits == {<<3, CaptionFrames>>}
MCPhrases == {[programme |-> {1, 3}, commercial |-> {2}]}

CaptionIdle ==
  /\ captionPhase = "idle" /\ framenum = 0 /\ mix = 0 /\ style = "none" /\ latest = "none"
  /\ screen = FALSE /\ memory = FALSE /\ runs = <<Run(0, -1, "none")>> /\ texts = <<>>
  /\ lastcc = "pad" /\ prevccData = <<>> /\ xds = XDS0
  /\ dominantStyle = "none" /\ styles = <<>> /\ effects = <<>>

-----------------------------------------------------------------------------
(* Volumes: sound ahead of the picture and behind it, lost once, with stamps that are *)
(* off by one and that are missing.                                                   *)

VolumeIdle ==
  /\ repair = 0 /\ read = 0 /\ clock = 0 /\ started = 0 /\ base = 0 /\ buffer = <<>> /\ recorded = 0
  /\ lost = 0 /\ unseen = 0 /\ losses = 0 /\ volume = [f \in Frames |-> <<>>]

-----------------------------------------------------------------------------
(* The live list: recordings of parts with and without logo, and an end. *)

CONSTANTS MinAd, MaxAd, MinBreak, MaxBreak, Near, Wait, Radius, LogoSlip, Grid, Fresh, Hits

WithLogo == [logo |-> TRUE, causes |-> {}]
Plain == [logo |-> FALSE, causes |-> {}]
Dark == [logo |-> FALSE, causes |-> {"black"}]
Quiet == [logo |-> TRUE, causes |-> {"silence"}]
Empty == [logo |-> TRUE, causes |-> {"black", "silence"}]
Flat == [logo |-> FALSE, causes |-> {"flat"}]
Chunks == {<<WithLogo, WithLogo, WithLogo>>, <<Dark, Plain>>, <<Dark, Plain, Plain>>, <<Dark, WithLogo>>, <<Quiet, Plain>>}
Tails ==
  {<<Dark, WithLogo, WithLogo, WithLogo, WithLogo, Dark, Plain, Dark, WithLogo, WithLogo>>,
   <<Dark, Plain, WithLogo, Plain, Plain, Quiet, Flat, Plain, Plain, Plain>>,
   <<Flat, WithLogo, Plain, Plain, WithLogo, WithLogo, WithLogo, Empty, Plain, Dark, WithLogo>>}
LiveFilms == {FoldLeft(LAMBDA a, b : a \o b, <<>>, c) \o t : c \in [1..4 -> Chunks], t \in Tails}
LivePlans ==
  [logo : BOOLEAN, div5 : BOOLEAN, padding : {0}] \cup {[logo |-> TRUE, div5 |-> FALSE, padding |-> -1]}

Live == INSTANCE LiveList WITH plan <- settings, flags <- liveFlags, present <- shows, trend <- logoTrend,
  start <- since, at <- builtAt, shown <- listed, Slip <- LogoSlip
liveVars == <<settings, broadcast, units, liveFlags, shows, logoTrend, since, builtAt, listed, inBreak, liveOver>>
LiveIdle ==
  /\ settings = 0 /\ broadcast = 0 /\ units = 0 /\ liveFlags = 0 /\ shows = 0 /\ logoTrend = 0 /\ since = 0
  /\ builtAt = 0 /\ listed = 0 /\ inBreak = 0 /\ liveOver = 0

-----------------------------------------------------------------------------
DetectorIdle == Init /\ Logo!Init /\ twoPass /\ recording = Part(0, 10)
SignalsIdle == CutIdle /\ AspectIdle /\ CaptionIdle /\ VolumeIdle /\ LiveIdle

SignalsInit ==
  \/ DetectorInit /\ SignalsIdle
  \/ part = "cuts" /\ DetectorIdle /\ CutInit /\ AspectIdle /\ CaptionIdle /\ VolumeIdle /\ LiveIdle
  \/ part = "aspect" /\ DetectorIdle /\ CutIdle /\ AspectInit /\ CaptionIdle /\ VolumeIdle /\ LiveIdle
  \/ part = "captions" /\ DetectorIdle /\ CutIdle /\ AspectIdle /\ CaptionInit /\ VolumeIdle /\ LiveIdle
  \/ part = "volumes" /\ DetectorIdle /\ CutIdle /\ AspectIdle /\ CaptionIdle /\ VolumesInit /\ LiveIdle
  \/ part = "live" /\ DetectorIdle /\ CutIdle /\ AspectIdle /\ CaptionIdle /\ VolumeIdle /\ Live!LiveListInit

signalVars == <<cutVars, aspectVars, captionVars, volumeVars, liveVars>>
DetectorStep == DetectorNext /\ UNCHANGED signalVars
CutStep == part = "cuts" /\ CutNext /\ UNCHANGED <<allVars, aspectVars, captionVars, volumeVars, liveVars>>
AspectStep == part = "aspect" /\ AspectNext /\ UNCHANGED <<allVars, cutVars, captionVars, volumeVars, liveVars>>
CaptionStep == part = "captions" /\ CaptionNext /\ UNCHANGED <<allVars, cutVars, aspectVars, volumeVars, liveVars>>
VolumeStep == part = "volumes" /\ VolumesNext /\ UNCHANGED <<allVars, cutVars, aspectVars, captionVars, liveVars>>
LiveStep == part = "live" /\ Live!LiveListNext /\ UNCHANGED <<allVars, cutVars, aspectVars, captionVars, volumeVars>>
\* Threads that are joined, and an analysis that is over, do nothing more.
DetectorOver ==
  /\ \/ part = "workers" /\ \A w \in Workers : at[w] = "ended"
     \/ part = "logo" /\ ended /\ turn = 0
  /\ UNCHANGED <<allVars, signalVars>>
SignalsNext == DetectorStep \/ DetectorOver \/ CutStep \/ AspectStep \/ CaptionStep \/ VolumeStep \/ LiveStep

\* The threads, the analysis and the loop over the aspect stretches go on (DetectorFairness,
\* AspectSpec).
TidyStep ==
  /\ part = "aspect" /\ (Tidy \/ TidyDone)
  /\ UNCHANGED <<allVars, cutVars, captionVars, volumeVars, liveVars>>
frameVars == <<allVars, signalVars>>
SignalsSpec == SignalsInit /\ [][SignalsNext]_frameVars /\ DetectorFairness /\ WF_frameVars(TidyStep)

-----------------------------------------------------------------------------
\* What is long past stays on the live list (Live!SettledStays).
SettledStays == [][part = "live" => Live!SettledKept]_liveVars
=============================================================================
