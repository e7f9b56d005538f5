---------------------------- MODULE MCRecording ----------------------------
(***************************************************************************)
(* The way of a recording through comskip, checked in one run: the loop    *)
(* that reads it (module Analysis), what is made of its candidates after   *)
(* the last frame (module Blocks), the scores of its blocks (Scoring), the *)
(* files written of its breaks and the window that edits them (Review),    *)
(* and the comparison with a list made by hand (ReferenceComparison).      *)
(* They share no state, so a behaviour is of one of them: `part` says      *)
(* which, and the others stand still.                                      *)
(***************************************************************************)
EXTENDS MCBlocks

VARIABLES
  part,
  avail, live, follows, twoPass, taken, out, clock, seekPts, seekReq, byBytes,
  retries, retryTarget, logoKnown, secondSearch, submitted, state, outcome,
  pass, given, rules, weighing, reach, score, strict, combined, cause, marks, weighed,
  table, judged, ranges, wanted, text, writer, record, edl, files, why, keys,
  reference, detected, tolerance, walk, position, i, j, events, rows, turns

-----------------------------------------------------------------------------
(* Reading. *)

CONSTANTS Frames, MaxHeld, LiveRetries, LoopDelay, Far, MaxCorrections, Untimed

Reading == INSTANCE Analysis WITH at <- taken, pc <- state
readingVars ==
  <<avail, live, follows, twoPass, taken, out, clock, seekPts, seekReq, byBytes,
    retries, retryTarget, logoKnown, secondSearch, submitted, state, outcome>>
ReadingIdle ==
  /\ avail = 0 /\ live = FALSE /\ follows = FALSE /\ twoPass = FALSE /\ taken = 0 /\ out = 0 /\ clock = 0
  /\ seekPts = 0 /\ seekReq = 0 /\ byBytes = FALSE /\ retries = 0 /\ retryTarget = 0 /\ logoKnown = FALSE
  /\ secondSearch = FALSE /\ submitted = <<>> /\ state = "idle" /\ outcome = "none"

ASSUME ReadingParameters == Reading!ParametersOK

-----------------------------------------------------------------------------
(* Scoring: every list of up to three blocks of eight kinds under four sets of rules, and *)
(* every list of four blocks of six kinds under one.                                      *)

CONSTANTS MinShow, MinBreak, MaxAd, Bumper, PadLength, Strict, Loose, MaxCombined, Weighed, RuleSets

Plain ==
  [len |-> 5, cause |-> {"black"}, head |-> FALSE, tail |-> FALSE, logo |-> "none", above |-> 0,
   captions |-> 100, odd |-> FALSE, dark |-> FALSE, quiet |-> FALSE]
Kinds ==
  {[Plain EXCEPT !.len = 6],                                            \* a spot
   [Plain EXCEPT !.len = 3, !.logo = "some", !.cause = {"silence"}],
   [Plain EXCEPT !.len = 14, !.logo = "much", !.captions = 75, !.quiet = TRUE],
   [Plain EXCEPT !.len = 27, !.above = 5, !.captions = 200, !.odd = TRUE],
   [Plain EXCEPT !.len = 1, !.odd = TRUE, !.cause = {"ratio", "black"}],
   [Plain EXCEPT !.len = 2, !.above = 1, !.head = TRUE, !.tail = TRUE, !.dark = TRUE]}
MoreKinds ==
  Kinds \cup
  {[Plain EXCEPT !.len = 30, !.logo = "much", !.head = TRUE, !.tail = TRUE],
   [Plain EXCEPT !.len = 50, !.cause = {"ratio"}]}
MCWeighed == [1..4 -> Kinds] \cup UNION {[1..n -> MoreKinds] : n \in 1..3}
Default == [edge |-> 0, added |-> 0, logo |-> "good", punishNoLogo |-> TRUE, silent |-> 0, off |-> {}]
MCRuleSets ==
  {Default,
   [Default EXCEPT !.edge = 1, !.added = 20, !.punishNoLogo = FALSE, !.silent = 10],
   [Default EXCEPT !.edge = 28, !.added = 8, !.logo = "fair"],
   [Default EXCEPT !.logo = "off", !.off = {2, 4}]}

Scores == INSTANCE Scoring WITH Blocks0 <- Weighed, Rules <- RuleSets, pc <- pass, at <- weighing
scoreVars == <<pass, given, rules, weighing, reach, score, strict, combined, cause, marks, weighed>>
ScoringInit == Scores!Init /\ (rules # Default => Len(given) < 4)
ScoringIdle ==
  /\ pass = "idle" /\ given = <<>> /\ rules = Default /\ weighing = 0 /\ reach = 0 /\ score = <<>>
  /\ strict = {} /\ combined = <<>> /\ cause = <<>> /\ marks = <<>> /\ weighed = <<>>

ASSUME ScoringParameters == Scores!ParametersOK

-----------------------------------------------------------------------------
(* Writing: any verdict on five blocks, padded or not, and lists that were read. *)

CONSTANTS FrameCount, Fps, EdlOffset, CutOffset, Reach, MaxKeys, Judgements, Lists0

BlockEnds == <<4, 10, 12, 20, 25>>
Verdicts ==
  {[n \in 1..5 |-> [from |-> IF n = 1 THEN 1 ELSE BlockEnds[n - 1] + 1, to |-> BlockEnds[n], cut |-> cuts[n]]] :
    cuts \in [1..5 -> BOOLEAN]}
Stretch(from, to) == [from |-> from, to |-> to]
MCLists0 == {<<>>, <<Stretch(3, 8), Stretch(15, 22)>>, <<Stretch(10, 26)>>}
Adapters == {{}, {"xml", "sidecars", "scripts", "players", "editors", "lists"}}

Write0 == INSTANCE Outputs
\* Padding n at both ends; a break it leaves nothing of is dropped.
PaddedBy(range, n) ==
  Stretch(Write0!AtLeast(range.from + n, 0), Write0!AtMost(range.to - n, FrameCount))
BreaksOf(list) ==
  LET ends == {n \in Write0!Ends(list) : list[n].cut}
      chosen == SelectSeq([n \in DOMAIN list |-> n], LAMBDA n : n \in ends)
  IN [k \in DOMAIN chosen |-> Stretch(list[Write0!First(list, chosen[k])].from, list[chosen[k]].to)]
PaddedList(list, n) ==
  SelectSeq([k \in DOMAIN BreaksOf(list) |-> PaddedBy(BreaksOf(list)[k], n)], LAMBDA range : range.from < range.to)
MCJudgements == {[blocks |-> list, breaks |-> PaddedList(list, n)] : list \in Verdicts, n \in {-2, 0, 1}}

Writing == INSTANCE Review WITH
  Analysed <- Judgements, Loaded <- Lists0, Wanted <- Adapters,
  blocks <- judged, breaks <- ranges, pc <- writer, at <- record
reviewVars == <<table, judged, ranges, wanted, text, writer, record, edl, files, why, keys>>
ReviewIdle ==
  /\ table = FALSE /\ judged = <<>> /\ ranges = <<>> /\ wanted = {} /\ text = "off" /\ writer = "idle"
  /\ record = 0 /\ edl = FALSE /\ files = {} /\ why = "none" /\ keys = 0

ASSUME WritingParameters == Writing!ParametersOK

-----------------------------------------------------------------------------
(* Comparing: lists of up to two ranges in six frames. *)

CONSTANTS BreakLists, Tolerances

\* Ranges are in order; they may touch, and be empty.
Ordered(list) ==
  \A k, n \in DOMAIN list : list[k].from <= list[k].to /\ (k < n => list[k].to <= list[n].from)
ASSUME BreakListsAssumption ==
  /\ Tolerances \subseteq Nat
  /\ \A list \in BreakLists : list \in Seq([from : Nat, to : Nat]) /\ Ordered(list)

MCBreakLists ==
  {list \in {<<>>} \cup {<<Stretch(a, b)>> : a \in 0..3, b \in 2..6}
              \cup {<<Stretch(a, b), Stretch(c, d)>> : a \in 0..2, b \in 1..4, c \in 2..5, d \in 3..6} : Ordered(list)}

Comparing == INSTANCE ReferenceComparison WITH References <- BreakLists, Detections <- BreakLists
compareVars == <<reference, detected, tolerance, walk, position, i, j, events, rows, turns>>
CompareIdle ==
  /\ reference = <<>> /\ detected = <<>> /\ tolerance = 0 /\ walk = "idle" /\ position = 0 /\ i = 0 /\ j = 0
  /\ events = <<>> /\ rows = <<>> /\ turns = 0

-----------------------------------------------------------------------------
BlocksIdle == CandidatesIn(cands) = {}

RecordingInit ==
  /\ Init
  /\ \/ part = "blocks" /\ ReadingIdle /\ ScoringIdle /\ ReviewIdle /\ CompareIdle
     \/ part = "reading" /\ BlocksIdle /\ Reading!Init /\ ScoringIdle /\ ReviewIdle /\ CompareIdle
     \/ part = "scoring" /\ BlocksIdle /\ ReadingIdle /\ ScoringInit /\ ReviewIdle /\ CompareIdle
     \/ part = "writing" /\ BlocksIdle /\ ReadingIdle /\ ScoringIdle /\ Writing!ReviewInit /\ CompareIdle
     \/ part = "comparing" /\ BlocksIdle /\ ReadingIdle /\ ScoringIdle /\ ReviewIdle /\ Comparing!CompareInit

BlocksStep == part = "blocks" /\ Next /\ UNCHANGED <<part, readingVars, scoreVars, reviewVars, compareVars>>
ReadingStep == part = "reading" /\ Reading!Next /\ UNCHANGED <<part, vars, scoreVars, reviewVars, compareVars>>
ScoringStep == part = "scoring" /\ Scores!Next /\ UNCHANGED <<part, vars, readingVars, reviewVars, compareVars>>
WritingStep == part = "writing" /\ Writing!ReviewNext /\ UNCHANGED <<part, vars, readingVars, scoreVars, compareVars>>
ComparingStep ==
  part = "comparing" /\ Comparing!CompareNext /\ UNCHANGED <<part, vars, readingVars, scoreVars, reviewVars>>
RecordingNext == BlocksStep \/ ReadingStep \/ ScoringStep \/ WritingStep \/ ComparingStep

\* The fairness of the reading loop (Reading!FairSpec).
LoopStep == part = "reading" /\ Reading!Loop /\ UNCHANGED <<part, vars, scoreVars, reviewVars, compareVars>>
PacketStep ==
  /\ part = "reading" /\ (Reading!SendPacket \/ Reading!SkipUntimed \/ Reading!CorrectSeek)
  /\ UNCHANGED <<part, vars, scoreVars, reviewVars, compareVars>>
allVars == <<part, vars, readingVars, scoreVars, reviewVars, compareVars>>
RecordingSpec ==
  RecordingInit /\ [][RecordingNext]_allVars /\ WF_allVars(LoopStep) /\ SF_allVars(PacketStep)

-----------------------------------------------------------------------------
\* Detection gets every frame once and in order, and what is listed is the whole recording
\* as far as it was read (Reading!Continuous, Reading!ListsAll).
ReadingSound == part = "reading" => Reading!TypeOK /\ Reading!Continuous /\ Reading!ListsAll
\* Analysis ends when the recording does (Reading!Ends).
Ends == part = "reading" => Reading!Ends
\* What lies between commercials is filled up, and a long piece of the show stays show
\* (Scores!FilledBetween, Scores!LongShowKept).
GapsJudged == part = "scoring" => Scores!FilledBetween /\ Scores!LongShowKept
\* The output formats say the same, and the .txt file reads back as it was written
\* (Writing!FormatsAgree, Writing!ReadsBack).
FormatsSound == part = "writing" => Writing!FormatsAgree /\ Writing!ReadsBack
\* Only breaks that padding made touch are refused (Writing!OnlyTouchingFails).
OnlyTouchingFails == part = "writing" => Writing!OnlyTouchingFails
\* A comparison reports what differs, and nothing else (Comparing!DifferencesExact).
DifferencesExact == part = "comparing" => Comparing!DifferencesExact
=============================================================================
