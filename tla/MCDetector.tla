----------------------------- MODULE MCDetector -----------------------------
(***************************************************************************)
(* The two parts of the detector that work frame by frame, checked in one  *)
(* run: the worker threads of the scans (module ScanWorkers) and the logo  *)
(* over the frames of a recording (module LogoTracking).  run() returns    *)
(* before the logo is looked for, so they share nothing and a behaviour is *)
(* one of either: `part` says which.                                       *)
(***************************************************************************)
EXTENDS ScanWorkers, Sequences

CONSTANTS Recordings, Sample, MinHits, ShrinkHead, ShrinkTail, MinBlock, Buffers, Persist,
          Verified, BreakLimit, GiveUp, Added
VARIABLES part, recording, twoPass, frame, size, enabled, mask, second, pictures, hits, limit,
          present, trend, start, blocks, flags, count, ended, turn

Logo == INSTANCE LogoTracking WITH buffer <- pictures
ASSUME LogoParameters == Logo!ParametersOK

logoVars == <<recording, twoPass, frame, size, enabled, mask, second, pictures, hits, limit,
              present, trend, start, blocks, flags, count, ended, turn>>

Part(shown, n) == [i \in 1..n |-> [size |-> 1, logo |-> shown]]
Wide(shown) == [i \in DOMAIN shown |-> [size |-> 2, logo |-> shown[i].logo]]
\* Up to four stretches with and without two logos, the first with the first, in ten
\* samples; and up to three of one logo, the picture of another size after some samples.
MCRecordings ==
  {Part(a[1][1], p[1]) \o Part(a[1][2], p[2]) \o Part(a[2], p[3]) \o Part(a[3], 10 - p[1] - p[2] - p[3]) :
     a \in {<<1, 0>>, <<1, 2>>} \X (0..2) \X (0..2),
     p \in {q \in [1..3 -> 0..8] : q[1] + q[2] + q[3] <= 10}}
  \union
  {Part(1, k) \o Wide(Part(a[1], p[1]) \o Part(a[2], p[2]) \o Part(1, 10 - k - p[1] - p[2])) :
     k \in {1, 4}, a \in {<<0, 1>>, <<1, 0>>}, p \in (0..3) \X (0..2)}
\* A recording whose picture changes its size on the way, with a logo in both parts.
MCResized == {[i \in 1..8 |-> [size |-> IF i <= 4 THEN 1 ELSE 2, logo |-> 1]]}
\* A logo found in its first 55 samples that then misses single tests, 12 samples apart.
MCFlicker == {Part(1, 55) \o Part(0, 1) \o Part(1, 12) \o Part(0, 1) \o Part(1, 12) \o Part(0, 1)
              \o Part(1, 12) \o Part(0, 1) \o Part(1, 12) \o Part(0, 1) \o Part(1, 12)}

DetectorInit ==
  /\ Init /\ Logo!Init
  /\ part \in {"workers", "logo"}
  /\ part = "workers" => twoPass /\ recording = Part(0, 10)

WorkersStep == part = "workers" /\ Next /\ UNCHANGED <<part, logoVars>>
LogoStep == part = "logo" /\ Logo!Next /\ UNCHANGED <<part, vars>>
DetectorNext == WorkersStep \/ LogoStep

allVars == <<part, vars, logoVars>>
Steps(A) == part = "workers" /\ A /\ UNCHANGED <<part, logoVars>>

\* Each part's own fairness.
DetectorFairness ==
  /\ WF_allVars(LogoStep)
  /\ WF_allVars(Steps(Return))
  /\ \A w \in Workers :
       /\ WF_allVars(Steps(Take(w)))
       /\ WF_allVars(Steps(\E fails \in BOOLEAN : Done(w, fails)))
       /\ WF_allVars(Steps(Leave(w)))
       /\ WF_allVars(Steps(caller = "destroying" /\ Destroy(w)))
DetectorSpec == DetectorInit /\ [][DetectorNext]_allVars /\ DetectorFairness

\* Frames are flagged only where a logo was seen; and in two passes logo blocks are not
\* empty, in order and flagged throughout, and no sample of the open one missed the logo
\* (Logo!FlagsGrounded, BlocksApart, BlocksFlagged, NoneMissed).
LogoSound ==
  /\ Logo!FlagsGrounded
  /\ twoPass => Logo!BlocksApart /\ Logo!BlocksFlagged /\ Logo!NoneMissed
\* A single sample without the logo closes the stretch, in one pass too (Logo!NoneMissed).
SampleCloses == Logo!NoneMissed
\* The analysis comes to the end, however often it starts over (Logo!AnalysisEnds).
AnalysisEnds == part = "logo" => Logo!AnalysisEnds
\* Every scan of a frame returns, and every analysis comes to its end; one of two passes when
\* the picture keeps its size.
SizeStays == \A i \in DOMAIN recording : recording[i].size = recording[1].size
EverythingEnds == RunReturns /\ ((twoPass => SizeStays) => AnalysisEnds)
=============================================================================
