------------------------------ MODULE Analysis ------------------------------
(* The decoding loop of comskip (app/analysis.cpp) with the decoder it drives  *)
(* (media/video_decoder.cpp), its seeks (media/seeking.cpp) and its input       *)
(* (media/recording_input.cpp): which frames reach detection, in which order,   *)
(* when the recording still grows and is reopened, when a seek lands somewhere  *)
(* else, and when the logo search asks to analyse again from the first frame.   *)
(*                                                                              *)
(* Frames are numbered from 1, and a frame lasts FrameTime units of time. The   *)
(* demuxer and the decoder are FFmpeg's: the decoder keeps up to MaxHeld frames *)
(* back until it is drained. Self tests, audio, captions, timeline repair and   *)
(* frames without a timestamp are left out.                                     *)
EXTENDS Integers, Sequences

CONSTANTS
  Frames,         \* frames of the whole recording
  MaxHeld,        \* frames the decoder may hold back
  LiveRetries,    \* live_tv_retries
  LoopDelay,      \* frame_delay as the loop computes it: FrameTime, or 0 when
                  \* FFmpeg leaves the time base of a decoder unset
  Far,            \* 80 s: a seek that lands further off is given up
  MaxCorrections, \* 6: corrections of one byte seek
  Untimed         \* frames whose packets carry no usable timestamp

FrameTime == 2

\* Only the first packet may lack its time. Where a later one does and the repeated seek
\* fails, the loop reads on behind it, which may be behind the frame it looks for.
ParametersOK ==
  /\ {Frames, MaxCorrections} \subseteq Nat \ {0} /\ {MaxHeld, LiveRetries, Far} \subseteq Nat
  /\ LoopDelay \in {0, FrameTime} /\ Untimed \subseteq {1}

VARIABLES
  avail,      \* frames the input holds by now
  live,       \* live_tv
  follows,    \* follows_growing_input
  twoPass,    \* startOverAfterLogoInfoAvail
  at,         \* packets read so far: the next packet is that of frame at + 1
  out,        \* frames received from the decoder
  clock, seekPts, seekReq, byBytes,   \* of VideoState
  retries, retryTarget,
  logoKnown, secondSearch,            \* logoInfoAvailable, secondLogoSearch
  submitted,  \* the frames given to detection since it last started over
  pc,         \* "loop", "decoding", "draining", "ended"
  outcome     \* "none", "listed", "nothing", "positioning", "error"

inputVars  == <<avail, live, follows, twoPass>>
seekVars   == <<seekPts, seekReq, byBytes>>
logoVars   == <<logoKnown, secondSearch>>
vars == <<inputVars, at, out, clock, seekVars, retries, retryTarget, logoVars,
          submitted, pc, outcome>>

Time(frame) == FrameTime * (frame - 1)

Last == IF submitted = <<>> THEN 0 ELSE submitted[Len(submitted)]

Init ==
  /\ avail \in 1..Frames
  /\ live \in BOOLEAN /\ follows \in {FALSE, live} /\ twoPass \in BOOLEAN
  /\ at = 0 /\ out = 0 /\ clock = 0
  /\ seekPts = 0 /\ seekReq = 0 /\ byBytes \in BOOLEAN
  /\ retries = 0 /\ retryTarget = 0
  /\ logoKnown = FALSE /\ secondSearch = FALSE
  /\ submitted = <<>> /\ pc = "loop" /\ outcome = "none"

Ended(result) == pc' = "ended" /\ outcome' = result

------------------------------------------------------------------------------
(* The input. *)

\* The recorder appends a frame, while the loop reads or waits to reopen.
Grow ==
  /\ live /\ pc # "ended" /\ avail < Frames
  /\ avail' = avail + 1
  /\ UNCHANGED <<live, follows, twoPass, at, out, clock, seekVars, retries,
                 retryTarget, logoVars, submitted, pc, outcome>>

\* file_close and file_open: the decoder is new and the clock starts over.
Reopened == at' = 0 /\ out' = 0 /\ clock' = 0

\* Where a seek to the target may land: never past the frame it looks for.
Landings(target) ==
  {frame \in 0..avail : frame = 0 \/ Time(frame + 1) <= target}

------------------------------------------------------------------------------
(* The loop: its head, the read, and the decoder. *)

\* DoSeekRequest: the position found, the decoder flushed. A seek by time that fails is
\* repeated by bytes, which throws when the input has no size; when the seek by bytes
\* fails too, the loop reads on from where the input is.
DoSeekRequest ==
  /\ clock' = 0
  /\ \/ \E landing \in Landings(seekPts) :
          /\ at' = landing /\ out' = landing
          /\ byBytes' \in {byBytes, TRUE}
          /\ pc' = "reading" /\ UNCHANGED outcome
     \/ out' = at /\ byBytes' = TRUE /\ pc' = "reading" /\ UNCHANGED <<at, outcome>>
     \/ ~byBytes /\ byBytes' = TRUE /\ Ended("error") /\ UNCHANGED <<at, out>>
  /\ UNCHANGED <<seekPts, seekReq>>

\* Analysis starts over: the input is opened again, which fails for one that
\* cannot be opened twice.
StartOver ==
  \/ Reopened /\ seekReq' = 0 /\ pc' = "reading" /\ UNCHANGED <<seekPts, byBytes, outcome>>
  \/ Ended("error") /\ UNCHANGED <<at, out, clock, seekVars>>

\* The head of the loop honours a seek request.
HonourSeek ==
  /\ pc = "loop"
  /\ CASE seekReq = 0 -> pc' = "reading" /\ UNCHANGED <<at, out, clock, seekVars, outcome>>
       [] seekReq > 0 /\ seekPts > 0 -> DoSeekRequest
       [] OTHER -> StartOver
  /\ UNCHANGED <<inputVars, retries, retryTarget, logoVars, submitted>>

\* The first packet after a seek has no timestamp: it is skipped, and the head of
\* the loop finds the request still there.
SkipUntimed ==
  /\ pc = "reading" /\ at < avail /\ seekReq > 0 /\ at + 1 \in Untimed
  /\ at' = at + 1 /\ pc' = "loop"
  /\ UNCHANGED <<inputVars, out, clock, seekVars, retries, retryTarget, logoVars,
                 submitted, outcome>>

\* A seek by bytes landed too far off and is corrected; the packet it read is lost.
\* Seeks aim seconds before the frame they look for, more than the corrections lose.
CorrectSeek ==
  /\ pc = "reading" /\ at < avail /\ at + 1 \notin Untimed
  /\ Time(at + 2) <= seekPts
  /\ byBytes /\ seekReq \in 1..(MaxCorrections - 1)
  /\ at' = at + 1 /\ seekReq' = seekReq + 1 /\ pc' = "loop"
  /\ UNCHANGED <<inputVars, out, clock, seekPts, byBytes, retries, retryTarget,
                 logoVars, submitted, outcome>>

\* A video packet goes to the decoder.
SendPacket ==
  /\ pc = "reading" /\ at < avail /\ (seekReq = 0 \/ at + 1 \notin Untimed)
  /\ at' = at + 1 /\ seekReq' = 0 /\ pc' = "decoding"
  /\ UNCHANGED <<inputVars, out, clock, seekPts, byBytes, retries, retryTarget,
                 logoVars, submitted, outcome>>

\* A read that fails otherwise is repeated.
ReadError ==
  /\ pc = "reading" /\ at < avail
  /\ seekReq' = 0 /\ pc' = "loop"
  /\ UNCHANGED <<inputVars, at, out, clock, seekPts, byBytes, retries, retryTarget,
                 logoVars, submitted, outcome>>

MayRetry == live /\ ~follows /\ retries < LiveRetries

\* At the end of a live input: close, wait, open, and seek back to the resume point,
\* which is taken at the first retry and kept for the following ones.
Resume == IF retries = 0 THEN clock + LoopDelay ELSE retryTarget

RetryInput ==
  /\ pc = "reading" /\ at = avail /\ MayRetry
  /\ retryTarget' = Resume
  /\ Reopened /\ seekReq' = 1 /\ seekPts' = retryTarget'
  /\ retries' = retries + 1 /\ pc' = "loop"
  /\ UNCHANGED <<inputVars, byBytes, logoVars, submitted, outcome>>

\* Mutant: the decoder is not drained at the end.
EndUndrained ==
  /\ pc = "reading" /\ at = avail /\ ~MayRetry
  /\ seekReq' = 0 /\ pc' = "drained"
  /\ UNCHANGED <<inputVars, at, out, clock, seekPts, byBytes, retries, retryTarget,
                 logoVars, submitted, outcome>>

\* At the end of any other input: the decoder gives up what it holds.
EndInput ==
  /\ pc = "reading" /\ at = avail /\ ~MayRetry
  /\ seekReq' = 0 /\ pc' = "draining"
  /\ UNCHANGED <<inputVars, at, out, clock, seekPts, byBytes, retries, retryTarget,
                 logoVars, submitted, outcome>>

------------------------------------------------------------------------------
(* Frames (video_packet_process, SubmitFrame) and the logo search that may ask *)
(* to start over (DetectCommercials, SearchForLogoEdges).                       *)

Due(frame) == Time(frame) - seekPts > -(FrameTime \div 2)

\* Mutant: that the logo was searched for again is not remembered.
LogoStepForgetful(again) ==
  \/ ~again /\ UNCHANGED logoVars
  \/ ~logoKnown /\ logoKnown' = TRUE /\ again = twoPass /\ UNCHANGED secondSearch
  \/ logoKnown /\ twoPass /\ ~again /\ logoKnown' = FALSE /\ secondSearch' = TRUE

\* The logo is found: with two_pass_logo the search answers "start over". Once, a
\* logo that is not seen any more is searched for again.
LogoStep(again) ==
  \/ ~again /\ UNCHANGED logoVars
  \/ ~logoKnown /\ logoKnown' = TRUE /\ again = twoPass /\ UNCHANGED secondSearch
  \/ /\ logoKnown /\ twoPass /\ ~secondSearch /\ ~again
     /\ logoKnown' = FALSE /\ secondSearch' = TRUE

\* Detection takes the frame. Starting over forgets all frames and asks for a seek
\* to the start.
Submit(frame) ==
  /\ retries' = 0
  /\ \E again \in BOOLEAN :
       /\ LogoStep(again)
       /\ IF again
          THEN /\ submitted' = <<>> /\ seekReq' = 1 /\ seekPts' = 0
               /\ clock' = Time(frame) /\ pc' = (IF pc = "draining" THEN "drained" ELSE "loop")
          ELSE /\ submitted' = Append(submitted, frame) /\ UNCHANGED <<seekReq, seekPts>>
               /\ clock' = Time(frame) + FrameTime /\ UNCHANGED pc
  /\ UNCHANGED outcome

\* Reopened, the loop passes over the frames before the resume point; one that is
\* much too early shows that the seek failed.
PassOver(frame) ==
  /\ UNCHANGED <<seekReq, seekPts, retries, logoVars, submitted>>
  /\ IF retries > 0 /\ seekPts - Time(frame) > Far
     THEN Ended("positioning") /\ clock' = Time(frame)
     ELSE clock' = Time(frame) + FrameTime /\ UNCHANGED <<pc, outcome>>

\* The decoder gives its next frame.
Receive ==
  /\ pc \in {"decoding", "draining"} /\ out < at
  /\ out' = out + 1
  /\ IF Due(out + 1) THEN Submit(out + 1) ELSE PassOver(out + 1)
  /\ UNCHANGED <<inputVars, at, byBytes, retryTarget>>

\* The decoder has no more frames for now.
Decoded ==
  /\ pc = "decoding" /\ at - out <= MaxHeld
  /\ pc' = "loop"
  /\ UNCHANGED <<inputVars, at, out, clock, seekVars, retries, retryTarget, logoVars,
                 submitted, outcome>>

\* The end: the master list of what was analysed, if anything was.
Finish ==
  /\ pc = "drained" \/ (pc = "draining" /\ out = at)
  /\ Ended(IF submitted # <<>> THEN "listed" ELSE "nothing")
  /\ UNCHANGED <<inputVars, at, out, clock, seekVars, retries, retryTarget, logoVars,
                 submitted>>

Over == pc = "ended" /\ UNCHANGED vars

Loop ==
  \/ HonourSeek \/ SkipUntimed \/ CorrectSeek \/ SendPacket
  \/ RetryInput \/ EndInput \/ Receive \/ Decoded \/ Finish

Next == Loop \/ Grow \/ ReadError \/ Over

Spec == Init /\ [][Next]_vars

\* The loop runs on; reads do not fail for ever, and the decoder hands on what it
\* no longer needs to hold.
FairSpec ==
  /\ Spec /\ WF_vars(Loop)
  /\ SF_vars(SendPacket \/ SkipUntimed \/ CorrectSeek)

------------------------------------------------------------------------------
(* Correctness. *)

TypeOK ==
  /\ avail \in 1..Frames /\ {live, follows, twoPass, byBytes} \subseteq BOOLEAN
  /\ at \in 0..avail /\ out \in 0..at
  /\ {clock, seekPts, retryTarget} \subseteq 0..(FrameTime * (Frames + 1))
  /\ seekReq \in 0..MaxCorrections /\ retries \in 0..LiveRetries
  /\ {logoKnown, secondSearch} \subseteq BOOLEAN
  /\ submitted \in Seq(1..Frames)
  /\ pc \in {"loop", "reading", "decoding", "draining", "drained", "ended"}
  /\ outcome \in {"none", "listed", "nothing", "positioning", "error"}

\* However often the input is reopened, detection is given each frame once and in
\* order, from the first one on, and loses at most the one frame that the resume point
\* is late by at each reopening (frame numbers stand for time in detection).
Skipped == LoopDelay \div FrameTime

Continuous ==
  \A i \in 1..Len(submitted) :
    LET before == IF i = 1 THEN 0 ELSE submitted[i - 1]
    IN submitted[i] \in (before + 1)..(before + 1 + Skipped)

\* A list is written from the whole recording as far as it was read: nothing stays in
\* the decoder at the end, and the last reopening loses no more than any other.
ListsAll == outcome = "listed" => at - Last \in 0..Skipped

\* Analysis ends when the recording does, however often it starts over, if no seek is
\* repeated for ever (SeekSettles shows one that is).
Ends == []<>(seekReq = 0) => <>(pc = "ended")

\* A seek settles: reading goes on from where it landed.
SeekSettles == seekReq > 0 ~> (seekReq = 0 \/ pc = "ended")

\* A request to analyse again from the first frame is carried out before analysis ends,
\* in whatever moment the logo is found.
RestartHonoured == outcome \in {"listed", "nothing"} => seekReq = 0
=============================================================================
