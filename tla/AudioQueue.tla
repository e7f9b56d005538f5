----------------------------- MODULE AudioQueue -----------------------------
(***************************************************************************)
(* The live fingerprint job's input queue (fingerprint/audio_queue.cpp),   *)
(* between the thread that reads the audio stream and the matching thread. *)
(*                                                                         *)
(* Time is counted in samples: a capture second s of the code is position  *)
(* s * sample_rate here, so runStart + runSamples is the code's            *)
(* run_start_ + run_samples_ / sample_rate.  Audio is represented by the   *)
(* capture position its first sample really has, a ghost the code does not *)
(* carry: it lets the model ask whether the matching thread, which only    *)
(* counts the samples it is given, places each sample where it belongs.    *)
(*                                                                         *)
(* Every method of AudioQueue holds its mutex from end to end, so each is  *)
(* one step here.  The stream's order (no audio before a run start,        *)
(* nothing after the end) is what AudioStreamParser lets through.          *)
(***************************************************************************)
EXTENDS Integers, Sequences, SequencesExt

CONSTANTS
  Capacity,     \* samples the queue holds: capacity_
  Starts,       \* capture positions a run start may give
  Sizes,        \* samples one A message may carry
  MaxMessages   \* bound: messages of one stream

ASSUME QueueAssumption ==
  /\ Capacity \in Nat
  /\ Starts \subseteq Nat
  /\ Sizes \subseteq Nat
  /\ MaxMessages \in Nat

VARIABLES
  pieces,       \* pieces_: what waits to be popped
  queued,       \* queued_: samples waiting
  peak,         \* peak_: the most samples ever waiting
  dropped,      \* dropped_: samples refused
  closed,       \* closed_
  runStart,     \* run_start_: the run being read
  runSamples,   \* run_samples_: its samples seen, kept or not
  gap,          \* gap_: its audio was dropped since the last piece kept
  inRun,        \* in_run_ of the parser: a run start was read
  ended,        \* ended_ of the parser: the end message was read
  messages,     \* bound: messages read
  jobStart,     \* run_start of live(): the run being matched
  jobSamples,   \* run_samples of live(): its samples fed to the coder
  jobEnded,     \* result.ended of live(): the end was popped
  kept, taken   \* ghosts: samples pushed, samples popped

queueVars == <<pieces, queued, peak, dropped, closed, runStart, runSamples, gap, kept>>
parserVars == <<inRun, ended, messages>>
jobVars == <<jobStart, jobSamples, jobEnded, taken>>
queueAndStream == <<queueVars, parserVars, jobVars>>

\* A piece; `pos` is the run's start, or the ghost position of the audio's first
\* sample; `upto` is the ghost count of samples kept up to the piece's end.
Piece(kind, pos, size, upto) == [kind |-> kind, pos |-> pos, size |-> size, upto |-> upto]
Pieces == [kind : {"run", "audio", "end"}, pos : Nat, size : Nat, upto : Nat]

TypeOK ==
  /\ pieces \in Seq(Pieces)
  /\ queued \in Nat /\ peak \in Nat /\ dropped \in Nat
  /\ closed \in BOOLEAN /\ gap \in BOOLEAN
  /\ runStart \in Nat /\ runSamples \in Nat
  /\ inRun \in BOOLEAN /\ ended \in BOOLEAN
  /\ messages \in Nat
  /\ jobStart \in Nat /\ jobSamples \in Nat /\ jobEnded \in BOOLEAN
  /\ kept \in Nat /\ taken \in Nat

Init ==
  /\ pieces = <<>> /\ queued = 0 /\ peak = 0 /\ dropped = 0
  /\ closed = FALSE /\ runStart = 0 /\ runSamples = 0 /\ gap = FALSE
  /\ inRun = FALSE /\ ended = FALSE /\ messages = 0
  /\ jobStart = 0 /\ jobSamples = 0 /\ jobEnded = FALSE
  /\ kept = 0 /\ taken = 0

-----------------------------------------------------------------------------
(* The reading thread: the parser's events. *)

\* The parser still takes messages, and the bound allows one more.
Reading == ~closed /\ ~ended /\ messages < MaxMessages

RunStart(start) ==
  /\ Reading
  /\ inRun' = TRUE
  /\ messages' = messages + 1
  /\ runStart' = start
  /\ runSamples' = 0
  /\ gap' = FALSE
  /\ pieces' = Append(pieces, Piece("run", start, 0, kept))
  /\ UNCHANGED <<queued, peak, dropped, closed, ended, kept, jobVars>>

\* Mutant of Fits: the size of the new audio forgotten.
FitsWithout(n) == queued <= Capacity
Fits(n) == queued + n <= Capacity

\* Mutant of Resumed: the gap forgotten.
ResumedNever == pieces
\* The queue with the new run that the first audio kept after a gap opens.
Resumed ==
  IF gap THEN Append(pieces, Piece("run", runStart + runSamples, 0, kept)) ELSE pieces

Keep(n) ==
  LET waiting == queued + n IN
  /\ Fits(n)
  /\ pieces' = Append(Resumed, Piece("audio", runStart + runSamples, n, kept + n))
  /\ queued' = waiting
  /\ peak' = IF waiting > peak THEN waiting ELSE peak
  /\ gap' = FALSE
  /\ kept' = kept + n
  /\ UNCHANGED dropped

Drop(n) ==
  /\ ~Fits(n)
  /\ dropped' = dropped + n
  /\ gap' = TRUE
  /\ UNCHANGED <<pieces, queued, peak, kept>>

Audio(n) ==
  /\ Reading
  /\ inRun
  /\ Keep(n) \/ Drop(n)
  /\ runSamples' = runSamples + n
  /\ messages' = messages + 1
  /\ UNCHANGED <<closed, runStart, inRun, ended, jobVars>>

\* Where the matching thread's clock stands: the end of the last sample fed.
JobPosition == jobStart + jobSamples

\* Where the matching thread will stand once all that waits is popped (a ghost).
TailPosition ==
  IF pieces = <<>> THEN JobPosition ELSE Last(pieces).pos + Last(pieces).size

\* Mutant of WithEnd: a full queue drops the end too.
WithEndIfRoom ==
  IF queued < Capacity THEN Append(pieces, Piece("end", TailPosition, 0, kept)) ELSE pieces
WithEnd == Append(pieces, Piece("end", TailPosition, 0, kept))

End ==
  /\ Reading
  /\ ended' = TRUE
  /\ messages' = messages + 1
  /\ pieces' = WithEnd
  /\ UNCHANGED <<queued, peak, dropped, closed, runStart, runSamples, gap, kept, inRun, jobVars>>

\* Standard input ended (before or after the end message) or could not be read.
Close ==
  /\ ~closed
  /\ closed' = TRUE
  /\ UNCHANGED <<pieces, queued, peak, dropped, runStart, runSamples, gap, kept, parserVars, jobVars>>

-----------------------------------------------------------------------------
(* The matching thread: a popped piece and what live() does with its time. *)

\* Mutant of QueuedAfter: one sample too many is taken off the count.
QueuedAfterLess(piece) == queued - piece.size - (IF piece.kind = "end" THEN 1 ELSE 0)
QueuedAfter(piece) == queued - piece.size

Pop ==
  /\ pieces # <<>>
  /\ LET piece == Head(pieces) IN
       /\ pieces' = Tail(pieces)
       /\ queued' = QueuedAfter(piece)
       /\ taken' = taken + piece.size
       /\ jobStart' = IF piece.kind = "run" THEN piece.pos ELSE jobStart
       /\ jobSamples' = IF piece.kind = "run" THEN 0 ELSE jobSamples + piece.size
       /\ jobEnded' = (jobEnded \/ piece.kind = "end")
  /\ UNCHANGED <<peak, dropped, closed, runStart, runSamples, gap, kept, parserVars>>

Drained == closed /\ pieces = <<>>

Next ==
  \/ \E start \in Starts : RunStart(start)
  \/ \E n \in Sizes : Audio(n)
  \/ End
  \/ Close
  \/ Pop

Spec == Init /\ [][Next]_queueAndStream

-----------------------------------------------------------------------------
(* Correctness. *)

\* The samples that wait, counted from the pieces themselves.
Waiting ==
  LET upTo[n \in 0..Len(pieces)] == IF n = 0 THEN 0 ELSE upTo[n - 1] + pieces[n].size
  IN upTo[Len(pieces)]

\* The cached count queued_ is exactly the audio that waits, so the unsigned
\* subtraction in pop never wraps and a freed place is never lost.
CountExact == queued = Waiting /\ kept = taken + queued

\* At most capacity_ samples ever wait, and peak_ covers what waits: the memory
\* bound of live_queue_seconds of audio, reported at the end of the job.
WithinCapacity == queued <= peak /\ peak <= Capacity

\* The matching thread, which only counts samples, puts every sample at the
\* capture position it really has: dropped audio never shifts what follows it,
\* and nothing is matched across the gap.
InPlace == pieces # <<>> /\ Head(pieces).kind = "audio" => Head(pieces).pos = JobPosition

\* Run starts and the end are never dropped: once the queue is drained the
\* matching thread has seen the end if there was one, and stands exactly where
\* the stream does unless the stream's last audio was dropped.
DrainedComplete ==
  Drained => /\ jobEnded = ended
             /\ inRun /\ ~gap => JobPosition = runStart + runSamples
=============================================================================
