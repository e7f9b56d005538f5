# Comskip: specifications, model checks and proofs

Comskip finds the commercials in a television recording. The repository holds two
programs: `comskip`, the detector, which decodes a recording (also one that is still being
written) and builds a list of commercials from black frames, silence, scene changes, the
station logo, aspect ratio and captions; and `comskip-fingerprint`, which keeps a library of
audio repeats over all recordings and, while a recording runs, publishes marks from that
library and from what comskip reports ("Evidence"). The application that drives the two is
not in the repository.

This directory holds TLA+ models of the parts where order, interruption or state that
outlives a call decide whether the result is right, the TLC runs that check them on small
instances, and TLAPS proofs of the results that matter most. Every definition is taken from
the source; `PROJECT.json` names the lines. Paths below are relative to `src/src`.

## 1. Inventory

### comskip

| part | state | operations | what makes it correct |
|---|---|---|---|
| analysis loop (`app/analysis.cpp`, `media/recording_input.cpp`, `media/seeking.cpp`) | position in the input, retries of a growing recording, seek request, clock of the last frame, two-pass flags | read, decode, seek and correct, reopen, drain, restart, list | each frame reaches detection once, in order, over reopenings and restarts; the decoder is emptied before the list; it ends |
| video decoder and timing (`media/video_decoder.cpp`, `frame_timing.cpp`) | frame number, size, pixel buffers | `SubmitFrame`, timeline repair | accepted frames only move forward; a change of size drops what depends on it |
| audio decoding (`media/audio_analysis.cpp`) | sample buffer with its base time | append, volumes of finished frames, re-anchor | a volume lands on the frame it was heard at |
| scan threads (`platform/portable_threads.h`, `detection/scene_analysis.cpp`) | generation, remaining tasks, first failure | `run`, destructor, four workers | no scan while the caller uses the frame; every scan once; a failure belongs to its frame |
| logo tracking (`detection/logo.cpp`) | ring of sampled pictures, mask, trend counter, stretches, flags of frames, count | fill, search, test, open, close, lose, search again, clean up | blocks in order and apart; flags and blocks agree; restarts end |
| cut candidates (`detection/scene_analysis.cpp`, `detection.cpp`) | black frames with their causes | insert for a frame, complete from logo and silence, filter | ordered by frame whatever the order of insertion; a filter removes what fails and nothing else |
| aspect ratio (the same files) | stretches of one ratio | read, follow, tidy | stretches follow each other without gap; tidying ends |
| blocks (`detection/blocks.cpp`) | blocks with their cuts and causes | group candidates, cut, join | blocks cover the recording without gap or overlap and name the cut they end with |
| scoring (`detection/scoring.cpp`, `weighted_scores.cpp`) | scores and causes of the blocks | score passes, threshold | what lies between commercials is filled, a long piece of the show stays show |
| list of breaks (`output/cutlists.cpp`) | breaks with their first and last block | runs of commercials, extend, delete, shorten, pad | breaks are whole blocks, apart, inside the recording, and respect what is always kept |
| live list (`detection/live.cpp`) | previous list | rebuild from what is known so far | a break listed is not taken back without cause |
| captions and programme data (`detection/captions.cpp`) | caption runs, text, screen and memory, packets of programme data | feed, close a run, style of a block, dictionary | the text fits its buffer, runs follow the style, the name and rating are those sent last |
| Evidence writer (`output/evidence_adapter.cpp`, `output_file.h`) | revision, temporary file | write, rename with retries | a reader sees whole revisions that never go back |
| output formats (the adapters of `output/`) | files of one round | text lists, six adapters | all say the same; what is refused is known |
| review window (`ui/review.cpp`) | blocks or a list that was read | toggle, judge, move edges, insert, delete, recalculate, write | what its keys make of a list is a list every format accepts |
| reference comparison (`detection/reference_comparison.cpp`, `output/diagnostics.cpp`) | two sorted lists | walk, pair | it reports the difference of the lists |
| configuration, frame table input, platform, localization | settings | parse, render | sequential |

### comskip-fingerprint

| part | state | operations | what makes it correct |
|---|---|---|---|
| stream parser (`fingerprint/audio_stream.cpp`) | header and payload so far, in a run, ended | `push` | independent of how the pipe cuts the stream; legal order |
| audio queue (`audio_queue.cpp`) | pieces, count of samples, run start, gap, closed, error | push, pop, close, drained | bounded; dropped audio never shifts later audio; nothing lost at the end |
| live job (`live.cpp`) | shared runs, change flag, index, three threads | read, match, store, stop | no code forgotten, every exit joins its threads, it ends |
| live matcher (`live_matcher.cpp`) | open and ended matches | feed, reset, prune | a match grows with the audio or is withdrawn |
| combiner and history (`combiner.cpp`) | marks published before | `combine`, `MarkHistory::update` | marks apart, logo never bridged, only what stood still or is agreed is settled |
| library, repeats (`library.cpp`, `matching.cpp`) | code streams, entries, airings | add a stream, find repeats, cut, split | airings apart and in agreement with their entry; a search settles |
| library, statuses (`library.cpp`) | entry statuses, contexts, Evidence | promote, replace context | Evidence vetoes; breaks grow from real ads; judging again changes nothing |
| store and command line (`store.cpp`, `main.cpp`, `seed.cpp`) | SQLite transaction depth, corrected captures | begin, commit, roll back; add, combine, promote, print | the store goes from one whole command to the next; stale marks files are asked for |

### How the parts interact

* The analysis loop calls `SubmitFrame`, which calls `DetectCommercials` for every frame;
  that runs the scan threads, the logo and the frame measures in this order and answers
  "start again" when a two-pass logo was found, which `SubmitFrame` turns into a seek
  request for the loop. At the end `BuildMasterCommList` closes the logo stretch, completes
  the candidates, builds and joins blocks, scores them, and has the breaks listed, adjusted,
  padded and written.
* comskip rewrites the Evidence file while it works; the application maps its times and
  replaces a file of its own, which the matching thread of the live job looks at each round.
* Inside the live job the reader thread feeds the queue, the matching thread pops it, codes
  it, matches it and publishes marks, and the store thread appends codes to the library and
  brings new promotions back as an index. They share one mutex-guarded record.
* Other processes (captures of other recordings, `seed`, `promote`) change the library
  between any two transactions of the live job.

### What is hard here

Three threads and their ends (live job), four threads and a barrier (scans); a pipe that
cuts anywhere; a queue that drops at its limit; files replaced under a reader; processes
that share a store and die; an input that grows, is reopened and sought in; sound and
picture tied by time stamps alone; analysis that starts over; results with a lag (logo
stretches, drained frames, settled marks, live breaks); rule systems that judge from their
own results; lists that pass after pass edits in place by index. The 40 hazards, each at
its line and with the properties that cover it, are in `PROJECT.json`.

## 2. Modules

| module | models | state and actions against the code |
|---|---|---|
| `AudioQueue` | `audio_queue.cpp` | one action per method, each a critical section; pieces carry the true position of their first sample as a ghost |
| `LiveJob` (extends it) | `live.cpp` | reader, matching and store threads; a step is a critical section, a queue call or a store call; busy and failing store, read error, exceptions, stop, joins |
| `AudioStream` | `audio_stream.cpp` and the read loop | one iteration of the loop in `push` is a step; bytes are counted |
| `EvidenceFile` | `replace_output_file`, `look_at_evidence` | write, rename, retry, remove; stamp read in two parts, then open and parse |
| `Combiner` | `combine()` | an operator over sets; the sorted sweeps are stated by what they compute |
| `LiveMarks` (extends it) | `MarkHistory::update`, publish, repeats within the show, the matcher's contract | piece, start of a run, end of the audio, Evidence, publish, finish |
| `Airings` | `Library::add_stream`, `find_repeats` and the `Search` behind it | one action per command, matching, cuts and splits inside |
| `Promotion` | `promote`, `judge_chains`, `join_breaks`, `save` | operators over facts; no recursion |
| `Library` (extends it) | statuses over the store's life | find (any airings that fit, any split), replace context, promote all; each judges everything again |
| `StoreCommands` | `store.cpp` and the commands of `main.cpp` | one action per step of a process between two points where another can act: begin, lock, load, write, commit, then for each capture its matches read and its marks file replaced, result; a process may fail or die at each |
| `Analysis` | the decode loop with its seeks and restarts | one action per turn of the loop's phases; FFmpeg is external |
| `AudioVolumes` | `sound_to_frames`, `backfill_frame_volumes`, `retrieve_frame_volume` | an audio packet, a frame; samples carry the time they were recorded as a ghost |
| `ScanBarrier` | what `run()` promises | abstract: begin, do a task, return |
| `ScanWorkers` | `portable_threads.h` | begin, return, destroy; take, done, leave; refines `ScanBarrier` |
| `LogoTracking` | `logo.cpp` with the part of `DetectCommercials` that drives it | decode a frame, finish, one turn of the loop that takes short blocks out; a restart is part of the frame that found the logo |
| `CutPoints` | `CheckSceneHasChanged`, `InsertBlackFrame`, the end of the list in `BuildMasterCommList`, the filters of `BuildBlocks` | one action per frame, per turn of the silence loop and per candidate a filter looks at |
| `AspectBlocks` | `ProcessARInfo`, the tidying, the cuts made of it | one action per frame and per turn of the tidying |
| `Captions` (extends `ProgramData`) | `ProcessCCData`, `AddCC`, `AddNewCCBlock`, styles, dictionary | a packet of a frame; then one action per step after the last frame, the first of which closes the open run and text |
| `ProgramData` | `AddXDS` | the packet assembly as a function of a record |
| `LiveList` | `BuildCommListAsYouGo` | a frame of the recording, which may change flags behind it and, when it is no candidate, rebuild the list; the end |
| `Blocks` | `BuildBlocks`, the joins of `CleanLogoBlocks` and `WeighBlocks`, `BuildCommercial`, `OutputBlocks`, `ApplyCommercialPadding` | one action per turn of the grouping and joining loops, one per pass over the breaks; block numbers begin at 1 |
| `Scoring` | the rest of `WeighBlocks` | one action per step of the weighing loop and per turn or pass of the rules |
| `Outputs` | the adapters of `output/` | what each format says of a list: an operator per format |
| `Review` (extends it) | the writing part of `OutputBlocks`, the keys of `ReviewResult` | open, one record, one adapter; one action per key |
| `ReferenceComparison` | `compare_reference_intervals`, `InputReffer` | one action per turn of each loop |

`MCLibrary` and `MCBlocks` give constants. `MCCombiner` is the machine around `combine()`:
matches, seams, logo intervals and blocks of constant sets are given one at a time, in any
order, and each time the marks are combined anew. The other MC modules check several
components each in one run: `MCMarks` (combiner, publishing loop, stream, Evidence file),
`MCStore` (repeats, statuses, commands), `MCDetector` (scan threads, logo), `MCSignals`
(the live list, beside `MCDetector`, candidates, aspect ratio, volumes and captions, which it
extends because they are proved about) and `MCRecording` (decode loop, blocks, scores, files and
window, comparison). Components of one run share no state, so a
behaviour is of one of them and `part` says which; the composition is for economy, not for
interaction. Those that do interact are composed by `EXTENDS` (`LiveJob` over `AudioQueue`,
`LiveMarks` over `Combiner`, `Library` over `Promotion`, `Captions` over `ProgramData`,
`Review` over `Outputs`). Proofs are in modules of their own, named after what they are
about (`..._proofs`): `Marks_proofs` about the parts of `MCMarks`, `Signals_proofs` about
`CutPoints`, `AspectBlocks` and `AudioVolumes`, `Detector_proofs` about both parts of
`MCDetector`, `Recording_proofs` about the decode loop, the scores, the review window and the comparison in
`MCRecording`, `LiveJob_proofs` about the job and its queue.

### Abstractions to know

* *Audio* is a count of samples, a capture second `s` is sample `s * rate`. *Codes* are
  counted in `LiveJob` and are equal or not in `Airings`, where the code lets some bits
  differ; a recording is one run there, and hashing is not modelled.
* *Pictures* are their size and logo in `LogoTracking`: an edge mask is known by the logo
  it was made from. The pictures of one sampling interval are alike. After a change of size
  the first place of the buffer has a frame number and no picture (`Bare`). `logo_filter` and
  `delay_logo_search` are 0 (the default), and no mask file is loaded.
* `EvidenceFile` gives each rewrite a modification time of its own, as file systems with
  fine time stamps do; sizes may repeat.
* `Analysis`: seeks aim some seconds before their target; only the first packet may lack its
  time stamp (`ParametersOK`); `LoopDelay` is a frame's time or
  0, because FFmpeg may leave the decoder's time base unset; read errors pass; audio and
  captions do not change the order of frames and are left out.
* `Library`: a recording holds one programme, airings cover whole entries, Evidence is
  given once per recording, a search finds at most one new repeat.
* `Blocks` starts from any list of candidates with their causes, as `CutPoints` may leave it;
  the one at the end of the recording is at `framesprocessed`, which every reader of a recording
  keeps equal to `frame_count` when blocks are built. Frames are evenly spaced, so times are frames;
  durations are differences of frame numbers, as `frame_duration` has them. Validation may
  drop any cause it is asked to remove. Which blocks are commercials is any set, as
  `Scoring` may leave it, and which of the others score below the threshold any part of them. `delete_show_after_last_commercial` and
  `delete_show_before_first_commercial` with the value 1 (by the planned start and end) are
  left out, and `connect_blocks_with_logo` off is the case of no logo stretch.
* `AudioStream`: a message is its type, its length and whether its value is good; only a run
  start has a value that may be wrong (`StreamAssumption`).
* `LiveMarks` takes the matcher by contract: a match begins where the audio is, projected
  forward, and backward to the start of the run when the entry began shortly before that; its
  agreed part grows or lags, and it ends, diverges, or is cut where its run ends. A run may
  start anywhere, also before the end of the last one. Repeats of the recording with itself are
  given, and count as advertising for both their copies when `within_show_ad` says so of the
  Evidence. Units of time are coarser than `unchanged_within`
  (0.05 s), so an edge is the same or has moved (`LiveAssumption`); slower drift is not modelled. `MarksFile` replacement may fail.
* `StoreCommands` keeps of the library which context and Evidence every entry was last
  judged with, and takes each change of them to change the marks of every capture: the
  worst case. A capture that a search is not given Evidence of has none for any command
  (`CopiesAssumption`; the store keeps a copy once it was given one, `main.cpp` and
  `fingerprint-plan.md`), so a pass over another capture never writes its marks file. Of the commands that find repeats
  and write marks files one runs at a time, as `fingerprint-plan.md` asks of the application:
  `StaleIsTold` needs it, because two that write the file of one capture, each from what it
  read, may write in the other order. SQLite is a write lock that is waited for and may not come, a snapshot and an
  atomic commit.
* `CutPoints`, `AspectBlocks`: what is seen and heard of a frame is given: its darkness,
  uniformity, volume, change, ratio. The histogram by which ratios are snapped to each other is
  any map to representatives, and whether it is quiet at the end of a stretch any choice.
  Stretches of one number of audio channels are built and
  turned into cuts like those of one ratio, and only their cuts appear.
* `Captions`: a pair of bytes is known by its command. `ProgramData` keeps the prefix by
  which packets are told apart short. A packet opened by the continuation code of the last
  class has no end, since its end code would be one (`captions.cpp:156`, `163`).
* `AudioVolumes`: a sample is a tick and known by when it was recorded; its loudness is left
  out, but for the volume 0 of a frame whose samples are partly there. Sound is lost at most
  once. The jitter steps and the putting together of packets of AC3 sound that is not aligned
  (`audio_analysis.cpp:190-198`, `278-344`) are left out.
* `LiveList` counts in units of some seconds. The logo is tested every few units. A unit may be
  dark, of one colour and quiet in any combination.
* `Scoring`: scores are in hundredths and rounded; the length of a block is given without
  its black edges, and which averages it exceeds is data.
* `Outputs`: a file is the set of ranges it cuts and of those it keeps; frames are evenly
  spaced. `Review`: a write may fail at any file. The three keys that lower a threshold and
  calculate again lead to any blocks; a block that is no commercial becomes one with `T` or, if
  its score is the threshold, does not.
* `ReferenceComparison`: ranges are half-open and may touch or be empty.

## 3. Runs

| run | checks | bounds and why they are enough | outcome |
|---|---|---|---|
| `live_job` | positions, count of the queue, capacity, drained queue, no code forgotten, sound exits, job ends, index reaches matcher | four messages over a queue of one sample: kept, dropped, a second run and the end in every order; one busy and one failing store call; one promotion | holds |
| `live_job_busy` | a busy store is retried | same, three messages | **violated** (finding 1) |
| `marks` | combiner: marks apart, adverts marked, logo never bridged (`MarksSound`), monotone in ads and in programme; stream: independent of cuts, legal order (`StreamSound`); publishing: what settles and when (`Settling`); Evidence file: never back, rests clean (`FileWhole`), newest taken | every set of up to three matches, two logo intervals, two blocks and a seam on a line of nine units, so that all of the gap and reach limits (1 to 4) are met from both sides; all streams of up to two messages of nine kinds, and up to four behind a run start, reads of up to five bytes against headers of two; two growing matches of an entry of three units, a second run, one repeat of the show, five time units against a settling time of three, two revisions with two views, a failed replacement; three rewrites of the Evidence file, two retries | holds |
| `marks_agreed` | an ad mark agreed in every part is settled once it is over | publishing as in `marks`, six time units | **violated** (finding 7) |
| `logo_restart` | analysis ends | one recording that changes its picture size | **violated** (finding 4) |
| `logo_flicker` | a single test without the logo closes the stretch (`SampleCloses`) | one recording with the default settings of the logo, in one pass and two | **violated** in one pass (finding 6) |
| `signals` | scan threads: frame stable, implements the barrier; logo: flags grounded, and in two passes blocks apart, flagged and no missed test in the open stretch (`LogoSound`); every scan returns and the analysis ends (`EverythingEnds`; in two passes for pictures of one size, see finding 4); candidates sorted and filtered exactly (`CandidatesExact`); stretches tile, their tidying settles; caption text fits, runs follow the style, the description is current (`CaptionsSound`); volumes in place and never 0 for want of sound; settled breaks stay on the live list | four workers as in the code, three frames (one before, one after a failing one); all recordings of up to four stretches in ten samples with two logos, and those of one logo whose picture changes its size on the way, trend of two, ring of three: enough for a restart, a second search, a lost logo in one pass, a discarded and a shrunk stretch, a search given up (each was seen to occur); twelve frames of which four are of any of five kinds, three plans with and without intelligent thresholds, logo edges, silence and channel changes; eleven frames of two ratios or none against a trend of one and a loss of three, any of the ratios snapped to the other or to none, cut everywhere, nowhere or where it is quiet; five packets of each of four groups of packets, one of them without an end, a text limit of three and five letters in a buffer of seven; 24 ticks of sound, one loss of three, stamps off by one, sound up to eight ticks ahead, a buffer of ten; eight or more units without and with logo in all orders of four of five parts and three endings, seven settings | holds |
| `recording` | decode loop: every frame once, list of everything (`ReadingSound`), ends unless one seek is repeated for ever; blocks: they tile the recording, no cut with the logo on both sides, breaks sound through all passes; scores: gaps filled, long show kept (`GapsJudged`); files: formats agree and read back (`FormatsSound`), only touching breaks are refused; comparison: differences exact | five frames, the first without a time stamp, two held back, two retries, seeks that land anywhere before the target; eleven frames of which two make a second, up to three candidates of any of four kinds anywhere, and every dense run of seven black or silent frames, so that groups are stretched, narrowed to their pictures and to their middle, thrown away, end at the last frame; one logo stretch or none; four settings that turn each pass on; three blocks of eight kinds under four sets of rules and four blocks of six kinds under one; any verdict on five blocks, padded three ways, three lists that were read, two keys; every pair of lists of up to two ranges, empty ones too, in six frames | holds |
| `analysis_seek` | a seek settles | one packet without time stamp | **violated** (finding 2) |
| `analysis_restart` | a restart is carried out | logo found in any frame, also a drained one | **violated** (finding 3) |
| `library` | statuses: no ad under a logo, no ads for each other's sake alone, one pass settles; repeats: airings apart and in agreement, search settles (`AiringsSound`); commands: commits are whole, stale marks are told | a spot that may split, its neighbour, a programme stretch; three recordings of two shows and a game, four airings, one replaced context (symmetric recordings); three recordings of parts of one break of six codes, five commands; two processes, of which one at a time writes marks, two captures written one after the other, eight commands, four starts: a file that is asked for, written by another process and out of date again takes four | holds |
| `library_theme` | a broken theme is programme | as above | **violated** (finding 5) |

The invariants and properties of a run are often conjunctions (each named in the module of
the run), which keeps the number of separate checks small without losing any.

Deadlock is checked where the cfg does not switch it off; it is off where the system
really comes to a rest (a job that has ended, all streams read, a list written, a bound on
commands used up).

### Findings

1. **Busy in the last round** (`fingerprint/live.cpp:90`): the store thread flags a busy
   round for a retry and then ends, because it was told to stop; the job reports success
   with codes unstored, against `live.h:42-43`.
2. **Seek without a time stamp** (`app/analysis.cpp:173`): a packet without usable time
   stamp right after a seek is not skipped; the seek is repeated for ever.
3. **Restart in the drain** (`app/analysis.cpp:276`): a logo found in a drained frame asks
   for a restart that is dropped, and no list is written.
4. **Restart for ever** (`app/pixel_buffers.cpp:39`): with `two_pass_logo`, a recording
   whose picture changes size and shows a logo in the later part starts over without end:
   each pass drops the logo at its first frame.
5. **Broken theme** (`fingerprint/library.cpp:872`): an intro that airs once more in its
   own series becomes an ad, where the documents say `programme`.
6. **A stretch across misses** (`detection/logo.cpp:1080`): with `two_pass_logo = 0` the
   buffer of pictures keeps those of one short absence of the logo after the other and is
   emptied only when it is full at a test without the logo (`detection.cpp:149`). When it
   fills up in a later absence, a stretch opens behind the last stored picture without the
   logo: across the tests without it, which `docs/algorithm/index.html:675` says close it,
   and before logo blocks that are closed by then. The logo blocks then overlap, which the
   counts over them (`logo.cpp:1274-1314`) and the joins of blocks do not expect.
7. **Agreed, and provisional** (`fingerprint/combiner.cpp:241`): a settled mark that moved or
   appeared less than three minutes ago is taken back to provisional by its age, also when it
   was settled because all of it is agreed, whereas `fingerprint-plan.md:781-785` has such a
   mark settled as soon as it is over and `combiner.h:75-77` speaks of marks settled by age. In
   the run the ad ends before the first Evidence comes, and audio goes on at a later start.
   `Settling` therefore says of an agreed mark only that it may be settled before it stood still.

### Observed, and not made a run

* `audio_stream.h:28-30` says nothing follows the end; `live.cpp:202` ignores what does.
* The unconfirmed block of rule 5 (`combiner.cpp:196`) makes a whole agreed stretch it touches
  unconfirmed.
* `live.cpp:265` uses up the stamp of a file it cannot read; `fingerprint-plan.md:815-816`
  says that a higher revision is read.
* After the loop marks are published once (`live.cpp:348`). When that replacement fails nobody
  tries again, and the job exits well with older marks in the file, against
  `fingerprint-plan.md:305` and its own message (`live.cpp:287`). What could be claimed of the
  last file is no more than what the one call returns.
* `combiner.cpp:233`: two overlapping in-programme marks may inherit one age.
* `library.cpp:394-457`: a split drops airings that straddle the cut without setting
  `corrected` (`fingerprint-plan.md:595-596`). A dated event that shares nothing loses its
  network and channel (`library.cpp:488-497`, `84-92`).
* `logo.cpp:828-831`: a discarded stretch keeps its count and flags, and a kept one is
  counted a sample short at both ends, so the count may fall below zero, whereas
  `docs/algorithm/index.html:683` defines the share as the frames inside stretches. The
  share is computed (`detection.cpp:535`) before the last stretch is closed (`717`).
* Blocks and breaks. The first candidate of a group is in neither count when the group may
  be narrowed (`blocks.cpp:587-613`), so a group that begins with black may be cut back to
  later pictures; `docs/algorithm/index.html:816` speaks of all. In `ValidateBlackFrames`
  `prev_cause` is set to the reason itself (`blocks.cpp:240`). A second glitch right after a
  first is left over by `scoring.cpp:61` (line 899 of the document says blocks between two
  such cuts become one), and `scoring.cpp` still compares with the causes the first join
  left. The block that swallows a glitch takes its end
  and tail from the third block but its cause from the first (`scoring.cpp:70`), where line 818
  says each block remembers the causes of the cut that ends it; the scores read it later. A short block that H5 takes into a break may be all that lay before the next
  break: the two stay two adjacent breaks (`cutlists.cpp:354-369`). Extending the last break sets the score of
  the last block only (`cutlists.cpp:382-384`), so a rebuild from scores, as the review
  window does, loses the blocks between. A break that begins in the first second and lasts
  10.2 s or more is never deleted by H6, whatever the settings (`cutlists.cpp:425`).
* Scores. The second loop of H7 starts at the last block and counts up (`scoring.cpp:742`),
  so it judges the last block only. The mark of that rule shares a bit
  with the change of resolution. A run that ends with a block never takes in the first block
  (`scoring.cpp:263`), a run that begins with one does. The limit of 25 boosts is looked at
  for the two ends of a run only.
* Cuts from aspect changes read the stretch behind the last one (`blocks.cpp:516-527`),
  which holds what an earlier use of the entry left; `docs/algorithm/index.html:792` speaks
  of a neighbour.
* The first and last frames of a run of captions count for the dominant style (`logo.cpp:183`)
  and not for that of a block (`captions.cpp:1133`), where `docs/algorithm/index.html:1114-1115`
  speaks of most frames.
* Volumes: sound lost while no stamp tells of it shifts what is heard later until the next
  stamp; the claim says by how much.
* The live list: a break that grows over `max_commercialbreak` vanishes from it, and padded
  live breaks may touch or overlap.
* Files and window. A block whose score equals the threshold is in no break, and `T` leaves it
  at that. Where padding
  makes two breaks touch, the `.txt` and `.edl` files lose the second and the adapters refuse
  the list after those files were written. `mpgtx` keeps a break that closes the recording,
  `.vcf` leaves out the programme before the first break, and a short break at the end gets
  no bookmarks although the declared number counts them. Without a frame table each write
  and read shifts a break by one frame. After the write key `output_default` stays off
  (`review.cpp:947`), so a later recalculation leaves the `.txt` file stale. The keys that
  judge a block build the breaks from the scores again and lose the padding.
* The store. A process that dies between its commit and its result takes the list of the
  captures it corrected with it (`main.cpp:335-345`); `StaleIsTold` excepts this. A `COMMIT`
  that fails leaves the depth at 0 with the transaction open (`store.cpp:172-177`); the
  command ends then, so nothing builds on it.
* With `logo_filter > 0` the vote at the current frame reads `currentGoodEdge` before it is
  stored (`detection.cpp:182`).

## 4. Fairness

* `LiveJob`: weak fairness of the matching and store threads, which the scheduler gives;
  none of the reader, which may wait for its pipe for ever. `JobEnds` therefore starts from
  a closed queue or a failed store.
* `EvidenceFile`: weak fairness of the next step of its writer and of its reader. The other
  parts of the `marks` run claim nothing that needs fairness.
* `AspectBlocks`: weak fairness of the tidying loop, which nothing interrupts.
* `Analysis`: weak fairness of the loop, and strong fairness of reading a packet: FFmpeg
  may give other answers in between but not for ever. It is the one place where strong
  fairness is used, and it stands for read errors that pass.
* `ScanWorkers`: weak fairness of each thread and of `Return`; nothing makes the caller
  call `run()`. Tasks return.
* `LogoTracking`: weak fairness of the one thread.

## 5. Proofs

TLAPS checks the following for every value of the constants.

### Live job and queue

* `LiveJob_proofs`, first the queue by itself. `TypeCorrect`; `CapacityKept` (`WithinCapacity`); `SamplesInPlace`
  (`InPlace`); `DrainedIsComplete` (`DrainedComplete`); `CountsExact` (`CountExact`). The
  inductive invariant follows the pieces that wait: the counts they carry add up from what
  was taken to what was kept (`Counted`), each begins where the one before it ends unless it
  opens a run (`Chained`), what waits leads to the place the stream has reached unless a gap
  is open (`TailKnown`), and the end comes last (`EndLast`). Positions are chained through
  the whole sequence because `pop` uncovers the next piece and a drop is only seen by the
  piece after it. `CountExact` compares `queued_` with a sum over the pieces: the least
  index where the sum and the counts of the pieces part cannot exist (lemma `SumExact`).
* Then the job. `JobRunsQueue`: every behaviour of the job is, seen from the queue, one
  of `AudioQueue`, so what is proved of the queue holds in the job. `CodesKept`
  (`NoCodeForgotten`) and `ExitsSound` (`ExitSound`). The invariant `JobInv` says that
  with the flag down every code is in the store or in the copy the store thread is about to
  append (`NoneLost`); that the store and the copy are earlier states of the runs, the copy
  the later of the two (`InOrder`), without which appending an old copy would take codes
  back; and how far the matching thread's way out has come (`Ending`).

### Marks

* `Marks_proofs`. `CombineSound` (`MarksSound`), for every horizon, every set of matches,
  seams, logo intervals and blocks, and all reaches that are ordered as in `combiner.h`.
  `combine()` is a chain of passes over stretches, and each has a lemma: merging
  (`MergedIs`), joining (`JoinedIs`), one round and all rounds of extending (`ReachedIs`,
  `ExtendedIs`), and all of them (`AdStretchesIs`). A lemma says that the results are
  stretches, that each input is within one of them, and that an interval longer than the
  pass bridges, which no input shares time with, shares none with a result. The last part is
  what chains: a logo interval of full length is longer than the adjacency and the reach,
  and a gap it fills is never joined, so over it an ad mark lies only where a match or a
  commercial block does. No invariant over steps is needed but that the inputs are of the
  given sets, because `combine()` keeps nothing.
* `StreamIsSound` (`StreamSound`), for every stream and every size of header, buffer and
  payload. The invariant `StreamInv`: the events are the first messages of the stream
  (`Delivered`); the bytes taken are those of the events and of what is held, a header held
  whole is valid and its payload is not whole (`Held`); what the parser remembers tells
  whether a run start or the end was delivered (`Orderly`). Its core is the lemma `Pushed`:
  while bytes are left to push there is a message they belong to.
* `MarksSettle` (`Settling`), for all entries, Evidence, repeats, run starts and settling times.
  `Settling` relates the marks of many rounds: an ad mark long past that stood still is settled,
  and one that is settled stood still or is agreed in every part. Its invariant `LiveInv`: the
  history remembers exactly the ad marks last published, apart, each since it is published with
  these edges (`SeenIsSteady`); and what was published is what `combine()` makes of what is at
  hand, made provisional where it is aged and not steady. What is at hand are the matches and
  both copies of each repeat that counts as advertising (lemma `OfferedIs`). Its core is the
  lemma `SinceIs`: a new mark that was seen before with these edges overlaps no other mark seen,
  so the likest is that one; and one that was not is taken for a mark that has moved, if for any,
  because a likest one exists (the largest share, then the first start). What is not confirmed is
  followed through the same passes as what is covered (`MergedFlags`, `JoinedFlags`,
  `AdStretchesAgreed`): an ad stretch over a break still projected is not confirmed, which gives
  the second part of `Settling`, and each unit of a confirmed one is agreed. `MarksSound` has
  that last of every combination (`SettledIsAgreed`).
* `FileStaysWhole` (`FileWhole`), for any number of rewrites and
  retries and any sizes. The invariant adds to `RestsClean` that the file is never ahead of
  the writer's revision and that what waits to be renamed is the rewrite under way, which
  is why a rename never takes the file back.

### Library and store

* `Library_proofs`. The invariant `IsJudged`: in every state the statuses are what one pass
  over the facts of the state gives from *some* earlier statuses. It is needed because a
  pass starts from what the last pass left. `AlwaysJudged` proves it; then `LogoVetoes`
  (`AdsCarryNoLogo`) is a property of one
  pass, and `Settles` (`OnePassSettles`) rests on the lemma that promoting what was
  promoted changes nothing. `BreaksGrowFromAds` (`AdsHaveAGround`) is about any set of ads
  that are none by themselves: two entries that only support each other would be such a set. A
  pass takes them in by rounds; the first round that takes in one of the set (lemmas `LeastOf`,
  `JoinedFrom`) found its ground among the ads before, all of them outside the set, and what
  more ads there are by the end takes no ground away (lemma `JoinsMore`). That the last pass
  began from other statuses does not matter, because what promotes by itself is the same without
  them (`PromotionsForgotten`).
* `StoreCommands_proofs`. `CommandsWhole` (`CommitsWhole`) and `StaleTold` (`StaleIsTold`),
  for any processes, captures, contexts and command lines. The steps left of a command tell
  where in it a process is; the invariant (`CommandsPlaced`) says for each such place what
  the transaction holds, as an operator on what is committed, how deep it is, and, where a
  search loaded a copy, that the copy is of what is committed: nobody else can have changed
  it, since the lock is held. A commit of the outermost transaction is then the effect of a
  whole command. `StaleTold` adds `Told`: a marks file that is out of date was lost with a
  process, is asked for by a result that no other result takes back, or belongs to a command past its last
  commit that will write it or ask for it. Between the captures of one search nobody else
  changes the files, because one writer of marks runs at a time (`SearchesStay`). Trying to prove it showed that the model had kept
  a request alive in the name of an earlier process after a later one repeated it; `Tell` now
  hands a repeated request over, and the run takes a fourth start so that it gets there.

### Detector

* `Detector_proofs`, first the scan threads. `TypeCorrect`, `FrameIsStable`, `FramesOnce`, `FailuresOwn`, and
  `Refinement`: `Spec` implements the safety of `ScanBarrier`. The invariant ties a worker's
  `seen` and its ghost `done` to the generation and says that `remaining` is the number of
  workers with `done # generation`; cardinality lemmas carry it over a worker's step.
* `LogoIsSound` (`LogoSound`), in the same module, for any recording. The samples are what the
  proof is about: a frame belongs to the last test at or before it (`Base`, from division by the
  sampling interval), and between two tests nothing changes (`BetweenTests`, `AtTest`). The
  invariant `LogoInv` says of the state after a frame (`GoodAfter`) that the tests the trend
  counts, back from the last, all saw the logo (`Watched`): so a stretch opened that far back
  lies in samples that showed it, and one missed test ends it. A closed block ends a sample
  before the test that closed it (`BlocksBehind`), and while the logo is away the tests the
  trend counts lie behind all blocks (`StretchAhead`): so the next stretch does. In two passes
  a logo is searched for only without a mask, and the pictures kept are later than the last
  block (`SearchedBehind`): so flags set from them spare the blocks. That is the part which
  fails in one pass (finding 6): there a search goes on beside a mask, with older pictures. A
  frame goes through up to five functions of the state (`Resized`, `Looked`, `Followed` with
  `Tested`, `Shown`); one lemma each says what it keeps, and `DecodeGood` puts them together.
* `Blocks_proofs`. `Tiles` (`BlocksTile`) and `LogoJoins` (`NoLogoSeam`). While groups grow
  the invariant says that what is built covers the frames up to a first free frame and that
  the head handed to the next block starts there; that the pictures of a group lie between
  its ends and its silence fits in it, which is what keeps a narrowed group inside itself
  (lemma `CoreBounds`); and that the candidate of the last frame still waits or has been
  taken, which is why the last block ends at the last frame. The joins keep a cover (lemma
  `JoinedCover`), and the sweep for logos keeps, for the blocks behind its index, that no
  pair has the logo across its cut (lemma `SweepStep`): a join moves the end of the left
  block only, which is the next pair to be tested. `ListSound` (`BreaksSound`) continues from
  there: the blocks, now fixed, are in the order of the recording (lemma `BlocksInOrder`),
  and `ListInv` follows the breaks through the passes: made of whole blocks with a block
  between any two until they are shortened, then inside those blocks, then no longer
  touching what is always kept, each pass starting from what the one before it leaves.

### Signals

* `CandidatesAreExact` (`CandidatesExact`) in `Signals_proofs`, with `CutInv`. The first half,
  that the list is ordered and inside the recording, rests on what `InsertBlackFrame` does to a
  list in order: an entry counted to be ahead of k others goes behind the k-th, or joins the
  one that has its frame (lemmas `OrderedIs`, `AheadIs`, `InsertKeeps`). The loops that insert
  many frames keep it by the first turn that would break it (lemma `InsertAllKeeps`). For the
  second half `CutInv` has `Filtering`: while a filter walks the list from the end, nothing
  that passes all three tests is gone, nothing is there that was not found, behind the index
  nothing is left that fails the test, and nothing anywhere fails the tests of the filters
  before. The part about the index is why counting down while removing skips no entry
  (lemma `RemovalKeeps`); a loop that counted up would not keep it.
* `RatiosTile` (`StretchesTile`): `AspectInv` says that the stretches are
  closed and follow each other up to the last, which is open at or before the frame that was
  read; a turn of the trend closes one stretch where it opens the next (lemma
  `TurnedTiles`), and the tidying joins neighbours only, which keeps a cover (lemma
  `MergedTiles`). `ProcessARInfo` opens the new stretch some frames back; that these are
  frames of the stretch it ends is what the invariant says of the trend's start and of the
  count of misses.
* `VolumesKeepPlace` (`VolumesInPlace`), with `VolumesInv`. A sample that waits in the buffer
  is near the place its index and the base time give it (`Near`), and is as far behind the
  sound as its index says, but for what was lost since it came (`Trails`). The second is why
  the first survives a packet that moves the base: the new place of an old sample follows from
  where the packet is put. The buffer ends near what is recorded and near the clock, the clock
  is behind by what was lost unseen at most, and a frame that has its volume ends before the
  buffer does or begins, so no frame is served twice, also after the buffer was emptied. The
  samples of a frame are taken without moving the base away from them (lemma `TakenKeeps`),
  and the loop over the frames is a recursive function, so what it leaves is shown by the
  first turn that would break it (lemma `BackfilledKeeps`).

* `CaptionsAreSound` (`CaptionsSound`), with `CaptionInv`. All segments of text have room for
  two characters more than the larger limit, and the newest stays at or below that limit
  (`Roomy`, `Writable`): every pair is followed by the test that splits a full segment (lemma
  `AddCCKeeps`), also a pair that is then ignored as a repetition, and a carriage return, which
  is not followed by it, splits by the smaller limit first (`CommandedKeeps`). The runs are in
  order up to the present frame (`RunsTo`), also when a flicker is taken out and the run before
  it goes on (`RunsCut`, `BlockAdded`). The third part is about what a repeated packet may
  skip. The cache has one packet of each key, and what it has whole of the name and the rating
  is what was sent last (`Remembers`): a packet of another key is not about the same thing
  (`KeyTells`), one that is longer than the kept front is never whole in the cache (`KeptIs`),
  and one that is a prefix of what is cached *is* what is cached, since the end of a packet
  comes last (`PrefixSame`). So a packet that is not looked at again says what the list says
  (`UnchangedIsSent`). All pairs of a packet are a recursive function (`AddAllKeeps`).

### Reading, scores, window and comparison

* `Recording_proofs`. `ReadingIsSound` (`ReadingSound`). After any step of the loop it is in
  one of three modes (`ReadingInv`). Normally the last frame detection was given is the last
  the decoder gave, and the clock is at the next (`Following`). After a reopening the resume
  point is the frame after the last one, or one later by the late clock, and neither the
  decoder nor, while a seek is wanted, the demuxer is past it (`Resuming`); that is why a
  failed seek, after which the loop reads on from where it is, loses nothing, and why the first
  frame that is due is the one wanted. Or the logo search said to start over, and what
  detection had is forgotten (`StartingOver`). The first frame after a reopening that
  detection gets sets `retries` to 0, which ends the mode. A packet that is skipped because
  it has no time stamp moves the demuxer unseen, so the theorem needs that only the first
  packet lacks one (`ReadingParameters`).
* `ScoresJudged` (`GapsJudged`), for any blocks and sets of rules, with `ScoreInv`. What rule 1
  filled is supported on both sides (`Supported`): it is not the first or the last block, and
  the blocks next to it are filled too or score above 110. So the nearest blocks on either
  side that are not filled are commercials (lemma `BetweenCommercials`). Rule 1 fills a gap
  only if it is short: the length of a run of blocks is a difference of sums, which are a
  recursive function (`FinishIs`), and is at least that of each block of it (`TotalCovers`), so
  no piece of half a show is ever in a gap. Such a piece that was weighed as show (`LongShow`)
  stays below 80 up to the rules that add to a score, and at most 105 after them.
* `KeysMakeGoodLists` (`OnlyTouchingFails`), with `ReviewInv`. The adapters' test compares
  neighbours, and makes the whole list ordered (`FitsIs`, `InOrderAll`). Each key keeps that:
  an edge moves to the cursor, which is beyond no range but the one it belongs to
  (`LastBeforeIs`, `FirstAfterIs`, `EndMoves`, `StartMoves`), a range is taken out
  (`OneRemoved`), a new one ends a frame short of its neighbours (`OneInserted`), and
  `BuildCommercial`'s walk over blocks in order lists runs that end where the last block ended
  (`OneWalked`, `RebuiltFits`). What is left is a list as padding made it, whose ranges are
  not empty and inside the recording, so that only two that touch can be refused (`UnfitTouch`).
* `ComparisonExact` (`DifferencesExact`), for any two lists of ranges that
  are in order, which may touch, and any tolerance. In each list the walk has a place: an index
  and whether it is inside that range, and so a next edge. The four actions have different
  conditions, but each passes the nearest next edge, or both when they are near (lemma
  `WalkTurns`); that nothing else happens is why the walk cannot lose its place. The
  invariant `WalkInv`: all edges before the two places are past and the next are not, but for
  the tolerance (`Placed`); what was reported up to the position is how the lists differ
  there, away from edges (`ReportsDiffer`); the walk ends exactly at the horizon (`InView`);
  and a turn passed an edge (`Counted`), which bounds the turns. A frame away from edges is the
  reason for the tolerance: only between near edges can the position go back. For the rows
  `RowsSoFar` says what they are up to two indexes.

### Assumptions, and what is only model-checked

Assumptions are the named ones of the modules (`QueueAssumption`, `CoderAssumption`,
`ReachAssumption`, `InputsAssumption`, `LiveAssumption`, `StreamAssumption`, `WorkersAssumption`,
`PromotionAssumption`, `LibraryAssumption`, `CommandsAssumption`, `CopiesAssumption`,
`BlocksAssumption`, `CutAssumption`, `AspectAssumption`, `VolumesAssumption`, `CaptionAssumption`,
`BreakListsAssumption`, `ReadingParameters`, `LogoParameters`, `ScoringParameters`,
`WritingParameters`); TLC evaluates each in a run.
`CaptionAssumption` says, beside the types and that the larger text limit leaves room for one
pair in the buffer, that the bytes which start packets of one class and type are the same:
`AddXDS` keys its cache by the raw bytes (`captions.cpp:196`) and reads class and type without
their parity bit, so the parity of what is broadcast must be right.

Induction is by least counterexample (lemmas `LeastNatural` and `LeastOf`, from the well-foundedness of
`<`), since the library's induction theorems take an operator the provers cannot
instantiate; that a recursive function exists is proved the same way (`GrowthExists`,
`EndsExist`, `RoundsExist`, `TurnsExist`, `UpToExists`, `FinishExists`, `WalkExists`, `AddedExists`).

Only model-checked: all liveness (`JobEnds`, `EverythingEnds`, `Ends`, `NewestTaken`,
`IndexReachesMatcher`, `TidySettles`), since the prover has neither fairness nor `ENABLED`;
`MarkingMonotone` of the `marks` run; `SettledStays` of the `signals` run;
`AiringsSound`; and in the `recording` run what the formats say (`FormatsSound`). Section 7
has the order in which they come next.

## 6. Not modelled

Numeric work (edge detection, spectra, bit comparison, audio levels, histograms and the
thresholds chosen from them): data that the models know by its outcome. Text: wording,
formats, parsers of settings and tables. Carriage of captions in the stream
(`media/caption_*`), cut-scene files and the picture comparison with them; the Evidence
document and the live XML; checkpoints of the store. FFmpeg, SQLite and SDL are external and
appear through the answers the code handles. Components that are not modelled at all are in
`PROJECT.json` with the reason.

## 7. Plan

Written so far: the modules of section 2, in the order live job, scans, marks, analysis,
library, logo, blocks, and then candidates and aspect ratio, scores, captions, volumes, live
list, store commands, files and window, comparison. What is left to model:

1. `Validation`: the spacing test of `ValidateBlackFrames` as an operator, which `Blocks`
   takes as any answer.
2. Stretches of audio channels with their own tidying, beside `AspectBlocks`.
3. Composition of `LiveList` with `LogoTracking`, which it has in a short form.
4. The Evidence document, from the breaks and logo stretches it is made of.

Each run keeps within five minutes on two cores; components without common state share one
run through a `part` selector, as above.

Proofs to come, in this order: `Airings` (`AiringsSound`), and the formats one by one
(`FormatsSound`).
