------------------------------- MODULE Review -------------------------------
(***************************************************************************)
(* The files comskip writes for a list of breaks, and the review window in *)
(* which a user changes the list and writes them again: the end of         *)
(* OutputBlocks (output/cutlists.cpp), the adapters it calls (module       *)
(* Outputs says what they write) and the keys of ReviewResult              *)
(* (ui/review.cpp).                                                        *)
(*                                                                         *)
(* The window works on the blocks of an analysis (`table`), or on a list   *)
(* that InputReffer read from a .txt file.  Any write may fail; what fails *)
(* ends the program and leaves the files written so far.  The cursor of    *)
(* the window can be on any frame, and is a parameter of the keys.         *)
(***************************************************************************)
EXTENDS Outputs

CONSTANTS
  Analysed,   \* bound: blocks and the padded breaks made of them
  Loaded,     \* bound: the lists a .txt file may hold
  Wanted,     \* bound: the sets of adapters that are switched on
  Reach,      \* the frames insert_reference takes on each side, 1000
  MaxKeys     \* bound: keys that change something

\* Blocks follow each other; padding leaves breaks that are not empty (PadCommercialInterval), and
\* a file holds a list that could be written.
ParametersOK ==
  /\ {FrameCount, Reach} \subseteq Nat
  /\ \A given \in Analysed :
       /\ given.blocks \in Seq([from : Nat, to : Nat, cut : BOOLEAN])
       /\ \A i \in DOMAIN given.blocks :
            /\ given.blocks[i].from <= given.blocks[i].to
            /\ given.blocks[i].from < FrameCount /\ given.blocks[i].to <= FrameCount
            /\ i > 1 => given.blocks[i - 1].to < given.blocks[i].from
       /\ given.breaks \in Seq([from : Nat, to : Nat])
       /\ \A i \in DOMAIN given.breaks :
            given.breaks[i].from < given.breaks[i].to /\ given.breaks[i].to <= FrameCount
  /\ \A list \in Loaded : list \in Seq([from : Nat, to : Nat]) /\ Accepted(list)

VARIABLES
  table,    \* framearray: the frames are known
  blocks,   \* cblock[], with the verdict on each
  breaks,   \* commercial[], or reffer[] without a table
  wanted,
  text,     \* output_default, whether the .txt file is written: "on", "off", or "once" by the write key
  pc,       \* the writer that runs, or "review"
  at,       \* the break OutputCommercialBlock is called for
  edl,      \* edl_file is open
  files,    \* what this round wrote, by file
  why,      \* of a failure
  keys      \* used so far

vars == <<table, blocks, breaks, wanted, text, pc, at, edl, files, why, keys>>
shown == <<table, blocks, breaks, wanted, keys>>

NoFiles == [name \in {} |-> {}]
With(name, content) == [n \in DOMAIN files \cup {name} |-> IF n = name THEN content ELSE files[n]]

ReviewInit ==
  /\ table \in BOOLEAN /\ wanted \in Wanted
  /\ IF table THEN \E given \in Analysed : blocks = given.blocks /\ breaks = given.breaks
     ELSE blocks = <<>> /\ breaks \in Loaded
  /\ text = "on" /\ at = 1 /\ edl = FALSE /\ files = NoFiles /\ why = "none" /\ keys = 0
  \* A list that was read is shown first.
  /\ pc = IF table THEN "open" ELSE "review"

Failed(reason) == pc' = "failed" /\ why' = reason

-----------------------------------------------------------------------------
(* A round of writing. *)

OpenFiles ==
  /\ pc = "open" /\ at' = 1
  /\ \/ /\ pc' = "records" /\ why' = why /\ edl' = TRUE
        /\ files' = IF text # "off" THEN [name \in {"txt", "edl"} |-> {}] ELSE [name \in {"edl"} |-> {}]
     \/ Failed("io") /\ files' = NoFiles /\ edl' = FALSE
  /\ UNCHANGED <<shown, text>>

\* OutputCommercialBlock.  A break that does not start after the end of the one before is
\* in neither list; a break of two frames or less is in the .txt file only.
Records == WithTail(breaks)
Record ==
  /\ pc = "records" /\ at <= Len(Records)
  /\ LET r == Records[at]
         listed == Previous(Records, at) < r.from
         inText == text # "off" /\ listed
         inEdl == edl /\ listed /\ r.to - r.from > 2
         withText == IF inText THEN With("txt", files["txt"] \cup {TextRange(table, r.from, r.to)}) ELSE files
     IN \/ /\ files' = [n \in DOMAIN files |->
                          IF n = "edl" /\ inEdl THEN files[n] \cup {EdlRange(table, r.from, r.to)} ELSE withText[n]]
           /\ edl' = (edl /\ ~Closes(r))
           /\ pc' = pc /\ why' = why
        \* The .txt file cannot be opened again, or the other not be written or closed.
        \/ /\ inText /\ Failed("io") /\ UNCHANGED <<files, edl>>
        \/ /\ inEdl \/ (edl /\ Closes(r))
           /\ Failed("io") /\ files' = withText /\ UNCHANGED edl
  /\ at' = at + 1
  /\ UNCHANGED <<shown, text>>

RecordsDone ==
  /\ pc = "records" /\ at > Len(Records)
  /\ pc' = Groups[1]
  /\ UNCHANGED <<shown, text, at, edl, files, why>>

Place(group) == CHOOSE i \in DOMAIN Groups : Groups[i] = group
After(group) == IF Place(group) < Len(Groups) THEN Groups[Place(group) + 1] ELSE "written"

\* An adapter writes all its files or, when one cannot be written, those before it.
Write(group) ==
  LET names == Files(group)
      written(n) ==
        [name \in DOMAIN files \cup {names[i] : i \in 1..n} |->
           IF name \in DOMAIN files THEN files[name] ELSE Content(name, table, breaks, blocks)]
  IN /\ pc = group
     /\ \/ group \notin wanted /\ pc' = After(group) /\ UNCHANGED <<files, why>>
        \/ group \in wanted /\ ~Accepted(breaks) /\ Failed("list") /\ UNCHANGED files
        \/ group \in wanted /\ Accepted(breaks) /\ pc' = After(group) /\ files' = written(Len(names)) /\ UNCHANGED why
        \/ group \in wanted /\ Accepted(breaks) /\ \E n \in 0..Len(names) - 1 : files' = written(n) /\ Failed("io")
     /\ UNCHANGED <<shown, text, at, edl>>

Written ==
  /\ pc = "written" /\ pc' = "review"
  \* The write key switches the .txt file on for its round, and off for all later ones.
  /\ text' = IF text = "once" THEN "off" ELSE text
  /\ UNCHANGED <<shown, at, edl, files, why>>

-----------------------------------------------------------------------------
(* The keys of the window. *)

Key == pc = "review" /\ keys < MaxKeys /\ keys' = keys + 1

\* BuildCommercial: a run of commercial blocks is a break.
Rebuilt(list) ==
  LET runs[n \in 0..Len(list)] ==
        IF n = 0 THEN <<>>
        ELSE IF ~list[n].cut THEN runs[n - 1]
        ELSE IF n = 1 \/ ~list[n - 1].cut THEN Append(runs[n - 1], Range(list[n].from, list[n].to))
        ELSE [runs[n - 1] EXCEPT ![Len(runs[n - 1])].to = list[n].to]
  IN runs[Len(list)]

\* The block the cursor is in: keys D, I and T.
BlockAt(frame) == CHOOSE i \in DOMAIN blocks : frame <= blocks[i].to /\ \A k \in 1..i - 1 : blocks[k].to < frame
Judge(frame, verdicts) ==
  /\ Key /\ table /\ \E i \in DOMAIN blocks : frame <= blocks[i].to
  /\ \E cut \in verdicts : blocks' = [blocks EXCEPT ![BlockAt(frame)].cut = cut]
  /\ breaks' = Rebuilt(blocks')

JudgeBlock(frame) ==
  /\ Judge(frame, BOOLEAN)
  /\ UNCHANGED <<table, wanted, text, pc, at, edl, files, why>>

\* T puts a block below the threshold above it and any other below, and writes the new list at
\* once: a block whose score equals the threshold was no commercial and is none.
Toggled(block) == IF block.cut THEN {FALSE} ELSE BOOLEAN
ToggleBlock(frame) ==
  /\ Judge(frame, Toggled(blocks[BlockAt(frame)]))
  /\ pc' = "open" /\ text' = "once"
  /\ UNCHANGED <<table, wanted, at, edl, files, why>>

Edited(list) ==
  /\ Key /\ ~table /\ breaks' = list
  /\ UNCHANGED <<table, blocks, wanted, text, pc, at, edl, files, why>>

\* The last range that starts at the frame or before it.
LastBefore(list, frame) ==
  CHOOSE n \in 0..Len(list) :
    (n > 0 => list[n].from <= frame) /\ \A k \in n + 1..Len(list) : frame < list[k].from
SetEnd(frame) ==
  /\ LastBefore(breaks, frame) > 0
  /\ Edited([breaks EXCEPT ![LastBefore(breaks, frame)].to = frame])

\* The first range that ends at the frame or after it.
FirstAfter(list, frame) ==
  CHOOSE n \in 1..Len(list) + 1 :
    (n <= Len(list) => frame <= list[n].to) /\ \A k \in 1..n - 1 : list[k].to < frame
SetStart(frame) ==
  /\ FirstAfter(breaks, frame) <= Len(breaks)
  /\ Edited([breaks EXCEPT ![FirstAfter(breaks, frame)].from = frame])

Delete(frame) ==
  LET i == LastBefore(breaks, frame)
  IN /\ i > 0 /\ frame <= breaks[i].to
     /\ Edited(SubSeq(breaks, 1, i - 1) \o SubSeq(breaks, i + 1, Len(breaks)))

\* Mutant: the new range may touch those around it.
InsertedTouching(list, frame) ==
  LET before == LastBefore(list, frame)
      lower == IF before = 0 THEN 1 ELSE list[before].to
      upper == IF before = Len(list) THEN FrameCount ELSE list[before + 1].from
      range == Range(AtLeast(lower, frame - Reach), AtMost(upper, frame + Reach))
  IN IF before > 0 /\ list[before].to >= frame THEN list
     ELSE SubSeq(list, 1, before) \o <<range>> \o SubSeq(list, before + 1, Len(list))
\* insert_reference: as far as the ranges around it and the recording allow.
Inserted(list, frame) ==
  LET before == LastBefore(list, frame)
      lower == IF before = 0 THEN 1 ELSE list[before].to + 1
      upper == IF before = Len(list) THEN FrameCount ELSE list[before + 1].from - 1
      range == Range(AtLeast(lower, frame - Reach), AtMost(upper, frame + Reach))
  IN IF before > 0 /\ list[before].to >= frame THEN list
     ELSE SubSeq(list, 1, before) \o <<range>> \o SubSeq(list, before + 1, Len(list))
Insert(frame) == Inserted(breaks, frame) # breaks /\ Edited(Inserted(breaks, frame))

WriteAgain ==
  /\ Key /\ pc' = "open" /\ text' = "once"
  /\ UNCHANGED <<table, blocks, breaks, wanted, at, edl, files, why>>

\* Recalc: a lower threshold, other blocks, and OutputBlocks.
Recalculate ==
  /\ Key /\ table /\ pc' = "open"
  /\ \E given \in Analysed : blocks' = given.blocks /\ breaks' = given.breaks
  /\ UNCHANGED <<table, wanted, text, at, edl, files, why>>

Leave == pc = "review" /\ pc' = "over" /\ UNCHANGED <<shown, text, at, edl, files, why>>
Over == pc \in {"over", "failed"} /\ UNCHANGED vars

ReviewNext ==
  \/ OpenFiles \/ Record \/ RecordsDone \/ Written \/ WriteAgain \/ Recalculate \/ Leave \/ Over
  \/ \E i \in DOMAIN Groups : Write(Groups[i])
  \/ \E frame \in 1..FrameCount - 1 :
       JudgeBlock(frame) \/ ToggleBlock(frame) \/ SetEnd(frame) \/ SetStart(frame) \/ Delete(frame) \/ Insert(frame)

ReviewSpec == ReviewInit /\ [][ReviewNext]_vars

-----------------------------------------------------------------------------
(* Properties. *)

FrameNumbers == 1..FrameCount - 1
In(ranges) == {x \in FrameNumbers : \E r \in ranges : r.from <= x /\ x <= r.to}
\* What every format has to agree on: ranges of some length, without their edges.
Margin == 6
Slack == 2
Inside(ranges) ==
  {x \in FrameNumbers : \E r \in ranges : r.to - r.from > Margin /\ r.from + Slack < x /\ x < r.to - Slack}
Programme(list) ==
  LET all == WithTail(list)
  IN {Range(Previous(all, i), all[i].from) : i \in DOMAIN all}
     \cup {Range(all[Len(all)].to, FrameCount) : i \in {k \in {1} : ~Closes(all[Len(all)])}}

\* The list a file is about: Matroska chapters follow the verdicts, not the padded breaks.
Told(name) == IF name = "mkv" /\ table /\ blocks # <<>> THEN Rebuilt(blocks) ELSE breaks
\* Two formats say something else: VirtualDub is not told of the programme before the first
\* break, and the last range of mpgtx is open, also when a break closes the recording.
Unsaid(name) == IF name = "vcf" THEN 1..WithTail(breaks)[1].from ELSE {}
Opened(name) == IF name = "mpgtx" THEN {x \in FrameNumbers : \E i \in DOMAIN breaks : Closes(breaks[i]) /\ x >= breaks[i].from} ELSE {}
Listing == {"txt", "edl", "ffmeta", "mkv", "wme", "VPrj3", "edlx", "btv", "dvr", "plist", "chp", "cut", "scf", "bcf", "vdr", "VPrj", "schnitt"}
Keeping == {"cpf", "ffmeta", "ffsplit", "vcf", "Xcl", "avs", "wme", "mpgtx", "dvrcut", "mkv"}

\* The output formats are nineteen ways to say the same: a frame well inside a break is cut by each
\* that lists breaks and kept by none, and one well inside the programme the other way round,
\* also when the list was edited and written again, has no break, or reaches the end.
\* (Where padding made two breaks touch, the .txt and .edl files lose the second.)
FormatsAgree ==
  (pc = "written" /\ Accepted(breaks)) =>
    \A name \in DOMAIN files :
      LET list == Told(name)
          breaksOf == Inside({list[i] : i \in DOMAIN list})
          showsOf == Inside(Programme(list)) \ Unsaid(name)
          content == IF name \in {"txt", "edl"} THEN Cuts(files[name]) ELSE files[name]
      IN /\ breaksOf \cap In(content.kept) \subseteq Opened(name) /\ showsOf \cap In(content.cut) = {}
         /\ (name \in Listing /\ (name # "edlx" \/ table)) => breaksOf \subseteq In(content.cut)
         /\ name \in Keeping => showsOf \subseteq In(content.kept)
         \* A list of bookmarks declares how many it has.
         /\ (name = "wme" /\ ~ShortClose(breaks)) => MlsMarks(breaks) = MlsDeclared(breaks)

\* The adapters refuse a list (after the .txt and .edl files were written) only where padding made
\* two breaks touch: a list the keys of the window made, of blocks or of ranges, is always one they
\* accept.
OnlyTouchingFails ==
  why = "list" =>
    /\ table /\ \E given \in Analysed : breaks = given.breaks
    /\ \E i \in 2..Len(breaks) : breaks[i].from <= breaks[i - 1].to

\* The .txt file, read back as InputReffer does, is the list that was written: the pair of frames
\* that stands for the programme at the end is no break.
ReadsBack ==
  (pc = "written" /\ "txt" \in DOMAIN files /\ Accepted(breaks)) =>
    LET last == Time(table, FrameCount - 1)
    IN files["txt"] \ {Range(last - 1, last)} = {TextRange(table, breaks[i].from, breaks[i].to) : i \in DOMAIN breaks}
=============================================================================
