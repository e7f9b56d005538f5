------------------------------ MODULE Captions ------------------------------
(***************************************************************************)
(* The captions of a recording as evidence: ProcessCCData takes the pairs  *)
(* of bytes out of a packet, AddCC follows the control codes and keeps a   *)
(* list of caption runs (cc_block) and of text segments (cc_text), and     *)
(* after the last frame the runs give the recording and each block a style *)
(* and the dictionary's phrases change the scores (detection/captions.cpp, *)
(* PrintCCBlocks of detection/logo.cpp).                                   *)
(*                                                                         *)
(* A pair of the first field is a model value for what it does:            *)
(*   pad  both bytes 0          load/roll/direct  style popon/rollup/...   *)
(*   erase/forget  the screen / the memory   flip  end of caption          *)
(*   line  carriage return      none  a code without effect                *)
(*   odd  a code that is not known      letters  two letters               *)
(*   sign  one character that is no letter                                 *)
(*   other  nothing that is looked at                                      *)
(***************************************************************************)
EXTENDS ProgramData, FiniteSets

CONSTANTS
  CaptionFrames, \* framenum goes from 1 to CaptionFrames
  LongText, MaxText, TextRoom, \* 200, 245 and 255 characters
  Second,   \* the frames of 1 s
  Mixes,    \* bound: the packets that occur together, one set for each kind of recording
  Splits,   \* bound: the last frames of the blocks, as sequences
  Phrases   \* bound: the segments with a phrase of the programme and of commercials

VARIABLES
  captionPhase, framenum, mix,
  style,    \* current_cc_type
  latest,   \* last_cc_type
  screen, memory, \* cc_on_screen, cc_in_memory
  runs,     \* cc_block[0 .. cc_block_count]
  texts,    \* cc_text[0 .. cc_text_count]
  lastcc, \* the pair before
  prevccData, \* pairs that wait for the next packet
  xds,      \* see ProgramData
  dominantStyle, \* most_cc_type
  styles,   \* cblock[i].cc_type
  effects      \* the dictionary's effect on each block's score, as an exponent
captionVars ==
  <<captionPhase, framenum, mix, style, latest, screen, memory, runs, texts, lastcc, prevccData, xds,
    dominantStyle, styles, effects>>

Commands == {"load", "roll", "direct", "erase", "flip", "forget", "line", "odd", "none"}
PairKinds == Commands \cup {"pad", "bad", "letters", "sign", "other"}

\* A pair is of the first field, of the second, or of neither.
Pair == [field : {1, 3}, pair : PairKinds] \cup [field : {2}, xds : CodePair]
CodesIn(pairs) == {pairs[i].xds : i \in {n \in DOMAIN pairs : pairs[n].field = 2}}
Codes == UNION {CodesIn(p.pairs) : p \in UNION {Mixes[m] : m \in DOMAIN Mixes}}

\* The first limit is below the second, which leaves room for one more pair.  Programme data have
\* a class where a packet starts or goes on only, and the bytes that start packets of one class and
\* type are the same (their parity is right).
ASSUME CaptionAssumption ==
  /\ {CaptionFrames, LongText, MaxText, TextRoom, MaxPairs, Prefix, MaxCache} \subseteq Nat
  /\ LongText < MaxText /\ MaxText + 2 <= TextRoom /\ Prefix > 0 /\ MaxCache > 0
  /\ \A m \in DOMAIN Mixes : \A p \in Mixes[m] :
       p.form \in {"CC", "GA", "two", "four", "five"} /\ p.pairs \in Seq(Pair)
  /\ \A a \in Codes : IsControl(a) \/ a.of = 0
  /\ \A a, b \in Codes : (a.code = "start" /\ b.code = "start" /\ a.of = b.of /\ a.type = b.type) => a.data = b.data

Styles == {"none", "rollup", "painton", "popon"}
Run(start, end, type) == [start |-> start, end |-> end, type |-> type]
Text(start, end, len, letter) == [start |-> start, end |-> end, len |-> len, letter |-> letter]

CaptionInit ==
  /\ captionPhase = "read" /\ framenum = 1 /\ mix \in DOMAIN Mixes
  /\ style = "none" /\ latest = "none" /\ screen = FALSE /\ memory = FALSE
  /\ runs = <<Run(0, -1, "none")>> /\ texts = <<Text(1, -1, 0, FALSE)>>
  /\ lastcc = "pad" /\ prevccData = <<>> /\ xds = XDS0
  /\ dominantStyle = "none" /\ styles = <<>> /\ effects = <<>>

-----------------------------------------------------------------------------
(* AddNewCCBlock and AddCC, on a record of the caption state. *)

WithEnd(list, end) == [list EXCEPT ![Len(list)].end = end]

\* A run is closed; when it was a flicker between two runs of one style, that style's first
\* run goes on.
Reopened(list, start, type) ==
  LET closed == Append(WithEnd(list, start - 1), Run(start, -1, type))
      n == Len(closed)
  IN IF /\ n > 2 /\ closed[n - 1].end - closed[n - 1].start < Second
        /\ closed[n].type = closed[n - 2].type /\ type # "none"
     THEN WithEnd(SubSeq(closed, 1, n - 2), -1) ELSE closed

\* A command of the run's own style sets its end, which then no longer moves.
AddNewCCBlock(list, at, type) ==
  IF Last(list).type = type THEN WithEnd(list, at)
  ELSE IF Last(list).end = -1 THEN Reopened(list, at, type)
  ELSE Append(list, Run(at, -1, type))

NewText(list, at) == Append(WithEnd(list, at - 1), Text(at, 0, 0, FALSE))
Typed(list, chars, letter) ==
  LET last == Last(list)
  IN [list EXCEPT ![Len(list)] = Text(last.start, last.end, last.len + chars, letter)]

\* Mutant: a segment ends at a character that is no letter only.
FullAtSign(t) == t.len > LongText /\ ~t.letter
IsFull(t) == (t.len > LongText /\ ~t.letter) \/ t.len > MaxText

StyleOf(pair) ==
  CASE pair = "load" -> "popon" [] pair = "roll" -> "rollup" [] pair = "direct" -> "painton" [] OTHER -> "none"

\* Text goes on the screen or into memory; of two characters the style set last decides.
WithText(c, pair) ==
  LET chars == IF pair = "letters" THEN 2 ELSE 1
      by == IF pair = "letters" THEN {c.style, c.latest} ELSE {c.style}
      typed == Typed(c.texts, chars, pair = "letters")
  IN [c EXCEPT !.screen = @ \/ by \cap {"rollup", "painton"} # {},
               !.memory = @ \/ "popon" \in by,
               !.texts = typed]

\* The swap of screen and memory: what was loaded is shown in the style set last.
Flipped(c, at) ==
  LET s == IF ~c.memory THEN "none"
           ELSE IF Len(c.runs) > 1 /\ Last(c.runs).type = "none" THEN c.latest ELSE c.style
  IN [c EXCEPT !.screen = c.memory, !.memory = c.screen, !.style = s,
               !.runs = AddNewCCBlock(@, at, s), !.texts = NewText(@, at)]

\* A carriage return and a code that is not known are a space.
Spaced(c, at) ==
  [c EXCEPT !.texts = Typed(IF Last(@).len > LongText THEN NewText(@, at) ELSE @, 1, FALSE)]

Commanded(c, pair, at) ==
  CASE pair \in {"load", "roll", "direct"} ->
         [c EXCEPT !.style = StyleOf(pair), !.latest = StyleOf(pair),
                   !.runs = AddNewCCBlock(@, at, StyleOf(pair)), !.texts = NewText(@, at)]
    [] pair = "erase" ->
         [c EXCEPT !.screen = FALSE, !.style = "none",
                   !.runs = AddNewCCBlock(@, at, "none"), !.texts = NewText(@, at)]
    [] pair = "flip" -> Flipped(c, at)
    [] pair = "forget" -> [c EXCEPT !.memory = FALSE]
    [] pair \in {"line", "odd"} -> Spaced(c, at)
    [] OTHER -> c

\* AddCC: a command that repeats the pair before it is ignored.
AddCC(c, pair, now) ==
  LET at == now + 1
      typed == IF pair \in {"letters", "sign"} THEN WithText(c, pair) ELSE c
      split == IF IsFull(Last(typed.texts)) THEN [typed EXCEPT !.texts = NewText(@, at)] ELSE typed
  IN IF pair = "pad" THEN c
     ELSE IF pair \in Commands /\ pair = c.lastcc THEN split
     ELSE [Commanded(split, pair, at) EXCEPT !.lastcc = pair]

-----------------------------------------------------------------------------
(* ProcessCCData.  A packet is [form, whole, pairs]: form "GA" or "CC" (the rows of       *)
(* A/53 and of a caption track), or "two", "four", "five" (of a DVD).  Pairs are of a     *)
(* field, and data of the second one go to AddXDS; a pair of "CC" whose bytes fail their  *)
(* parity is ("bad") read as 0.                                                           *)

AddPair(c, q, now) ==
  CASE q.field = 1 -> AddCC(c, IF q.pair = "bad" THEN "pad" ELSE q.pair, now)
    [] q.field = 2 -> [c EXCEPT !.xds = AddXDS(@, q.xds, now)]
    [] OTHER -> c
AddAll(c, pairs, now) ==
  LET after[n \in 0..Len(pairs)] == IF n = 0 THEN c ELSE AddPair(after[n - 1], pairs[n], now)
  IN after[Len(pairs)]

\* The second pair of some rows counts only if it is a command.
Looked(pairs) == IF Len(pairs) = 2 /\ pairs[2].pair \notin Commands \cup {"other"} THEN <<pairs[1]>> ELSE pairs
Now == [style |-> style, latest |-> latest, screen |-> screen, memory |-> memory, runs |-> runs,
        texts |-> texts, lastcc |-> lastcc, prevccData |-> prevccData, xds |-> xds]

Received(p, now) ==
  CASE p.form \in {"CC", "GA", "four"} -> AddAll(Now, p.pairs, now)
    [] p.form = "two" -> AddAll(Now, Looked(p.pairs), now)
    [] p.form = "five" -> [AddAll(Now, prevccData, now) EXCEPT !.prevccData = IF p.type = 2 THEN Looked(p.pairs) ELSE p.pairs]

\* A packet that is not complete changes nothing.
ProcessCCData ==
  /\ captionPhase = "read" /\ framenum <= CaptionFrames /\ framenum' = framenum + 1
  /\ \E p \in Mixes[mix] :
       LET c == IF p.whole THEN Received(p, framenum) ELSE Now
       IN /\ style' = c.style /\ latest' = c.latest /\ screen' = c.screen /\ memory' = c.memory
          /\ runs' = c.runs /\ texts' = c.texts /\ lastcc' = c.lastcc /\ prevccData' = c.prevccData /\ xds' = c.xds
  /\ UNCHANGED <<captionPhase, mix, dominantStyle, styles, effects>>

-----------------------------------------------------------------------------
(* After the last frame. *)

\* BuildMasterCommList: the last run and the last segment end at the last frame.
CloseCaptions ==
  /\ captionPhase = "read" /\ framenum > CaptionFrames /\ captionPhase' = "closed"
  /\ runs' = WithEnd(runs, CaptionFrames) /\ texts' = WithEnd(texts, CaptionFrames)
  /\ UNCHANGED <<framenum, mix, style, latest, screen, memory, lastcc, prevccData, xds, dominantStyle, styles, effects>>

\* PrintCCBlocks drops the flickers but the first run, and counts the frames of the styles; what
\* goes through the dictionary are the segments with text, and the first.
SteadyRuns == <<Head(runs)>> \o SelectSeq(Tail(runs), LAMBDA r : r.end - r.start >= Second)
Segments == <<Head(texts)>> \o SelectSeq(Tail(texts), LAMBDA t : t.len # 0)
FramesIn(s) == FoldLeft(LAMBDA sum, r : IF r.type = s THEN sum + (r.end - r.start) + 1 ELSE sum, 0, SteadyRuns)

\* The first of the styles, in the order of their numbers, that is not exceeded.
InOrder == <<"none", "rollup", "popon", "painton">>
MostUsed(count) ==
  FoldLeft(LAMBDA best, s : IF count[s] > count[best] THEN s ELSE best, "none", InOrder)

\* DetermineCCTypeForBlock counts the frames strictly inside a run, each for the first one.
StyleOfBlock(first, to) ==
  LET inside(f) == {i \in DOMAIN SteadyRuns : SteadyRuns[i].start < f /\ f < SteadyRuns[i].end}
      of(f) == SteadyRuns[CHOOSE i \in inside(f) : \A j \in inside(f) : i <= j].type
  IN MostUsed([s \in Styles |-> Cardinality({f \in first..to : inside(f) # {} /\ of(f) = s})])

Classify ==
  /\ captionPhase = "closed" /\ captionPhase' = "classified"
  /\ \E split \in Splits :
       styles' = [i \in DOMAIN split |-> [first |-> IF i = 1 THEN 1 ELSE split[i - 1] + 1, last |-> split[i],
                                          type |-> StyleOfBlock(IF i = 1 THEN 1 ELSE split[i - 1] + 1, split[i])]]
  /\ dominantStyle' = MostUsed([s \in Styles |-> FramesIn(s)])
  /\ effects' = [i \in DOMAIN styles' |-> 0]
  /\ UNCHANGED <<framenum, mix, style, latest, screen, memory, runs, texts, lastcc, prevccData, xds>>

\* ProcessCCDict: FindBlock gives the block that holds the middle of a segment with a phrase, but
\* for a middle at its very end.
Middle(t) == (t.start + t.end) \div 2
HitsIn(b, found) ==
  Cardinality({i \in found \cap DOMAIN Segments :
                 styles[b].first <= Middle(Segments[i]) /\ Middle(Segments[i]) < styles[b].last})
ProcessCCDict ==
  /\ captionPhase = "classified" /\ captionPhase' = "over"
  /\ \E p \in Phrases : effects' = [b \in DOMAIN styles |-> HitsIn(b, p.commercial) - HitsIn(b, p.programme)]
  /\ UNCHANGED <<framenum, mix, style, latest, screen, memory, runs, texts, lastcc, prevccData, xds, dominantStyle, styles>>

CaptionsOver == captionPhase = "over" /\ UNCHANGED captionVars

CaptionNext == ProcessCCData \/ CloseCaptions \/ Classify \/ ProcessCCDict \/ CaptionsOver
CaptionSpec == CaptionInit /\ [][CaptionNext]_captionVars

-----------------------------------------------------------------------------
(* What must hold. *)

\* cc_text_info::text has room for 256 characters and nothing checks it: the two limits
\* and the two characters of a pair must keep a segment below that.
TextFits == \A i \in DOMAIN texts : texts[i].len <= TextRoom

\* The last run is of the style the commands have led to, whichever runs were reopened or
\* extended on the way, and no frame is inside two runs, also when the last one is closed.
RunsFollowStyle ==
  /\ Last(runs).type = style
  /\ \A i \in 1..(Len(runs) - 1) : runs[i].end <= runs[i + 1].start /\ runs[i].start <= runs[i + 1].start

\* The programme list ends with the name and the rating of the packet that came last.
DescriptionCurrent ==
  Last(xds.list).name = xds.sent.name /\ Last(xds.list).chip = xds.sent.chip

CaptionsSound == TextFits /\ RunsFollowStyle /\ DescriptionCurrent
=============================================================================
