------------------------------ MODULE Scoring ------------------------------
(***************************************************************************)
(* The scores of the blocks: WeighBlocks of detection/scoring.cpp after    *)
(* its clean-ups (module Blocks), which may do with any verdict; this is   *)
(* how one comes about.                                                    *)
(*                                                                         *)
(* A loop over the blocks multiplies their scores: by the length of each   *)
(* block, by the lengths of runs of blocks that begin or end with it, by   *)
(* what is seen and heard in it.  Then rules for patterns of neighbouring  *)
(* blocks overrule the scores, each reading what the ones before left.     *)
(*                                                                         *)
(* Scores are in hundredths, at least one.  What is seen and heard of a    *)
(* block is data; lengths are without the black at their edges.            *)
(***************************************************************************)
EXTENDS Integers, Sequences

CONSTANTS
  MinShow,       \* min_show_segment_length
  MinBreak,      \* min_commercialbreak
  MaxAd,         \* max_commercial_size
  Bumper, PadLength, \* the lengths of 4.8 s and 7 s that rules 2 and 4 compare with
  Strict, Loose, \* the standard lengths (below MinShow), and the optional ones
  MaxCombined,   \* max_combined_count, 25
  Blocks0,       \* bound: the lists of blocks, see BlockType
  Rules          \* bound: the settings, see RulesType

Hard == {"black", "flat", "size"}

BlockType ==
  [len : Nat \ {0},
   cause : SUBSET (Hard \cup {"silence", "ratio"}),  \* of the cut that ends it
   head : BOOLEAN, tail : BOOLEAN,                   \* more than 7 black frames there
   logo : {"much", "some", "none"},                  \* above logo_percentage_threshold, below it, below 0.1
   above : 0..5,                                     \* the punished averages it is above
   captions : {75, 100, 200, 400},                   \* hundredths: what its caption type makes of a score
   odd : BOOLEAN,                                    \* its aspect ratio is not the dominant one
   dark : BOOLEAN, quiet : BOOLEAN]                  \* 5 s of dark frames at its end; a volume below 20

RulesType ==
  [edge : Nat,          \* delete_show_before_or_after_current
   added : Nat,         \* added_recording: the zones at both ends
   logo : {"off", "fair", "good"},  \* off: no method; good: the share is above logo_fraction
   punishNoLogo : BOOLEAN,
   silent : Nat,        \* remove_silent_segments
   off : SUBSET (1..9)]   \* disable_heuristics

ParametersOK ==
  /\ {MinShow, MinBreak, MaxAd, Bumper, PadLength, MaxCombined} \subseteq Nat \ {0}
  /\ \A n \in Strict \cup Loose : n \in Nat /\ n < MinShow
  /\ \A list \in Blocks0 : list # <<>> /\ list \in Seq(BlockType)
  /\ Rules \subseteq RulesType

VARIABLES
  pc,        \* the pass that runs
  given,     \* cblock[0 .. block_count - 1]: what no pass changes
  rules,
  at,        \* the block of the weighing loop
  reach,     \* the blocks beyond it that its run has
  score,     \* of each block
  strict,    \* the blocks of a strict length
  combined,  \* combined_count of each block
  cause,     \* of each block; the rules add to it
  marks,     \* the rules that raised or lowered each block
    \* what follows only observes
  weighed    \* the scores as the weighing loop left them

vars == <<pc, given, rules, at, reach, score, strict, combined, cause, marks, weighed>>
data == <<given, rules>>
Indices == DOMAIN given
Count == Len(given)

Init ==
  /\ given \in Blocks0 /\ rules \in Rules
  /\ pc = "length" /\ at = 1 /\ reach = 0
  /\ score = [i \in Indices |-> 100] /\ strict = {} /\ combined = [i \in Indices |-> 0]
  /\ cause = [i \in Indices |-> given[i].cause] /\ marks = [i \in Indices |-> {}] /\ weighed = <<>>

Cap == IF rules.logo # "off" THEN 9999 ELSE 1000000
Times(s, n, d) == IF (s * n) \div d < 1 THEN 1 ELSE (s * n) \div d
Capped(s) == IF s > Cap THEN Cap ELSE s

-----------------------------------------------------------------------------
(* The weighing loop. *)

Length ==
  /\ pc = "length" /\ pc' = "forward" /\ reach' = 1
  /\ LET n == given[at].len
     IN /\ score' = [score EXCEPT ![at] = IF n \in Strict THEN Times(@, 3, 1)
                                          ELSE IF n \in Loose THEN Capped(Times(@, 3, 2)) ELSE @]
        /\ strict' = IF n \in Strict THEN strict \cup {at} ELSE strict
  /\ UNCHANGED <<data, at, combined, cause, marks, weighed>>

\* Where the blocks end.
Finish[i \in 0..Count] == IF i = 0 THEN 0 ELSE Finish[i - 1] + given[i].len
Total(from, to) == Finish[to] - Finish[from - 1]

\* Every block of a run that adds up to a standard length.
Boosted(from, to) ==
  LET n == to - from + 1
      total == Total(from, to)
      match(i) == total \in Strict \cup Loose /\ i \in from..to
      by(s) == IF total \in Strict THEN Times(s, n + 1, n) ELSE Times(s, 8 * n + 5, 8 * n)
  IN /\ score' = [i \in Indices |-> IF match(i) THEN Capped(by(score[i])) ELSE score[i]]
     /\ combined' = [i \in Indices |-> IF match(i) THEN combined[i] + 1 ELSE combined[i]]

Limited(i) == combined[i] > MaxCombined \/ combined[at] > MaxCombined

\* The run that begins with the block.
ForwardGoes ==
  /\ at + reach <= Count /\ (reach = 1 => combined[at] < MaxCombined)
  /\ ~Limited(at + reach) /\ Total(at, at + reach) <= MaxAd

Forward ==
  /\ pc = "forward" /\ ForwardGoes
  /\ Boosted(at, at + reach) /\ reach' = reach + 1
  /\ UNCHANGED <<pc, data, at, strict, cause, marks, weighed>>

ForwardDone ==
  /\ pc = "forward" /\ ~ForwardGoes /\ reach' = 1
  \* A block that was combined often enough is not combined backwards either.
  /\ pc' = IF reach = 1 /\ combined[at] >= MaxCombined THEN "evidence" ELSE "backward"
  /\ UNCHANGED <<data, at, score, strict, combined, cause, marks, weighed>>

\* The run that ends with it.  It never takes in the first block, and stops at a block
\* that is a spot of its own.
BackwardGoes ==
  /\ at - reach >= 2 /\ given[at - reach].len \notin Strict
  /\ ~Limited(at - reach) /\ Total(at - reach, at) < MaxAd

Backward ==
  /\ pc = "backward" /\ BackwardGoes
  /\ Boosted(at - reach, at) /\ reach' = reach + 1
  /\ UNCHANGED <<pc, data, at, strict, cause, marks, weighed>>

BackwardDone ==
  /\ pc = "backward" /\ ~BackwardGoes /\ pc' = "evidence"
  /\ UNCHANGED <<data, at, reach, score, strict, combined, cause, marks, weighed>>

ByLogo(b, s) ==
  IF rules.logo = "off" THEN s
  ELSE IF b.logo = "much" THEN Capped(Times(s, 1, 100))
  ELSE IF rules.punishNoLogo /\ rules.logo = "good" THEN Capped(Times(s, 2, 1)) ELSE s
\* punish_modifier, twice for each average.
ByAverages(b, s) == IF b.above = 0 THEN s ELSE Capped(Times(s, <<2, 4, 8, 16, 32>>[b.above], 1))
ByExcess(b, s) ==
  IF b.len > 2 * MinShow THEN Times(Times(s, 1, 100), 1, 100)
  ELSE IF b.len > MinShow THEN Times(s, 1, 100) ELSE s
ByCaptions(b, s) == Capped(Times(s, b.captions, 100))
ByShape(b, s) == IF b.odd THEN Times(s, 2, 1) ELSE s

Evidence ==
  /\ pc = "evidence"
  /\ LET b == given[at]
     IN score' = [score EXCEPT ![at] = ByShape(b, ByCaptions(b, ByExcess(b, ByAverages(b, ByLogo(b, @)))))]
  /\ IF at < Count THEN at' = at + 1 /\ pc' = "length" /\ UNCHANGED weighed
                   ELSE pc' = "bumpers" /\ weighed' = score' /\ UNCHANGED at
  /\ UNCHANGED <<data, reach, strict, combined, cause, marks>>

-----------------------------------------------------------------------------
(* The rules. *)

On(rule) == rule \notin rules.off

Marked(set, rule) == marks' = [i \in Indices |-> IF i \in set THEN marks[i] \cup {rule} ELSE marks[i]]
Put(set, rule, s) == score' = [i \in Indices |-> IF i \in set THEN s ELSE score[i]] /\ Marked(set, rule)

LongShow(i) == score[i] < 100 /\ given[i].len > MinShow

\* Rule 2: a bumper between a spot or a change of shape on one side and a long piece of
\* the show on the other.
BumperAfterAd(i) ==
  /\ LongShow(i + 1)
  /\ \/ i - 1 \in strict /\ cause[i - 1] \cap (Hard \cup {"silence"}) # {} /\ score[i] > 105
     \/ cause[i - 1] \cap Hard # {} /\ "ratio" \in cause[i]
BumperBeforeAd(i) ==
  /\ LongShow(i - 1)
  /\ \/ i + 1 \in strict /\ cause[i] \cap (Hard \cup {"silence"}) # {} /\ score[i] > 105
     \/ cause[i] \cap Hard # {} /\ "ratio" \in cause[i - 1]

Bumpers ==
  /\ pc = "bumpers" /\ pc' = "strong"
  /\ LET bumpers == {i \in 2..(Count - 1) : /\ given[i].len < Bumper /\ score[i] > 100
                                            /\ BumperAfterAd(i) \/ BumperBeforeAd(i)}
     IN Put(IF On(2) THEN bumpers ELSE {}, 2, 50)
  /\ UNCHANGED <<data, at, reach, strict, combined, cause, weighed>>

Early(i) == Finish[i] < rules.added
Late(i) == Finish[i - 1] > Finish[Count] - rules.added

\* The length times the score of the blocks.
Worth[i \in 0..Count] == IF i = 0 THEN 0 ELSE Worth[i - 1] + given[i].len * score[i]

\* Rule 1: the blocks i to k are weak on average and short, in the middle or very short.
Weak(i, k, share) ==
  LET total == Total(i, k)
      worth == Worth[k] - Worth[i - 1]
  IN /\ \A m \in i..k : score[m] <= 105
     /\ \/ share[1] * total < MinShow /\ worth > 90 * total
        \/ share[2] * total < MinShow /\ worth > 30 * total
     /\ share[3] * total < MinShow
        \/ (Finish[i - 2] > rules.added /\ Finish[k + 1] < Finish[Count] - rules.added)

\* Mutant: what comes after the gap is not looked at.
OpenGap(i, k, strong, share) == score[i - 1] > strong /\ Weak(i, k, share)

\* Between two strong commercials.
Gap(i, k, strong, share) == score[i - 1] > strong /\ score[k + 1] > strong /\ Weak(i, k, share)

Gaps(strong, share) ==
  UNION {run[1]..run[2] :
    run \in {r \in (2..(Count - 1)) \X (2..(Count - 1)) : r[1] <= r[2] /\ Gap(r[1], r[2], strong, share)}}

FillStrong ==
  /\ pc = "strong" /\ pc' = "weak"
  /\ Put(IF On(1) THEN Gaps(140, <<2, 3, 6>>) ELSE {}, 1, 9999)
  /\ UNCHANGED <<data, at, reach, strict, combined, cause, weighed>>

FillWeak ==
  /\ pc = "weak" /\ pc' = "dark"
  /\ Put(IF On(1) THEN Gaps(110, <<4, 6, 12>>) ELSE {}, 1, 9999)
  /\ UNCHANGED <<data, at, reach, strict, combined, cause, weighed>>

\* Rule 8: a short commercial after the show that ends in the dark; a block it lowers is
\* show to the next one.
EndsDark[i \in 0..Count] ==
  /\ 0 < i /\ i <= Count - 2
  /\ cause[i] \cap {"black", "flat"} # {} /\ score[i] > 105 /\ given[i].len < MinShow /\ given[i].dark
  /\ i = 1 \/ score[i - 1] < 100 \/ EndsDark[i - 1]

DarkEnd ==
  /\ pc = "dark" /\ pc' = "first"
  /\ Put(IF On(8) THEN {i \in Indices : EndsDark[i]} ELSE {}, 8, 50)
  /\ UNCHANGED <<data, at, reach, strict, combined, cause, weighed>>

\* Rules 7 and 3 want a fair share of logo.
Edges == rules.edge > 0 /\ rules.logo # "off"

InZone(i, there) == IF rules.edge = 1 THEN there ELSE rules.edge > given[i].len

\* The first block after i that is no commercial, or would make a break of the blocks
\* between, or is the last; and the other way.
Beyond(i) ==
  CHOOSE j \in (i + 1)..Count :
    /\ \A m \in (i + 1)..(j - 1) : score[m] > 105 /\ Total(i + 1, m) < MinBreak
    /\ score[j] <= 105 \/ Total(i + 1, j) >= MinBreak \/ j = Count
Before(i) ==
  CHOOSE j \in 1..(i - 1) :
    /\ \A m \in (j + 1)..(i - 1) : score[m] > 105 /\ Total(m, i - 1) < MinBreak
    /\ score[j] <= 105 \/ Total(j, i - 1) >= MinBreak \/ j = 1

\* Rule 7: the show before the show goes.  Its cause has the bit of a change of size.
ShowBefore(i) ==
  /\ i < Count /\ score[Beyond(i)] < 100 /\ 2 * given[Beyond(i)].len > MinShow
  /\ \A m \in 1..i : score[m] < 105 /\ InZone(m, Early(m))
FirstShow == {i \in Indices : ShowBefore(i) /\ \A m \in 1..(i - 1) : ~ShowBefore(m)}

DropFirst ==
  /\ pc = "first" /\ pc' = "last"
  /\ LET set == IF On(7) /\ Edges THEN FirstShow ELSE {}
     IN Put(set, 7, 9999) /\ cause' = [i \in Indices |-> IF i \in set THEN cause[i] \cup {"size"} ELSE cause[i]]
  /\ UNCHANGED <<data, at, reach, strict, combined, weighed>>

\* The same at the end, of the last block alone: the loop counts up from it.
LastShow ==
  {i \in {Count} : i > 1 /\ score[i] < 100 /\ InZone(i, Late(i)) /\ score[Before(i)] < 100}

DropLast ==
  /\ pc = "last" /\ pc' = "logoless"
  /\ LET set == IF On(7) /\ Edges THEN LastShow ELSE {}
     IN Put(set, 7, 9999) /\ cause' = [i \in Indices |-> IF i \in set THEN cause[i] \cup {"size"} ELSE cause[i]]
  /\ UNCHANGED <<data, at, reach, strict, combined, weighed>>

\* Rule 3: long show without the logo in the zones at the ends.
Logoless ==
  /\ pc = "logoless" /\ pc' = "middle"
  /\ LET set == {i \in 1..(Count - 1) :
                  /\ score[i] < 100 /\ given[i].logo = "none" /\ given[i].len > MinShow
                  /\ Early(i) \/ Late(i)}
         hit == IF On(3) /\ Edges THEN set ELSE {}
     IN score' = [i \in Indices |-> IF i \in hit THEN Times(score[i], 13, 10) ELSE score[i]] /\ Marked(hit, 3)
  /\ UNCHANGED <<data, at, reach, strict, combined, cause, weighed>>

\* Whether rule 3 is on or not: a long piece without the logo in the middle, next to the
\* show or to what became show just before.
Halved[i \in 0..Count] ==
  /\ 1 < i /\ i < Count
  /\ score[i] > 100 /\ given[i].logo = "none" /\ given[i].len > MinShow + Bumper
  /\ Finish[i - 1] > rules.added /\ Finish[i] < Finish[Count] - rules.added
  /\ score[i - 1] < 100 \/ score[i + 1] < 100 \/ (Halved[i - 1] /\ score[i - 1] < 200)

Middle ==
  /\ pc = "middle" /\ pc' = "padsBefore" /\ at' = 2
  /\ LET hit == IF Edges /\ rules.logo = "good" THEN {i \in Indices : Halved[i]} ELSE {}
     IN score' = [i \in Indices |-> IF i \in hit THEN Times(score[i], 1, 2) ELSE score[i]] /\ Marked(hit, 3)
  /\ UNCHANGED <<data, reach, strict, combined, cause, weighed>>

\* Rule 4: up to five short blocks between long black, next to the show, in the order of
\* the show's blocks.
OnlyBlack(i) == cause[i] \ {"silence"} = {"black"}
PadsUpTo(i) ==
  {j \in 1..(i - 1) : /\ i - j <= 5
                      /\ \A m \in j..(i - 1) : given[m].head /\ given[m].len < PadLength /\ OnlyBlack(m)}
PadsFrom(i) ==
  {j \in (i + 1)..Count : /\ j - i <= 5
                          /\ \A m \in (i + 1)..j : given[m].tail /\ given[m].len < PadLength /\ OnlyBlack(m - 1)}
Tenth(set) ==
  score' = [i \in Indices |-> IF i \in set THEN Times(score[i], 1, 10) ELSE score[i]] /\ Marked(set, 4)
Padding == On(4) /\ rules.logo = "good"

PadBefore ==
  /\ pc = "padsBefore" /\ at <= Count /\ at' = at + 1
  /\ Tenth(IF Padding /\ score[at] < 100 /\ given[at].head /\ OnlyBlack(at - 1) THEN PadsUpTo(at) ELSE {})
  /\ UNCHANGED <<pc, data, reach, strict, combined, cause, weighed>>

PadBeforeDone ==
  /\ pc = "padsBefore" /\ at > Count /\ pc' = "padsAfter" /\ at' = 1
  /\ UNCHANGED <<data, reach, score, strict, combined, cause, marks, weighed>>

PadAfter ==
  /\ pc = "padsAfter" /\ at <= Count /\ at' = at + 1
  /\ Tenth(IF Padding /\ score[at] < 100 /\ given[at].tail /\ OnlyBlack(at) THEN PadsFrom(at) ELSE {})
  /\ UNCHANGED <<pc, data, reach, strict, combined, cause, weighed>>

\* Rule 9: long silence.
Silence ==
  /\ pc = "padsAfter" /\ at > Count /\ pc' = "scored"
  /\ LET long == {i \in Indices : given[i].quiet /\ given[i].len > rules.silent}
     IN Put(IF rules.silent > 0 /\ On(9) THEN long ELSE {}, 9, 500)
  /\ UNCHANGED <<data, at, reach, strict, combined, cause, weighed>>

Over == pc = "scored" /\ UNCHANGED vars

Next ==
  \/ Length \/ Forward \/ ForwardDone \/ Backward \/ BackwardDone \/ Evidence
  \/ Bumpers \/ FillStrong \/ FillWeak \/ DarkEnd \/ DropFirst \/ DropLast
  \/ Logoless \/ Middle \/ PadBefore \/ PadBeforeDone \/ PadAfter \/ Silence \/ Over

Spec == Init /\ [][Next]_vars

-----------------------------------------------------------------------------
(* What must hold. *)

\* Rule 1 fills gaps inside breaks: what it took for commercials has, through its like,
\* a commercial on either side.
FilledBetween ==
  pc = "dark" => \A i \in Indices : 1 \in marks[i] =>
    \E a \in 1..(i - 1), b \in (i + 1)..Count :
      /\ \A m \in (a + 1)..(b - 1) : 1 \in marks[m]
      /\ 1 \notin marks[a] /\ score[a] > 110 /\ 1 \notin marks[b] /\ score[b] > 110

\* A piece at least half as long as the shortest show that was weighed as show with some
\* margin stays show, whatever its neighbours are, but for the rules for the ends of a
\* recording and for silence.
LongShowKept ==
  pc = "scored" => \A i \in Indices :
    weighed[i] < 80 /\ 2 * given[i].len >= MinShow /\ marks[i] \cap {7, 9} = {} => score[i] <= 105
=============================================================================
