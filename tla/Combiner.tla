------------------------------ MODULE Combiner ------------------------------
(***************************************************************************)
(* combine() of fingerprint/combiner.cpp: matches and Evidence make marks. *)
(*                                                                         *)
(* Times are whole units of capture time; the thresholds of combiner.h are *)
(* constants in the same unit.  The vectors of the code are sets here: its *)
(* sorted sweeps are stated as what they compute (which stretch begins a   *)
(* merged one, which stretches it takes in), so that no order is needed.   *)
(*                                                                         *)
(*   match    [status, from, to, agreedFrom, agreedTo]                     *)
(*   evidence [logoKnown, seams, logo, blocks], sets of times, of          *)
(*            [from, to] and of [from, to, commercial]                     *)
(*   stretch  [from, to, fingerprint, comskip, unconfirmed]                *)
(*   mark     [start, end, kind, state, basis]                             *)
(***************************************************************************)
EXTENDS Integers, FiniteSets

CONSTANTS
  JoinGap,          \* join_gap
  JoinGapNoLogo,    \* join_gap_without_logo
  LogoCloses,       \* logo_closes
  SnapReach,        \* snap_reach
  TouchReach,       \* touch_reach
  BracketReach,     \* bracket_reach
  SettleAfter,      \* settle_after
  Adjacent,         \* adjacent: blocks this close are one cut
  MinPiece          \* shortest piece of a mark cut around an ad

ASSUME ReachAssumption ==
  /\ {JoinGap, JoinGapNoLogo, LogoCloses, SnapReach, TouchReach, BracketReach, SettleAfter, Adjacent} \subseteq Nat
  /\ Adjacent <= TouchReach /\ TouchReach < JoinGapNoLogo /\ JoinGapNoLogo <= JoinGap
  /\ TouchReach < LogoCloses
  /\ MinPiece \in Nat \ {0}

Larger(a, b) == IF a >= b THEN a ELSE b
Smaller(a, b) == IF a <= b THEN a ELSE b
Distance(a, b) == IF a >= b THEN a - b ELSE b - a
\* How much two intervals share; negative when they are apart.
Shared(from, to, other) == Smaller(to, other.to) - Larger(from, other.from)

-----------------------------------------------------------------------------
(* Helpers: snap(), programme_between(), over_programme(). *)

NearSeams(evidence, time) == {seam \in evidence.seams : Distance(seam, time) <= SnapReach}

\* The nearest seam within reach, the later of two as near; else the time itself.
Snap(evidence, time) ==
  LET near == NearSeams(evidence, time) IN
  IF near = {} THEN time
  ELSE CHOOSE seam \in near : \A other \in near :
         \/ Distance(seam, time) < Distance(other, time)
         \/ Distance(seam, time) = Distance(other, time) /\ seam >= other

LogoBetween(evidence, from, to) ==
  \E logo \in evidence.logo : logo.to - logo.from >= LogoCloses /\ Shared(from, to, logo) >= TouchReach

\* Mutant of BlockBetween: any block closes the break.
BlockBetweenAny(evidence, from, to) ==
  \E block \in evidence.blocks : block.from > from - TouchReach /\ block.from < to
\* Rule 4: a programme block that begins in the gap closes the break too.
BlockBetween(evidence, from, to) ==
  \E block \in evidence.blocks : ~block.commercial /\ block.from > from - TouchReach /\ block.from < to

ProgrammeBetween(evidence, from, to) == LogoBetween(evidence, from, to) \/ BlockBetween(evidence, from, to)

\* An ad's audio while the logo of a programme brackets it.
OverProgramme(evidence, from, to) ==
  LET long == {logo \in evidence.logo : logo.to - logo.from >= LogoCloses} IN
  /\ evidence.logoKnown
  /\ \E logo \in long : logo.to <= from + TouchReach /\ logo.to >= from - BracketReach
  /\ \E logo \in long : logo.from >= to - TouchReach /\ logo.from <= to + BracketReach
  /\ NearSeams(evidence, from) = {} \/ NearSeams(evidence, to) = {}

-----------------------------------------------------------------------------
(* Stretches. *)

\* One stretch over all of a set: the flags of any are the flags of it.
Hull(stretches) ==
  [from |-> CHOOSE t \in {s.from : s \in stretches} : \A s \in stretches : t <= s.from,
   to |-> CHOOSE t \in {s.to : s \in stretches} : \A s \in stretches : t >= s.to,
   fingerprint |-> \E s \in stretches : s.fingerprint,
   comskip |-> \E s \in stretches : s.comskip,
   unconfirmed |-> \E s \in stretches : s.unconfirmed]

\* The stretches from one that begins a group up to the next one that does.
Group(stretches, firsts, first) ==
  {s \in stretches : s.from >= first.from /\ ~\E f \in firsts : f.from > first.from /\ f.from <= s.from}

\* Mutant of Begins: only the stretch before it is looked at.
BeginsAfterPrevious(stretches, s) ==
  \A t \in stretches :
    (t.from < s.from /\ ~\E u \in stretches : t.from < u.from /\ u.from < s.from) => t.to + Adjacent < s.from
\* merge_overlapping(): a stretch begins a merged one when every earlier one has ended.
Begins(stretches, s) == \A t \in stretches : t.from < s.from => t.to + Adjacent < s.from

Merged(stretches) ==
  LET firsts == {s \in stretches : Begins(stretches, s)} IN
  {Hull(Group(stretches, firsts, f)) : f \in firsts}

\* Rule 1: an ad match over its agreed and projected parts, unless over programme.
IsBreak(evidence, match) == match.status = "ad" /\ ~OverProgramme(evidence, match.agreedFrom, match.agreedTo)
Projected(match) == match.from < match.agreedFrom \/ match.to > match.agreedTo

BreakOf(evidence, match) ==
  [from |-> Snap(evidence, match.from), to |-> Snap(evidence, match.to),
   fingerprint |-> TRUE, comskip |-> FALSE, unconfirmed |-> Projected(match)]

Breaks(matches, evidence) ==
  Merged({s \in {BreakOf(evidence, m) : m \in {m \in matches : IsBreak(evidence, m)}} : s.from < s.to})

GapLimit(evidence) == IF evidence.logoKnown THEN JoinGap ELSE JoinGapNoLogo

\* Rule 2: a break joins the one before it over a short gap without programme.
JoinsPrevious(breaks, evidence, s) ==
  \E p \in breaks :
    /\ p.from < s.from /\ ~\E q \in breaks : p.from < q.from /\ q.from < s.from
    /\ s.from - p.to < GapLimit(evidence)
    /\ ~ProgrammeBetween(evidence, p.to, s.from)

Joined(breaks, evidence) ==
  LET firsts == {s \in breaks : ~JoinsPrevious(breaks, evidence, s)} IN
  {LET group == Group(breaks, firsts, f) IN
     [Hull(group) EXCEPT !.unconfirmed = IF Cardinality(group) > 1 THEN TRUE ELSE @] : f \in firsts}

Commercial(evidence) == {b \in evidence.blocks : b.commercial /\ b.from < b.to}
Touching(evidence, s) ==
  {b \in Commercial(evidence) : b.to >= s.from - TouchReach /\ b.from <= s.to + TouchReach}

\* One round of rule 3's loop over the blocks.
Reached(evidence, s) ==
  LET all == {[from |-> s.from, to |-> s.to]} \cup {[from |-> b.from, to |-> b.to] : b \in Touching(evidence, s)} IN
  [s EXCEPT !.from = CHOOSE t \in {x.from : x \in all} : \A x \in all : t <= x.from,
            !.to = CHOOSE t \in {x.to : x \in all} : \A x \in all : t >= x.to]

\* Rule 3: over the blocks that touch the break, until it grows no more.
Extended(evidence, s) ==
  LET grow[n \in 0..Cardinality(Commercial(evidence))] == IF n = 0 THEN s ELSE Reached(evidence, grow[n - 1])
      grown == grow[Cardinality(Commercial(evidence))] IN
  [grown EXCEPT !.comskip = (Touching(evidence, grown) # {}), !.unconfirmed = @ \/ grown # s]

\* Rule 5: every commercial block, covered or not.
OfBlock(b) == [from |-> b.from, to |-> b.to, fingerprint |-> FALSE, comskip |-> TRUE, unconfirmed |-> TRUE]

\* Rule 6: what the ad marks cover.
AdStretches(matches, evidence) ==
  Merged({Extended(evidence, s) : s \in Joined(Breaks(matches, evidence), evidence)}
         \cup {OfBlock(b) : b \in Commercial(evidence)})

-----------------------------------------------------------------------------
(* Marks. *)

\* state_of(): a mode is [final, now].
StateOf(mode, unconfirmed, end) ==
  IF \/ mode.final
     \/ ~unconfirmed /\ end <= mode.now
     \/ end + SettleAfter <= mode.now
  THEN "settled" ELSE "provisional"

AdMark(mode, s) ==
  [start |-> s.from, end |-> s.to, kind |-> "ad", state |-> StateOf(mode, s.unconfirmed, s.to),
   basis |-> IF ~s.fingerprint THEN "comskip" ELSE IF s.comskip THEN "both" ELSE "fingerprint"]

\* The marks other than ads, before they are cut around the ads.
OtherMark(evidence, mode, match) ==
  LET agreedOnly == match.status \in {"intro", "credits"}
      from == IF agreedOnly THEN match.agreedFrom ELSE Snap(evidence, match.from)
      to == IF agreedOnly THEN match.agreedTo ELSE Snap(evidence, match.to)
      unconfirmed == CASE agreedOnly -> FALSE
                       [] match.status = "ad" -> TRUE
                       [] OTHER -> Projected(match) IN
  [start |-> from, end |-> to, kind |-> IF agreedOnly THEN match.status ELSE "in-programme ad",
   state |-> StateOf(mode, unconfirmed, to), basis |-> "fingerprint"]

\* An in-programme ad at least half inside an ad mark (they are apart) is dropped.
MostlyInside(other, ads) ==
  LET inside == {x \in 1..(other.end - other.start) :
                   \E ad \in ads : ad.start < other.start + x /\ other.start + x <= ad.end} IN
  2 * Cardinality(inside) >= other.end - other.start

PieceOf(other, from, to) == [other EXCEPT !.start = from, !.end = to]

\* outside(): the pieces of a mark that no ad covers.
Outside(other, ads) ==
  {piece \in {PieceOf(other, from, to) :
                from \in {other.start} \cup {ad.end : ad \in ads},
                to \in {other.end} \cup {ad.start : ad \in ads}} :
     /\ other.start <= piece.start /\ piece.start < piece.end /\ piece.end <= other.end
     /\ \A ad \in ads : ad.end <= piece.start \/ ad.start >= piece.end}

\* Rules 6 and 7: what is left of the other marks beside the ads.
OtherMarks(matches, evidence, mode, ads) ==
  UNION {{piece \in Outside(other, ads) : piece.end - piece.start >= MinPiece} :
           other \in {o \in {OtherMark(evidence, mode, m) : m \in {m \in matches : ~IsBreak(evidence, m)}} :
                        o.kind = "in-programme ad" => ~MostlyInside(o, ads)}}

Combined(matches, evidence, mode) ==
  LET ads == {AdMark(mode, s) : s \in AdStretches(matches, evidence)} IN
  ads \cup OtherMarks(matches, evidence, mode, ads)
=============================================================================
