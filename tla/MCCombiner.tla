----------------------------- MODULE MCCombiner -----------------------------
(***************************************************************************)
(* The inputs of combine(), built up one match, seam, logo interval or     *)
(* block at a time, so that every order in which a live recording could    *)
(* bring them is a behaviour, and what combine() makes of each.  Comskip's *)
(* blocks and the logo's intervals do not overlap; matches may.            *)
(***************************************************************************)
EXTENDS Combiner

VARIABLES matches, evidence, mode, marks
vars == <<matches, evidence, mode, marks>>

CONSTANTS MaxMatches, MaxLogo, MaxBlocks, MaxSeams, MaxNow  \* bounds

CONSTANTS
  Horizon,        \* bound: the latest time
  MatchChoices,   \* matches that may be found
  SeamChoices, LogoChoices, BlockChoices   \* what the Evidence may come to hold

Times == 0..Horizon
Statuses == {"ad", "in-programme ad", "intro", "credits"}

ASSUME InputsAssumption ==
  /\ Horizon \in Nat /\ MaxNow \in Nat
  /\ \A m \in MatchChoices :
       m.status \in Statuses /\ m.from \in Times /\ m.to \in Times /\ m.agreedFrom \in Times /\ m.agreedTo \in Times
  /\ SeamChoices \subseteq Times
  /\ LogoChoices \subseteq [from : Times, to : Times]
  /\ BlockChoices \subseteq [from : Times, to : Times, commercial : BOOLEAN] /\ IsFiniteSet(BlockChoices)

Init ==
  /\ matches = {}
  /\ evidence \in [logoKnown : BOOLEAN, seams : {{}}, logo : {{}}, blocks : {{}}]
  /\ mode \in {[final |-> TRUE, now |-> 0], [final |-> FALSE, now |-> 0]}
  /\ marks = {}

Apart(interval, others) == \A o \in others : o.to <= interval.from \/ interval.to <= o.from

\* combine() is given other inputs.
Given(m, e, d) ==
  /\ matches' = m /\ evidence' = e /\ mode' = d
  /\ marks' = Combined(m, e, d)

AddMatch(match) ==
  /\ Cardinality(matches) < MaxMatches
  /\ Given(matches \cup {match}, evidence, mode)

AddSeam(seam) ==
  /\ Cardinality(evidence.seams) < MaxSeams
  /\ Given(matches, [evidence EXCEPT !.seams = @ \cup {seam}], mode)

\* Without a learned logo there are no intervals.
AddLogo(logo) ==
  /\ evidence.logoKnown /\ Cardinality(evidence.logo) < MaxLogo /\ Apart(logo, evidence.logo)
  /\ Given(matches, [evidence EXCEPT !.logo = @ \cup {logo}], mode)

AddBlock(block) ==
  /\ Cardinality(evidence.blocks) < MaxBlocks /\ Apart(block, evidence.blocks)
  /\ Given(matches, [evidence EXCEPT !.blocks = @ \cup {block}], mode)

\* Only a clock before and one after all marks but the last to settle are told apart.
Later ==
  /\ ~mode.final /\ mode.now = 0
  /\ Given(matches, evidence, [mode EXCEPT !.now = MaxNow])

Next ==
  \/ \E match \in MatchChoices : AddMatch(match)
  \/ \E seam \in SeamChoices : AddSeam(seam)
  \/ \E logo \in LogoChoices : AddLogo(logo)
  \/ \E block \in BlockChoices : AddBlock(block)
  \/ Later

Spec == Init /\ [][Next]_vars

-----------------------------------------------------------------------------
Ads == {m \in marks : m.kind = "ad"}
Units(from, to) == {t \in Times : from <= t /\ t < to}
Covered == UNION {Units(ad.start, ad.end) : ad \in Ads}

\* Rules 6 and 7: "ad marks never overlap": two of them are further apart than
\* Comskip's adjacent blocks, however stretches nest and chain, and the other marks
\* share nothing with them and are long enough.
MarksApart ==
  \A ad \in Ads :
    /\ ad.start < ad.end
    /\ \A other \in Ads : ad = other \/ ad.end + Adjacent < other.start \/ other.end + Adjacent < ad.start
    /\ \A other \in marks \ Ads :
         /\ other.end - other.start >= MinPiece
         /\ other.end <= ad.start \/ ad.end <= other.start

\* Rules 1 and 5: a commercial block, and an ad match not over programme, moved to
\* its seams, is inside a single ad mark: viewers skip it in one go.
AdvertsMarked ==
  /\ \A b \in Commercial(evidence) : \E ad \in Ads : ad.start <= b.from /\ b.to <= ad.end
  /\ \A m \in matches : IsBreak(evidence, m) =>
       LET from == Snap(evidence, m.from)  to == Snap(evidence, m.to) IN
       from < to => \E ad \in Ads : ad.start <= from /\ to <= ad.end

\* Rule 4: an ad mark holds no logo interval of full length that neither matched
\* audio nor a commercial block overlaps: programme is never bridged.
LogoNeverBridged ==
  \A logo \in evidence.logo : \A ad \in Ads :
    (logo.to - logo.from >= LogoCloses /\ ad.start <= logo.from /\ logo.to <= ad.end) =>
      \/ \E m \in matches : Snap(evidence, m.from) < logo.to /\ logo.from < Snap(evidence, m.to)
      \/ \E b \in Commercial(evidence) : b.from < logo.to /\ logo.from < b.to

\* Live, a mark settles before its time only when every unit of it lies in the agreed
\* part of an ad match, edges moved to a seam and gaps of adjacent stretches aside.
SettledIsAgreed ==
  \A ad \in Ads :
    (~mode.final /\ ad.state = "settled" /\ ad.end + SettleAfter > mode.now) =>
      /\ ad.end <= mode.now
      /\ Units(ad.start, ad.end) \subseteq
           UNION {Units(m.agreedFrom - SnapReach, m.agreedTo + SnapReach + Adjacent) :
                    m \in {m \in matches : m.status = "ad"}}

\* What combine() marks: no two ad marks touch, advertising is marked whole, programme
\* is never bridged, and what settles before its time is agreed.
MarksSound == MarksApart /\ AdvertsMarked /\ LogoNeverBridged /\ SettledIsAgreed

\* More advertising (an ad match where it is one, or a commercial block) never
\* unmarks what was marked: joining, extending and merging only add.
MoreAdsMoreMarked ==
  [][(/\ mode' = mode /\ evidence' = [evidence EXCEPT !.blocks = evidence'.blocks]
      /\ \A m \in matches' \ matches : m.status = "ad"
      /\ \A b \in evidence'.blocks \ evidence.blocks : b.commercial)
     => Covered \subseteq Covered']_vars

\* More programme (a logo interval or a programme block) never marks more.
MoreProgrammeLessMarked ==
  [][(/\ mode' = mode /\ matches' = matches /\ evidence'.seams = evidence.seams
      /\ \A b \in evidence'.blocks \ evidence.blocks : ~b.commercial)
     => Covered' \subseteq Covered]_vars

\* Marking is monotone: more advertising never unmarks, more programme never marks.
MarkingMonotone == MoreAdsMoreMarked /\ MoreProgrammeLessMarked
=============================================================================
