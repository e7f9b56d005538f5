------------------------------ MODULE Promotion ------------------------------
(* The status of entries (fingerprint/library.cpp): promote() judges an entry by  *)
(* all its airings, judge_chains() the pieces of a split ad by what they abut, and *)
(* join_breaks() what lies next to ads.                                            *)
(*                                                                                 *)
(* Facts are AiringFacts: of each airing its entry, its recording and the group of *)
(* recordings of the same broadcast, its start and end in whole seconds from the   *)
(* programme's start and the programme's length, its series and what it counts as  *)
(* (broadcast), where it went out, and, with Evidence (known), the seconds with a  *)
(* logo and whether seams bound it.                                                *)
EXTENDS Integers, FiniteSets, Sequences, SequencesExt, FiniteSetsExt

CONSTANTS
  Entries,            \* the entries there may be
  Length,             \* of each entry, in seconds
  AudioSeries,        \* rules.audio_series
  AdjacentBroadcasts  \* rules.adjacent_broadcasts

ASSUME PromotionAssumption ==
  /\ IsFiniteSet(Entries) /\ Length \in [Entries -> Nat \ {0}]
  /\ AudioSeries \in Nat /\ AdjacentBroadcasts \in Nat

Statuses == {"candidate", "ad", "in-programme ad", "intro", "credits", "programme"}
Final == {"programme", "intro", "credits"}  \* status_is_final

Unknown == 0  \* a series, a network or a channel
NoBroadcast == [series |-> Unknown, group |-> {}]

------------------------------------------------------------------------------
(* The thresholds of library.h and library.cpp. *)

Distance(s, t) == IF s >= t THEN s - t ELSE t - s

AudioLengths    == {15, 30, 45, 60, 90, 120}
StandardLengths == AudioLengths \union {10, 20}
Near(seconds, lengths) == \E length \in lengths : Distance(seconds, length) <= 1

AudioAdLength(seconds)  == Near(seconds, AudioLengths)
StandardLength(seconds) == Near(seconds, StandardLengths)

AdjacentGap      == 1
AdjacentMost     == 121
ChainMostPieces  == 4
ChainRecordings  == 3
VaryingPosition  == 300
WithinRecordings == 3
RecapEdge        == 180
WithinApart      == 300

NearStart(f) == f.start <= 1200
NearEnd(f) == f.end \in f.programme - 480 .. f.programme + 120
AwayFromEnds(f) == f.start >= RecapEdge /\ f.programme - f.end >= RecapEdge

LogoSeen(f)   == f.known /\ 10 * f.logo >= f.end - f.start
LogoMostly(f) == f.known /\ 2 * f.logo >= f.end - f.start

\* different_places
DifferentPlaces(f, g) ==
  IF f.network # Unknown /\ g.network # Unknown
  THEN f.network # g.network
  ELSE f.channel # Unknown /\ g.channel # Unknown /\ f.channel # g.channel

------------------------------------------------------------------------------
(* What promote() asks of `some`, the facts of all airings of an entry. *)

RecordingsOf(some) == {f.rec : f \in some}
WithEvidence(some) == {f \in some : f.known}

NoLogoSeen(some)     == \A f \in some : ~LogoSeen(f)
LogoEverywhere(some) == \A f \in WithEvidence(some) : LogoSeen(f)
LogoInEach(some)     == \A f \in WithEvidence(some) : LogoMostly(f)
LogoInSome(some)     == \E f \in some : LogoMostly(f)
SeamsBoth(some)      == \E f \in WithEvidence(some) : f.seams

SeriesIn(some) == {f.series : f \in some} \ {Unknown}
InSeries(some, key) == {f \in some : f.series = key}

\* A series with at least half of the recordings.
HeldBy(some, key) ==
  LET own == Cardinality(RecordingsOf(InSeries(some, key)))
  IN own >= 2 /\ 2 * own >= Cardinality(RecordingsOf(some))
SeriesHolds(some) == \E key \in SeriesIn(some) : HeldBy(some, key)

AllNearStart(some) == \A f \in some : NearStart(f)
AllNearEnd(some) == \A f \in some : NearEnd(f)
ThemeOf(some) ==
  {key \in SeriesIn(some) :
     /\ HeldBy(some, key)
     /\ AllNearStart(InSeries(some, key)) \/ AllNearEnd(InSeries(some, key))}
Theme(some) == IF AllNearStart(InSeries(some, Min(ThemeOf(some)))) THEN "intro" ELSE "credits"

\* More than two thirds of the airings at one end of the programme.
AtOneEnd(some) ==
  \/ 3 * Cardinality({f \in some : NearStart(f)}) > 2 * Cardinality(some)
  \/ 3 * Cardinality({f \in some : NearEnd(f)}) > 2 * Cardinality(some)

\* At positions that vary, in enough recordings of one series.
Varying(some) ==
  \E key \in SeriesIn(some) :
    LET own == InSeries(some, key) IN
    /\ \E f, g \in own : g.start - f.start > VaryingPosition
    /\ \E f, g \in own : (g.programme - g.end) - (f.programme - f.end) > VaryingPosition
    /\ ~AtOneEnd(own)
    /\ Cardinality(RecordingsOf({f \in own : AwayFromEnds(f)})) >= WithinRecordings

\* Twice in one recording, minutes apart.
Repeating(some) ==
  \E f, g \in some : /\ f.rec = g.rec /\ AwayFromEnds(f) /\ AwayFromEnds(g)
                     /\ g.start - f.start >= WithinApart

WithinSeries(some) == NoLogoSeen(some) /\ (Varying(some) \/ Repeating(some))

Spread(some) == Cardinality({f.broadcast : f \in some} \ {NoBroadcast})
TwoPlaces(some) == \E f, g \in some : DifferentPlaces(f, g)
Across(some) == Spread(some) >= 2 \/ TwoPlaces(some)
Widely(some) == Spread(some) >= AudioSeries \/ (Spread(some) >= 2 /\ TwoPlaces(some))
\* Mutant of MayJoin: a break takes in entries whatever was seen in them.
MayJoinUnderLogo(some, length) == Spread(some) >= 2 /\ length <= AdjacentMost
MayJoin(some, length) == NoLogoSeen(some) /\ Spread(some) >= 2 /\ length <= AdjacentMost

------------------------------------------------------------------------------
(* promote(): the rules in order, the first that holds. *)

\* A status, and what may still make the entry an ad: a break it may join, a chain of
\* widely aired pieces, or ads beside an entry that is a theme by its position.
Promotion(new) == [status |-> new, mayJoin |-> FALSE, widely |-> FALSE, ifBeside |-> FALSE]

\* The rules that look at neither the status the entry has nor the ends of a programme.
ByRecurrence(some, length) ==
  IF /\ WithEvidence(some) # {} /\ NoLogoSeen(some)
     /\ IF Across(some) THEN StandardLength(length) \/ SeamsBoth(some)
                        ELSE StandardLength(length) /\ SeamsBoth(some)
  THEN Promotion("ad")
  ELSE IF WithEvidence(some) # {} /\ Across(some) /\ LogoInEach(some) THEN Promotion("in-programme ad")
  ELSE IF WithEvidence(some) # {} /\ LogoEverywhere(some) /\ Cardinality(SeriesIn(some)) <= 1
  THEN Promotion("programme")
  ELSE IF NoLogoSeen(some) /\ Widely(some) /\ AudioAdLength(length) THEN Promotion("ad")
  ELSE IF Across(some) /\ LogoInSome(some)
  THEN [Promotion("in-programme ad") EXCEPT !.mayJoin = MayJoin(some, length)]
  ELSE IF NoLogoSeen(some) /\ Widely(some)
  THEN [Promotion("in-programme ad") EXCEPT !.mayJoin = MayJoin(some, length), !.widely = TRUE]
  ELSE [Promotion("candidate") EXCEPT !.mayJoin = MayJoin(some, length),
                                      !.widely = WithinSeries(some)]

\* Mutant of promote: a theme an airing breaks is programme before it may be a theme again.
promoteBrokenFirst(current, length, some) ==
  IF current = "programme" THEN Promotion("programme")
  ELSE IF Cardinality(some) < 2
  THEN Promotion(IF current \in Final THEN "programme" ELSE "candidate")
  ELSE IF current \in Final /\ SeriesHolds(some) THEN Promotion("programme")
  ELSE IF ThemeOf(some) # {}
  THEN [Promotion(Theme(some)) EXCEPT !.ifBeside = NoLogoSeen(some) /\ AudioAdLength(length)]
  ELSE IF WithinSeries(some) /\ AudioAdLength(length) THEN Promotion("ad")
  ELSE ByRecurrence(some, length)

promote(current, length, some) ==
  IF current = "programme" THEN Promotion("programme")
  ELSE IF Cardinality(some) < 2
  THEN Promotion(IF current \in Final THEN "programme" ELSE "candidate")
  ELSE IF ThemeOf(some) # {}
  THEN [Promotion(Theme(some)) EXCEPT !.ifBeside = NoLogoSeen(some) /\ AudioAdLength(length)]
  ELSE IF WithinSeries(some) /\ AudioAdLength(length) THEN Promotion("ad")
  ELSE IF current \in Final /\ SeriesHolds(some) THEN Promotion("programme")
  ELSE ByRecurrence(some, length)

------------------------------------------------------------------------------
(* Across entries: `facts` of all airings, `judged` the promotion of each entry. *)

Of(facts, e) == {f \in facts : f.entry = e}
Abut(f, g) == Distance(f.end, g.start) <= AdjacentGap

\* judge_chains(): two to four airings of what may be pieces of ads, each abutting the
\* next, that together have an ad's length.
Chainable(facts, judged) ==
  {f \in facts : judged[f.entry].mayJoin \/ judged[f.entry].widely \/ judged[f.entry].status = "ad"}

FromTo(f, g, some) == {h \in some : h.rec = f.rec /\ h.start \in f.start..g.start}
IsChain(f, g, pieces) ==
  /\ f.rec = g.rec /\ f.start < g.start /\ AudioAdLength(g.end - f.start)
  /\ Cardinality(pieces) <= ChainMostPieces
  /\ \A h \in pieces \ {g} : \E next \in FromTo(h, g, pieces) \ {h} : Abut(h, next)
Chains(chainable) ==
  {SetToSortSeq(FromTo(ends[1], ends[2], chainable), LAMBDA f, g : f.start < g.start) :
     ends \in {pair \in chainable \X chainable :
                 IsChain(pair[1], pair[2], FromTo(pair[1], pair[2], chainable))}}

EntriesOf(chain) == [i \in DOMAIN chain |-> chain[i].entry]
Alike(chains, chain) == {c \in chains : EntriesOf(c) = EntriesOf(chain)}

\* In or next to an ad by its own airings.
Anchored(facts, judged, chain) ==
  \E f \in {f \in facts : judged[f.entry].status = "ad" /\ f.rec = chain[1].rec} :
    \/ \E i \in DOMAIN chain : chain[i] = f
    \/ f.start < chain[1].start /\ Abut(f, chain[1])
    \/ f.start > Last(chain).start /\ Abut(Last(chain), f)

Chained(facts, judged) ==
  LET chains == Chains(Chainable(facts, judged)) IN
  {e \in Entries : /\ judged[e].widely
                   /\ \E c \in chains :
                        /\ \E i \in DOMAIN c : c[i].entry = e
                        /\ \/ Cardinality({d[1].rec : d \in Alike(chains, c)}) >= ChainRecordings
                           \/ \E d \in Alike(chains, c) : Anchored(facts, judged, d)}

\* The broadcasts in which an airing of the entry lies next to one of `ads`.
BesideAds(facts, e, ads) ==
  {f.group : f \in {f \in Of(facts, e) :
                      \E g \in facts : g.rec = f.rec /\ g.entry \in ads \ {e} /\ (Abut(g, f) \/ Abut(f, g))}}

\* An entry that lies beside airings of ads in enough broadcasts.
Joinable(judged) == {e \in Entries : judged[e].mayJoin \/ judged[e].ifBeside}
Joins(facts, ads, e) == Cardinality(BesideAds(facts, e, ads)) >= AdjacentBroadcasts

\* Mutant of Joined: entries that may join a break count as ads for each other.
JoinedTogether(facts, judged, ads) ==
  ads \union {e \in Joinable(judged) :
               \E some \in SUBSET Joinable(judged) :
                 e \in some /\ \A other \in some : Joins(facts, ads \union some, other)}

\* join_breaks(): the ads and what joins them, round by round, each round beside the ads
\* of the round before; a round that adds none is the last.
Joined(facts, judged, ads) ==
  LET rounds == Cardinality(Joinable(judged))
      round[n \in 0..rounds] ==
        IF n = 0 THEN ads
        ELSE round[n - 1] \union {e \in Joinable(judged) : Joins(facts, round[n - 1], e)}
  IN IF AdjacentBroadcasts = 0 THEN ads ELSE round[rounds]

\* What save() makes of the statuses entries had.
Promotions(before, facts) == [e \in Entries |-> promote(before[e], Length[e], Of(facts, e))]
OwnAds(facts, judged) == {e \in Entries : judged[e].status = "ad"} \union Chained(facts, judged)
Judged(facts, judged) ==
  LET ads == Joined(facts, judged, OwnAds(facts, judged))
  IN [e \in Entries |-> IF e \in ads THEN "ad" ELSE judged[e].status]
=============================================================================
