---------------------------- MODULE Library_proofs ----------------------------
(* Proofs about the Library's statuses, for any entries, recordings, contexts and  *)
(* Evidence: what a pass of the rules says of an entry, the veto of a logo, that   *)
(* one pass settles, and that breaks grow from ads, round by round.                *)
EXTENDS Library, FiniteSetTheorems, WellFoundedInduction, NaturalsInduction, TLAPS

\* What may still become an ad.
MayBeAd(p) == p.status = "ad" \/ p.mayJoin \/ p.widely \/ p.ifBeside

(* One entry. *)

\* promote() lets no entry be an ad, nor become one by a chain or a break, under a logo.
LEMMA PromotedNoLogo ==
  ASSUME NEW current, NEW length, NEW some, MayBeAd(promote(current, length, some))
  PROVE  NoLogoSeen(some)
BY DEF MayBeAd, promote, ByRecurrence, Promotion, WithinSeries, MayJoin, Theme

\* The status promote() gives, or "ad" where it may still become one, gets the same again.
LEMMA PromotedAgain ==
  ASSUME NEW current, NEW length, NEW some,
         NEW p, p = promote(current, length, some)
  PROVE  /\ promote(p.status, length, some) = p
         /\ MayBeAd(p) => promote("ad", length, some) = p
BY DEF MayBeAd, promote, ByRecurrence, Promotion, Theme, Final

(* One pass over all entries. *)

\* Every pass makes its promotions of the statuses before.
LEMMA PromotionsOf ==
  ASSUME NEW before, NEW facts, NEW e \in Entries
  PROVE  Promotions(before, facts)[e] = promote(before[e], Length[e], Of(facts, e))
BY DEF Promotions

\* Induction, in the form the provers can use: a set of naturals has a least element.
LEMMA LeastOf ==
  ASSUME NEW T \in SUBSET Nat, T # {}
  PROVE  \E m \in T : \A n \in T : m <= n
<1> DEFINE R == OpToRel(<, Nat)
<1>1. IsWellFoundedOn(R, Nat)
  BY NatLessThanWellFounded
<1>2. \A x, y \in Nat : <<y, x>> \in R <=> y < x
  BY DEF OpToRel
<1> HIDE DEF R
<1>3. PICK m \in T : \A n \in T : ~(<<n, m>> \in R)
  BY <1>1, WFMin
<1>4. \A n \in T : m \in Nat /\ n \in Nat /\ ~(n < m)
  BY <1>2, <1>3
<1> QED
  BY <1>4

\* The rounds of join_breaks(), any number of them.
Joining(facts, judged, ads) == ads \union {e \in Joinable(judged) : Joins(facts, ads, e)}
Rounds(round, facts, judged, ads, last) ==
  round = [n \in 0..last |-> IF n = 0 THEN ads ELSE Joining(facts, judged, round[n - 1])]

LEMMA RoundsExist ==
  ASSUME NEW facts, NEW judged, NEW ads, NEW last \in Nat
  PROVE  \E round : Rounds(round, facts, judged, ads, last)
<1> DEFINE missing == {k \in Nat : ~\E round : Rounds(round, facts, judged, ads, k)}
<1> SUFFICES ASSUME missing # {} PROVE FALSE
  OBVIOUS
<1>1. PICK k \in missing : \A n \in missing : k <= n
  <2>1. missing \in SUBSET Nat
    OBVIOUS
  <2> HIDE DEF missing
  <2> QED
    BY <2>1, LeastOf
<1>2. CASE k = 0
  <2> DEFINE one == [n \in 0..0 |-> ads]
  <2>1. one = [n \in 0..0 |-> IF n = 0 THEN ads ELSE Joining(facts, judged, one[n - 1])]
    OBVIOUS
  <2> QED
    BY <1>1, <1>2, <2>1 DEF Rounds
<1>3. CASE k # 0
  <2>1. k - 1 \in Nat /\ k - 1 \notin missing
    <3>1. k \in Nat
      BY <1>1
    <3>2. k - 1 \in Nat /\ ~(k <= k - 1)
      BY <1>3, <3>1
    <3> HIDE DEF missing
    <3> QED
      BY <1>1, <3>2
  <2>2. PICK fewer : Rounds(fewer, facts, judged, ads, k - 1)
    BY <2>1
  <2> DEFINE more == [n \in 0..k |-> IF n = 0 THEN ads ELSE Joining(facts, judged, fewer[n - 1])]
  <2>3. \A n \in 0..k - 1 : more[n] = fewer[n]
    <3>1. k \in Nat /\ \A n \in 0..k - 1 : n \in 0..k
      BY <1>1
    <3>2. \A n \in 0..k - 1 : fewer[n] = IF n = 0 THEN ads ELSE Joining(facts, judged, fewer[n - 1])
      BY <2>2 DEF Rounds
    <3> QED
      BY <3>1, <3>2
  <2>4. \A n \in 0..k : n = 0 \/ more[n - 1] = fewer[n - 1]
    <3>1. k \in Nat
      BY <1>1
    <3>2. \A n \in 0..k : n = 0 \/ n - 1 \in 0..k - 1
      BY <3>1
    <3> HIDE DEF more
    <3> QED
      BY <2>3, <3>2
  <2>5. more = [n \in 0..k |-> IF n = 0 THEN ads ELSE Joining(facts, judged, more[n - 1])]
    BY <2>4
  <2> QED
    BY <1>1, <2>5 DEF Rounds
<1> QED
  BY <1>2, <1>3

\* What one round has joined, the next ones keep.
LEMMA RoundsGrow ==
  ASSUME NEW facts, NEW judged, NEW ads, NEW last \in Nat,
         NEW round, Rounds(round, facts, judged, ads, last),
         NEW n \in 0..last
  PROVE  round[n] \subseteq round[last]
<1> DEFINE lost == {k \in Nat : k \in n..last /\ ~(round[n] \subseteq round[k])}
<1> SUFFICES ASSUME lost # {} PROVE FALSE
  <2>1. lost = {} => round[n] \subseteq round[last]
    OBVIOUS
  <2> QED
    BY <2>1
<1>1. PICK k \in lost : \A m \in lost : k <= m
  <2>1. lost \in SUBSET Nat
    OBVIOUS
  <2> HIDE DEF lost
  <2> QED
    BY <2>1, LeastOf
<1>2. k \in Nat /\ k \in n..last /\ k # n /\ ~(round[n] \subseteq round[k])
  BY <1>1
<1>3. k - 1 \in Nat /\ k - 1 \in n..last /\ k \in 0..last /\ k # 0 /\ ~(k <= k - 1)
  BY <1>2
<1>4. round[n] \subseteq round[k - 1]
  BY <1>1, <1>3
<1>5. round[k] = Joining(facts, judged, round[k - 1])
  BY <1>3 DEF Rounds
<1> QED
  BY <1>2, <1>4, <1>5 DEF Joining

\* join_breaks() runs its rounds, if any broadcasts are asked for at all.
LEMMA JoinedIs ==
  ASSUME NEW facts, NEW judged, NEW ads
  PROVE  \E last \in Nat : \E round :
           /\ Rounds(round, facts, judged, ads, last)
           /\ Joined(facts, judged, ads) = IF AdjacentBroadcasts = 0 THEN ads ELSE round[last]
<1> DEFINE last == Cardinality(Joinable(judged))
           round[n \in 0..last] ==
             IF n = 0 THEN ads
             ELSE round[n - 1] \union {e \in Joinable(judged) : Joins(facts, round[n - 1], e)}
<1>1. last \in Nat
  <2>1. Joinable(judged) \in SUBSET Entries /\ IsFiniteSet(Entries)
    BY PromotionAssumption DEF Joinable, PromotionAssumption
  <2> QED
    BY <2>1, FS_Subset, FS_CardinalityType
<1>2. Joined(facts, judged, ads) = IF AdjacentBroadcasts = 0 THEN ads ELSE round[last]
  BY DEF Joined
<1> HIDE DEF last
<1>3. Rounds(round, facts, judged, ads, last)
  <2>1. PICK some : Rounds(some, facts, judged, ads, last)
    BY <1>1, RoundsExist
  <2>2. some = [n \in 0..last |->
                  IF n = 0 THEN ads
                  ELSE some[n - 1] \union {e \in Joinable(judged) : Joins(facts, some[n - 1], e)}]
    BY <2>1 DEF Rounds, Joining
  <2>3. round = [n \in 0..last |->
                   IF n = 0 THEN ads
                   ELSE round[n - 1] \union {e \in Joinable(judged) : Joins(facts, round[n - 1], e)}]
    BY <2>2
  <2> HIDE DEF round
  <2> QED
    BY <2>3 DEF Rounds, Joining
<1> HIDE DEF round
<1> QED
  BY <1>1, <1>2, <1>3

\* Of what join_breaks() joins, in any set of it one was beside ads outside of the set, which
\* it has joined before or was given.
LEMMA JoinedFrom ==
  ASSUME NEW facts, NEW judged, NEW ads,
         NEW some, some # {}, some \subseteq Joined(facts, judged, ads) \ ads
  PROVE  \E e \in some, before \in SUBSET (Joined(facts, judged, ads) \ some) :
           e \in Joinable(judged) /\ Joins(facts, before, e)
<1>0. PICK last \in Nat : \E round :
        /\ Rounds(round, facts, judged, ads, last)
        /\ Joined(facts, judged, ads) = IF AdjacentBroadcasts = 0 THEN ads ELSE round[last]
  BY JoinedIs
<1>1. PICK round :
        /\ Rounds(round, facts, judged, ads, last)
        /\ Joined(facts, judged, ads) = IF AdjacentBroadcasts = 0 THEN ads ELSE round[last]
  BY <1>0
<1>2. Joined(facts, judged, ads) = round[last]
  BY <1>1
<1> DEFINE reached == {k \in Nat : k \in 0..last /\ round[k] \intersect some # {}}
<1>3. PICK k \in reached : \A m \in reached : k <= m
  <2>1. reached \in SUBSET Nat
    OBVIOUS
  <2>2. last \in reached
    BY <1>2
  <2> HIDE DEF reached
  <2> QED
    BY <2>1, <2>2, LeastOf
<1>4. k \in Nat /\ k \in 0..last /\ round[k] \intersect some # {}
  BY <1>3
<1>5. k # 0
  <2>1. round[0] = ads
    BY <1>1 DEF Rounds
  <2> QED
    BY <1>4, <2>1
<1>6. k - 1 \in Nat /\ k - 1 \in 0..last /\ ~(k <= k - 1)
  BY <1>4, <1>5
<1>7. round[k - 1] \intersect some = {}
  BY <1>3, <1>6
<1>8. round[k] = Joining(facts, judged, round[k - 1])
  BY <1>1, <1>4, <1>5 DEF Rounds
<1>9. PICK e \in some : e \in round[k]
  BY <1>4
<1>10. e \in Joinable(judged) /\ Joins(facts, round[k - 1], e)
  BY <1>7, <1>8, <1>9 DEF Joining
<1>11. round[k - 1] \in SUBSET (Joined(facts, judged, ads) \ some)
  BY <1>1, <1>2, <1>6, <1>7, RoundsGrow
<1> QED
  BY <1>9, <1>10, <1>11

\* What join_breaks() adds may join a break.
LEMMA JoinedJoinable ==
  ASSUME NEW facts, NEW judged, NEW ads, NEW e \in Joined(facts, judged, ads), e \notin ads
  PROVE  e \in Joinable(judged)
<1>1. PICK some : some = {e}
  OBVIOUS
<1>2. some # {} /\ some \subseteq Joined(facts, judged, ads) \ ads
  BY <1>1
<1>3. PICK other \in some : other \in Joinable(judged)
  BY <1>2, JoinedFrom
<1> QED
  BY <1>1, <1>3

\* A pass leaves an entry the status promote() gives it, or makes it an ad it may become.
LEMMA JudgedOne ==
  ASSUME NEW facts, NEW judged, NEW e \in Entries
  PROVE  \/ Judged(facts, judged)[e] = judged[e].status
         \/ Judged(facts, judged)[e] = "ad" /\ MayBeAd(judged[e])
<1>1. e \in Chained(facts, judged) => judged[e].widely
  BY DEF Chained
<1>2. ASSUME NEW ads, e \in Joined(facts, judged, ads), e \notin ads
      PROVE  judged[e].mayJoin \/ judged[e].ifBeside
  BY <1>2, JoinedJoinable DEF Joinable
<1>3. e \in OwnAds(facts, judged) => judged[e].status = "ad" \/ judged[e].widely
  BY <1>1 DEF OwnAds
<1> QED
  BY <1>2, <1>3 DEF Judged, MayBeAd

\* Who is an ad after a pass has no logo in any airing.
LEMMA JudgedNoLogo ==
  ASSUME NEW before, NEW facts, NEW e \in Entries,
         Judged(facts, Promotions(before, facts))[e] = "ad"
  PROVE  NoLogoSeen(Of(facts, e))
<1> DEFINE p == Promotions(before, facts)[e]
<1>1. MayBeAd(p)
  BY JudgedOne DEF MayBeAd
<1> QED
  BY <1>1, PromotionsOf, PromotedNoLogo

\* A second pass over the same facts promotes every entry as the first did.
LEMMA PromotionsAgain ==
  ASSUME NEW before, NEW facts
  PROVE  Promotions(Judged(facts, Promotions(before, facts)), facts) = Promotions(before, facts)
<1> DEFINE judged == Promotions(before, facts)
           after  == Judged(facts, judged)
<1>1. ASSUME NEW e \in Entries
      PROVE  promote(after[e], Length[e], Of(facts, e)) = judged[e]
  <2>1. judged[e] = promote(before[e], Length[e], Of(facts, e))
    BY PromotionsOf
  <2> HIDE DEF judged, after
  <2>2. /\ promote(judged[e].status, Length[e], Of(facts, e)) = judged[e]
        /\ MayBeAd(judged[e]) => promote("ad", Length[e], Of(facts, e)) = judged[e]
    BY <2>1, PromotedAgain
  <2>3. \/ after[e] = judged[e].status
        \/ after[e] = "ad" /\ MayBeAd(judged[e])
    BY JudgedOne DEF after
  <2> QED
    BY <2>2, <2>3
<1>2. judged = [e \in Entries |-> judged[e]]
  BY DEF Promotions
<1> QED
  BY <1>1, <1>2 DEF Promotions

\* A pass promotes every entry as it would had no ad been one before.
LEMMA PromotionsForgotten ==
  ASSUME NEW before, NEW facts,
         NEW after, after = Judged(facts, Promotions(before, facts))
  PROVE  Promotions([e \in Entries |-> IF after[e] = "ad" THEN "candidate" ELSE after[e]], facts)
           = Promotions(before, facts)
<1> DEFINE forgotten == [e \in Entries |-> IF after[e] = "ad" THEN "candidate" ELSE after[e]]
<1>1. \A e \in Entries : promote(forgotten[e], Length[e], Of(facts, e)) = promote(after[e], Length[e], Of(facts, e))
  BY DEF promote, Final
<1>2. Promotions(forgotten, facts) = Promotions(after, facts)
  BY <1>1 DEF Promotions
<1> QED
  BY <1>2, PromotionsAgain

\* The ads a pass leaves are those by themselves and what joins them.
LEMMA AdsAre ==
  ASSUME NEW facts, NEW judged, NEW e \in Entries
  PROVE  Judged(facts, judged)[e] = "ad" <=> e \in Joined(facts, judged, OwnAds(facts, judged))
<1> DEFINE own == OwnAds(facts, judged)
<1>1. own \subseteq Joined(facts, judged, own)
  <2>0. PICK last \in Nat : \E round :
          /\ Rounds(round, facts, judged, own, last)
          /\ Joined(facts, judged, own) = IF AdjacentBroadcasts = 0 THEN own ELSE round[last]
    BY JoinedIs
  <2>1. PICK round :
          /\ Rounds(round, facts, judged, own, last)
          /\ Joined(facts, judged, own) = IF AdjacentBroadcasts = 0 THEN own ELSE round[last]
    BY <2>0
  <2>2. round[0] = own
    BY <2>1 DEF Rounds
  <2>3. 0 \in 0..last
    OBVIOUS
  <2>4. round[0] \subseteq round[last]
    BY <2>1, <2>3, RoundsGrow
  <2> QED
    BY <2>1, <2>2, <2>4
<1>2. judged[e].status = "ad" => e \in own
  BY DEF OwnAds
<1> QED
  BY <1>1, <1>2 DEF Judged

(* The state. *)

\* The facts of the airings follow from what the search, the app and comskip say.
LEMMA SameFacts ==
  UNCHANGED <<context, evidence, airings>> => Facts' = Facts
BY DEF Facts, Grouped, FactsOf, Group, Reruns, Sharing, Broadcast, PlaceOf, SeamNear

\* The statuses are those of a pass over the facts of the state.
IsJudged == \E before : status = Judged(Facts, Promotions(before, Facts))

\* Without airings a pass leaves every entry a candidate.
LEMMA InitJudged == Init => IsJudged
<1> SUFFICES ASSUME Init PROVE IsJudged
  OBVIOUS
<1>1. Facts = {}
  BY DEF Init, Facts, Grouped
<1>2. \A e \in Entries : promote(status[e], Length[e], Of(Facts, e)) = Promotion("candidate")
  <2> TAKE e \in Entries
  <2>1. Of(Facts, e) = {}
    BY <1>1 DEF Of
  <2>2. Cardinality(Of(Facts, e)) = 0
    BY <2>1, FS_EmptySet
  <2>3. status[e] = "candidate"
    BY DEF Init
  <2> QED
    BY <2>2, <2>3 DEF promote, Final
<1> DEFINE judged == Promotions(status, Facts)
<1>3. \A e \in Entries : judged[e] = Promotion("candidate")
  BY <1>2 DEF Promotions
<1> HIDE DEF judged
<1>4. \A e \in Entries : Judged(Facts, judged)[e] = "candidate"
  <2> TAKE e \in Entries
  <2>1. judged[e].status = "candidate" /\ ~MayBeAd(judged[e])
    BY <1>3 DEF Promotion, MayBeAd
  <2> QED
    BY <2>1, JudgedOne
<1>5. status = Judged(Facts, judged)
  BY <1>4 DEF Init, Judged
<1> QED
  BY <1>5 DEF IsJudged, judged

\* Every operation ends with a pass, from the statuses before or those a split leaves.
LEMMA NextJudges ==
  ASSUME Next
  PROVE  \/ JudgeAll(status)
         \/ airings' # airings /\ \E e \in Entries : JudgeAll(AfterSplit(e))
<1>1. CASE PromoteAll
  BY <1>1 DEF PromoteAll
<1>2. ASSUME NEW rec \in Recordings, ReplaceContext(rec)
      PROVE  JudgeAll(status)
  BY <1>2 DEF ReplaceContext
<1>3. ASSUME NEW rec \in Recordings, FindRepeats(rec), ~JudgeAll(status)
      PROVE  airings' # airings /\ \E e \in Entries : JudgeAll(AfterSplit(e))
  <2>1. PICK e \in Known : \E found \in FoundPiece(e, rec) :
          /\ MaySplit(e)
          /\ airings' = Divided(e, airings) \union {found}
          /\ JudgeAll(AfterSplit(e))
    BY <1>3 DEF FindRepeats
  <2>2. PICK found \in FoundPiece(e, rec) :
          /\ MaySplit(e)
          /\ airings' = Divided(e, airings) \union {found}
    BY <2>1
  <2>3. e \in Entries
    BY DEF Known
  <2>4. PICK i \in DOMAIN Pieces[e] : found.entry = Pieces[e][i]
    BY DEF FoundPiece, Airing
  <2>5. Pieces[e][i] \in Entries /\ Pieces[e][i] \in ToSet(Pieces[e])
    BY <2>3, LibraryAssumption DEF LibraryAssumption, ToSet
  <2>6. found \notin airings
    BY <2>2, <2>4, <2>5 DEF MaySplit, Known
  <2> QED
    BY <2>1, <2>2, <2>3, <2>6
<1> QED
  BY <1>1, <1>2, <1>3 DEF Next

\* JudgeAll leaves the statuses of a pass over the new facts.
LEMMA JudgeAllJudges ==
  ASSUME NEW before, JudgeAll(before)
  PROVE  status' = Judged(Facts', Promotions(before, Facts'))
BY DEF JudgeAll

\* The inductive invariant: every step judges all entries, or leaves what they were judged by.
LEMMA JudgedInductive == IsJudged /\ [Next]_vars => IsJudged'
<1> SUFFICES ASSUME IsJudged, [Next]_vars PROVE IsJudged'
  OBVIOUS
<1>1. CASE Next
  <2>1. ASSUME NEW before, JudgeAll(before) PROVE IsJudged'
    BY <2>1, JudgeAllJudges DEF IsJudged
  <2> QED
    BY <1>1, <2>1, NextJudges
<1>2. CASE UNCHANGED vars
  <2>1. Facts' = Facts /\ status' = status
    BY <1>2, SameFacts DEF vars
  <2> QED
    BY <2>1 DEF IsJudged
<1> QED
  BY <1>1, <1>2

\* In every state the statuses are those one pass of Search::save gives over its facts.
THEOREM AlwaysJudged == Spec => []IsJudged
<1> QED
  BY InitJudged, JudgedInductive, PTL DEF Spec

\* Evidence vetoes (promote, judge_chains, join_breaks): whatever recordings, contexts and
\* Evidence there are, and however they come, no entry is an ad while a logo was seen in
\* one of its airings.
THEOREM LogoVetoes == Spec => []AdsCarryNoLogo
<1>1. IsJudged => AdsCarryNoLogo
  BY JudgedNoLogo DEF IsJudged, AdsCarryNoLogo
<1> QED
  BY <1>1, AlwaysJudged, PTL

\* Judging again what did not change changes nothing (promote, Search::save): a pass keeps
\* no status that the next one would not give.
THEOREM Settles == Spec => OnePassSettles
<1>1. IsJudged /\ [Next]_vars => [UNCHANGED <<context, evidence, airings>> => UNCHANGED status]_vars
  <2> SUFFICES ASSUME IsJudged, Next, UNCHANGED <<context, evidence, airings>>
               PROVE  UNCHANGED status
    BY DEF vars
  <2>1. status' = Judged(Facts', Promotions(status, Facts'))
    BY NextJudges, JudgeAllJudges
  <2>2. Facts' = Facts
    BY SameFacts
  <2>3. PICK before : status = Judged(Facts, Promotions(before, Facts))
    BY DEF IsJudged
  <2>4. Promotions(status, Facts) = Promotions(before, Facts)
    BY <2>3, PromotionsAgain
  <2> QED
    BY <2>1, <2>2, <2>3, <2>4
<1> QED
  BY <1>1, AlwaysJudged, PTL DEF Spec, OnePassSettles

\* Every airing is of one of the recordings.
AiringsRecorded == \A a \in airings : a.rec \in Recordings

LEMMA RecordedInductive == /\ Init => AiringsRecorded
                           /\ AiringsRecorded /\ [Next]_vars => AiringsRecorded'
<1>1. Init => AiringsRecorded
  BY DEF Init, AiringsRecorded
<1>2. ASSUME AiringsRecorded, [Next]_vars PROVE AiringsRecorded'
  <2>1. CASE UNCHANGED airings
    BY <1>2, <2>1 DEF AiringsRecorded
  <2>2. ASSUME NEW rec \in Recordings, NEW some \in Found(rec), airings' = airings \union some
        PROVE  AiringsRecorded'
    <3>1. \A a \in some : a.rec \in Recordings
      BY DEF Found, Airing
    <3> QED
      BY <1>2, <2>2, <3>1 DEF AiringsRecorded
  <2>3. ASSUME NEW rec \in Recordings, NEW e, NEW one \in FoundPiece(e, rec),
               airings' = Divided(e, airings) \union {one}
        PROVE  AiringsRecorded'
    <3>1. one.rec \in Recordings
      BY DEF FoundPiece, Airing
    <3>2. \A a \in Divided(e, airings) : a.rec \in Recordings
      BY <1>2 DEF Divided, Airing, AiringsRecorded
    <3> QED
      BY <2>3, <3>1, <3>2 DEF AiringsRecorded
  <2> QED
    BY <1>2, <2>1, <2>2, <2>3 DEF Next, FindRepeats, ReplaceContext, PromoteAll, vars
<1> QED
  BY <1>1, <1>2

\* More ads put an entry beside ads in no fewer broadcasts.
LEMMA JoinsMore ==
  ASSUME AiringsRecorded, NEW e, NEW more, NEW ads \in SUBSET more, Joins(Facts, ads, e)
  PROVE  Joins(Facts, more, e)
<1>1. IsFiniteSet(SUBSET Recordings)
  BY FS_SUBSET, LibraryAssumption DEF LibraryAssumption
<1>2. \A a \in airings : Group(a.rec) \in SUBSET Recordings
  BY DEF Group, AiringsRecorded
<1>3. \A f \in Facts : f.group \in SUBSET Recordings
  <2> TAKE f \in Facts
  <2>1. PICK a \in airings : f = FactsOf(a, Group(a.rec))
    BY DEF Facts, Grouped
  <2>2. f.group = Group(a.rec)
    BY <2>1 DEF FactsOf
  <2> QED
    BY <1>2, <2>2
<1>4. BesideAds(Facts, e, more) \in SUBSET (SUBSET Recordings)
  BY <1>3 DEF BesideAds, Of
<1>5. BesideAds(Facts, e, ads) \in SUBSET BesideAds(Facts, e, more)
  BY DEF BesideAds
<1>6. IsFiniteSet(BesideAds(Facts, e, more))
  BY <1>1, <1>4, FS_Subset
<1>7. /\ Cardinality(BesideAds(Facts, e, ads)) <= Cardinality(BesideAds(Facts, e, more))
      /\ IsFiniteSet(BesideAds(Facts, e, ads))
  BY <1>5, <1>6, FS_Subset
<1>8. /\ Cardinality(BesideAds(Facts, e, ads)) \in Nat
      /\ Cardinality(BesideAds(Facts, e, more)) \in Nat
  BY <1>6, <1>7, FS_CardinalityType
<1> QED
  BY <1>7, <1>8, PromotionAssumption DEF Joins, PromotionAssumption

LEMMA JudgedGrounds == IsJudged /\ AiringsRecorded => AdsHaveAGround
<1> SUFFICES ASSUME IsJudged, AiringsRecorded,
                    NEW some \in SUBSET (Ads \ ByThemselves), some # {}
             PROVE  \E e \in some : Joins(Facts, Ads \ some, e)
  BY DEF AdsHaveAGround
<1>1. PICK before : status = Judged(Facts, Promotions(before, Facts))
  BY DEF IsJudged
<1> DEFINE judged == Promotions(before, Facts)
           own == OwnAds(Facts, judged)
<1>2. ByThemselves = own
  <2>1. Promotions(Forgotten, Facts) = judged
    BY <1>1, PromotionsForgotten DEF Forgotten
  <2> QED
    BY <2>1 DEF ByThemselves
<1> HIDE DEF judged
<1>3. \A e \in Entries : e \in Ads <=> e \in Joined(Facts, judged, own)
  <2>1. status = Judged(Facts, judged)
    BY <1>1 DEF judged
  <2> QED
    BY <2>1, AdsAre DEF Ads
<1>4. own \subseteq Entries
  BY DEF OwnAds, Chained
<1> HIDE DEF own
<1>5. some \subseteq Joined(Facts, judged, own) \ own
  BY <1>2, <1>3 DEF Ads
<1>6. PICK e \in some, earlier \in SUBSET (Joined(Facts, judged, own) \ some) : Joins(Facts, earlier, e)
  BY <1>5, JoinedFrom
<1>7. Joined(Facts, judged, own) \subseteq Entries
  BY <1>4, JoinedJoinable DEF Joinable
<1>8. earlier \in SUBSET (Ads \ some)
  BY <1>3, <1>6, <1>7
<1>9. Joins(Facts, Ads \ some, e)
  BY <1>6, <1>8, JoinsMore
<1> QED
  BY <1>9

\* Ads fill breaks outwards (join_breaks): of any entries that are ads only for what they
\* lie next to, one lies next to ads outside of them in enough broadcasts, so none are ads
\* for each other's sake alone.
THEOREM BreaksGrowFromAds == Spec => []AdsHaveAGround
<1>1. Spec => []AiringsRecorded
  BY RecordedInductive, PTL DEF Spec
<1> QED
  BY <1>1, AlwaysJudged, JudgedGrounds, PTL
=============================================================================
