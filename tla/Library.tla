------------------------------- MODULE Library -------------------------------
(* The Library's statuses over its life (fingerprint/library.cpp): every search    *)
(* and every new context judges all entries again (module Promotion), each from    *)
(* the status it has, by the airings, contexts and Evidence of all recordings.     *)
(*                                                                                 *)
(* A search may find any airings that do not overlap others, and may split entries *)
(* (module Airings has the search itself). A recording holds one programme.        *)
EXTENDS Promotion

CONSTANTS
  Starts,           \* of each entry, where airings of it may start
  Pieces,           \* of each entry, the entries a split leaves; <<>> if it never splits
  Recordings,
  Contexts,         \* what the app may say of a recording: [series, network, channel, event]
  FirstContexts,    \* bound: what it says of all at first
  EvidenceChoices,  \* what comskip may say of one: [known, seams, logo]
  ProgrammeLength,
  MaxAirings,       \* bound: airings of all entries
  MaxContexts       \* bound: contexts replaced

ASSUME LibraryAssumption ==
  /\ IsFiniteSet(Recordings)
  /\ Starts \in [Entries -> SUBSET Nat] /\ Pieces \in [Entries -> Seq(Entries)]
  /\ Contexts \subseteq [series : Nat, network : Nat, channel : Nat, event : BOOLEAN]
  /\ FirstContexts \subseteq [Recordings -> Contexts]
  /\ {ProgrammeLength, MaxAirings, MaxContexts} \subseteq Nat

None == [known |-> FALSE, seams |-> {}, logo |-> {}]  \* no Evidence

VARIABLES
  context,   \* of each recording
  evidence,  \* of each recording
  airings,   \* [entry, rec, start]
  status,    \* of each entry
  replaced   \* contexts replaced

vars == <<context, evidence, airings, status, replaced>>

End(a) == a.start + Length[a.entry]

------------------------------------------------------------------------------
(* link_broadcasts(): recordings that share a repeat of three minutes. *)

SameBroadcast == 180
Reruns == {a \in airings : Length[a.entry] >= SameBroadcast}
Sharing(recs) == {b.rec : b \in {b \in Reruns : \E a \in Reruns : a.entry = b.entry /\ a.rec \in recs}}

\* The least set of recordings with rec and all that share a repeat with one of them.
Group(rec) ==
  IF \A a \in Reruns : a.rec # rec THEN {rec}
  ELSE {other \in Recordings :
          \A group \in SUBSET Recordings :
            rec \in group /\ Sharing(group) \subseteq group => other \in group}

Least(values) == IF values \ {Unknown} = {} THEN Unknown ELSE Min(values \ {Unknown})

\* One series key, network and channel for all recordings of a broadcast, if several have
\* it; a group with an event is a broadcast of its own.
Broadcast(group) ==
  IF \E r \in group : context[r].event THEN [series |-> Unknown, group |-> group]
  ELSE [series |-> IF Cardinality(group) > 1 THEN Least({context[r].series : r \in group}) ELSE Unknown,
        group |-> {}]
PlaceOf(group) ==
  IF Cardinality(group) > 1
  THEN [network |-> Least({context[r].network : r \in group}),
        channel |-> Least({context[r].channel : r \in group})]
  ELSE [network |-> Unknown, channel |-> Unknown]

------------------------------------------------------------------------------
(* facts_of() and apply_evidence(): what is known of an airing. *)

SeamReach == 1
SeamNear(rec, time) == \E seam \in evidence[rec].seams : Distance(seam, time) <= SeamReach

Overlap(a, logo) == Max({0, Min({End(a), logo.to}) - Max({a.start, logo.from})})
Shown(a, logos) == MapThenSumSet(LAMBDA logo : Overlap(a, logo), logos)

FactsOf(a, group) ==
  LET said == context[a.rec]
      linked == Broadcast(group) # NoBroadcast
      place == IF linked THEN PlaceOf(group) ELSE [network |-> said.network, channel |-> said.channel]
  IN [entry |-> a.entry, rec |-> a.rec, group |-> group,
      start |-> a.start, end |-> End(a), programme |-> ProgrammeLength, series |-> said.series,
      broadcast |-> IF linked THEN Broadcast(group) ELSE [series |-> said.series, group |-> {}],
      network |-> place.network, channel |-> place.channel,
      known |-> evidence[a.rec].known,
      seams |-> SeamNear(a.rec, a.start) /\ SeamNear(a.rec, End(a)),
      logo |-> Shown(a, evidence[a.rec].logo)]

Grouped == {[airing |-> a, group |-> Group(a.rec)] : a \in airings}
Facts == {FactsOf(g.airing, g.group) : g \in Grouped}

\* save(): every entry of the new store is judged, from the status it had.
JudgeAll(before) ==
  \E facts \in {Facts'} : \E judged \in {Promotions(before, facts)} : status' = Judged(facts, judged)

------------------------------------------------------------------------------
(* The operations. *)

Init ==
  /\ context \in FirstContexts
  /\ evidence = [rec \in Recordings |-> None]
  /\ airings = {}
  /\ status = [e \in Entries |-> "candidate"]
  /\ replaced = 0

Free(some, new) ==
  \A a \in some : a.rec = new.rec => End(a) <= new.start \/ End(new) <= a.start
Airing(e, rec, start) == [entry |-> e, rec |-> rec, start |-> start]

\* Nothing new; one more airing of a known entry; or a new entry aired twice, here and
\* in a recording searched before, or twice here.
Known == {e \in Entries : \E a \in airings : a.entry = e}
Found(rec) ==
  {{}}
  \union {{a} : a \in UNION {{Airing(e, rec, s) : s \in Starts[e]} : e \in Known}}
  \union UNION {{{Airing(e, rec, s), Airing(e, other, t)} : s, t \in Starts[e], other \in Recordings} :
                  e \in Entries \ Known}
Fits(found) ==
  /\ \A a \in found : Free(airings \union (found \ {a}), a)
  /\ \A a \in found : a.entry \in Known \/ Cardinality(found) = 2
  /\ Cardinality(airings \union found) <= MaxAirings

\* split_entries(): a stretch that agrees with only a piece of the entry splits it; its
\* airings become airings of its pieces, which keep a final status.
PieceStart(e, i) == MapThenSumSet(LAMBDA j : Length[Pieces[e][j]], 1..i - 1)
Divided(e, some) ==
  {Airing(Pieces[e][i], a.rec, a.start + PieceStart(e, i)) : a \in {a \in some : a.entry = e}, i \in DOMAIN Pieces[e]}
    \union {a \in some : a.entry # e}
FoundPiece(e, rec) ==
  {Airing(Pieces[e][i], rec, s + PieceStart(e, i)) : s \in Starts[e], i \in DOMAIN Pieces[e]}
MaySplit(e) == /\ Pieces[e] # <<>> /\ Cardinality(airings) < MaxAirings
               /\ ToSet(Pieces[e]) \intersect Known = {}
AfterSplit(e) ==
  [p \in Entries |-> IF p = e THEN "candidate"
                     ELSE IF p \notin ToSet(Pieces[e]) THEN status[p]
                     ELSE IF status[e] \in Final THEN status[e] ELSE "candidate"]

\* Library::find_repeats; Evidence, when given, is kept for the recording.
FindRepeats(rec) ==
  /\ \/ UNCHANGED evidence
     \/ evidence[rec] = None /\ \E new \in EvidenceChoices : evidence' = [evidence EXCEPT ![rec] = new]
  /\ UNCHANGED <<context, replaced>>
  /\ \/ \E found \in Found(rec) :
          /\ Fits(found)
          /\ airings' = airings \union found
          /\ JudgeAll(status)
     \/ \E e \in Known : \E found \in FoundPiece(e, rec) :
          /\ MaySplit(e) /\ Free(airings, found)
          /\ airings' = Divided(e, airings) \union {found}
          /\ JudgeAll(AfterSplit(e))

\* Library::replace_context, then Library::promote_all.
ReplaceContext(rec) ==
  /\ replaced < MaxContexts /\ replaced' = replaced + 1
  /\ \E new \in Contexts \ {context[rec]} : context' = [context EXCEPT ![rec] = new]
  /\ UNCHANGED <<evidence, airings>>
  /\ JudgeAll(status)

\* Library::promote_all
PromoteAll ==
  /\ UNCHANGED <<context, evidence, airings, replaced>>
  /\ JudgeAll(status)

Next ==
  \/ \E rec \in Recordings : FindRepeats(rec) \/ ReplaceContext(rec)
  \/ PromoteAll

Spec == Init /\ [][Next]_vars

------------------------------------------------------------------------------
(* Correctness. *)

\* Evidence vetoes: no entry is an ad, by whichever rule, chain or break, while a logo was
\* seen in an airing of it.
AdsCarryNoLogo == \A e \in Entries : status[e] = "ad" => NoLogoSeen(Of(Facts, e))

\* One pass of the rules settles: judging again what did not change changes no status,
\* although each pass starts from the statuses the last one left.
OnePassSettles == [][UNCHANGED <<context, evidence, airings>> => UNCHANGED status]_vars

\* Ads fill breaks outwards: entries that are no ads by themselves, whatever they were
\* before, are not ads for each other's sake alone.  Of any of them one lies beside ads
\* outside of them in enough broadcasts.
Ads == {e \in Entries : status[e] = "ad"}
Forgotten == [e \in Entries |-> IF status[e] = "ad" THEN "candidate" ELSE status[e]]
ByThemselves == OwnAds(Facts, Promotions(Forgotten, Facts))
AdsHaveAGround ==
  \A some \in SUBSET (Ads \ ByThemselves) :
    some # {} => \E e \in some : Joins(Facts, Ads \ some, e)

\* library.h: a theme "an airing in that series breaks the rule for becomes programme";
\* the comment in promote(): "it is a series' own audio, so it never becomes an ad".
Broken(some) == SeriesHolds(some) /\ ThemeOf(some) = {}
BrokenThemeIsProgramme ==
  [][\A e \in Entries :
       (status[e] \in {"intro", "credits"} /\ Broken(Of(Facts', e))) => status'[e] = "programme"]_vars
=============================================================================
