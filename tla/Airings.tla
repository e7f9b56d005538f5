------------------------------- MODULE Airings -------------------------------
(* The search for repeats (Library::find_repeats, fingerprint/library.cpp): the *)
(* store's code streams, the entries cut from them and the airings of every      *)
(* entry. A search of a recording finds where it agrees with the entries, with   *)
(* itself and with the other recordings, cuts those stretches at the edges of    *)
(* the airings it knows, and splits entries whose airings agree on a part only.  *)
(*                                                                               *)
(* Codes agree when they are equal (codes_agree allows some bits to differ), a    *)
(* recording has one run, and lengths count codes. Statuses are in Promotion.    *)
EXTENDS Integers, Sequences, FiniteSets, SequencesExt, FiniteSetsExt

CONSTANTS
  Streams,   \* the recordings that may be broadcast: sequences of streams of codes
  Shortest,  \* codes of 3 s, the shortest repeat
  Apart,     \* codes of 20 s, the distance of two copies in one recording
  MaxSteps   \* bound: streams stored and searches run

VARIABLES
  streams,   \* the recordings as broadcast
  stored,    \* how many codes of each recording are in the store
  entries,   \* the codes of each entry
  airings,   \* of each airing its entry, its recording, the codes begin .. end - 1 it covers,
             \* how many of the entry's codes come before (part), and whether it stopped
             \* at a run's edge or a cut (cutStart, cutEnd)
  searched,  \* the recording searched last when nothing was stored since, or 0
  steps

vars == <<streams, stored, entries, airings, searched, steps>>

Init ==
  /\ streams \in Streams
  /\ stored = [rec \in DOMAIN streams |-> 0]
  /\ entries = <<>> /\ airings = {}
  /\ searched = 0 /\ steps = 0

Codes(rec) == SubSeq(streams[rec], 1, stored[rec])

\* Library::add_stream: more of the recording replaces the shorter copy.
AddStream(rec) ==
  /\ steps < MaxSteps
  /\ \E size \in {Min({2 * Shortest, Len(streams[rec])}), Len(streams[rec])} :
       size > stored[rec] /\ stored' = [stored EXCEPT ![rec] = size]
  /\ searched' = 0 /\ steps' = steps + 1
  /\ UNCHANGED <<streams, entries, airings>>

------------------------------------------------------------------------------
(* Matches (fingerprint/matching.cpp). *)

\* Where two sequences agree, extended both ways as far as they agree.
Agreements(x, y) ==
  {m \in [a : 1..Len(x), b : 1..Len(y), len : Shortest..Max({Len(x), Shortest})] :
     /\ m.a + m.len - 1 <= Len(x) /\ m.b + m.len - 1 <= Len(y)
     /\ \A k \in 0..m.len - 1 : x[m.a + k] = y[m.b + k]
     /\ m.a = 1 \/ m.b = 1 \/ x[m.a - 1] # y[m.b - 1]
     /\ m.a + m.len > Len(x) \/ m.b + m.len > Len(y) \/ x[m.a + m.len] # y[m.b + m.len]}

\* Two copies inside one sequence, apart, the first ending where the second begins.
SelfAgreements(x) ==
  {m \in {[n EXCEPT !.len = Min({n.len, n.b - n.a})] :
            n \in {n \in Agreements(x, x) : n.b - n.a >= Apart}} : m.len >= Shortest}

\* The edges of a match: where it stopped at the edge of a sequence.
Matched(m, x, y, with) ==
  [a |-> m.a, b |-> m.b, len |-> m.len, with |-> with,
   aStart |-> m.a = 1, aEnd |-> m.a + m.len > Len(x),
   bStart |-> m.b = 1, bEnd |-> m.b + m.len > Len(y)]

\* longest_first
LongestFirst(m, n) ==
  \/ m.len > n.len
  \/ m.len = n.len /\ m.a < n.a
  \/ m.len = n.len /\ m.a = n.a /\ m.with < n.with
  \/ m.len = n.len /\ m.a = n.a /\ m.with = n.with /\ m.b < n.b

EntryMatches(own) ==
  SetToSortSeq(UNION {{Matched(m, own, entries[id], id) : m \in Agreements(own, entries[id])} :
                        id \in DOMAIN entries}, LongestFirst)

\* Of a recording with itself, then with each other one in the store's order.
PairMatches(rec) ==
  LET with(other) ==
        SetToSortSeq({Matched(m, Codes(rec), Codes(other), other) :
                        m \in IF other = rec THEN SelfAgreements(Codes(rec))
                                             ELSE Agreements(Codes(rec), Codes(other))},
                     LongestFirst)
      others == SetToSortSeq(DOMAIN streams \ {rec}, <)
  IN FlattenSeq([i \in 1..Len(others) + 1 |-> with((<<rec>> \o others)[i])])

------------------------------------------------------------------------------
(* The working copy of a search: entries, airings and the entries it touched. *)

EdgesInside(known, rec, from, to) ==
  {edge \in UNION {{x.begin, x.end} : x \in {x \in known : x.rec = rec}} :
     from < edge /\ edge < to}

Covering(known, rec, at) == {x \in known : x.rec = rec /\ x.begin <= at /\ at < x.end}

\* The pieces of a match between its cuts, long enough to be a repeat.
CutInto(len, inner) ==
  LET cuts == inner \union {0, len}
  IN SetToSortSeq({p \in cuts \X cuts : /\ p[2] - p[1] >= Shortest
                                        /\ \A c \in cuts : c <= p[1] \/ p[2] <= c},
                  LAMBDA p, q : p[1] < q[1])

Airing(id, rec, begin, p, part, cutStart, cutEnd) ==
  [entry |-> id, rec |-> rec, begin |-> begin + p[1], end |-> begin + p[2], part |-> part,
   cutStart |-> cutStart, cutEnd |-> cutEnd]

AddAirings(s, id, new) ==
  [s EXCEPT !.airings = @ \union new, !.touched = IF new = {} THEN @ ELSE @ \union {id}]

\* A stretch agrees with an entry: its parts that are no airings yet become airings.
MatchEntry(s, rec, m) ==
  LET inner == {e - m.a : e \in EdgesInside(s.airings, rec, m.a, m.a + m.len)}
      unknown == {p \in ToSet(CutInto(m.len, inner)) :
                    Covering(s.airings, rec, m.a + (p[1] + p[2]) \div 2) = {}}
  IN AddAirings(s, m.with,
       {Airing(m.with, rec, m.a, p, m.b - 1 + p[1], p[1] > 0 \/ m.aStart,
               p[2] < m.len \/ m.aEnd) : p \in unknown})

\* A piece known on one side becomes an airing of that entry on the other.  It lies inside
\* the known airing, so it needs no clamp to the entry's codes.
Extend(s, known, at, new) ==
  AddAirings(s, known.entry,
    {[new EXCEPT !.entry = known.entry, !.part = known.part + (at - known.begin)]})

\* A piece known on neither side becomes an entry with two airings.
Discover(s, one, two) ==
  LET id == Len(s.entries) + 1
  IN AddAirings([s EXCEPT !.entries = Append(@, SubSeq(Codes(one.rec), one.begin, one.end - 1))],
       id, {[one EXCEPT !.entry = id], [two EXCEPT !.entry = id]})

AddPiece(s, rec, other, m, p) ==
  LET middle == (p[1] + p[2]) \div 2
      first  == Covering(s.airings, rec, m.a + middle)
      second == Covering(s.airings, other, m.b + middle)
      one == Airing(0, rec, m.a, p, 0, p[1] > 0 \/ m.aStart, p[2] < m.len \/ m.aEnd)
      two == Airing(0, other, m.b, p, 0, p[1] > 0 \/ m.bStart, p[2] < m.len \/ m.bEnd)
  IN CASE first # {} /\ second # {} -> s
       [] first # {} /\ second = {} -> Extend(s, CHOOSE x \in first : TRUE, one.begin, two)
       [] first = {} /\ second # {} -> Extend(s, CHOOSE x \in second : TRUE, two.begin, one)
       [] OTHER -> Discover(s, one, two)

\* A repeat between two stretches, cut at the edges of the airings of either side.
PairCuts(s, rec, other, m) ==
  {e - m.a : e \in EdgesInside(s.airings, rec, m.a, m.a + m.len)}
    \union {e - m.b : e \in EdgesInside(s.airings, other, m.b, m.b + m.len)}

AddPair(s, rec, m) ==
  FoldLeft(LAMBDA t, p : AddPiece(t, rec, m.with, m, p), s,
           CutInto(m.len, PairCuts(s, rec, m.with, m)))

------------------------------------------------------------------------------
(* Entries whose airings agree on a part only are split there. *)

Members(s, id) == {x \in s.airings : x.entry = id}
PartEnd(x) == x.part + x.end - x.begin

SplitPoints(s, id) ==
  {point \in {x.part : x \in {x \in Members(s, id) : ~x.cutStart}}
              \union {PartEnd(x) : x \in {x \in Members(s, id) : ~x.cutEnd}} :
     point \in Shortest..(Len(s.entries[id]) - Shortest)}

\* The cuts of an entry, from its start to its end, far enough from one another.
SplitCuts(s, id) ==
  Append(FoldLeft(LAMBDA cuts, point : IF point - Last(cuts) >= Shortest THEN Append(cuts, point)
                                                                       ELSE cuts,
                  <<0>>, SetToSortSeq(SplitPoints(s, id), <)),
         Len(s.entries[id]))

\* Mutant of PartOf: the offset in the piece is not taken from its own start.
PartOfWhole(x, id, from, to) ==
  LET begin == Max({x.part, from})
      end   == Min({PartEnd(x), to})
  IN [x EXCEPT !.entry = id, !.begin = x.begin + (begin - x.part),
               !.end = x.begin + (end - x.part), !.part = begin,
               !.cutStart = (begin = x.part) => x.cutStart,
               !.cutEnd = (end = PartEnd(x)) => x.cutEnd]

\* The part of an airing inside codes from .. to - 1 of its entry, as an airing of a piece.
PartOf(x, id, from, to) ==
  LET begin == Max({x.part, from})
      end   == Min({PartEnd(x), to})
  IN [x EXCEPT !.entry = id, !.begin = x.begin + (begin - x.part),
               !.end = x.begin + (end - x.part), !.part = begin - from,
               !.cutStart = (begin = x.part) => x.cutStart,
               !.cutEnd = (end = PartEnd(x)) => x.cutEnd]

SplitEntry(s, id) ==
  LET cuts == SplitCuts(s, id)
      n    == Len(s.entries)
      name(i) == IF i = 1 THEN id ELSE n + i - 1
      piece(i) == SubSeq(s.entries[id], cuts[i] + 1, cuts[i + 1])
      parts(i) == {x \in {PartOf(y, name(i), cuts[i], cuts[i + 1]) : y \in Members(s, id)} :
                     x.end - x.begin >= Shortest}
  IN IF Len(cuts) = 2 THEN s
     ELSE [s EXCEPT
             !.entries = [s.entries EXCEPT ![id] = piece(1)] \o [i \in 1..Len(cuts) - 2 |-> piece(i + 1)],
             !.airings = (s.airings \ Members(s, id)) \union UNION {parts(i) : i \in 1..Len(cuts) - 1}]

\* New entries (numbered below zero in the code) from the last made, then the old ones.
SplitEntries(s) ==
  LET new(id) == id > Len(entries)
  IN FoldLeft(SplitEntry, s,
       SetToSortSeq(s.touched, LAMBDA x, y : IF new(x) THEN ~new(y) \/ x > y ELSE ~new(y) /\ x < y))

\* write_entry: new entries get their rows from the last made to the first.
Saved(s) ==
  LET old == Len(entries)
      n   == Len(s.entries)
      row(id) == IF id <= old THEN id ELSE n + old + 1 - id
  IN [entries |-> [id \in 1..n |-> s.entries[row(id)]],
      airings |-> {[x EXCEPT !.entry = row(@)] : x \in s.airings}]

\* Search::run, over the store as it is.
Gathered(rec) ==
  LET start == [entries |-> entries, airings |-> airings, touched |-> {}]
      matched == FoldLeft(LAMBDA s, m : MatchEntry(s, rec, m), start, EntryMatches(Codes(rec)))
  IN FoldLeft(LAMBDA s, m : AddPair(s, rec, m), matched, PairMatches(rec))

Search(rec) == Saved(SplitEntries(Gathered(rec)))

\* Library::find_repeats, in one transaction.
FindRepeats(rec) ==
  /\ steps < MaxSteps /\ stored[rec] > 0
  /\ \E result \in {Search(rec)} : entries' = result.entries /\ airings' = result.airings
  /\ searched' = rec /\ steps' = steps + 1
  /\ UNCHANGED <<streams, stored>>

Next == \E rec \in DOMAIN streams : AddStream(rec) \/ FindRepeats(rec)

Spec == Init /\ [][Next]_vars

------------------------------------------------------------------------------
(* Correctness. *)

\* No code of a recording is in two airings: an airing is cut where another begins.
AiringsApart ==
  \A x, y \in airings : x.rec = y.rec /\ x # y => x.end <= y.begin \/ y.end <= x.begin

\* An airing holds the codes of the part of the entry it stands for, at least 3 s of them,
\* also after its entry was split.
AiringsAgree ==
  \A x \in airings :
    /\ x.end - x.begin >= Shortest /\ PartEnd(x) <= Len(entries[x.entry])
    /\ SubSeq(Codes(x.rec), x.begin, x.end - 1)
         = SubSeq(entries[x.entry], x.part + 1, PartEnd(x))

\* A search repeated at once finds nothing more.
SearchSettles == searched # 0 => Gathered(searched).touched = {}
=============================================================================
