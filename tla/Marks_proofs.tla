---------------------------- MODULE Marks_proofs ----------------------------
(***************************************************************************)
(* Proofs about the marks.                                                 *)
(*                                                                         *)
(* combine() is a chain of passes over stretches (merge, join, extend,     *)
(* merge).  Each pass has a lemma that says three things of it: its result *)
(* is stretches; each of what it was given is within one of them; and they *)
(* add little: an interval longer than the pass bridges, which none of     *)
(* what it was given shares time with, shares none with its result.  The   *)
(* lemmas chain, whatever the stretches are, to what MarksSound says; and  *)
(* a second chain follows what is not agreed through the same passes.      *)
(*                                                                         *)
(* Of the loop that publishes them, the invariant is LiveInv: the history  *)
(* remembers exactly the ad marks last published, each since it is there   *)
(* with these edges, whichever earlier mark each new one is taken for.     *)
(***************************************************************************)
EXTENDS MCMarks, FiniteSetTheorems, WellFoundedInduction, NaturalsInduction, TLAPS

\* Induction, in the form the provers can use: a set of naturals has a least element.
LEMMA LeastNatural ==
  ASSUME NEW T \in SUBSET Nat, T # {}
  PROVE  \E m \in T : \A n \in T : m <= n
<1> DEFINE R == OpToRel(<, Nat)
<1>1. IsWellFoundedOn(R, Nat)
  BY NatLessThanWellFounded
<1>2. \A x, y \in Nat : <<y, x>> \in R <=> y < x
  BY DEF OpToRel
<1> HIDE DEF R
<1>3. PICK m \in T : \A n \in T : ~(<<n, m>> \in R)
  BY <1>1, WFMin
<1>4. \A n \in T : m \in Nat /\ n \in Nat /\ ~(n < m)
  BY <1>2, <1>3
<1> QED BY <1>4

\* A set of times has an earliest and a latest one.
LEMMA Earliest ==
  ASSUME NEW T \in SUBSET Times, T # {}
  PROVE  \E m \in T : \A n \in T : m <= n
<1>1. \A t \in Times : t \in Nat
  <2>1. Horizon \in Nat
    BY InputsAssumption
  <2> QED BY <2>1 DEF Times
<1>2. T \in SUBSET Nat
  BY <1>1
<1> QED BY <1>2, LeastNatural

LEMMA Latest ==
  ASSUME NEW T \in SUBSET Times, T # {}
  PROVE  \E m \in T : \A n \in T : m >= n
<1> DEFINE D == {Horizon - n : n \in T}
<1>1. D \in SUBSET Nat /\ D # {}
  <2>1. ASSUME NEW n \in T PROVE Horizon - n \in Nat
    <3>1. n \in Times
      OBVIOUS
    <3>2. Horizon \in Nat
      BY InputsAssumption
    <3> QED BY <3>1, <3>2 DEF Times
  <2> QED BY <2>1
<1>2. PICK d \in D : \A e \in D : d <= e
  BY <1>1, LeastNatural
<1>3. PICK m \in T : d = Horizon - m
  BY <1>2
<1>4. ASSUME NEW n \in T PROVE m >= n
  <2>1. Horizon - n \in D
    OBVIOUS
  <2>2. Horizon - m <= Horizon - n
    BY <1>2, <1>3, <2>1
  <2> QED BY <2>2, InputsAssumption DEF Times
<1> QED BY <1>3, <1>4

(* Stretches. *)

Stretch == [from : Times, to : Times, fingerprint : BOOLEAN, comskip : BOOLEAN, unconfirmed : BOOLEAN]
\* A set of stretches none of which is empty.
AreStretches(S) == \A s \in S : s \in Stretch /\ s.from < s.to

Within(s, t) == t.from <= s.from /\ s.to <= t.to
\* What begins at `from` and ends at `to` shares some time with a stretch.
Overlaps(from, to, s) == s.from < to /\ from < s.to

\* The hull of stretches begins with one of them, ends with one and holds all.
LEMMA HullIs ==
  ASSUME NEW S, S # {}, AreStretches(S)
  PROVE  /\ Hull(S) \in Stretch /\ Hull(S).from < Hull(S).to
         /\ \A s \in S : Within(s, Hull(S))
         /\ \E s \in S : Hull(S).from = s.from
         /\ \E s \in S : Hull(S).to = s.to
<1>1. PICK a \in {s.from : s \in S} : \A s \in S : a <= s.from
  <2>1. {s.from : s \in S} \in SUBSET Times /\ {s.from : s \in S} # {}
    BY DEF AreStretches, Stretch
  <2>2. PICK m \in {s.from : s \in S} : \A n \in {s.from : s \in S} : m <= n
    BY <2>1, Earliest
  <2> QED BY <2>2
<1>2. PICK b \in {s.to : s \in S} : \A s \in S : b >= s.to
  <2>1. {s.to : s \in S} \in SUBSET Times /\ {s.to : s \in S} # {}
    BY DEF AreStretches, Stretch
  <2>2. PICK m \in {s.to : s \in S} : \A n \in {s.to : s \in S} : m >= n
    BY <2>1, Latest
  <2> QED BY <2>2
<1>3. PICK from : from = CHOOSE t \in {s.from : s \in S} : \A s \in S : t <= s.from
  OBVIOUS
<1>4. PICK to : to = CHOOSE t \in {s.to : s \in S} : \A s \in S : t >= s.to
  OBVIOUS
<1>5. from \in {s.from : s \in S} /\ \A s \in S : from <= s.from
  BY <1>1, <1>3
<1>6. to \in {s.to : s \in S} /\ \A s \in S : to >= s.to
  BY <1>2, <1>4
<1>7. from \in Times /\ to \in Times
  BY <1>5, <1>6 DEF AreStretches, Stretch
<1>8. PICK f, c, u : /\ f = (\E s \in S : s.fingerprint) /\ c = (\E s \in S : s.comskip)
                     /\ u = (\E s \in S : s.unconfirmed) /\ f \in BOOLEAN /\ c \in BOOLEAN /\ u \in BOOLEAN
  OBVIOUS
<1>9. Hull(S) = [from |-> from, to |-> to, fingerprint |-> f, comskip |-> c, unconfirmed |-> u]
  BY <1>3, <1>4, <1>8 DEF Hull
<1>10. Hull(S) \in Stretch /\ Hull(S).from = from /\ Hull(S).to = to
  BY <1>7, <1>8, <1>9 DEF Stretch
<1>11. from < to
  <2>1. PICK s \in S : from = s.from
    BY <1>5
  <2>2. s.from < s.to /\ s.to <= to /\ s.from \in Times /\ s.to \in Times
    BY <1>6, <2>1 DEF AreStretches, Stretch
  <2> QED BY <1>7, <2>1, <2>2, InputsAssumption DEF Times
<1> QED BY <1>5, <1>6, <1>10, <1>11 DEF Within

\* Every stretch is in the group of one that begins a group, if the earliest begin one.
LEMMA GroupsCover ==
  ASSUME NEW S, AreStretches(S), NEW firsts \in SUBSET S,
         \A x \in S : (\A t \in S : x.from <= t.from) => x \in firsts,
         NEW s \in S
  PROVE  \E f \in firsts : s \in Group(S, firsts, f)
<1> DEFINE before == {f.from : f \in {g \in firsts : g.from <= s.from}}
<1>1. before \in SUBSET Times
  BY DEF AreStretches, Stretch
<1>2. before # {}
  <2>1. {x.from : x \in S} \in SUBSET Times /\ {x.from : x \in S} # {}
    BY DEF AreStretches, Stretch
  <2>2. PICK m \in {x.from : x \in S} : \A n \in {x.from : x \in S} : m <= n
    BY <2>1, Earliest
  <2>3. PICK x \in S : m = x.from
    BY <2>2
  <2>4. x \in firsts /\ x.from <= s.from
    BY <2>2, <2>3
  <2> QED BY <2>4
<1>3. PICK m \in before : \A n \in before : m >= n
  BY <1>1, <1>2, Latest
<1>4. PICK f \in firsts : f.from = m /\ f.from <= s.from
  BY <1>3
<1>5. ASSUME NEW g \in firsts, g.from > f.from, g.from <= s.from PROVE FALSE
  <2>1. g.from \in before
    BY <1>5
  <2>2. f.from \in Times /\ g.from \in Times /\ m >= g.from
    BY <1>3, <2>1 DEF AreStretches, Stretch
  <2> QED BY <1>4, <1>5, <2>2, InputsAssumption DEF Times
<1>6. s.from >= f.from
  BY <1>4, InputsAssumption DEF AreStretches, Stretch, Times
<1> QED BY <1>4, <1>5, <1>6 DEF Group

\* A group is not empty, begins with its first and ends before the next begins.
LEMMA GroupIs ==
  ASSUME NEW S, AreStretches(S), NEW firsts \in SUBSET S, NEW f \in firsts
  PROVE  /\ f \in Group(S, firsts, f) /\ Group(S, firsts, f) \subseteq S
         /\ AreStretches(Group(S, firsts, f))
         /\ Hull(Group(S, firsts, f)) \in Stretch
         /\ Hull(Group(S, firsts, f)).from < Hull(Group(S, firsts, f)).to
         /\ Hull(Group(S, firsts, f)).from = f.from
         /\ \A s \in Group(S, firsts, f) : Within(s, Hull(Group(S, firsts, f)))
         /\ \E s \in Group(S, firsts, f) : Hull(Group(S, firsts, f)).to = s.to
<1> DEFINE G == Group(S, firsts, f)
<1>1. f \in G
  <2>1. f.from >= f.from /\ ~\E g \in firsts : g.from > f.from /\ g.from <= f.from
    BY InputsAssumption DEF AreStretches, Stretch, Times
  <2> QED BY <2>1 DEF Group
<1>2. G \subseteq S /\ AreStretches(G) /\ \A s \in G : s.from >= f.from
  BY DEF Group, AreStretches
<1> HIDE DEF G
<1>3. /\ Hull(G) \in Stretch /\ Hull(G).from < Hull(G).to
      /\ \A s \in G : Within(s, Hull(G))
      /\ \E s \in G : Hull(G).from = s.from
      /\ \E s \in G : Hull(G).to = s.to
  BY <1>1, <1>2, HullIs
<1>4. Hull(G).from = f.from
  <2>1. PICK s \in G : Hull(G).from = s.from
    BY <1>3
  <2>2. s.from >= f.from /\ Hull(G).from <= f.from /\ s.from \in Times /\ f.from \in Times
    BY <1>1, <1>2, <1>3, <2>1 DEF Within, AreStretches, Stretch
  <2> QED BY <2>1, <2>2, InputsAssumption DEF Times
<1> QED BY <1>1, <1>2, <1>3, <1>4 DEF G

\* merge_overlapping(): what it merges is in one merged stretch, merged stretches are further apart
\* than adjacent ones, and what is long enough to show cannot lie in one beside all it was made of.
LEMMA MergedIs ==
  ASSUME NEW S, AreStretches(S)
  PROVE  /\ AreStretches(Merged(S))
         /\ \A s \in S : \E h \in Merged(S) : Within(s, h)
         /\ \A a, b \in Merged(S) : a = b \/ a.to + Adjacent < b.from \/ b.to + Adjacent < a.from
         /\ \A h \in Merged(S), from \in Times, to \in Times :
              from + Adjacent < to /\ Overlaps(from, to, h) => \E s \in S : Overlaps(from, to, s)
<1> DEFINE firsts == {s \in S : Begins(S, s)}
           Of(f) == Group(S, firsts, f)
<1>1. Merged(S) = {Hull(Of(f)) : f \in firsts}
  BY DEF Merged
<1>2. firsts \in SUBSET S
  OBVIOUS
<1>3. \A x \in S : (\A t \in S : x.from <= t.from) => x \in firsts
  BY InputsAssumption DEF Begins, AreStretches, Stretch, Times
<1>4. \A f, s \in S : Begins(S, f) /\ s.from < f.from => s.to + Adjacent < f.from
  BY DEF Begins
<1>5. \A f \in firsts : \A s : s \in Of(f) <=>
        s \in S /\ s.from >= f.from /\ ~\E g \in firsts : g.from > f.from /\ g.from <= s.from
  BY DEF Group
<1>6. \A f \in firsts : Begins(S, f) /\ f \in S
  OBVIOUS
<1>7. ASSUME NEW x \in S, \A t \in S : t.from < x.from => t.to + Adjacent < x.from PROVE x \in firsts
  BY <1>7 DEF Begins
<1> HIDE DEF firsts
<1>8. ASSUME NEW f \in firsts
      PROVE  /\ f \in Of(f) /\ Of(f) \subseteq S /\ Hull(Of(f)) \in Stretch /\ Hull(Of(f)).from < Hull(Of(f)).to
             /\ Hull(Of(f)).from = f.from /\ \A s \in Of(f) : Within(s, Hull(Of(f)))
             /\ \E s \in Of(f) : Hull(Of(f)).to = s.to
  BY <1>2, GroupIs
<1> HIDE DEF Of
<1>9. AreStretches(Merged(S))
  BY <1>1, <1>8 DEF AreStretches
<1>10. ASSUME NEW s \in S PROVE \E h \in Merged(S) : Within(s, h)
  <2>1. PICK f \in firsts : s \in Group(S, firsts, f)
    BY <1>2, <1>3, GroupsCover
  <2>2. s \in Of(f)
    BY <2>1 DEF Of
  <2> QED BY <1>1, <1>8, <2>2
<1>11. ASSUME NEW f \in firsts, NEW g \in firsts, f.from < g.from
       PROVE  Hull(Of(f)).to + Adjacent < Hull(Of(g)).from
  <2>1. PICK s \in Of(f) : Hull(Of(f)).to = s.to
    BY <1>8
  <2>2. s \in S /\ s.from < g.from
    BY <1>2, <1>5, <1>8, <1>11, <2>1, InputsAssumption DEF AreStretches, Stretch, Times
  <2>3. s.to + Adjacent < g.from
    BY <1>2, <1>4, <1>6, <2>2
  <2> QED BY <1>8, <2>1, <2>3
<1>12. ASSUME NEW f \in firsts, NEW g \in firsts, f.from = g.from PROVE Hull(Of(f)) = Hull(Of(g))
  <2>1. Of(f) = Of(g)
    BY <1>5, <1>12
  <2> QED BY <2>1
<1>13. ASSUME NEW a \in Merged(S), NEW b \in Merged(S)
       PROVE  a = b \/ a.to + Adjacent < b.from \/ b.to + Adjacent < a.from
  <2>1. PICK f \in firsts, g \in firsts : a = Hull(Of(f)) /\ b = Hull(Of(g))
    BY <1>1
  <2>2. f.from < g.from \/ g.from < f.from \/ f.from = g.from
    BY <1>2, InputsAssumption DEF AreStretches, Stretch, Times
  <2> QED BY <1>11, <1>12, <2>1, <2>2
<1>14. ASSUME NEW h \in Merged(S), NEW from \in Times, NEW to \in Times, from + Adjacent < to, Overlaps(from, to, h),
              \A s \in S : ~Overlaps(from, to, s)
       PROVE  FALSE
  <2>1. PICK f \in firsts : h = Hull(Of(f))
    BY <1>1
  <2>2. \A s \in S : s.from \in Nat /\ s.to \in Nat /\ s.from < s.to /\ s.from \in Times
    BY InputsAssumption DEF AreStretches, Stretch, Times
  <2>3. from \in Nat /\ to \in Nat /\ Adjacent \in Nat
    BY InputsAssumption, ReachAssumption DEF Times
  <2>4. \A s \in S : s.from >= to \/ s.to <= from
    BY <1>14, <2>2, <2>3 DEF Overlaps
  <2>5. f \in S /\ f.to <= from
    BY <1>2, <1>8, <1>14, <2>1, <2>2, <2>3, <2>4 DEF Overlaps
  <2>6. PICK latest \in Of(f) : h.to = latest.to /\ latest \in S
    BY <1>8, <2>1
  <2>7. latest.from >= to
    BY <1>14, <2>2, <2>3, <2>4, <2>6 DEF Overlaps
  <2> DEFINE later == {s.from : s \in {t \in S : t.from >= to}}
  <2>8. later \in SUBSET Times /\ later # {}
    BY <2>2, <2>6, <2>7
  <2>9. PICK m \in later : \A n \in later : m <= n
    BY <2>8, Earliest
  <2>10. PICK x \in S : x.from = m /\ x.from >= to
    BY <2>9
  <2>11. ASSUME NEW t \in S, t.from < x.from PROVE t.to + Adjacent < x.from
    <3>1. ~(t.from >= to)
      <4>1. ASSUME t.from >= to PROVE FALSE
        <5>1. t.from \in later
          BY <4>1
        <5>2. m <= t.from
          BY <2>9, <5>1
        <5> QED BY <2>2, <2>10, <2>11, <5>2
      <4> QED BY <4>1
    <3>2. t.to <= from
      BY <2>4, <3>1
    <3> QED BY <1>14, <2>2, <2>3, <2>10, <3>2
  <2>12. x \in firsts
    BY <1>7, <2>11
  <2>13. x.from > f.from /\ x.from <= latest.from
    <3>1. latest.from \in later
      BY <2>6, <2>7
    <3>2. m <= latest.from
      BY <2>9, <3>1
    <3> QED BY <1>14, <2>2, <2>3, <2>5, <2>10, <3>2
  <2> QED BY <1>5, <2>6, <2>12, <2>13
<1> QED BY <1>9, <1>10, <1>13, <1>14

\* merge_overlapping() keeps what is not confirmed: what it merges is in a merged stretch that is not
\* confirmed either, and at each time of a merged one there was one of those it was made of, but for
\* gaps of adjacent ones.
LEMMA MergedFlags ==
  ASSUME NEW S, AreStretches(S)
  PROVE  /\ \A s \in S : \E h \in Merged(S) : Within(s, h) /\ (s.unconfirmed => h.unconfirmed)
         /\ \A h \in Merged(S) : \A u \in Nat : h.from <= u /\ u < h.to + Adjacent =>
              \E s \in S : s.from <= u /\ u < s.to + Adjacent /\ (s.unconfirmed => h.unconfirmed)
<1> DEFINE firsts == {s \in S : Begins(S, s)}
           Of(f) == Group(S, firsts, f)
<1>1. Merged(S) = {Hull(Of(f)) : f \in firsts}
  BY DEF Merged
<1>2. firsts \in SUBSET S
  OBVIOUS
<1>3. \A x \in S : (\A t \in S : x.from <= t.from) => x \in firsts
  BY InputsAssumption DEF Begins, AreStretches, Stretch, Times
<1> HIDE DEF firsts
<1>4. ASSUME NEW f \in firsts
      PROVE  /\ f \in Of(f) /\ Of(f) \subseteq S
             /\ Hull(Of(f)).from = f.from /\ \A s \in Of(f) : Within(s, Hull(Of(f)))
             /\ \E s \in Of(f) : Hull(Of(f)).to = s.to
  BY <1>2, GroupIs
<1> HIDE DEF Of
<1>5. \A f \in firsts : \A s \in Of(f) : s.unconfirmed => Hull(Of(f)).unconfirmed
  BY DEF Hull
<1>6. ASSUME NEW s \in S PROVE \E h \in Merged(S) : Within(s, h) /\ (s.unconfirmed => h.unconfirmed)
  <2>1. PICK f \in firsts : s \in Group(S, firsts, f)
    BY <1>2, <1>3, GroupsCover
  <2>2. s \in Of(f)
    BY <2>1 DEF Of
  <2> QED BY <1>1, <1>4, <1>5, <2>2
<1>7. ASSUME NEW h \in Merged(S), NEW u \in Nat, h.from <= u, u < h.to + Adjacent
      PROVE  \E s \in S : s.from <= u /\ u < s.to + Adjacent /\ (s.unconfirmed => h.unconfirmed)
  <2>1. \A s \in S : s.from \in Nat /\ s.to \in Nat /\ s.from < s.to
    BY InputsAssumption DEF AreStretches, Stretch, Times
  <2>2. h.from \in Nat /\ h.to \in Nat /\ h.from < h.to /\ h.to <= Horizon /\ Adjacent \in Nat /\ Horizon \in Nat
    BY MergedIs, InputsAssumption, ReachAssumption DEF AreStretches, Stretch, Times
  <2>3. PICK f \in firsts : h = Hull(Of(f))
    BY <1>1
  <2>4. CASE u >= h.to
    <3>1. PICK s \in Of(f) : h.to = s.to
      BY <1>4, <2>3
    <3> QED BY <1>4, <1>5, <1>7, <2>1, <2>2, <2>3, <2>4, <3>1
  <2>5. CASE u < Adjacent
    BY <1>2, <1>4, <1>5, <1>7, <2>1, <2>2, <2>3, <2>5
  <2>6. CASE u < h.to /\ u >= Adjacent
    <3>1. PICK from \in Times, to \in Times : from = u - Adjacent /\ to = u + 1
      BY <2>2, <2>6 DEF Times
    <3>2. from + Adjacent < to /\ Overlaps(from, to, h)
      BY <1>7, <2>2, <2>6, <3>1 DEF Overlaps
    <3>3. PICK s \in S : Overlaps(from, to, s)
      BY <3>2, MergedIs
    <3>4. s.from <= u /\ u < s.to + Adjacent
      BY <2>1, <2>2, <3>1, <3>3 DEF Overlaps
    <3>5. PICK g \in Merged(S) : Within(s, g) /\ (s.unconfirmed => g.unconfirmed)
      BY <1>6
    <3>6. g = h
      <4>1. g = h \/ g.to + Adjacent < h.from \/ h.to + Adjacent < g.from
        BY MergedIs
      <4>2. g.from \in Nat /\ g.to \in Nat
        BY MergedIs, InputsAssumption DEF AreStretches, Stretch, Times
      <4> QED BY <1>7, <2>1, <2>2, <2>6, <3>4, <3>5, <4>1, <4>2 DEF Within
    <3> QED BY <3>4, <3>5, <3>6
  <2> QED BY <2>2, <2>4, <2>5, <2>6
<1> QED BY <1>6, <1>7

(* Evidence. *)

IsEvidence(e) ==
  /\ e.seams \subseteq Times
  /\ \A logo \in e.logo : logo.from \in Times /\ logo.to \in Times
  /\ \A b \in e.blocks : b.from \in Times /\ b.to \in Times
  /\ IsFiniteSet(e.blocks)

\* A logo interval of full length.
LongLogo(e, logo) == logo \in e.logo /\ logo.to - logo.from >= LogoCloses

\* Rule 2: joined breaks hold every break, and a logo interval of full length cannot lie in one
\* beside all breaks it was joined of: the gap was joined because none was there.
LEMMA JoinedIs ==
  ASSUME NEW B, AreStretches(B), \A a, b \in B : a = b \/ a.to < b.from \/ b.to < a.from,
         NEW e, IsEvidence(e)
  PROVE  /\ AreStretches(Joined(B, e))
         /\ \A s \in B : \E j \in Joined(B, e) : Within(s, j)
         /\ \A j \in Joined(B, e) : \A logo : LongLogo(e, logo) /\ Overlaps(logo.from, logo.to, j) =>
              \E s \in B : Overlaps(logo.from, logo.to, s)
<1> DEFINE firsts == {s \in B : ~JoinsPrevious(B, e, s)}
           Of(f) == Group(B, firsts, f)
           Of1(f) == [Hull(Of(f)) EXCEPT !.unconfirmed = IF Cardinality(Of(f)) > 1 THEN TRUE ELSE @]
<1>1. Joined(B, e) = {Of1(f) : f \in firsts}
  BY DEF Joined
<1>2. firsts \in SUBSET B /\ \A s \in B : s \notin firsts => JoinsPrevious(B, e, s)
  OBVIOUS
<1>3. \A x \in B : (\A t \in B : x.from <= t.from) => x \in firsts
  BY InputsAssumption DEF JoinsPrevious, AreStretches, Stretch, Times
<1>4. \A f \in firsts : \A s : s \in Of(f) <=>
        s \in B /\ s.from >= f.from /\ ~\E g \in firsts : g.from > f.from /\ g.from <= s.from
  BY DEF Group
<1> HIDE DEF firsts
<1>5. ASSUME NEW f \in firsts
      PROVE  /\ f \in Of(f) /\ Of(f) \subseteq B /\ Hull(Of(f)) \in Stretch /\ Hull(Of(f)).from < Hull(Of(f)).to
             /\ Hull(Of(f)).from = f.from /\ \A s \in Of(f) : Within(s, Hull(Of(f)))
             /\ \E s \in Of(f) : Hull(Of(f)).to = s.to
  BY <1>2, GroupIs
<1>6. ASSUME NEW f \in firsts
      PROVE  Of1(f) \in Stretch /\ Of1(f).from = Hull(Of(f)).from /\ Of1(f).to = Hull(Of(f)).to
  <2>1. PICK h : h = Hull(Of(f))
    OBVIOUS
  <2>2. h \in Stretch
    BY <1>5, <2>1
  <2>3. PICK u \in BOOLEAN : u = IF Cardinality(Of(f)) > 1 THEN TRUE ELSE h.unconfirmed
    BY <2>2 DEF Stretch
  <2>4. Of1(f) = [h EXCEPT !.unconfirmed = u]
    BY <2>1, <2>3
  <2>5. [h EXCEPT !.unconfirmed = u] \in Stretch /\ [h EXCEPT !.unconfirmed = u].from = h.from
        /\ [h EXCEPT !.unconfirmed = u].to = h.to
    BY <2>2 DEF Stretch
  <2> QED BY <2>1, <2>4, <2>5
<1> HIDE DEF Of, Of1
<1>7. AreStretches(Joined(B, e))
  BY <1>1, <1>5, <1>6 DEF AreStretches
<1>8. ASSUME NEW s \in B PROVE \E j \in Joined(B, e) : Within(s, j)
  <2>1. PICK f \in firsts : s \in Group(B, firsts, f)
    BY <1>2, <1>3, GroupsCover
  <2>2. s \in Of(f)
    BY <2>1 DEF Of
  <2> QED BY <1>1, <1>5, <1>6, <2>2 DEF Within
<1>9. ASSUME NEW j \in Joined(B, e), NEW logo, LongLogo(e, logo), Overlaps(logo.from, logo.to, j),
             \A s \in B : ~Overlaps(logo.from, logo.to, s)
      PROVE  FALSE
  <2>1. PICK f \in firsts : j.from = f.from /\ \E s \in Of(f) : j.to = s.to
    BY <1>1, <1>5, <1>6
  <2>2. \A s \in B : s.from \in Nat /\ s.to \in Nat /\ s.from < s.to /\ s.from \in Times
    BY InputsAssumption DEF AreStretches, Stretch, Times
  <2>3. PICK from, to : from = logo.from /\ to = logo.to
    OBVIOUS
  <2>4. from \in Nat /\ to \in Nat /\ from < to /\ to - from >= LogoCloses
    <3>1. from \in Times /\ to \in Times
      BY <1>9, <2>3 DEF LongLogo, IsEvidence
    <3>2. to - from >= LogoCloses /\ LogoCloses > 0
      BY <1>9, <2>3, ReachAssumption DEF LongLogo
    <3> QED BY <3>1, <3>2, ReachAssumption, InputsAssumption DEF Times
  <2>5. \A s \in B : s.from >= to \/ s.to <= from
    BY <1>9, <2>2, <2>3, <2>4 DEF Overlaps
  <2>6. j.from < to /\ from < j.to
    BY <1>9, <2>3 DEF Overlaps
  <2>7. f \in B /\ f.to <= from
    BY <1>2, <2>1, <2>2, <2>4, <2>5, <2>6
  <2>8. PICK latest \in Of(f) : j.to = latest.to /\ latest \in B
    BY <1>5, <2>1
  <2>9. latest.from >= to
    BY <2>2, <2>4, <2>5, <2>6, <2>8
  <2> DEFINE later == {s.from : s \in {t \in B : t.from >= to}}
  <2>10. later \in SUBSET Times /\ later # {}
    BY <2>2, <2>8, <2>9
  <2>11. PICK m \in later : \A n \in later : m <= n
    BY <2>10, Earliest
  <2>12. PICK x \in B : x.from = m /\ x.from >= to
    BY <2>11
  <2>13. \A t \in B : t.from >= to => x.from <= t.from
    <3>1. ASSUME NEW t \in B, t.from >= to PROVE x.from <= t.from
      <4>1. t.from \in later
        BY <3>1
      <4> QED BY <2>11, <2>12, <4>1
    <3> QED BY <3>1
  <2>14. f.from < x.from /\ x.from <= latest.from
    BY <2>2, <2>4, <2>7, <2>8, <2>9, <2>12, <2>13
  <2>15. x \notin firsts
    BY <1>4, <2>8, <2>14
  <2>16. PICK p \in B : /\ p.from < x.from /\ ~ProgrammeBetween(e, p.to, x.from)
    BY <1>2, <2>12, <2>15 DEF JoinsPrevious
  <2>17. p.to <= from
    BY <2>2, <2>4, <2>5, <2>12, <2>13, <2>16
  <2>18. Shared(p.to, x.from, logo) = to - from
    BY <2>2, <2>3, <2>4, <2>12, <2>17 DEF Shared, Larger, Smaller
  <2>19. to - from >= TouchReach
    BY <2>4, ReachAssumption
  <2>20. LogoBetween(e, p.to, x.from)
    BY <1>9, <2>18, <2>19 DEF LogoBetween, LongLogo
  <2> QED BY <2>16, <2>20 DEF ProgrammeBetween
<1> QED BY <1>7, <1>8, <1>9

\* Rule 2 keeps it too, and a joined break that is confirmed is a single one.
LEMMA JoinedFlags ==
  ASSUME NEW B, AreStretches(B), \A a, b \in B : a = b \/ a.to < b.from \/ b.to < a.from,
         NEW e, IsEvidence(e)
  PROVE  /\ \A s \in B : \E j \in Joined(B, e) : Within(s, j) /\ (s.unconfirmed => j.unconfirmed)
         /\ \A j \in Joined(B, e) : ~j.unconfirmed =>
              \E s \in B : s.from = j.from /\ s.to = j.to /\ ~s.unconfirmed
<1> DEFINE firsts == {s \in B : ~JoinsPrevious(B, e, s)}
           Of(f) == Group(B, firsts, f)
           Of1(f) == [Hull(Of(f)) EXCEPT !.unconfirmed = IF Cardinality(Of(f)) > 1 THEN TRUE ELSE @]
<1>1. Joined(B, e) = {Of1(f) : f \in firsts}
  BY DEF Joined
<1>2. firsts \in SUBSET B
  OBVIOUS
<1>3. \A x \in B : (\A t \in B : x.from <= t.from) => x \in firsts
  BY InputsAssumption DEF JoinsPrevious, AreStretches, Stretch, Times
<1> HIDE DEF firsts
<1>4. ASSUME NEW f \in firsts
      PROVE  /\ f \in Of(f) /\ Of(f) \subseteq B /\ Hull(Of(f)) \in Stretch /\ Hull(Of(f)).from = f.from
             /\ (\A s \in Of(f) : Within(s, Hull(Of(f)))) /\ \E s \in Of(f) : Hull(Of(f)).to = s.to
  BY <1>2, GroupIs
<1>5. ASSUME NEW f \in firsts
      PROVE  /\ Of1(f).from = Hull(Of(f)).from /\ Of1(f).to = Hull(Of(f)).to
             /\ Of1(f).unconfirmed <=> Hull(Of(f)).unconfirmed \/ Cardinality(Of(f)) > 1
  <2>1. PICK h : h = Hull(Of(f))
    OBVIOUS
  <2>2. h \in Stretch
    BY <1>4, <2>1
  <2>3. PICK u \in BOOLEAN : u = IF Cardinality(Of(f)) > 1 THEN TRUE ELSE h.unconfirmed
    BY <2>2 DEF Stretch
  <2>4. Of1(f) = [h EXCEPT !.unconfirmed = u]
    BY <2>1, <2>3
  <2>5. [h EXCEPT !.unconfirmed = u].from = h.from /\ [h EXCEPT !.unconfirmed = u].to = h.to
        /\ [h EXCEPT !.unconfirmed = u].unconfirmed = u
    BY <2>2 DEF Stretch
  <2>6. u <=> h.unconfirmed \/ Cardinality(Of(f)) > 1
    BY <2>3
  <2> HIDE DEF Of1, Of
  <2> QED BY <2>1, <2>4, <2>5, <2>6
<1> HIDE DEF Of, Of1
<1>6. \A f \in firsts : Hull(Of(f)).unconfirmed <=> \E s \in Of(f) : s.unconfirmed
  BY DEF Hull
<1>7. ASSUME NEW s \in B PROVE \E j \in Joined(B, e) : Within(s, j) /\ (s.unconfirmed => j.unconfirmed)
  <2>1. PICK f \in firsts : s \in Group(B, firsts, f)
    BY <1>2, <1>3, GroupsCover
  <2>2. s \in Of(f)
    BY <2>1 DEF Of
  <2>3. Within(s, Of1(f)) /\ (s.unconfirmed => Of1(f).unconfirmed)
    BY <1>4, <1>5, <1>6, <2>2 DEF Within
  <2> QED BY <1>1, <2>3
<1>8. IsFiniteSet(B)
  <2> DEFINE starts == {s.from : s \in B}
             at == [t \in starts |-> CHOOSE s \in B : s.from = t]
  <2>1. IsFiniteSet(starts)
    <3>1. starts \subseteq Times
      BY DEF AreStretches, Stretch
    <3>2. IsFiniteSet(Times)
      BY InputsAssumption, FS_Interval DEF Times
    <3> QED BY <3>1, <3>2, FS_Subset
  <2>2. \A s \in B : at[s.from] = s
    <3>1. \A a, b \in B : a.from = b.from => a = b
      BY InputsAssumption DEF AreStretches, Stretch, Times
    <3> QED BY <3>1
  <2>3. at \in Surjection(starts, B)
    <3>1. \A t \in starts : \E s \in B : t = s.from
      OBVIOUS
    <3>2. \A t \in starts : at[t] \in B
      BY <2>2, <3>1
    <3>3. at \in [starts -> B]
      BY <3>2
    <3>4. \A s \in B : s.from \in starts
      OBVIOUS
    <3> HIDE DEF starts, at
    <3>5. \A s \in B : \E t \in starts : at[t] = s
      BY <2>2, <3>4
    <3> QED BY <3>3, <3>5 DEF Surjection
  <2> HIDE DEF starts, at
  <2> QED BY <2>1, <2>3, FS_Surjection
<1>9. ASSUME NEW j \in Joined(B, e), ~j.unconfirmed
      PROVE  \E s \in B : s.from = j.from /\ s.to = j.to /\ ~s.unconfirmed
  <2>1. PICK f \in firsts : j = Of1(f)
    BY <1>1
  <2>2. ~Hull(Of(f)).unconfirmed /\ ~(Cardinality(Of(f)) > 1)
    BY <1>5, <1>9, <2>1
  <2>3. IsFiniteSet(Of(f)) /\ {f} \subseteq Of(f)
    BY <1>4, <1>8, FS_Subset
  <2>4. Cardinality({f}) = 1 /\ IsFiniteSet({f})
    BY FS_Singleton
  <2>5. Of(f) = {f}
    BY <2>2, <2>3, <2>4, FS_Subset, FS_CardinalityType
  <2>6. f \in B /\ j.from = f.from /\ j.to = f.to /\ ~f.unconfirmed
    BY <1>4, <1>5, <1>6, <2>1, <2>2, <2>5
  <2> QED BY <2>6
<1> QED BY <1>7, <1>9

\* Some commercial block shares time with it.
OverBlock(e, from, to) == \E b \in Commercial(e) : Overlaps(from, to, b)

\* One round of rule 3: the stretch grows, over nothing longer than the reach but commercial blocks.
LEMMA ReachedIs ==
  ASSUME NEW e, IsEvidence(e), NEW s \in Stretch, s.from < s.to
  PROVE  /\ Reached(e, s) \in Stretch /\ Within(s, Reached(e, s))
         /\ \A from, to \in Times :
              to - from > TouchReach /\ ~OverBlock(e, from, to) /\ Overlaps(from, to, Reached(e, s))
                => Overlaps(from, to, s)
<1> DEFINE all == {[from |-> s.from, to |-> s.to]} \cup {[from |-> b.from, to |-> b.to] : b \in Touching(e, s)}
           a == CHOOSE t \in {x.from : x \in all} : \A x \in all : t <= x.from
           z == CHOOSE t \in {x.to : x \in all} : \A x \in all : t >= x.to
<1>1. \A b \in Touching(e, s) : b.from \in Times /\ b.to \in Times
  BY DEF Touching, Commercial, IsEvidence
<1>2. s.from \in Times /\ s.to \in Times
  BY DEF Stretch
<1>3. \A x \in all : x.from \in Times /\ x.to \in Times
  BY <1>1, <1>2
<1>4. \A x \in all : \/ x.from = s.from /\ x.to = s.to
                     \/ \E b \in Touching(e, s) : x.from = b.from /\ x.to = b.to
  OBVIOUS
<1>5. \E x \in all : x.from = s.from /\ x.to = s.to
  <2>1. [from |-> s.from, to |-> s.to] \in all
    OBVIOUS
  <2> HIDE DEF all
  <2> QED BY <2>1
<1>6. Reached(e, s) = [[s EXCEPT !.from = a] EXCEPT !.to = z]
  BY DEF Reached
<1> HIDE DEF all
<1>7. a \in {x.from : x \in all} /\ \A x \in all : a <= x.from
  <2>1. {x.from : x \in all} \in SUBSET Times /\ {x.from : x \in all} # {}
    BY <1>3, <1>5
  <2>2. PICK m \in {x.from : x \in all} : \A n \in {x.from : x \in all} : m <= n
    BY <2>1, Earliest
  <2>3. \A x \in all : m <= x.from
    BY <2>2
  <2> QED BY <2>3
<1>8. z \in {x.to : x \in all} /\ \A x \in all : z >= x.to
  <2>1. {x.to : x \in all} \in SUBSET Times /\ {x.to : x \in all} # {}
    BY <1>3, <1>5
  <2>2. PICK m \in {x.to : x \in all} : \A n \in {x.to : x \in all} : m >= n
    BY <2>1, Latest
  <2>3. \A x \in all : m >= x.to
    BY <2>2
  <2> QED BY <2>3
<1> HIDE DEF a, z
<1>9. a \in Times /\ z \in Times
  BY <1>3, <1>7, <1>8
<1>10. Reached(e, s) \in Stretch /\ Reached(e, s).from = a /\ Reached(e, s).to = z
  BY <1>6, <1>9 DEF Stretch
<1>11. a <= s.from /\ s.to <= z
  BY <1>2, <1>5, <1>7, <1>8, <1>9, InputsAssumption DEF Times
<1>12. ASSUME NEW from \in Times, NEW to \in Times, to - from > TouchReach, ~OverBlock(e, from, to),
              a < to, from < z
       PROVE  s.from < to /\ from < s.to
  <2>1. from \in Nat /\ to \in Nat /\ s.from \in Nat /\ s.to \in Nat /\ TouchReach \in Nat
    BY <1>2, InputsAssumption, ReachAssumption DEF Times
  <2>2. \A b \in Touching(e, s) : /\ b.from \in Nat /\ b.to \in Nat /\ b.from < b.to
                                  /\ b.to >= s.from - TouchReach /\ b.from <= s.to + TouchReach
                                  /\ b.from >= to \/ b.to <= from
    <3>1. ASSUME NEW b \in Touching(e, s) PROVE ~Overlaps(from, to, b)
      BY <1>12 DEF OverBlock, Touching
    <3>2. \A b \in Touching(e, s) : b.from \in Nat /\ b.to \in Nat
      BY <1>1, InputsAssumption DEF Times
    <3> QED BY <2>1, <3>1, <3>2 DEF Touching, Commercial, Overlaps
  <2>3. s.from < to
    <3>1. PICK x \in all : a = x.from
      BY <1>7
    <3>2. CASE x.from = s.from
      BY <1>12, <3>1, <3>2
    <3>3. ASSUME NEW b \in Touching(e, s), x.from = b.from PROVE s.from < to
      BY <1>12, <2>1, <2>2, <3>1, <3>3
    <3> QED BY <1>4, <3>1, <3>2, <3>3
  <2>4. from < s.to
    <3>1. PICK x \in all : z = x.to
      BY <1>8
    <3>2. CASE x.to = s.to
      BY <1>12, <3>1, <3>2
    <3>3. ASSUME NEW b \in Touching(e, s), x.to = b.to PROVE from < s.to
      BY <1>12, <2>1, <2>2, <3>1, <3>3
    <3> QED BY <1>4, <3>1, <3>2, <3>3
  <2> QED BY <2>3, <2>4
<1> QED BY <1>10, <1>11, <1>12 DEF Within, Overlaps

\* Rule 3's loop, any number of rounds of it.
Grows(grow, e, s, N) == grow = [n \in 0..N |-> IF n = 0 THEN s ELSE Reached(e, grow[n - 1])]

LEMMA GrowthExists ==
  ASSUME NEW e, NEW s, NEW N \in Nat
  PROVE  \E grow : Grows(grow, e, s, N)
<1> DEFINE missing == {k \in Nat : ~\E g : Grows(g, e, s, k)}
<1> SUFFICES ASSUME missing # {} PROVE FALSE
  OBVIOUS
<1>1. PICK k \in missing : \A n \in missing : k <= n
  <2>1. missing \in SUBSET Nat
    OBVIOUS
  <2> HIDE DEF missing
  <2> QED BY <2>1, LeastNatural
<1>2. CASE k = 0
  <2> DEFINE g == [n \in 0..0 |-> s]
  <2>1. g = [n \in 0..0 |-> IF n = 0 THEN s ELSE Reached(e, g[n - 1])]
    OBVIOUS
  <2>2. Grows(g, e, s, 0)
    BY <2>1 DEF Grows
  <2> QED BY <1>1, <1>2, <2>2
<1>3. CASE k # 0
  <2>1. k - 1 \in Nat /\ k - 1 \notin missing
    <3>1. k \in Nat
      BY <1>1
    <3>2. k - 1 \in Nat /\ ~(k <= k - 1)
      BY <1>3, <3>1
    <3> HIDE DEF missing
    <3> QED BY <1>1, <3>2
  <2>2. PICK g : Grows(g, e, s, k - 1)
    BY <2>1
  <2> DEFINE h == [n \in 0..k |-> IF n = 0 THEN s ELSE Reached(e, g[n - 1])]
  <2>3. \A n \in 0..(k - 1) : h[n] = g[n]
    <3>1. k \in Nat /\ \A n \in 0..(k - 1) : n \in 0..k
      BY <1>1
    <3>2. \A n \in 0..(k - 1) : g[n] = IF n = 0 THEN s ELSE Reached(e, g[n - 1])
      BY <2>2 DEF Grows
    <3> QED BY <3>1, <3>2
  <2>4. \A n \in 0..k : n = 0 \/ h[n - 1] = g[n - 1]
    <3>1. k \in Nat
      BY <1>1
    <3>2. \A n \in 0..k : n = 0 \/ n - 1 \in 0..(k - 1)
      BY <3>1
    <3> HIDE DEF h
    <3> QED BY <2>3, <3>2
  <2>5. h = [n \in 0..k |-> IF n = 0 THEN s ELSE Reached(e, h[n - 1])]
    BY <2>4
  <2>6. Grows(h, e, s, k)
    BY <2>5 DEF Grows
  <2> QED BY <1>1, <2>6
<1> QED BY <1>2, <1>3

\* What a stretch has grown to: it holds the stretch, and beside it nothing longer than the reach
\* but what commercial blocks are in.
GrownFrom(e, s, t) ==
  /\ t \in Stretch /\ t.from < t.to /\ Within(s, t)
  /\ \A from, to \in Times :
       to - from > TouchReach /\ ~OverBlock(e, from, to) /\ Overlaps(from, to, t) => Overlaps(from, to, s)

\* Rule 3: the loop over the blocks, however many of them there are; what it grows is not confirmed.
LEMMA ExtendedIs ==
  ASSUME NEW e, IsEvidence(e), NEW s \in Stretch, s.from < s.to
  PROVE  /\ GrownFrom(e, s, Extended(e, s))
         /\ s.unconfirmed => Extended(e, s).unconfirmed
         /\ ~Extended(e, s).unconfirmed =>
              ~s.unconfirmed /\ Extended(e, s).from = s.from /\ Extended(e, s).to = s.to
<1> DEFINE N == Cardinality(Commercial(e))
<1>0. N \in Nat => \E g : Grows(g, e, s, N)
  <2> HIDE DEF N
  <2> QED BY GrowthExists
<1> DEFINE grow[n \in 0..N] == IF n = 0 THEN s ELSE Reached(e, grow[n - 1])
           grown == grow[N]
           flagged == [grown EXCEPT !.comskip = (Touching(e, grown) # {})]
<1>1. N \in Nat
  <2>1. Commercial(e) \subseteq e.blocks /\ IsFiniteSet(e.blocks)
    BY DEF Commercial, IsEvidence
  <2>2. IsFiniteSet(Commercial(e))
    BY <2>1, FS_Subset
  <2> QED BY <2>2, FS_CardinalityType
<1>2. Extended(e, s) = [grown EXCEPT !.comskip = (Touching(e, grown) # {}), !.unconfirmed = @ \/ grown # s]
  BY DEF Extended
<1> HIDE DEF N
<1>3. grow = [n \in 0..N |-> IF n = 0 THEN s ELSE Reached(e, grow[n - 1])]
  <2>1. PICK h : Grows(h, e, s, N)
    BY <1>0, <1>1
  <2>2. \E f : f = [n \in 0..N |-> IF n = 0 THEN s ELSE Reached(e, f[n - 1])]
    BY <2>1 DEF Grows
  <2> QED BY <2>2
<1> HIDE DEF grow
<1>4. GrownFrom(e, s, s)
  BY InputsAssumption DEF GrownFrom, Within, Stretch, Times
<1>5. ASSUME NEW t, GrownFrom(e, s, t) PROVE GrownFrom(e, s, Reached(e, t))
  <2>1. t \in Stretch /\ t.from < t.to /\ Within(s, t)
    BY <1>5 DEF GrownFrom
  <2>2. PICK r : r = Reached(e, t)
    OBVIOUS
  <2>3. /\ r \in Stretch /\ Within(t, r)
        /\ \A from, to \in Times :
             to - from > TouchReach /\ ~OverBlock(e, from, to) /\ Overlaps(from, to, r) => Overlaps(from, to, t)
    BY <2>1, <2>2, ReachedIs
  <2>4. \A x \in {s, t, r} : x.from \in Nat /\ x.to \in Nat
    BY <2>1, <2>3, InputsAssumption DEF Stretch, Times
  <2>5. Within(s, r) /\ r.from < r.to
    BY <2>1, <2>3, <2>4 DEF Within
  <2>6. \A from, to \in Times :
          to - from > TouchReach /\ ~OverBlock(e, from, to) /\ Overlaps(from, to, r) => Overlaps(from, to, s)
    BY <1>5, <2>3 DEF GrownFrom
  <2> QED BY <2>2, <2>3, <2>5, <2>6 DEF GrownFrom
<1>6. \A n \in 0..N : GrownFrom(e, s, grow[n])
  <2> DEFINE wrong == {n \in 0..N : ~GrownFrom(e, s, grow[n])}
  <2> SUFFICES ASSUME wrong # {} PROVE FALSE
    OBVIOUS
  <2>1. wrong \in SUBSET Nat
    BY <1>1
  <2>2. PICK n \in wrong : \A m \in wrong : n <= m
    BY <2>1, LeastNatural
  <2>3. n \in 0..N /\ ~GrownFrom(e, s, grow[n])
    BY <2>2
  <2>4. n # 0
    BY <1>1, <1>3, <1>4, <2>3
  <2>5. n - 1 \in 0..N /\ ~(n <= n - 1)
    BY <1>1, <2>3, <2>4
  <2>6. GrownFrom(e, s, grow[n - 1])
    BY <2>2, <2>5
  <2>7. grow[n] = Reached(e, grow[n - 1])
    BY <1>3, <2>3, <2>4
  <2> QED BY <1>5, <2>3, <2>6, <2>7
<1>7. GrownFrom(e, s, grown)
  <2>1. N \in 0..N
    BY <1>1
  <2> QED BY <1>6, <2>1
<1> HIDE DEF grown
<1>8. PICK c \in BOOLEAN : c = (Touching(e, grown) # {})
  OBVIOUS
<1>9. PICK u \in BOOLEAN : u = (grown.unconfirmed \/ grown # s)
  OBVIOUS
<1>10. Extended(e, s) = [[grown EXCEPT !.comskip = c] EXCEPT !.unconfirmed = u]
  BY <1>2, <1>7, <1>8, <1>9 DEF GrownFrom, Stretch
<1>11. PICK x : x = Extended(e, s)
  OBVIOUS
<1>12. x \in Stretch /\ x.from = grown.from /\ x.to = grown.to /\ x.unconfirmed = u
  BY <1>7, <1>10, <1>11 DEF GrownFrom, Stretch
<1>13. GrownFrom(e, s, x)
  BY <1>7, <1>12 DEF GrownFrom, Within, Overlaps
<1>14. CASE grown = s
  <2>1. u = s.unconfirmed
    BY <1>9, <1>14 DEF Stretch
  <2> QED BY <1>11, <1>12, <1>13, <1>14, <2>1
<1>15. CASE grown # s
  BY <1>9, <1>11, <1>12, <1>13, <1>15
<1> QED BY <1>14, <1>15

\* snap(): of the seams within reach one is the nearest, and of two as near one is later.
LEMMA SnapIs ==
  ASSUME NEW e, IsEvidence(e), NEW at \in Times
  PROVE  Snap(e, at) \in Times /\ at - SnapReach <= Snap(e, at) /\ Snap(e, at) <= at + SnapReach
<1> DEFINE near == NearSeams(e, at)
<1>1. near \in SUBSET Times
  BY DEF NearSeams, IsEvidence
<1>2. CASE near = {}
  <2>1. Snap(e, at) = at
    BY <1>2 DEF Snap
  <2> QED BY <2>1, InputsAssumption, ReachAssumption DEF Times
<1>3. CASE near # {}
  <2>1. \A t \in Times : t \in Nat
    <3>1. Horizon \in Nat
      BY InputsAssumption
    <3> QED BY <3>1 DEF Times
  <2>2. \A t \in near : t \in Nat /\ Distance(t, at) \in Nat
    BY <1>1, <2>1 DEF Distance
  <2> DEFINE distances == {Distance(t, at) : t \in near}
  <2>3. distances \in SUBSET Nat /\ distances # {}
    BY <1>3, <2>2
  <2>4. PICK d \in distances : \A x \in distances : d <= x
    BY <2>3, LeastNatural
  <2>5. d \in Nat /\ \A t \in near : d <= Distance(t, at)
    BY <2>2, <2>4
  <2> DEFINE nearest == {t \in near : Distance(t, at) = d}
  <2>6. nearest \in SUBSET Times /\ nearest # {}
    BY <1>1, <2>4
  <2>7. PICK seam \in nearest : \A t \in nearest : seam >= t
    BY <2>6, Latest
  <2>8. seam \in near /\ \A other \in near :
          \/ Distance(seam, at) < Distance(other, at)
          \/ Distance(seam, at) = Distance(other, at) /\ seam >= other
    <3>1. seam \in near /\ Distance(seam, at) = d
      BY <2>7
    <3>2. ASSUME NEW other \in near
          PROVE  \/ Distance(seam, at) < Distance(other, at)
                 \/ Distance(seam, at) = Distance(other, at) /\ seam >= other
      <4>1. CASE Distance(other, at) = d
        BY <2>7, <3>1, <4>1
      <4>2. CASE Distance(other, at) # d
        <5>1. d <= Distance(other, at) /\ Distance(other, at) \in Nat
          BY <2>2, <2>5
        <5> QED BY <2>5, <3>1, <4>2, <5>1
      <4> QED BY <4>1, <4>2
    <3> QED BY <3>1, <3>2
  <2> HIDE DEF near
  <2>9. PICK z : z = CHOOSE t \in near : \A other \in near :
          \/ Distance(t, at) < Distance(other, at)
          \/ Distance(t, at) = Distance(other, at) /\ t >= other
    OBVIOUS
  <2>10. z \in near
    BY <2>8, <2>9
  <2>11. Snap(e, at) = z
    BY <1>3, <2>9 DEF Snap, near
  <2>12. Distance(z, at) <= SnapReach /\ z \in Nat /\ at \in Nat /\ SnapReach \in Nat
    BY <1>1, <2>1, <2>10, ReachAssumption DEF NearSeams, near
  <2>13. at - SnapReach <= z /\ z <= at + SnapReach
    BY <2>12 DEF Distance
  <2> QED BY <1>1, <2>10, <2>11, <2>13
<1> QED BY <1>2, <1>3

(* What combine() covers. *)

AreMatches(found) ==
  \A m \in found : m.status \in Statuses /\ m.from \in Times /\ m.to \in Times /\ m.agreedFrom \in Times
               /\ m.agreedTo \in Times

\* An ad match that is a break, once moved to its seams.
Shown(e, m) == IsBreak(e, m) /\ Snap(e, m.from) < Snap(e, m.to)

LEMMA BreakOfIs ==
  ASSUME NEW e, IsEvidence(e), NEW found, AreMatches(found), NEW m \in found
  PROVE  /\ BreakOf(e, m) \in Stretch
         /\ BreakOf(e, m).from = Snap(e, m.from) /\ BreakOf(e, m).to = Snap(e, m.to)
<1>1. Snap(e, m.from) \in Times /\ Snap(e, m.to) \in Times
  BY SnapIs DEF AreMatches
<1>2. Projected(m) \in BOOLEAN
  BY DEF Projected
<1> QED BY <1>1, <1>2 DEF BreakOf, Stretch

\* Rules 1 to 6: every break and every commercial block is in one ad stretch, the ad stretches are
\* apart, and over a logo interval of full length one lies only where a match or a block does.
LEMMA AdStretchesIs ==
  ASSUME NEW e, IsEvidence(e), NEW found, AreMatches(found)
  PROVE  /\ AreStretches(AdStretches(found, e))
         /\ \A a, b \in AdStretches(found, e) : a = b \/ a.to + Adjacent < b.from \/ b.to + Adjacent < a.from
         /\ \A b \in Commercial(e) : \E s \in AdStretches(found, e) : Within(b, s)
         /\ \A m \in found : Shown(e, m) => \E s \in AdStretches(found, e) : Within(BreakOf(e, m), s)
         /\ \A s \in AdStretches(found, e) : \A logo :
              LongLogo(e, logo) /\ Overlaps(logo.from, logo.to, s) =>
                \/ OverBlock(e, logo.from, logo.to)
                \/ \E m \in found : Overlaps(logo.from, logo.to, BreakOf(e, m))
<1> DEFINE raw == {s \in {BreakOf(e, m) : m \in {m \in found : IsBreak(e, m)}} : s.from < s.to}
           breaks == Breaks(found, e)
           joined == Joined(breaks, e)
           parts == {Extended(e, s) : s \in joined} \cup {OfBlock(b) : b \in Commercial(e)}
<1>1. breaks = Merged(raw)
  BY DEF Breaks
<1>2. AdStretches(found, e) = Merged(parts)
  BY DEF AdStretches
<1>3. AreStretches(raw)
  BY BreakOfIs DEF AreStretches
<1>4. \A s \in raw : \E m \in found : s = BreakOf(e, m)
  OBVIOUS
<1>5. \A m \in found : Shown(e, m) => BreakOf(e, m) \in raw
  BY BreakOfIs DEF Shown
<1> HIDE DEF raw
<1>6. /\ AreStretches(breaks)
      /\ \A s \in raw : \E h \in breaks : Within(s, h)
      /\ \A a, b \in breaks : a = b \/ a.to + Adjacent < b.from \/ b.to + Adjacent < a.from
      /\ \A h \in breaks, from \in Times, to \in Times :
           from + Adjacent < to /\ Overlaps(from, to, h) => \E s \in raw : Overlaps(from, to, s)
  BY <1>1, <1>3, MergedIs
<1> HIDE DEF breaks
<1>7. \A a, b \in breaks : a = b \/ a.to < b.from \/ b.to < a.from
  <2>1. Adjacent \in Nat /\ \A a \in breaks : a.from \in Nat /\ a.to \in Nat
    BY <1>6, ReachAssumption, InputsAssumption DEF AreStretches, Stretch, Times
  <2> QED BY <1>6, <2>1
<1>8. /\ AreStretches(joined)
      /\ \A s \in breaks : \E j \in joined : Within(s, j)
      /\ \A j \in joined : \A logo : LongLogo(e, logo) /\ Overlaps(logo.from, logo.to, j) =>
           \E s \in breaks : Overlaps(logo.from, logo.to, s)
  BY <1>6, <1>7, JoinedIs
<1> HIDE DEF joined
<1>9. \A s \in joined : GrownFrom(e, s, Extended(e, s))
  BY <1>8, ExtendedIs DEF AreStretches
<1>10. \A b \in Commercial(e) : /\ OfBlock(b) \in Stretch /\ OfBlock(b).from = b.from /\ OfBlock(b).to = b.to
                                /\ b.from < b.to
  BY DEF Commercial, IsEvidence, OfBlock, Stretch
<1>11. /\ \A s \in joined : Extended(e, s) \in parts
       /\ \A b \in Commercial(e) : OfBlock(b) \in parts
       /\ \A p \in parts : \/ \E s \in joined : p = Extended(e, s)
                           \/ \E b \in Commercial(e) : p = OfBlock(b)
  OBVIOUS
<1> HIDE DEF parts
<1>12. AreStretches(parts)
  BY <1>9, <1>10, <1>11 DEF AreStretches, GrownFrom
<1>13. /\ AreStretches(AdStretches(found, e))
       /\ \A s \in parts : \E h \in AdStretches(found, e) : Within(s, h)
       /\ \A a, b \in AdStretches(found, e) : a = b \/ a.to + Adjacent < b.from \/ b.to + Adjacent < a.from
       /\ \A h \in AdStretches(found, e), from \in Times, to \in Times :
            from + Adjacent < to /\ Overlaps(from, to, h) => \E s \in parts : Overlaps(from, to, s)
  BY <1>2, <1>12, MergedIs
<1>14. ASSUME NEW b \in Commercial(e) PROVE \E s \in AdStretches(found, e) : Within(b, s)
  BY <1>10, <1>11, <1>13 DEF Within
<1>15. ASSUME NEW m \in found, Shown(e, m) PROVE \E s \in AdStretches(found, e) : Within(BreakOf(e, m), s)
  <2>1. BreakOf(e, m) \in raw
    BY <1>5, <1>15
  <2>2. PICK h \in breaks : Within(BreakOf(e, m), h)
    BY <1>6, <2>1
  <2>3. PICK j \in joined : Within(h, j)
    BY <1>8, <2>2
  <2>4. Within(j, Extended(e, j)) /\ Extended(e, j) \in parts
    BY <1>9, <1>11 DEF GrownFrom
  <2>5. PICK s \in AdStretches(found, e) : Within(Extended(e, j), s)
    BY <1>13, <2>4
  <2>6. \A x \in {BreakOf(e, m), h, j, Extended(e, j), s} : x \in Stretch
    BY <1>6, <1>8, <1>9, <1>13, BreakOfIs DEF AreStretches, GrownFrom
  <2>7. \A x \in {BreakOf(e, m), h, j, Extended(e, j), s} : x.from \in Nat /\ x.to \in Nat
    BY <2>6, InputsAssumption DEF Stretch, Times
  <2>8. Within(BreakOf(e, m), s)
    BY <2>2, <2>3, <2>4, <2>5, <2>7 DEF Within
  <2> QED BY <2>8
<1>16. ASSUME NEW s \in AdStretches(found, e), NEW logo, LongLogo(e, logo), Overlaps(logo.from, logo.to, s),
              ~OverBlock(e, logo.from, logo.to)
       PROVE  \E m \in found : Overlaps(logo.from, logo.to, BreakOf(e, m))
  <2>1. PICK from \in Times, to \in Times : from = logo.from /\ to = logo.to
    BY <1>16 DEF LongLogo, IsEvidence
  <2>2. to - from > TouchReach /\ from + Adjacent < to
    BY <1>16, <2>1, ReachAssumption, InputsAssumption DEF LongLogo, Times
  <2>3. PICK p \in parts : Overlaps(from, to, p)
    BY <1>13, <1>16, <2>1, <2>2
  <2>4. ASSUME NEW b \in Commercial(e) PROVE ~Overlaps(from, to, OfBlock(b))
    BY <1>10, <1>16, <2>1 DEF OverBlock, Overlaps
  <2>5. PICK j \in joined : p = Extended(e, j)
    BY <1>11, <2>3, <2>4
  <2>6. Overlaps(from, to, j)
    BY <1>9, <1>16, <2>1, <2>2, <2>3, <2>5 DEF GrownFrom
  <2>7. PICK h \in breaks : Overlaps(from, to, h)
    BY <1>8, <1>16, <2>1, <2>6
  <2>8. PICK r \in raw : Overlaps(from, to, r)
    BY <1>6, <2>2, <2>7
  <2> QED BY <1>4, <2>1, <2>8
<1> QED BY <1>13, <1>14, <1>15, <1>16

\* What a time lies in: the agreed part of an ad match, but for the reach of a seam and for gaps of
\* adjacent stretches.
Agreed(found, u) ==
  \E m \in found : /\ m.status = "ad" /\ m.agreedFrom - SnapReach <= u
                   /\ u < m.agreedTo + SnapReach + Adjacent

\* An ad stretch that holds a break which is still projected is not confirmed, and one that is
\* confirmed is agreed throughout.
LEMMA AdStretchesAgreed ==
  ASSUME NEW e, IsEvidence(e), NEW found, AreMatches(found)
  PROVE  /\ \A m \in found, s \in AdStretches(found, e) :
              Shown(e, m) /\ Projected(m) /\ Within(BreakOf(e, m), s) => s.unconfirmed
         /\ \A s \in AdStretches(found, e) : \A u \in Nat :
              ~s.unconfirmed /\ s.from <= u /\ u < s.to => Agreed(found, u)
<1> DEFINE raw == {s \in {BreakOf(e, m) : m \in {m \in found : IsBreak(e, m)}} : s.from < s.to}
           breaks == Breaks(found, e)
           joined == Joined(breaks, e)
           parts == {Extended(e, s) : s \in joined} \cup {OfBlock(b) : b \in Commercial(e)}
<1>1. breaks = Merged(raw)
  BY DEF Breaks
<1>2. AdStretches(found, e) = Merged(parts)
  BY DEF AdStretches
<1>3. AreStretches(raw)
  BY BreakOfIs DEF AreStretches
<1>4. \A s \in raw : \E m \in found : s = BreakOf(e, m) /\ IsBreak(e, m)
  OBVIOUS
<1>5. \A m \in found : Shown(e, m) => BreakOf(e, m) \in raw
  BY BreakOfIs DEF Shown
<1> HIDE DEF raw
<1>6. /\ AreStretches(breaks)
      /\ \A a, b \in breaks : a = b \/ a.to + Adjacent < b.from \/ b.to + Adjacent < a.from
  BY <1>1, <1>3, MergedIs
<1>7. /\ \A s \in raw : \E h \in breaks : Within(s, h) /\ (s.unconfirmed => h.unconfirmed)
      /\ \A h \in breaks : \A u \in Nat : h.from <= u /\ u < h.to + Adjacent =>
           \E s \in raw : s.from <= u /\ u < s.to + Adjacent /\ (s.unconfirmed => h.unconfirmed)
  BY <1>1, <1>3, MergedFlags
<1> HIDE DEF breaks
<1>8. \A a, b \in breaks : a = b \/ a.to < b.from \/ b.to < a.from
  <2>1. Adjacent \in Nat /\ \A a \in breaks : a.from \in Nat /\ a.to \in Nat
    BY <1>6, ReachAssumption, InputsAssumption DEF AreStretches, Stretch, Times
  <2> QED BY <1>6, <2>1
<1>9. /\ AreStretches(joined)
      /\ \A s \in breaks : \E j \in joined : Within(s, j) /\ (s.unconfirmed => j.unconfirmed)
      /\ \A j \in joined : ~j.unconfirmed => \E s \in breaks : s.from = j.from /\ s.to = j.to /\ ~s.unconfirmed
  BY <1>6, <1>8, JoinedIs, JoinedFlags
<1> HIDE DEF joined
<1>10. \A j \in joined : /\ GrownFrom(e, j, Extended(e, j))
                         /\ j.unconfirmed => Extended(e, j).unconfirmed
                         /\ ~Extended(e, j).unconfirmed =>
                              ~j.unconfirmed /\ Extended(e, j).from = j.from /\ Extended(e, j).to = j.to
  BY <1>9, ExtendedIs DEF AreStretches
<1>11. \A b \in Commercial(e) : /\ OfBlock(b) \in Stretch /\ OfBlock(b).from = b.from /\ OfBlock(b).to = b.to
                                /\ OfBlock(b).unconfirmed /\ b.from < b.to
  BY DEF Commercial, IsEvidence, OfBlock, Stretch
<1>12. /\ \A s \in joined : Extended(e, s) \in parts
       /\ \A p \in parts : \/ \E s \in joined : p = Extended(e, s)
                           \/ \E b \in Commercial(e) : p = OfBlock(b)
  OBVIOUS
<1> HIDE DEF parts
<1>13. AreStretches(parts)
  BY <1>10, <1>11, <1>12 DEF AreStretches, GrownFrom
<1>14. /\ AreStretches(AdStretches(found, e))
       /\ \A a, b \in AdStretches(found, e) : a = b \/ a.to + Adjacent < b.from \/ b.to + Adjacent < a.from
  BY <1>2, <1>13, MergedIs
<1>15. /\ \A s \in parts : \E h \in AdStretches(found, e) : Within(s, h) /\ (s.unconfirmed => h.unconfirmed)
       /\ \A h \in AdStretches(found, e) : \A u \in Nat : h.from <= u /\ u < h.to + Adjacent =>
            \E s \in parts : s.from <= u /\ u < s.to + Adjacent /\ (s.unconfirmed => h.unconfirmed)
  BY <1>2, <1>13, MergedFlags
<1>16. ASSUME NEW m \in found, NEW s \in AdStretches(found, e), Shown(e, m), Projected(m), Within(BreakOf(e, m), s)
       PROVE  s.unconfirmed
  <2>1. BreakOf(e, m) \in raw /\ BreakOf(e, m).unconfirmed
    BY <1>5, <1>16 DEF BreakOf
  <2>2. PICK h \in breaks : Within(BreakOf(e, m), h) /\ h.unconfirmed
    BY <1>7, <2>1
  <2>3. PICK j \in joined : Within(h, j) /\ j.unconfirmed
    BY <1>9, <2>2
  <2>4. Within(j, Extended(e, j)) /\ Extended(e, j) \in parts /\ Extended(e, j).unconfirmed
    BY <1>10, <1>12, <2>3 DEF GrownFrom
  <2>5. PICK t \in AdStretches(found, e) : Within(Extended(e, j), t) /\ t.unconfirmed
    BY <1>15, <2>4
  <2>6. \A x \in {BreakOf(e, m), h, j, Extended(e, j), s, t} : x \in Stretch
    BY <1>6, <1>9, <1>10, <1>14, BreakOfIs DEF AreStretches, GrownFrom
  <2>7. \A x \in {BreakOf(e, m), h, j, Extended(e, j), s, t} : x.from \in Nat /\ x.to \in Nat
    BY <2>6, InputsAssumption DEF Stretch, Times
  <2>8. Within(BreakOf(e, m), t) /\ BreakOf(e, m).from < BreakOf(e, m).to
    BY <1>3, <2>1, <2>2, <2>3, <2>4, <2>5, <2>7 DEF Within, AreStretches
  <2>9. s = t
    <3>1. s = t \/ s.to + Adjacent < t.from \/ t.to + Adjacent < s.from
      BY <1>14
    <3> QED BY <1>16, <2>7, <2>8, <3>1, ReachAssumption DEF Within
  <2> QED BY <2>5, <2>9
<1>17. ASSUME NEW s \in AdStretches(found, e), NEW u \in Nat, ~s.unconfirmed, s.from <= u, u < s.to
       PROVE  Agreed(found, u)
  <2>1. u < s.to + Adjacent
    BY <1>14, <1>17, ReachAssumption, InputsAssumption DEF AreStretches, Stretch, Times
  <2>2. PICK p \in parts : p.from <= u /\ u < p.to + Adjacent /\ ~p.unconfirmed
    BY <1>15, <1>17, <2>1
  <2>3. PICK j \in joined : p = Extended(e, j)
    BY <1>11, <1>12, <2>2
  <2>4. PICK h \in breaks : h.from = p.from /\ h.to = p.to /\ ~h.unconfirmed
    BY <1>9, <1>10, <2>2, <2>3
  <2>5. PICK r \in raw : r.from <= u /\ u < r.to + Adjacent /\ ~r.unconfirmed
    BY <1>7, <2>2, <2>4
  <2>6. PICK m \in found : r = BreakOf(e, m) /\ m.status = "ad"
    BY <1>4, <2>5 DEF IsBreak
  <2>7. m.from \in Times /\ m.to \in Times /\ m.agreedFrom \in Times /\ m.agreedTo \in Times
    BY DEF AreMatches
  <2>8. m.agreedFrom <= m.from /\ m.to <= m.agreedTo
    <3>1. ~Projected(m)
      BY <2>5, <2>6 DEF BreakOf
    <3> QED BY <2>7, <3>1, InputsAssumption DEF Projected, Times
  <2>9. /\ m.from - SnapReach <= r.from /\ r.to <= m.to + SnapReach
        /\ r.from \in Times /\ r.to \in Times
    BY <2>6, <2>7, SnapIs DEF BreakOf
  <2>10. m.agreedFrom - SnapReach <= u /\ u < m.agreedTo + SnapReach + Adjacent
    BY <2>5, <2>7, <2>8, <2>9, InputsAssumption, ReachAssumption DEF Times
  <2> QED BY <2>6, <2>10 DEF Agreed
<1> QED BY <1>16, <1>17

(* The marks. *)

IsMark(m) == m = [start |-> m.start, end |-> m.end, kind |-> m.kind, state |-> m.state, basis |-> m.basis]

\* What is left of a mark that is no ad is no ad either, is long enough and shares nothing with one.
LEMMA OtherMarksAre ==
  ASSUME NEW e, IsEvidence(e), NEW found, AreMatches(found), NEW d, NEW ads,
         \A ad \in ads : ad.start \in Nat /\ ad.end \in Nat,
         NEW piece \in OtherMarks(found, e, d, ads)
  PROVE  /\ IsMark(piece) /\ piece.kind # "ad" /\ piece.end - piece.start >= MinPiece
         /\ \A ad \in ads : piece.end <= ad.start \/ ad.end <= piece.start
<1>1. PICK m \in found : /\ ~IsBreak(e, m) /\ piece \in Outside(OtherMark(e, d, m), ads)
                     /\ piece.end - piece.start >= MinPiece
  BY DEF OtherMarks
<1>2. PICK o : o = OtherMark(e, d, m)
  OBVIOUS
<1>3. Snap(e, m.from) \in Times /\ Snap(e, m.to) \in Times /\ m.agreedFrom \in Times /\ m.agreedTo \in Times
  BY SnapIs DEF AreMatches
<1>4. /\ o.start \in Times /\ o.end \in Times /\ o.kind # "ad"
      /\ \E f, t, k, s : o = [start |-> f, end |-> t, kind |-> k, state |-> s, basis |-> "fingerprint"]
  BY <1>2, <1>3 DEF OtherMark
<1> DEFINE edges == {o.start} \cup {ad.end : ad \in ads}
           ends == {o.end} \cup {ad.start : ad \in ads}
<1>5. PICK from \in edges, to \in ends :
        /\ piece = PieceOf(o, from, to)
        /\ \A ad \in ads : ad.end <= piece.start \/ ad.start >= piece.end
  <2>0. piece \in Outside(o, ads)
    BY <1>1, <1>2
  <2>1. piece \in {PieceOf(o, f, t) : f \in edges, t \in ends}
        /\ \A ad \in ads : ad.end <= piece.start \/ ad.start >= piece.end
    BY <2>0 DEF Outside
  <2> HIDE DEF edges, ends
  <2> QED BY <2>1
<1>6. piece.start = from /\ piece.end = to /\ piece.kind = o.kind /\ IsMark(piece)
  BY <1>4, <1>5 DEF PieceOf, IsMark
<1>7. from \in Nat /\ to \in Nat
  <2>1. o.start \in Nat /\ o.end \in Nat
    BY <1>4, InputsAssumption DEF Times
  <2> QED BY <2>1
<1> QED BY <1>1, <1>4, <1>5, <1>6, <1>7

\* What combine() marks are its ad stretches, and beside them nothing but such pieces.
LEMMA CombinedIs ==
  ASSUME NEW e, IsEvidence(e), NEW found, AreMatches(found), NEW d
  PROVE  /\ \A mark \in Combined(found, e, d) : IsMark(mark)
         /\ \A mark \in Combined(found, e, d) :
              \/ mark.kind = "ad" /\ \E s \in AdStretches(found, e) : mark = AdMark(d, s)
              \/ /\ mark.kind # "ad" /\ mark.end - mark.start >= MinPiece
                 /\ \A s \in AdStretches(found, e) : mark.end <= s.from \/ s.to <= mark.start
         /\ \A s \in AdStretches(found, e) : /\ AdMark(d, s) \in Combined(found, e, d) /\ AdMark(d, s).kind = "ad"
                                         /\ AdMark(d, s).start = s.from /\ AdMark(d, s).end = s.to
<1> DEFINE ads == {AdMark(d, s) : s \in AdStretches(found, e)}
<1>1. Combined(found, e, d) = ads \cup OtherMarks(found, e, d, ads)
  BY DEF Combined
<1>2. \A s : IsMark(AdMark(d, s)) /\ AdMark(d, s).kind = "ad" /\ AdMark(d, s).start = s.from /\ AdMark(d, s).end = s.to
  BY DEF AdMark, IsMark
<1>3. \A s \in AdStretches(found, e) : AdMark(d, s) \in ads
  OBVIOUS
<1>4. \A ad \in ads : \E s \in AdStretches(found, e) : ad = AdMark(d, s)
  OBVIOUS
<1>5. \A ad \in ads : ad.start \in Nat /\ ad.end \in Nat
  <2>1. \A s \in AdStretches(found, e) : s.from \in Nat /\ s.to \in Nat
    BY AdStretchesIs, InputsAssumption DEF AreStretches, Stretch, Times
  <2> QED BY <1>2, <1>4, <2>1
<1> HIDE DEF ads
<1>6. ASSUME NEW piece \in OtherMarks(found, e, d, ads)
      PROVE  /\ IsMark(piece) /\ piece.kind # "ad" /\ piece.end - piece.start >= MinPiece
             /\ \A ad \in ads : piece.end <= ad.start \/ ad.end <= piece.start
  BY <1>5, OtherMarksAre
<1>7. ASSUME NEW piece \in OtherMarks(found, e, d, ads)
      PROVE  \A s \in AdStretches(found, e) : piece.end <= s.from \/ s.to <= piece.start
  BY <1>2, <1>3, <1>6
<1> QED BY <1>1, <1>2, <1>3, <1>4, <1>6, <1>7

(* The inputs, as they come. *)

Inputs ==
  /\ matches \subseteq MatchChoices
  /\ evidence \in [logoKnown : BOOLEAN, seams : SUBSET SeamChoices, logo : SUBSET LogoChoices,
                   blocks : SUBSET BlockChoices]
  /\ mode \in [final : BOOLEAN, now : Nat]

\* However the inputs come, they stay what combine() takes.
LEMMA InputsKept == Inputs /\ [Next]_vars => Inputs'
<1> SUFFICES ASSUME Inputs, [Next]_vars PROVE Inputs'
  OBVIOUS
<1>1. ASSUME NEW match \in MatchChoices, AddMatch(match) PROVE Inputs'
  BY <1>1 DEF Inputs, AddMatch, Given
<1>2. ASSUME NEW seam \in SeamChoices, AddSeam(seam) PROVE Inputs'
  BY <1>2 DEF Inputs, AddSeam, Given
<1>3. ASSUME NEW logo \in LogoChoices, AddLogo(logo) PROVE Inputs'
  BY <1>3 DEF Inputs, AddLogo, Given
<1>4. ASSUME NEW block \in BlockChoices, AddBlock(block) PROVE Inputs'
  BY <1>4 DEF Inputs, AddBlock, Given
<1>5. CASE Later
  BY <1>5, InputsAssumption DEF Inputs, Later, Given
<1>6. CASE UNCHANGED vars
  BY <1>6 DEF Inputs, vars
<1> QED BY <1>1, <1>2, <1>3, <1>4, <1>5, <1>6 DEF Next

LEMMA InputsAre ==
  ASSUME Inputs
  PROVE  AreMatches(matches) /\ IsEvidence(evidence)
<1>1. AreMatches(matches)
  BY InputsAssumption DEF Inputs, AreMatches
<1>2. IsFiniteSet(evidence.blocks)
  <2>1. evidence.blocks \subseteq BlockChoices /\ IsFiniteSet(BlockChoices)
    BY InputsAssumption DEF Inputs
  <2> QED BY <2>1, FS_Subset
<1>3. /\ evidence.seams \subseteq SeamChoices /\ evidence.logo \subseteq LogoChoices
      /\ evidence.blocks \subseteq BlockChoices
  BY DEF Inputs
<1> QED BY <1>1, <1>2, <1>3, InputsAssumption DEF IsEvidence

\* A mark that settles before its time is of agreed audio.
LEMMA SettlesAgreed ==
  ASSUME Inputs, marks = Combined(matches, evidence, mode)
  PROVE  SettledIsAgreed
<1> SUFFICES ASSUME NEW ad \in Ads, ~mode.final, ad.state = "settled", ad.end + SettleAfter > mode.now
             PROVE  /\ ad.end <= mode.now
                    /\ Units(ad.start, ad.end) \subseteq
                         UNION {Units(m.agreedFrom - SnapReach, m.agreedTo + SnapReach + Adjacent) :
                                  m \in {m \in matches : m.status = "ad"}}
  BY DEF SettledIsAgreed
<1>1. AreMatches(matches) /\ IsEvidence(evidence)
  BY InputsAre
<1>2. PICK s \in AdStretches(matches, evidence) : ad = AdMark(mode, s)
  BY <1>1, CombinedIs DEF Ads
<1>3. ad.start = s.from /\ ad.end = s.to /\ ad.state = StateOf(mode, s.unconfirmed, s.to)
  BY <1>2 DEF AdMark
<1>4. ~s.unconfirmed /\ s.to <= mode.now
  <2>1. s.to \in Nat /\ mode.now \in Nat /\ SettleAfter \in Nat
    BY <1>1, <1>2, AdStretchesIs, InputsAssumption, ReachAssumption DEF AreStretches, Stretch, Times, Inputs
  <2>2. ~(s.to + SettleAfter <= mode.now)
    BY <1>3, <2>1
  <2> QED BY <1>3, <2>2 DEF StateOf
<1>5. ASSUME NEW u \in Units(ad.start, ad.end)
      PROVE  \E m \in {m \in matches : m.status = "ad"} :
               u \in Units(m.agreedFrom - SnapReach, m.agreedTo + SnapReach + Adjacent)
  <2>1. u \in Times /\ s.from <= u /\ u < s.to
    BY <1>3 DEF Units
  <2>2. u \in Nat
    BY <2>1, InputsAssumption DEF Times
  <2>3. Agreed(matches, u)
    BY <1>1, <1>4, <2>1, <2>2, AdStretchesAgreed
  <2> QED BY <2>1, <2>3 DEF Agreed, Units
<1> QED BY <1>3, <1>4, <1>5

\* What combine() makes of any matches and any Evidence is sound.
LEMMA CombinedSound ==
  ASSUME Inputs, marks = Combined(matches, evidence, mode)
  PROVE  MarksSound
<1> DEFINE A == AdStretches(matches, evidence)
<1>1. AreMatches(matches) /\ IsEvidence(evidence)
  BY InputsAre
<1>2. /\ AreStretches(A)
      /\ \A a, b \in A : a = b \/ a.to + Adjacent < b.from \/ b.to + Adjacent < a.from
      /\ \A b \in Commercial(evidence) : \E s \in A : Within(b, s)
      /\ \A m \in matches : Shown(evidence, m) => \E s \in A : Within(BreakOf(evidence, m), s)
      /\ \A s \in A : \A logo : LongLogo(evidence, logo) /\ Overlaps(logo.from, logo.to, s) =>
           \/ OverBlock(evidence, logo.from, logo.to)
           \/ \E m \in matches : Overlaps(logo.from, logo.to, BreakOf(evidence, m))
  BY <1>1, AdStretchesIs
<1>3. /\ \A mark \in marks :
           \/ mark.kind = "ad" /\ \E s \in A : mark = AdMark(mode, s)
           \/ /\ mark.kind # "ad" /\ mark.end - mark.start >= MinPiece
              /\ \A s \in A : mark.end <= s.from \/ s.to <= mark.start
      /\ \A s \in A : /\ AdMark(mode, s) \in marks /\ AdMark(mode, s).kind = "ad"
                      /\ AdMark(mode, s).start = s.from /\ AdMark(mode, s).end = s.to
  BY <1>1, CombinedIs
<1> HIDE DEF A
<1>4. /\ \A ad \in Ads : \E s \in A : ad = AdMark(mode, s) /\ ad.start = s.from /\ ad.end = s.to
      /\ \A s \in A : AdMark(mode, s) \in Ads
      /\ \A other \in marks \ Ads : /\ other.end - other.start >= MinPiece
                                    /\ \A s \in A : other.end <= s.from \/ s.to <= other.start
  BY <1>3 DEF Ads
<1>5. MarksApart
  <2>1. ASSUME NEW ad \in Ads
        PROVE  /\ ad.start < ad.end
               /\ \A other \in Ads : ad = other \/ ad.end + Adjacent < other.start \/ other.end + Adjacent < ad.start
               /\ \A other \in marks \ Ads : other.end <= ad.start \/ ad.end <= other.start
    <3>1. PICK s \in A : ad = AdMark(mode, s) /\ ad.start = s.from /\ ad.end = s.to
      BY <1>4
    <3>2. ad.start < ad.end
      BY <1>2, <3>1 DEF AreStretches
    <3>3. ASSUME NEW other \in Ads
          PROVE  ad = other \/ ad.end + Adjacent < other.start \/ other.end + Adjacent < ad.start
      <4>1. PICK t \in A : other = AdMark(mode, t) /\ other.start = t.from /\ other.end = t.to
        BY <1>4
      <4> QED BY <1>2, <3>1, <4>1
    <3> QED BY <1>4, <3>1, <3>2, <3>3
  <2> QED BY <1>4, <2>1 DEF MarksApart
<1>6. AdvertsMarked
  <2>1. ASSUME NEW b \in Commercial(evidence) PROVE \E ad \in Ads : ad.start <= b.from /\ b.to <= ad.end
    <3>1. PICK s \in A : s.from <= b.from /\ b.to <= s.to
      BY <1>2 DEF Within
    <3> QED BY <1>3, <1>4, <3>1
  <2>2. ASSUME NEW m \in matches, IsBreak(evidence, m), Snap(evidence, m.from) < Snap(evidence, m.to)
        PROVE  \E ad \in Ads : ad.start <= Snap(evidence, m.from) /\ Snap(evidence, m.to) <= ad.end
    <3>1. PICK s \in A : Within(BreakOf(evidence, m), s)
      BY <1>2, <2>2 DEF Shown
    <3>2. s.from <= Snap(evidence, m.from) /\ Snap(evidence, m.to) <= s.to
      BY <1>1, <3>1, BreakOfIs DEF Within
    <3> QED BY <1>3, <1>4, <3>2
  <2> QED BY <2>1, <2>2 DEF AdvertsMarked
<1>7. LogoNeverBridged
  <2> SUFFICES ASSUME NEW logo \in evidence.logo, NEW ad \in Ads, logo.to - logo.from >= LogoCloses,
                      ad.start <= logo.from, logo.to <= ad.end
               PROVE  \/ \E m \in matches : Snap(evidence, m.from) < logo.to /\ logo.from < Snap(evidence, m.to)
                      \/ \E b \in Commercial(evidence) : b.from < logo.to /\ logo.from < b.to
    BY DEF LogoNeverBridged
  <2>1. PICK s \in A : ad.start = s.from /\ ad.end = s.to
    BY <1>4
  <2>2. s.from \in Nat /\ s.to \in Nat /\ logo.from \in Nat /\ logo.to \in Nat
    BY <1>1, <1>2, InputsAssumption DEF AreStretches, Stretch, Times, IsEvidence
  <2>3. logo.from < logo.to
    BY <2>2, ReachAssumption
  <2>4. LongLogo(evidence, logo) /\ Overlaps(logo.from, logo.to, s)
    BY <2>1, <2>2, <2>3 DEF LongLogo, Overlaps
  <2>5. CASE OverBlock(evidence, logo.from, logo.to)
    BY <2>5 DEF OverBlock, Overlaps
  <2>6. ASSUME NEW m \in matches, Overlaps(logo.from, logo.to, BreakOf(evidence, m))
        PROVE  Snap(evidence, m.from) < logo.to /\ logo.from < Snap(evidence, m.to)
    BY <1>1, <2>6, BreakOfIs DEF Overlaps
  <2> QED BY <1>2, <2>4, <2>5, <2>6
<1> QED BY <1>5, <1>6, <1>7, SettlesAgreed DEF MarksSound

\* Before anything is given there is nothing to mark.
LEMMA NoMarks == Init => Inputs /\ MarksSound
<1> SUFFICES ASSUME Init PROVE Inputs /\ MarksSound
  OBVIOUS
<1>1. Inputs
  <2>1. mode = [final |-> TRUE, now |-> 0] \/ mode = [final |-> FALSE, now |-> 0]
    BY DEF Init
  <2>2. \A f \in BOOLEAN : [final |-> f, now |-> 0] \in [final : BOOLEAN, now : Nat]
    OBVIOUS
  <2>3. mode \in [final : BOOLEAN, now : Nat]
    BY <2>1, <2>2
  <2> QED BY <2>3 DEF Init, Inputs
<1>2. Ads = {} /\ matches = {} /\ Commercial(evidence) = {}
  BY DEF Init, Ads, Commercial
<1> QED BY <1>1, <1>2 DEF MarksSound, MarksApart, AdvertsMarked, LogoNeverBridged, SettledIsAgreed

\* combine() (fingerprint/combiner.cpp) on any matches, seams, logo intervals and blocks of any
\* recording, however they nest, chain and touch: ad marks stay apart (rules 6 and 7), every
\* commercial block and every ad match not over programme is inside one of them (rules 1 and 5), and
\* none of them bridges a logo interval that neither matched audio nor a commercial block overlaps
\* (rule 4), and one that settles before its time is of agreed audio.
THEOREM CombineSound == MarksSpec => []MarksSound
<1>1. Inputs /\ MarksSound /\ [Next]_vars => (Inputs /\ MarksSound)'
  <2> SUFFICES ASSUME Inputs, MarksSound, [Next]_vars PROVE Inputs' /\ MarksSound'
    OBVIOUS
  <2>1. Inputs'
    BY InputsKept
  <2>2. CASE UNCHANGED vars
    <3>1. MarksSound'
      BY <2>2 DEF vars, MarksSound, MarksApart, AdvertsMarked, LogoNeverBridged, SettledIsAgreed, Ads
    <3> QED BY <2>1, <3>1
  <2>3. CASE Next
    <3>1. marks' = Combined(matches', evidence', mode')
      BY <2>3 DEF Next, AddMatch, AddSeam, AddLogo, AddBlock, Later, Given
    <3>2. (Inputs /\ marks = Combined(matches, evidence, mode) => MarksSound)'
      BY CombinedSound, PTL
    <3> QED BY <2>1, <3>1, <3>2
  <2> QED BY <2>2, <2>3
<1>2. MarksInit => Init
  BY DEF MarksInit
<1>3. [MarksNext]_allVars => [Next]_vars
  BY DEF MarksNext, CombineStep, LiveStep, StreamStep, FileStep, allVars
<1> QED BY NoMarks, <1>1, <1>2, <1>3, PTL DEF MarksSpec

-----------------------------------------------------------------------------
(* What settles while a recording is live. *)

\* LiveMarks combines as MCCombiner does, and counts as it does.
LEMMA LiveIs ==
  /\ \A e, t : Live!Snap(e, t) = Snap(e, t)
  /\ \A e, m : Live!IsBreak(e, m) = IsBreak(e, m)
  /\ \A m, e, d : Live!Combined(m, e, d) = Combined(m, e, d)
  /\ \A m, e : Live!AdStretches(m, e) = AdStretches(m, e)
<1>1. \A e, t : Live!Snap(e, t) = Snap(e, t)
  BY DEF Live!Snap, Snap, Live!NearSeams, NearSeams, Live!Distance, Distance
<1>2. \A e, m : Live!IsBreak(e, m) = IsBreak(e, m)
  BY DEF Live!IsBreak, IsBreak, Live!OverProgramme, OverProgramme, Live!NearSeams, NearSeams, Live!Distance, Distance
<1>3. \A e, m : Live!BreakOf(e, m) = BreakOf(e, m)
  BY <1>1 DEF Live!BreakOf, BreakOf, Live!Projected, Projected
<1>4. \A S : Live!Merged(S) = Merged(S)
  BY DEF Live!Merged, Merged, Live!Begins, Begins, Live!Group, Group, Live!Hull, Hull
<1>5. \A m, e : Live!Breaks(m, e) = Breaks(m, e)
  BY <1>2, <1>3, <1>4 DEF Live!Breaks, Breaks
<1>6. \A e, from, to : Live!ProgrammeBetween(e, from, to) = ProgrammeBetween(e, from, to)
  BY DEF Live!ProgrammeBetween, ProgrammeBetween, Live!LogoBetween, LogoBetween, Live!BlockBetween, BlockBetween,
    Live!Shared, Shared, Live!Larger, Larger, Live!Smaller, Smaller
<1>7. \A B, e, s : Live!JoinsPrevious(B, e, s) = JoinsPrevious(B, e, s)
  BY <1>6 DEF Live!JoinsPrevious, JoinsPrevious, Live!GapLimit, GapLimit
<1>8. \A S, F, f : Live!Hull(Live!Group(S, F, f)) = Hull(Group(S, F, f)) /\ Live!Group(S, F, f) = Group(S, F, f)
  BY DEF Live!Group, Group, Live!Hull, Hull
<1>0. \A S : Live!Cardinality(S) = Cardinality(S)
  BY DEF Live!Cardinality, Cardinality
<1>9. \A B, e : Live!Joined(B, e) = Joined(B, e)
  <2> SUFFICES ASSUME NEW B, NEW e PROVE Live!Joined(B, e) = Joined(B, e)
    OBVIOUS
  <2>1. {s \in B : ~Live!JoinsPrevious(B, e, s)} = {s \in B : ~JoinsPrevious(B, e, s)}
    BY <1>7
  <2>3. PICK F : F = {s \in B : ~JoinsPrevious(B, e, s)}
    OBVIOUS
  <2>4. Live!Joined(B, e) = {[Live!Hull(Live!Group(B, F, f)) EXCEPT
          !.unconfirmed = IF Live!Cardinality(Live!Group(B, F, f)) > 1 THEN TRUE ELSE @] : f \in F}
    BY Zenon, <2>1, <2>3 DEF Live!Joined
  <2>5. Joined(B, e) = {[Hull(Group(B, F, f)) EXCEPT
          !.unconfirmed = IF Cardinality(Group(B, F, f)) > 1 THEN TRUE ELSE @] : f \in F}
    BY Zenon, <2>3 DEF Joined
  <2>2. ASSUME NEW f
        PROVE  [Live!Hull(Live!Group(B, F, f)) EXCEPT
                  !.unconfirmed = IF Live!Cardinality(Live!Group(B, F, f)) > 1 THEN TRUE ELSE @]
               = [Hull(Group(B, F, f)) EXCEPT !.unconfirmed = IF Cardinality(Group(B, F, f)) > 1 THEN TRUE ELSE @]
    BY Zenon, <1>0, <1>8
  <2>6. ASSUME NEW x, x \in Live!Joined(B, e) PROVE x \in Joined(B, e)
    <3>1. PICK f \in F : x = [Live!Hull(Live!Group(B, F, f)) EXCEPT
            !.unconfirmed = IF Live!Cardinality(Live!Group(B, F, f)) > 1 THEN TRUE ELSE @]
      BY Zenon, <2>4, <2>6
    <3> QED BY Zenon, <2>2, <2>5, <3>1
  <2>7. ASSUME NEW x, x \in Joined(B, e) PROVE x \in Live!Joined(B, e)
    <3>1. PICK f \in F : x = [Hull(Group(B, F, f)) EXCEPT
            !.unconfirmed = IF Cardinality(Group(B, F, f)) > 1 THEN TRUE ELSE @]
      BY Zenon, <2>5, <2>7
    <3> QED BY Zenon, <2>2, <2>4, <3>1
  <2> QED BY <2>6, <2>7
<1>10. \A e, s : Live!Touching(e, s) = Touching(e, s) /\ Live!Commercial(e) = Commercial(e)
  BY DEF Live!Touching, Touching, Live!Commercial, Commercial
<1>11. ASSUME NEW e, NEW s PROVE Live!Extended(e, s) = Extended(e, s)
  BY Zenon, <1>0 DEF Live!Extended, Extended, Live!Reached, Reached, Live!Touching, Touching, Live!Commercial, Commercial
<1>12. \A b : Live!OfBlock(b) = OfBlock(b)
  BY DEF Live!OfBlock, OfBlock
<1>13. \A m, e : Live!AdStretches(m, e) = AdStretches(m, e)
  BY <1>4, <1>5, <1>9, <1>10, <1>11, <1>12 DEF Live!AdStretches, AdStretches
<1>14. \A d, s : Live!AdMark(d, s) = AdMark(d, s)
  BY DEF Live!AdMark, AdMark, Live!StateOf, StateOf
<1>15. ASSUME NEW e, NEW d, NEW m PROVE Live!OtherMark(e, d, m) = OtherMark(e, d, m)
  BY <1>1 DEF Live!OtherMark, OtherMark, Live!StateOf, StateOf, Live!Projected, Projected
<1>16. \A o, ads : Live!Outside(o, ads) = Outside(o, ads)
  BY DEF Live!Outside, Outside, Live!PieceOf, PieceOf
<1>17. \A o, ads : Live!MostlyInside(o, ads) = MostlyInside(o, ads)
  BY <1>0 DEF Live!MostlyInside, MostlyInside
<1>18. ASSUME NEW m, NEW e, NEW d, NEW ads PROVE Live!OtherMarks(m, e, d, ads) = OtherMarks(m, e, d, ads)
  <2>1. {Live!OtherMark(e, d, x) : x \in {x \in m : ~Live!IsBreak(e, x)}}
          = {OtherMark(e, d, x) : x \in {x \in m : ~IsBreak(e, x)}}
    BY <1>2, <1>15
  <2>2. PICK others : others = {OtherMark(e, d, x) : x \in {x \in m : ~IsBreak(e, x)}}
    OBVIOUS
  <2>3. {o \in others : o.kind = "in-programme ad" => ~Live!MostlyInside(o, ads)}
          = {o \in others : o.kind = "in-programme ad" => ~MostlyInside(o, ads)}
    BY <1>17
  <2>4. PICK kept : kept = {o \in others : o.kind = "in-programme ad" => ~MostlyInside(o, ads)}
    OBVIOUS
  <2>5. Live!OtherMarks(m, e, d, ads)
          = UNION {{piece \in Live!Outside(o, ads) : piece.end - piece.start >= MinPiece} : o \in kept}
    BY Zenon, <2>1, <2>2, <2>3, <2>4 DEF Live!OtherMarks
  <2>6. OtherMarks(m, e, d, ads)
          = UNION {{piece \in Outside(o, ads) : piece.end - piece.start >= MinPiece} : o \in kept}
    BY Zenon, <2>2, <2>4 DEF OtherMarks
  <2> QED BY <1>16, <2>5, <2>6
<1>19. \A m, e, d : Live!Combined(m, e, d) = Combined(m, e, d)
  BY <1>13, <1>14, <1>18 DEF Live!Combined, Combined
<1> QED BY <1>1, <1>2, <1>13, <1>19

\* A match the LiveMatcher has found: while it is open, some of it is still to come.
Heard == [status : Statuses, from : Times, to : Times, agreedFrom : Times, agreedTo : Times, open : BOOLEAN]

LiveTypes ==
  /\ now \in 0..MaxLiveNow /\ run \in 0..MaxLiveNow
  /\ heard \subseteq Heard /\ repeats \subseteq RepeatChoices
  /\ \A m \in heard : m.open => m.agreedTo < m.to
  /\ IsEvidence(known) /\ known.revision \in Nat
  /\ known.revision = 0 => last = {}

\* Of a mark of the kind seen before: where it is and since when.
SeenAds == {o \in seen : o.kind = "ad"}
\* The history remembers the ad marks last published, no others, each since it is there with these
\* edges; and they are apart.
SeenIsSteady ==
  /\ \A o \in SeenAds :
       /\ o.start \in Times /\ o.end \in Times /\ o.start < o.end
       /\ <<"ad", o.start, o.end>> \in DOMAIN steady /\ o.since = steady[<<"ad", o.start, o.end>>]
       /\ o.since \in Nat
       /\ \A p \in SeenAds : o = p \/ o.end < p.start \/ p.end < o.start
  /\ \A from, to \in Times : <<"ad", from, to>> \in DOMAIN steady => \E o \in SeenAds : o.start = from /\ o.end = to

\* What the Combiner is offered.
Offered == Live!CombinerMatches(heard, repeats, known)

\* What was published is what combine() makes of what is at hand, settled by how long it is steady.
NowMode == [final |-> FALSE, now |-> now]
Steady(m) == now - steady[<<m.kind, m.start, m.end>>] >= SettleAfter
PublishedIsCombined ==
  Live!Published => \A x \in last : x.kind = "ad" =>
    \E s \in AdStretches(Offered, known) :
      /\ x.start = s.from /\ x.end = s.to
      /\ x.state = IF x.end + SettleAfter <= now /\ ~Steady(x) THEN "provisional"
                   ELSE StateOf(NowMode, s.unconfirmed, s.to)

LiveInv == LiveTypes /\ SeenIsSteady /\ PublishedIsCombined

\* The ad mark seen before that a new one is taken for: itself, when it was seen before, and else
\* one that has moved; so it is there since what is remembered of it, or since now.
LEMMA SinceIs ==
  ASSUME SeenIsSteady, NEW m, m.kind = "ad", m.start \in Times, m.end \in Times, m.start < m.end
  PROVE  Live!Since(m) = IF <<"ad", m.start, m.end>> \in DOMAIN steady THEN steady[<<"ad", m.start, m.end>>] ELSE now
<1>1. \A t \in Times : t \in Nat /\ t <= Horizon
  BY InputsAssumption DEF Times
<1>2. PICK E : E = Live!Earlier(m)
  OBVIOUS
<1>3. E \subseteq SeenAds
  BY <1>2 DEF Live!Earlier, SeenAds
<1>4. ASSUME NEW o \in SeenAds
      PROVE  /\ o.start \in Nat /\ o.end \in Nat /\ o.start < o.end
             /\ Live!MarkShared(m, o) = (IF m.end <= o.end THEN m.end ELSE o.end) - (IF m.start >= o.start THEN m.start ELSE o.start)
             /\ Live!Unmoved(m, o) <=> m.start = o.start /\ m.end = o.end
  <2>1. o.start \in Nat /\ o.end \in Nat /\ o.start < o.end /\ m.start \in Nat /\ m.end \in Nat
    BY <1>1 DEF SeenIsSteady
  <2>2. Live!MarkShared(m, o) = (IF m.end <= o.end THEN m.end ELSE o.end) - (IF m.start >= o.start THEN m.start ELSE o.start)
    BY DEF Live!MarkShared, Live!Shared, Live!Smaller, Live!Larger
  <2>3. Live!Unmoved(m, o) <=> m.start = o.start /\ m.end = o.end
    BY <2>1, LiveAssumption DEF Live!Unmoved, Live!Distance
  <2> QED BY <2>1, <2>2, <2>3
<1>5. CASE <<"ad", m.start, m.end>> \in DOMAIN steady
  <2>1. PICK o \in SeenAds : o.start = m.start /\ o.end = m.end
    BY <1>5 DEF SeenIsSteady
  <2>2. o.since = steady[<<"ad", m.start, m.end>>]
    BY <2>1 DEF SeenIsSteady
  <2>3. o \in E
    <3>1. m.start \in Nat /\ m.end \in Nat
      BY <1>1
    <3>2. Live!MarkShared(m, o) = m.end - m.start /\ m.end - m.start > 0 /\ Live!Length(m) = m.end - m.start
      BY <1>4, <2>1, <3>1 DEF Live!Length
    <3>3. 2 * Live!MarkShared(m, o) >= Live!Length(m)
      BY <3>1, <3>2
    <3>4. o \in seen /\ o.kind = "ad"
      BY DEF SeenAds
    <3> QED BY <1>2, <3>2, <3>3, <3>4 DEF Live!Earlier
  <2>4. ASSUME NEW p \in E PROVE p = o
    <3>1. p \in SeenAds /\ Live!MarkShared(m, p) > 0
      BY <1>2, <1>3 DEF Live!Earlier
    <3>2. p = o \/ p.end < o.start \/ o.end < p.start
      BY <3>1 DEF SeenIsSteady
    <3>3. m.start \in Nat /\ m.end \in Nat
      BY <1>1
    <3> QED BY <1>4, <2>1, <3>1, <3>2, <3>3
  <2>5. E = {o}
    BY <2>3, <2>4
  <2>6. Live!Likest(m) = o
    BY <1>2, <1>4, <2>1, <2>5 DEF Live!Likest, Live!Before
  <2>7. Live!Unmoved(m, o)
    BY <1>4, <2>1
  <2> QED BY <1>2, <1>5, <2>2, <2>5, <2>6, <2>7 DEF Live!Since
<1>6. CASE <<"ad", m.start, m.end>> \notin DOMAIN steady
  <2>1. ASSUME NEW o \in SeenAds PROVE ~Live!Unmoved(m, o)
    BY <1>4, <1>6 DEF SeenIsSteady
  <2>2. ASSUME E # {} PROVE Live!Likest(m) \in E
    <3> DEFINE share == {Live!MarkShared(m, o) : o \in E}
    <3>1. share \in SUBSET Times
      <4>1. ASSUME NEW o \in E PROVE Live!MarkShared(m, o) \in Times
        <5>1. o \in SeenAds /\ Live!MarkShared(m, o) > 0
          BY <1>2, <1>3 DEF Live!Earlier
        <5>2. m.start \in Nat /\ m.end \in Nat /\ m.end <= Horizon /\ Horizon \in Nat
          BY <1>1, InputsAssumption
        <5>3. Live!MarkShared(m, o) \in Nat /\ Live!MarkShared(m, o) <= m.end
          BY <1>4, <5>1, <5>2
        <5> QED BY <5>2, <5>3 DEF Times
      <4> QED BY <4>1
    <3>2. PICK most \in share : \A n \in share : most >= n
      BY <2>2, <3>1, Latest
    <3> DEFINE starts == {o.start : o \in {p \in E : Live!MarkShared(m, p) = most}}
    <3>3. starts \in SUBSET Times /\ starts # {}
      <4>1. PICK o \in E : Live!MarkShared(m, o) = most
        BY <3>2
      <4>2. starts # {}
        BY <4>1
      <4>3. \A p \in E : p.start \in Times
        BY <1>3 DEF SeenIsSteady
      <4> QED BY <4>2, <4>3
    <3>4. PICK first \in starts : \A n \in starts : first <= n
      BY <3>3, Earliest
    <3>5. PICK o \in E : Live!MarkShared(m, o) = most /\ o.start = first
      BY <3>4
    <3>6. ASSUME NEW p \in E
          PROVE  \/ Live!MarkShared(m, o) > Live!MarkShared(m, p)
                 \/ Live!MarkShared(m, o) = Live!MarkShared(m, p) /\ Live!Before(o, p)
      <4>1. o \in SeenAds /\ p \in SeenAds
        BY <1>3
      <4>2. /\ o.start \in Nat /\ o.end \in Nat /\ o.start < o.end
            /\ p.start \in Nat /\ p.end \in Nat /\ p.start < p.end
        BY <1>4, <4>1
      <4>3. Live!MarkShared(m, p) \in share /\ Live!MarkShared(m, p) \in Nat /\ most \in Nat
        BY <1>1, <3>1, <3>2
      <4>4. most >= Live!MarkShared(m, p)
        BY <3>2, <4>3
      <4>5. CASE Live!MarkShared(m, p) = most
        <5>1. first <= p.start
          BY <3>4, <4>5
        <5>2. o = p \/ o.end < p.start \/ p.end < o.start
          BY <4>1 DEF SeenIsSteady
        <5> QED BY <3>5, <4>2, <4>5, <5>1, <5>2 DEF Live!Before
      <4> QED BY <3>5, <4>3, <4>4, <4>5
    <3> HIDE DEF share, starts
    <3> QED BY <1>2, <3>6 DEF Live!Likest
  <2> QED BY <1>2, <1>3, <1>6, <2>1, <2>2 DEF Live!Since
<1> QED BY <1>5, <1>6

\* What it is offered are matches, those with an entry among them.
LEMMA OfferedIs == LiveTypes => AreMatches(Offered) /\ heard \subseteq Offered
<1> SUFFICES ASSUME LiveTypes PROVE AreMatches(Offered) /\ heard \subseteq Offered
  OBVIOUS
<1>1. ASSUME NEW from \in Times, NEW to \in Times, NEW o, o = Live!AgreedAd(from, to) PROVE AreMatches({o})
  <2>1. o.status = "ad" /\ o.from = from /\ o.to = to /\ o.agreedFrom = from /\ o.agreedTo = to
    BY <1>1 DEF Live!AgreedAd
  <2> QED BY <2>1 DEF AreMatches, Statuses
<1>2. \A o \in Offered : o \in heard \/ \E from, to \in Times : o = Live!AgreedAd(from, to)
  BY LiveAssumption DEF Offered, Live!CombinerMatches, LiveTypes
<1>3. ASSUME NEW o \in Offered PROVE AreMatches({o})
  BY <1>1, <1>2 DEF LiveTypes, Heard, AreMatches
<1> QED BY <1>3 DEF AreMatches, Offered, Live!CombinerMatches

(* A step that publishes. *)

\* What settling by history leaves of marks: their state aside, the marks.
LEMMA SettledIs ==
  ASSUME NEW S, \A m \in S : IsMark(m)
  PROVE  /\ \A x \in Live!Settled(S) : \E m \in S :
              /\ x.start = m.start /\ x.end = m.end /\ x.kind = m.kind
              /\ x.state = IF Live!StillMoving(m) THEN "provisional" ELSE m.state
         /\ \A m \in S : \E x \in Live!Settled(S) : x.start = m.start /\ x.end = m.end /\ x.kind = m.kind
<1>1. ASSUME NEW m \in S, NEW x, x = IF Live!StillMoving(m) THEN [m EXCEPT !.state = "provisional"] ELSE m
      PROVE  /\ x.start = m.start /\ x.end = m.end /\ x.kind = m.kind
             /\ x.state = IF Live!StillMoving(m) THEN "provisional" ELSE m.state
  BY <1>1 DEF IsMark
<1>2. ASSUME NEW x \in Live!Settled(S)
      PROVE  \E m \in S : x = IF Live!StillMoving(m) THEN [m EXCEPT !.state = "provisional"] ELSE m
  BY DEF Live!Settled
<1>3. ASSUME NEW m \in S
      PROVE  (IF Live!StillMoving(m) THEN [m EXCEPT !.state = "provisional"] ELSE m) \in Live!Settled(S)
  BY DEF Live!Settled
<1> QED BY <1>1, <1>2, <1>3

\* The ad marks of a combination: apart, in time, each of one ad stretch.
LEMMA CombinedAds ==
  ASSUME NEW e, IsEvidence(e), NEW found, AreMatches(found), NEW d
  PROVE  /\ \A m \in Combined(found, e, d) : IsMark(m)
         /\ \A m \in Combined(found, e, d) : m.kind = "ad" =>
              /\ m.start \in Times /\ m.end \in Times /\ m.start < m.end
              /\ \E s \in AdStretches(found, e) :
                   m.start = s.from /\ m.end = s.to /\ m.state = StateOf(d, s.unconfirmed, s.to)
              /\ \A o \in Combined(found, e, d) : o.kind = "ad" =>
                   m = o \/ m.end < o.start \/ o.end < m.start
<1> DEFINE C == Combined(found, e, d)
<1>1. \A m \in C : IsMark(m)
  BY CombinedIs
<1>2. ASSUME NEW m \in C, m.kind = "ad"
      PROVE  \E s \in AdStretches(found, e) :
               /\ m = AdMark(d, s) /\ s \in Stretch /\ s.from < s.to
               /\ m.start = s.from /\ m.end = s.to /\ m.state = StateOf(d, s.unconfirmed, s.to)
  <2>1. PICK s \in AdStretches(found, e) : m = AdMark(d, s)
    BY <1>2, CombinedIs
  <2> QED BY <2>1, AdStretchesIs DEF AreStretches, AdMark
<1>3. ASSUME NEW m \in C, m.kind = "ad", NEW o \in C, o.kind = "ad"
      PROVE  m = o \/ m.end < o.start \/ o.end < m.start
  <2>1. PICK s \in AdStretches(found, e) : m = AdMark(d, s) /\ s \in Stretch /\ m.start = s.from /\ m.end = s.to
    BY <1>2, <1>3
  <2>2. PICK t \in AdStretches(found, e) : o = AdMark(d, t) /\ t \in Stretch /\ o.start = t.from /\ o.end = t.to
    BY <1>2, <1>3
  <2>3. s = t \/ s.to + Adjacent < t.from \/ t.to + Adjacent < s.from
    BY AdStretchesIs
  <2> QED BY <2>1, <2>2, <2>3, ReachAssumption, InputsAssumption DEF Stretch, Times
<1>4. ASSUME NEW m \in C, m.kind = "ad" PROVE m.start \in Times /\ m.end \in Times /\ m.start < m.end
  BY <1>2, <1>4 DEF Stretch
<1> QED BY <1>1, <1>2, <1>3, <1>4

\* publish() remembers each ad mark since it is there, and settles it when that is long enough.
LEMMA PublishKeeps ==
  ASSUME LiveTypes, SeenIsSteady, Live!PublishMarks, known.revision # 0, UNCHANGED <<Live!audio, known>>
  PROVE  LiveTypes' /\ SeenIsSteady' /\ PublishedIsCombined'
<1> DEFINE C == Combined(Offered, known, NowMode)
           shown == Live!Settled(C)
           Key(m) == <<m.kind, m.start, m.end>>
<1>1. IsEvidence(known) /\ AreMatches(Offered)
  BY OfferedIs DEF LiveTypes
<1> USE DEF Live!audio
<1>2. /\ seen' = Live!SeenAfter(C) /\ last' = shown
      /\ steady' = [key \in {Key(m) : m \in shown} |-> IF key \in DOMAIN steady THEN steady[key] ELSE now]
  BY LiveIs DEF Live!PublishMarks, NowMode, Offered
<1>3. /\ \A m \in C : IsMark(m)
      /\ \A m \in C : m.kind = "ad" =>
           /\ m.start \in Times /\ m.end \in Times /\ m.start < m.end
           /\ \E s \in AdStretches(Offered, known) :
                m.start = s.from /\ m.end = s.to /\ m.state = StateOf(NowMode, s.unconfirmed, s.to)
           /\ \A o \in C : o.kind = "ad" => m = o \/ m.end < o.start \/ o.end < m.start
  BY <1>1, CombinedAds
<1> HIDE DEF C
<1>4. /\ \A x \in shown : \E m \in C : /\ x.start = m.start /\ x.end = m.end /\ x.kind = m.kind
                                   /\ x.state = IF Live!StillMoving(m) THEN "provisional" ELSE m.state
      /\ \A m \in C : \E x \in shown : x.start = m.start /\ x.end = m.end /\ x.kind = m.kind
  BY <1>3, SettledIs
<1> HIDE DEF shown
<1>5. ASSUME NEW m \in C
      PROVE  /\ Key(m) \in DOMAIN steady'
             /\ steady'[Key(m)] = IF Key(m) \in DOMAIN steady THEN steady[Key(m)] ELSE now
  <2>1. PICK x \in shown : Key(x) = Key(m)
    BY <1>4
  <2> HIDE DEF Key
  <2> QED BY <1>2, <2>1
<1>6. ASSUME NEW key \in DOMAIN steady' PROVE \E m \in C : key = Key(m)
  <2>1. PICK x \in shown : key = Key(x)
    BY <1>2
  <2>2. PICK m \in C : x.start = m.start /\ x.end = m.end /\ x.kind = m.kind
    BY <1>4
  <2> QED BY <2>1, <2>2
<1>7. ASSUME NEW m \in C, m.kind = "ad" PROVE Live!Since(m) = steady'[Key(m)] /\ Live!Since(m) \in Nat
  <2>1. m.start \in Times /\ m.end \in Times /\ m.start < m.end
    BY <1>3, <1>7
  <2>2. Live!Since(m) = IF <<"ad", m.start, m.end>> \in DOMAIN steady THEN steady[<<"ad", m.start, m.end>>] ELSE now
    BY <1>7, <2>1, SinceIs
  <2>3. <<"ad", m.start, m.end>> \in DOMAIN steady => steady[<<"ad", m.start, m.end>>] \in Nat
    BY <2>1 DEF SeenIsSteady
  <2>4. now \in Nat
    BY LiveAssumption DEF LiveTypes
  <2> QED BY <1>5, <1>7, <2>2, <2>3, <2>4
<1>8. LiveTypes'
  BY DEF LiveTypes
<1>9. \A o \in SeenAds' : \E m \in C : /\ m.kind = "ad" /\ o.start = m.start /\ o.end = m.end
                                       /\ o = [start |-> m.start, end |-> m.end, kind |-> m.kind, since |-> Live!Since(m)]
  BY <1>2 DEF SeenAds, Live!SeenAfter
<1>10. \A m \in C : m.kind = "ad" => \E o \in SeenAds' : o.start = m.start /\ o.end = m.end
  <2>1. \A m \in C : [start |-> m.start, end |-> m.end, kind |-> m.kind, since |-> Live!Since(m)] \in seen'
    BY <1>2 DEF Live!SeenAfter
  <2>2. ASSUME NEW m \in C, m.kind = "ad" PROVE \E o \in SeenAds' : o.start = m.start /\ o.end = m.end
    <3>1. PICK o \in seen' : o = [start |-> m.start, end |-> m.end, kind |-> m.kind, since |-> Live!Since(m)]
      BY <2>1
    <3>2. o.kind = "ad" /\ o.start = m.start /\ o.end = m.end
      BY <2>2, <3>1
    <3> QED BY <3>2 DEF SeenAds
  <2> QED BY <2>2
<1>11. SeenIsSteady'
  <2>1. ASSUME NEW o \in SeenAds'
        PROVE  /\ o.start \in Times /\ o.end \in Times /\ o.start < o.end
               /\ <<"ad", o.start, o.end>> \in DOMAIN steady' /\ o.since = steady'[<<"ad", o.start, o.end>>]
               /\ o.since \in Nat
    <3>1. PICK m \in C : /\ m.kind = "ad" /\ o.start = m.start /\ o.end = m.end
                         /\ o = [start |-> m.start, end |-> m.end, kind |-> m.kind, since |-> Live!Since(m)]
      BY <1>9
    <3>2. o.since = Live!Since(m)
      BY <3>1
    <3> QED BY <1>3, <1>5, <1>7, <3>1, <3>2
  <2>2. ASSUME NEW o \in SeenAds', NEW p \in SeenAds' PROVE o = p \/ o.end < p.start \/ p.end < o.start
    <3>1. PICK m \in C : /\ m.kind = "ad" /\ o.start = m.start /\ o.end = m.end
                         /\ o = [start |-> m.start, end |-> m.end, kind |-> m.kind, since |-> Live!Since(m)]
      BY <1>9
    <3>2. PICK n \in C : /\ n.kind = "ad" /\ p.start = n.start /\ p.end = n.end
                         /\ p = [start |-> n.start, end |-> n.end, kind |-> n.kind, since |-> Live!Since(n)]
      BY <1>9
    <3>3. m = n \/ m.end < n.start \/ n.end < m.start
      BY <1>3, <3>1, <3>2
    <3> QED BY <3>1, <3>2, <3>3
  <2>3. ASSUME NEW from \in Times, NEW to \in Times, <<"ad", from, to>> \in DOMAIN steady'
        PROVE  \E o \in SeenAds' : o.start = from /\ o.end = to
    <3>1. PICK m \in C : <<"ad", from, to>> = Key(m)
      BY <1>6, <2>3
    <3> QED BY <1>10, <3>1
  <2> QED BY <2>1, <2>2, <2>3 DEF SeenIsSteady
<1>12. PublishedIsCombined'
  <2> SUFFICES ASSUME NEW x \in shown, x.kind = "ad"
               PROVE  \E s \in AdStretches(Offered, known) :
                        /\ x.start = s.from /\ x.end = s.to
                        /\ x.state = IF x.end + SettleAfter <= now /\ ~(Steady(x)') THEN "provisional"
                                     ELSE StateOf(NowMode, s.unconfirmed, s.to)
    BY <1>2 DEF PublishedIsCombined, NowMode, Offered
  <2>1. PICK m \in C : /\ x.start = m.start /\ x.end = m.end /\ x.kind = m.kind
                       /\ x.state = IF Live!StillMoving(m) THEN "provisional" ELSE m.state
    BY <1>4
  <2>2. PICK s \in AdStretches(Offered, known) :
          m.start = s.from /\ m.end = s.to /\ m.state = StateOf(NowMode, s.unconfirmed, s.to)
    BY <1>3, <2>1
  <2>3. Live!Since(m) = steady'[<<x.kind, x.start, x.end>>] /\ Live!Since(m) \in Nat /\ now \in Nat
    BY <1>7, <2>1, LiveAssumption DEF LiveTypes
  <2>4. Live!StillMoving(m) <=> x.end + SettleAfter <= now /\ now - steady'[<<x.kind, x.start, x.end>>] < SettleAfter
    BY <2>1, <2>3 DEF Live!StillMoving
  <2>5. Live!StillMoving(m) <=> x.end + SettleAfter <= now /\ ~(Steady(x)')
    BY <2>3, <2>4, ReachAssumption DEF Steady
  <2> QED BY <2>1, <2>2, <2>5
<1> QED BY <1>8, <1>11, <1>12

(* Every step of the loop. *)

\* A match stays a match as the audio goes on.
LEMMA PieceKeeps == LiveTypes /\ Live!Piece => LiveTypes'
<1> SUFFICES ASSUME LiveTypes, Live!Piece PROVE LiveTypes'
  OBVIOUS
<1>1. now \in Nat /\ MaxLiveNow \in Nat /\ Horizon \in Nat /\ now' = now + 1 /\ now < MaxLiveNow /\ run \in 0..MaxLiveNow
  BY LiveAssumption, InputsAssumption DEF Live!Piece, LiveTypes
<1>2. \A t \in Times : t \in Nat
  BY <1>1 DEF Times
<1>3. ASSUME NEW m \in heard PROVE m \in Heard /\ (m.open => m.agreedTo < m.to)
  BY DEF LiveTypes
<1>4. ASSUME NEW m \in heard, NEW x, x = Live!Withdrawn(m) PROVE x \in Heard /\ (x.open => x.agreedTo < x.to)
  BY <1>3, <1>4 DEF Live!Withdrawn, Heard
<1>5. ASSUME NEW m \in heard, NEW x, x = Live!Grown(m, now') PROVE x \in Heard /\ (x.open => x.agreedTo < x.to)
  <2>1. m \in Heard
    BY <1>3
  <2>2. PICK to \in Nat : to = m.to /\ to <= Horizon
    BY <1>1, <2>1 DEF Heard, Times
  <2>3. PICK agreed : agreed = IF to <= now' THEN to ELSE now'
    OBVIOUS
  <2>4. agreed \in Times /\ (to > now' => agreed < to)
    BY <1>1, <2>2, <2>3 DEF Times
  <2>5. PICK open : open = (m.to > now')
    OBVIOUS
  <2>6. open \in BOOLEAN /\ (open <=> to > now')
    <3>1. (to > now') \in BOOLEAN
      BY <1>1
    <3> QED BY Zenon, <2>2, <2>5, <3>1
  <2>7. x = [m EXCEPT !.agreedTo = agreed, !.open = open]
    BY Zenon, <1>5, <2>2, <2>3, <2>5 DEF Live!Grown
  <2>8. x \in Heard /\ x.open = open /\ x.agreedTo = agreed /\ x.to = to
    BY <2>1, <2>2, <2>4, <2>7, <2>6 DEF Heard
  <2> QED BY <2>4, <2>8, <2>6
<1>6. ASSUME NEW entry \in Entries, NEW gone \in 0..(entry.length - 1), NEW x, x = Live!Found(entry, gone, now')
      PROVE  x \in Heard /\ (x.open => x.agreedTo < x.to)
  <2>1. entry.status \in Statuses /\ entry.length \in Nat /\ entry.length > 0 /\ MaxLiveNow + entry.length <= Horizon + 1
    BY LiveAssumption
  <2>2. PICK to \in Nat : to = now - gone + entry.length
    BY <1>1, <2>1
  <2>3. PICK open \in BOOLEAN : open <=> to > now + 1
    OBVIOUS
  <2>4. PICK from : from = IF gone > now - run /\ now - run <= BackReach THEN run ELSE now
    OBVIOUS
  <2>5. x = [status |-> entry.status, from |-> from, to |-> to, agreedFrom |-> now, agreedTo |-> now + 1, open |-> open]
    BY <1>1, <1>6, <2>2, <2>3, <2>4 DEF Live!Found
  <2>6. now \in Times /\ run \in Times /\ to \in Times /\ now + 1 \in Times
    BY <1>1, <2>1, <2>2 DEF Times
  <2>7. from \in Times
    BY <2>4, <2>6
  <2>8. open => now + 1 < to
    BY <1>1, <2>3
  <2> QED BY <2>1, <2>5, <2>6, <2>7, <2>8 DEF Heard
<1>7. ASSUME NEW x \in heard' PROVE x \in Heard /\ (x.open => x.agreedTo < x.to)
  <2>1. \/ x \in heard \/ \E m \in heard : x = Live!Withdrawn(m)
        \/ \E m \in heard : x = Live!Grown(m, now')
        \/ \E entry \in Entries : \E gone \in 0..(entry.length - 1) : x = Live!Found(entry, gone, now')
    BY DEF Live!Piece, Live!Open, Live!Closed
  <2> QED BY <1>3, <1>4, <1>5, <1>6, <2>1
<1>8. now' \in 0..MaxLiveNow /\ UNCHANGED <<run, known, last>>
  BY <1>1 DEF Live!Piece, Live!published
<1>9. repeats' \subseteq RepeatChoices
  BY DEF Live!Piece, Live!RepeatsBy, LiveTypes
<1> QED BY <1>1, <1>7, <1>8, <1>9 DEF LiveTypes

\* So does one that ends with its run.
LEMMA FinishKeeps ==
  ASSUME LiveTypes, heard' = Live!Finished, Live!RepeatsBy(now), UNCHANGED <<known, last>>,
         now' \in 0..MaxLiveNow, run' \in 0..MaxLiveNow
  PROVE  LiveTypes'
<1>1. ASSUME NEW m \in heard, NEW x, x = Live!Withdrawn(m) PROVE x \in Heard /\ ~x.open
  BY <1>1 DEF Live!Withdrawn, Heard, LiveTypes
<1>2. \A x \in heard' : x \in Heard /\ (x.open => x.agreedTo < x.to)
  BY <1>1 DEF Live!Finished, Live!Closed, Live!Open, LiveTypes
<1>3. repeats' \subseteq RepeatChoices
  BY DEF Live!RepeatsBy, LiveTypes
<1> QED BY <1>2, <1>3 DEF LiveTypes

\* Whatever the Evidence file says can be combined.
LEMMA LookKeeps == LiveTypes /\ Live!LookAt /\ UNCHANGED <<Live!audio, last>> => LiveTypes'
<1> SUFFICES ASSUME LiveTypes, Live!LookAt, UNCHANGED <<Live!audio, last>> PROVE LiveTypes'
  OBVIOUS
<1> USE DEF Live!audio
<1>1. CASE UNCHANGED known
  BY <1>1 DEF LiveTypes
<1>2. ASSUME NEW r \in 1..MaxRevision, NEW choice \in EvidenceChoices, Live!Newer(r),
             known' = [revision |-> r, logoKnown |-> choice.logoKnown, seams |-> choice.seams,
                       logo |-> choice.logo, blocks |-> choice.blocks]
      PROVE  LiveTypes'
  <2>1. /\ choice.seams \subseteq Times /\ choice.logo \subseteq [from : Times, to : Times]
        /\ choice.blocks \subseteq [from : Times, to : Times, commercial : BOOLEAN] /\ IsFiniteSet(choice.blocks)
    BY LiveAssumption
  <2>2. IsEvidence(known')
    BY <1>2, <2>1 DEF IsEvidence
  <2>3. known'.revision \in Nat /\ known'.revision # 0
    BY <1>2
  <2> QED BY <1>2, <2>2, <2>3 DEF LiveTypes
<1> QED BY <1>1, <1>2 DEF Live!LookAt

LEMMA LiveInvKept == LiveInv /\ [MarksNext]_allVars => LiveInv'
<1> SUFFICES ASSUME LiveInv, [MarksNext]_allVars PROVE LiveInv'
  OBVIOUS
<1> USE DEF Live!published
<1>1. CASE UNCHANGED liveVars
  BY <1>1
  DEF liveVars, LiveInv, LiveTypes, SeenIsSteady, SeenAds, PublishedIsCombined, Offered, Live!Published, Steady, NowMode
<1>2. ASSUME LiveTypes', UNCHANGED <<seen, steady>>, pc' \in {"look", "publish", "lastLook", "lastPublish"}
      PROVE  LiveInv'
  BY <1>2 DEF LiveInv, SeenIsSteady, SeenAds, PublishedIsCombined, Live!Published
<1>3. CASE Live!Piece
  BY <1>2, <1>3, PieceKeeps DEF LiveInv, Live!Piece
<1>4. CASE Live!NoPiece
  BY <1>2, <1>4 DEF LiveInv, LiveTypes, Live!NoPiece, Live!audio
<1>5. CASE Live!Look \/ Live!LastLook
  BY <1>2, <1>5, LookKeeps DEF LiveInv, Live!Look, Live!LastLook
<1>6. CASE Live!NewRun \/ Live!End \/ Live!Finish
  <2>1. now' \in 0..MaxLiveNow /\ run' \in 0..MaxLiveNow
    BY <1>6, LiveAssumption DEF Live!NewRun, Live!End, Live!Finish, LiveInv, LiveTypes
  <2>2. heard' = Live!Finished /\ Live!RepeatsBy(now) /\ UNCHANGED <<known, last>>
    BY <1>6 DEF Live!NewRun, Live!End, Live!Finish
  <2>3. LiveTypes'
    BY <2>1, <2>2, FinishKeeps DEF LiveInv
  <2> QED BY <1>2, <1>6, <2>3 DEF Live!NewRun, Live!End, Live!Finish
<1>7. CASE Live!Publish \/ Live!LastPublish
  <2>1. Live!PublishMarks /\ UNCHANGED <<Live!audio, known>>
    BY <1>7 DEF Live!Publish, Live!LastPublish
  <2>2. CASE known.revision = 0
    BY <2>1, <2>2
    DEF Live!PublishMarks, Live!audio, LiveInv, LiveTypes, SeenIsSteady, SeenAds, PublishedIsCombined
  <2>3. CASE known.revision # 0
    BY <2>1, <2>3, PublishKeeps DEF LiveInv
  <2> QED BY <2>2, <2>3
<1> QED
  BY <1>1, <1>3, <1>4, <1>5, <1>6, <1>7
  DEF MarksNext, CombineStep, LiveStep, StreamStep, FileStep, allVars, Live!Next

LEMMA LiveInvInit == MarksInit => LiveInv
<1> SUFFICES ASSUME Live!Init PROVE LiveInv
  BY DEF MarksInit
<1>1. IsEvidence(known) /\ known.revision = 0
  BY FS_EmptySet DEF Live!Init, Live!NoEvidence, IsEvidence
<1>2. DOMAIN steady = {} /\ seen = {} /\ heard = {} /\ repeats = {} /\ last = {} /\ now = 0 /\ run = 0
  BY DEF Live!Init
<1> QED BY <1>1, <1>2, LiveAssumption DEF LiveInv, LiveTypes, SeenIsSteady, SeenAds, PublishedIsCombined

\* An ad stretch that holds a break still growing is not confirmed.
LEMMA LiveInvSays == LiveInv => Live!AgedAdsSettleWhenQuiet /\ Live!OpenIsProvisional
<1> SUFFICES ASSUME LiveInv PROVE Live!AgedAdsSettleWhenQuiet /\ Live!OpenIsProvisional
  OBVIOUS
<1>1. IsEvidence(known) /\ AreMatches(Offered) /\ heard \subseteq Offered
  BY OfferedIs DEF LiveInv, LiveTypes
<1>2. ASSUME Live!Published, NEW x \in last, x.kind = "ad", x.end + SettleAfter <= now
      PROVE  x.state = "settled" <=> Live!Quiet(x)  \* be it agreed or not
  <2>1. PICK s \in AdStretches(Offered, known) :
          /\ x.start = s.from /\ x.end = s.to
          /\ x.state = IF x.end + SettleAfter <= now /\ ~Steady(x) THEN "provisional"
                       ELSE StateOf(NowMode, s.unconfirmed, s.to)
    BY <1>2 DEF LiveInv, PublishedIsCombined
  <2>2. StateOf(NowMode, s.unconfirmed, s.to) = "settled"
    BY <1>2, <2>1 DEF StateOf, NowMode
  <2> QED BY <1>2, <2>1, <2>2 DEF Steady, Live!Quiet
<1>3. ASSUME Live!Published, NEW x \in last, NEW o \in Live!Open, x.kind = "ad", IsBreak(known, o),
             Snap(known, o.from) < Snap(known, o.to), x.start <= Snap(known, o.from), Snap(known, o.to) <= x.end,
             x.end + SettleAfter > now
      PROVE  x.state = "provisional"
  <2>1. PICK s \in AdStretches(Offered, known) :
          /\ x.start = s.from /\ x.end = s.to
          /\ x.state = IF x.end + SettleAfter <= now /\ ~Steady(x) THEN "provisional"
                       ELSE StateOf(NowMode, s.unconfirmed, s.to)
    BY <1>3 DEF LiveInv, PublishedIsCombined
  <2>2. o \in heard /\ o.open /\ o \in Heard /\ o.agreedTo < o.to
    BY DEF Live!Open, LiveInv, LiveTypes
  <2>3. Projected(o)
    BY <2>2 DEF Projected
  <2>4. Shown(known, o) /\ Within(BreakOf(known, o), s)
    BY <1>3, <2>1 DEF Shown, Within, BreakOf
  <2>5. s.unconfirmed
    BY <1>1, <2>2, <2>3, <2>4, AdStretchesAgreed
  <2>6. s.to \in Nat /\ now \in Nat /\ SettleAfter \in Nat
    BY <1>1, AdStretchesIs, InputsAssumption, ReachAssumption, LiveAssumption
    DEF AreStretches, Stretch, Times, LiveInv, LiveTypes
  <2>7. ~(s.to + SettleAfter <= now)
    BY <1>3, <2>1, <2>6
  <2>8. StateOf(NowMode, s.unconfirmed, s.to) = "provisional"
    BY <2>5, <2>7 DEF StateOf, NowMode
  <2> QED BY <2>1, <2>8
<1>4. Live!AgedAdsSettleWhenQuiet
  BY <1>2 DEF Live!AgedAdsSettleWhenQuiet
<1>5. Live!OpenIsProvisional
  BY <1>3, LiveIs DEF Live!OpenIsProvisional
<1> QED BY <1>4, <1>5

\* MarkHistory and publish() (fingerprint/combiner.cpp, live.cpp) while a recording runs, with any
\* entries, runs, repeats, any Evidence and any settling time: an ad mark past the settling time is
\* settled when it has stood still for that long, and not unless it has or is agreed in every part
\* (whichever earlier mark it is taken for); one that holds a match still growing is provisional.
THEOREM MarksSettle == MarksSpec => []Settling
<1>1. LiveInv => Settling
  BY LiveInvSays DEF Settling
<1> QED BY <1>1, LiveInvInit, LiveInvKept, PTL DEF MarksSpec

-----------------------------------------------------------------------------
(* The audio stream. *)

MessageType == [type : STRING, size : Nat, good : BOOLEAN]
Count == Len(events)

\* The lesser of two numbers.
LEMMA MinIs ==
  ASSUME NEW a \in Int, NEW b \in Int
  PROVE  /\ Stream!Min({a, b}) \in Int /\ Stream!Min({a, b}) <= a /\ Stream!Min({a, b}) <= b
         /\ Stream!Min({a, b}) = a \/ Stream!Min({a, b}) = b
<1>1. \E x \in {a, b} : \A y \in {a, b} : x <= y
  <2>1. CASE a <= b
    BY <2>1
  <2>2. CASE b <= a
    BY <2>2
  <2> QED BY <2>1, <2>2
<1>2. PICK z : z = CHOOSE x \in {a, b} : \A y \in {a, b} : x <= y
  OBVIOUS
<1>3. z \in {a, b} /\ \A y \in {a, b} : z <= y
  BY <1>1, <1>2
<1>4. Stream!Min({a, b}) = z
  BY <1>2 DEF Stream!Min
<1> QED BY <1>3, <1>4

\* Where each message ends, as a function of how many there are.
Ends(end, s, N) == end = [n \in 0..N |-> IF n = 0 THEN 0 ELSE end[n - 1] + (HeaderSize + s[n].size)]

LEMMA EndsExist ==
  ASSUME NEW s, NEW N \in Nat
  PROVE  \E end : Ends(end, s, N)
<1> DEFINE missing == {k \in Nat : ~\E g : Ends(g, s, k)}
<1> SUFFICES ASSUME missing # {} PROVE FALSE
  OBVIOUS
<1>1. PICK k \in missing : \A n \in missing : k <= n
  <2>1. missing \in SUBSET Nat
    OBVIOUS
  <2> HIDE DEF missing
  <2> QED BY <2>1, LeastNatural
<1>2. CASE k = 0
  <2> DEFINE g == [n \in 0..0 |-> 0]
  <2>1. g = [n \in 0..0 |-> IF n = 0 THEN 0 ELSE g[n - 1] + (HeaderSize + s[n].size)]
    OBVIOUS
  <2>2. Ends(g, s, 0)
    BY <2>1 DEF Ends
  <2> QED BY <1>1, <1>2, <2>2
<1>3. CASE k # 0
  <2>1. k - 1 \in Nat /\ k - 1 \notin missing
    <3>1. k \in Nat
      BY <1>1
    <3>2. k - 1 \in Nat /\ ~(k <= k - 1)
      BY <1>3, <3>1
    <3> HIDE DEF missing
    <3> QED BY <1>1, <3>2
  <2>2. PICK g : Ends(g, s, k - 1)
    BY <2>1
  <2> DEFINE h == [n \in 0..k |-> IF n = 0 THEN 0 ELSE g[n - 1] + (HeaderSize + s[n].size)]
  <2>3. \A n \in 0..(k - 1) : h[n] = g[n]
    <3>1. k \in Nat /\ \A n \in 0..(k - 1) : n \in 0..k
      BY <1>1
    <3>2. \A n \in 0..(k - 1) : g[n] = IF n = 0 THEN 0 ELSE g[n - 1] + (HeaderSize + s[n].size)
      BY <2>2 DEF Ends
    <3> QED BY <3>1, <3>2
  <2>4. \A n \in 0..k : n = 0 \/ h[n - 1] = g[n - 1]
    <3>1. k \in Nat
      BY <1>1
    <3>2. \A n \in 0..k : n = 0 \/ n - 1 \in 0..(k - 1)
      BY <3>1
    <3> HIDE DEF h
    <3> QED BY <2>3, <3>2
  <2>5. h = [n \in 0..k |-> IF n = 0 THEN 0 ELSE h[n - 1] + (HeaderSize + s[n].size)]
    BY <2>4
  <2>6. Ends(h, s, k)
    BY <2>5 DEF Ends
  <2> QED BY <1>1, <2>6
<1> QED BY <1>2, <1>3

\* Each message ends its bytes after the one before it.
LEMMA EndsAre ==
  ASSUME stream \in Seq(MessageType)
  PROVE  /\ Stream!EndsAt(0) = 0
         /\ \A i \in 1..Len(stream) : Stream!EndsAt(i) = Stream!EndsAt(i - 1) + (HeaderSize + stream[i].size)
         /\ \A i \in 0..Len(stream) : Stream!EndsAt(i) \in Nat
<1> DEFINE end[n \in 0..Len(stream)] == IF n = 0 THEN 0 ELSE end[n - 1] + (HeaderSize + stream[n].size)
<1>1. \A i : Stream!EndsAt(i) = end[i]
  BY DEF Stream!EndsAt, Stream!Bytes
<1>2. Len(stream) \in Nat
  OBVIOUS
<1>3. end = [n \in 0..Len(stream) |-> IF n = 0 THEN 0 ELSE end[n - 1] + (HeaderSize + stream[n].size)]
  <2>1. PICK h : Ends(h, stream, Len(stream))
    BY <1>2, EndsExist
  <2>2. \E f : f = [n \in 0..Len(stream) |-> IF n = 0 THEN 0 ELSE f[n - 1] + (HeaderSize + stream[n].size)]
    BY <2>1 DEF Ends
  <2> QED BY <2>2
<1> HIDE DEF end
<1>4. end[0] = 0 /\ \A i \in 1..Len(stream) : end[i] = end[i - 1] + (HeaderSize + stream[i].size)
  BY <1>2, <1>3
<1>5. \A i \in 0..Len(stream) : end[i] \in Nat
  <2> DEFINE wrong == {i \in 0..Len(stream) : end[i] \notin Nat}
  <2> SUFFICES ASSUME wrong # {} PROVE FALSE
    OBVIOUS
  <2>1. wrong \in SUBSET Nat
    BY <1>2
  <2>2. PICK i \in wrong : \A m \in wrong : i <= m
    BY <2>1, LeastNatural
  <2>3. i \in 0..Len(stream) /\ end[i] \notin Nat /\ i # 0
    BY <1>4, <2>2
  <2>4. i \in 1..Len(stream) /\ i - 1 \in 0..Len(stream) /\ ~(i <= i - 1)
    BY <1>2, <2>3
  <2>5. end[i - 1] \in Nat
    BY <2>2, <2>4
  <2>6. stream[i].size \in Nat /\ HeaderSize \in Nat
    <3>1. stream[i] \in MessageType
      BY <2>4
    <3> QED BY <3>1, StreamAssumption DEF MessageType
  <2> QED BY <1>4, <2>3, <2>4, <2>5, <2>6
<1> QED BY <1>1, <1>4, <1>5

StreamTypes ==
  /\ stream \in Seq(MessageType) /\ \A i \in 1..Len(stream) : stream[i].type # "R" => stream[i].good
  /\ input \in Nat /\ input <= Stream!EndsAt(Len(stream))
  /\ got \in Nat /\ got <= input /\ used \in Nat /\ used <= got
  /\ header \in Nat /\ header <= HeaderSize /\ payload \in Nat
  /\ inRun \in BOOLEAN /\ ended \in BOOLEAN /\ outcome \in {"reading", "closed", "invalid"}

\* The events are the first messages of the stream.
Delivered ==
  /\ events \in Seq(MessageType) /\ Count <= Len(stream)
  /\ \A i \in 1..Count : events[i] = stream[i]

\* The bytes the parser holds; a header it holds whole is valid, and its payload is not.
Held ==
  outcome = "reading" =>
    /\ used = Stream!EndsAt(Count) + header + payload
    /\ header < HeaderSize => payload = 0
    /\ header = HeaderSize =>
         Count < Len(stream) /\ Stream!ValidHeader(Stream!Message) /\ payload < Stream!Message.size

AllTaken == outcome = "closed" /\ ~ended => used = input

\* The order of the events, and what the parser remembers of them.
Orderly ==
  /\ \A i \in 1..Count : events[i].good
  /\ \A i \in 1..Count : events[i].type = "A" => \E j \in 1..(i - 1) : events[j].type = "R"
  /\ \A i \in 1..Count : events[i].type = "E" => i = Count /\ ended
  /\ inRun => \E j \in 1..Count : events[j].type = "R"

StreamInv == StreamTypes /\ Delivered /\ Held /\ AllTaken /\ Orderly

LEMMA StreamInit == Stream!Init => StreamInv
<1> SUFFICES ASSUME Stream!Init PROVE StreamInv
  OBVIOUS
<1>1. /\ stream \in Streams /\ input \in 0..Stream!EndsAt(Len(stream))
      /\ got = 0 /\ used = 0 /\ header = 0 /\ payload = 0 /\ inRun = FALSE /\ ended = FALSE
      /\ outcome = "reading" /\ events = <<>>
  BY DEF Stream!Init
<1>2. stream \in Seq(MessageType) /\ \A i \in 1..Len(stream) : stream[i].type # "R" => stream[i].good
  BY <1>1, StreamAssumption DEF MessageType
<1>3. Stream!EndsAt(0) = 0 /\ Stream!EndsAt(Len(stream)) \in Nat /\ Len(stream) \in Nat
  BY <1>2, EndsAre
<1>4. Count = 0 /\ events \in Seq(MessageType)
  BY <1>1 DEF Count
<1>5. HeaderSize \in Nat /\ HeaderSize # 0
  BY StreamAssumption
<1>6. StreamTypes
  <2>1. input \in Nat /\ 0 <= input /\ input <= Stream!EndsAt(Len(stream))
    BY <1>1, <1>3
  <2>2. got \in Nat /\ got <= input /\ used \in Nat /\ used <= got /\ header \in Nat /\ header <= HeaderSize
        /\ payload \in Nat
    BY <1>1, <1>5, <2>1
  <2>3. inRun \in BOOLEAN /\ ended \in BOOLEAN /\ outcome \in {"reading", "closed", "invalid"}
    BY <1>1
  <2> QED BY <1>2, <2>1, <2>2, <2>3 DEF StreamTypes
<1>7. Held
  BY <1>1, <1>3, <1>4, <1>5 DEF Held
<1>8. Orderly
  BY <1>1, <1>4 DEF Orderly
<1> QED BY <1>1, <1>3, <1>4, <1>6, <1>7, <1>8 DEF StreamInv, Delivered, AllTaken

\* What a step of the parser starts from: a message of the stream, the bytes it takes of its header
\* and, once that is whole, of its payload.
LEMMA Pushed ==
  ASSUME StreamInv, Stream!Pushing
  PROVE  /\ Count \in Nat /\ Count + 1 \in 1..Len(stream) /\ Stream!Message = stream[Count + 1]
         /\ Stream!Message \in MessageType /\ Stream!Message.size \in Nat
         /\ (Stream!Message.type # "R" => Stream!Message.good)
         /\ Stream!EndsAt(Count) \in Nat
         /\ Stream!EndsAt(Count + 1) = Stream!EndsAt(Count) + (HeaderSize + Stream!Message.size)
         /\ payload <= Stream!Message.size
         /\ Stream!HeaderTake \in Nat /\ used + Stream!HeaderTake <= got
         /\ header + Stream!HeaderTake <= HeaderSize
         /\ header + Stream!HeaderTake < HeaderSize => used + Stream!HeaderTake = got
         /\ Stream!PayloadTake \in Nat /\ used + Stream!HeaderTake + Stream!PayloadTake <= got
         /\ payload + Stream!PayloadTake <= Stream!Message.size
<1>1. /\ stream \in Seq(MessageType) /\ \A i \in 1..Len(stream) : stream[i].type # "R" => stream[i].good
      /\ input \in Nat /\ input <= Stream!EndsAt(Len(stream))
      /\ got \in Nat /\ got <= input /\ used \in Nat /\ used < got
      /\ header \in Nat /\ header <= HeaderSize /\ payload \in Nat /\ HeaderSize \in Nat
  BY StreamAssumption DEF StreamInv, StreamTypes, Stream!Pushing
<1>2. Count \in Nat /\ Count <= Len(stream) /\ Len(stream) \in Nat
  BY <1>1 DEF StreamInv, Delivered, Count
<1>3. /\ used = Stream!EndsAt(Count) + header + payload
      /\ header < HeaderSize => payload = 0
      /\ header = HeaderSize => payload < Stream!Message.size
  BY DEF StreamInv, Held, Stream!Pushing
<1>4. /\ Stream!EndsAt(Count) \in Nat
      /\ \A i \in 1..Len(stream) : Stream!EndsAt(i) = Stream!EndsAt(i - 1) + (HeaderSize + stream[i].size)
  BY <1>1, <1>2, EndsAre
<1>5. Count # Len(stream)
  <2> SUFFICES ASSUME Count = Len(stream) PROVE FALSE
    OBVIOUS
  <2>1. input <= Stream!EndsAt(Count)
    BY <1>1
  <2> QED BY <1>1, <1>3, <1>4, <2>1
<1>6. Count + 1 \in 1..Len(stream) /\ (Count + 1) - 1 = Count
  BY <1>2, <1>5
<1>7. Stream!Message = stream[Count + 1]
  BY DEF Stream!Message, Count
<1>8. PICK m \in MessageType : m = stream[Count + 1]
  BY <1>1, <1>6
<1>9. m.size \in Nat /\ (m.type # "R" => m.good)
  BY <1>1, <1>6, <1>8 DEF MessageType
<1>10. payload <= m.size
  BY <1>1, <1>3, <1>7, <1>8, <1>9
<1>11. Stream!EndsAt(Count + 1) = Stream!EndsAt(Count) + (HeaderSize + m.size)
  BY <1>4, <1>6, <1>8
<1>12. PICK take : take = Stream!HeaderTake
  OBVIOUS
<1>13. /\ take \in Nat /\ used + take <= got /\ header + take <= HeaderSize
       /\ header + take < HeaderSize => used + take = got
  <2>1. got - used \in Int /\ HeaderSize - header \in Int
    BY <1>1
  <2>2. /\ take \in Int /\ take <= got - used /\ take <= HeaderSize - header
        /\ take = got - used \/ take = HeaderSize - header
    BY <1>12, <2>1, MinIs DEF Stream!HeaderTake
  <2> QED BY <1>1, <2>2
<1>14. PICK part1 : part1 = Stream!PayloadTake
  OBVIOUS
<1>15. part1 \in Nat /\ used + take + part1 <= got /\ payload + part1 <= m.size
  <2>1. got - used - take \in Int /\ m.size - payload \in Int
    BY <1>1, <1>9, <1>13
  <2>2. /\ part1 \in Int /\ part1 <= got - used - take /\ part1 <= m.size - payload
        /\ part1 = got - used - take \/ part1 = m.size - payload
    BY <1>7, <1>8, <1>12, <1>14, <2>1, MinIs DEF Stream!PayloadTake
  <2> QED BY <1>1, <1>9, <1>10, <1>13, <2>2
<1> QED BY <1>2, <1>4, <1>6, <1>7, <1>8, <1>9, <1>10, <1>11, <1>12, <1>13, <1>14, <1>15

\* What the parts of the invariant are about, apart from the bytes.
order == <<stream, events, inRun, ended>>

LEMMA OrderKept ==
  ASSUME StreamInv, UNCHANGED order
  PROVE  /\ Delivered' /\ Orderly' /\ Count' = Count
         /\ Stream!EndsAt(Count)' = Stream!EndsAt(Count) /\ Stream!Message' = Stream!Message
         /\ Stream!ValidHeader(Stream!Message)' = Stream!ValidHeader(Stream!Message)
<1>1. stream' = stream /\ events' = events /\ inRun' = inRun /\ ended' = ended
  BY DEF order
<1>2. Count' = Count /\ Stream!Message' = Stream!Message
  BY <1>1 DEF Count, Stream!Message
<1>3. Delivered'
  BY <1>1, <1>2 DEF StreamInv, Delivered
<1>4. Orderly'
  BY <1>1, <1>2 DEF StreamInv, Orderly
<1>5. Stream!EndsAt(Count)' = Stream!EndsAt(Count)
  BY <1>1, <1>2 DEF Stream!EndsAt, Stream!Bytes
<1>6. Stream!ValidHeader(Stream!Message)' = Stream!ValidHeader(Stream!Message)
  BY <1>1, <1>2 DEF Stream!ValidHeader
<1> QED BY <1>2, <1>3, <1>4, <1>5, <1>6

\* The types of what a step of the parser leaves: it takes bytes that were read.
LEMMA TypesKept ==
  ASSUME StreamInv, UNCHANGED <<stream, input>>, got' \in Nat, got' <= input, used' \in Nat, used' <= got',
         header' \in Nat, header' <= HeaderSize, payload' \in Nat, inRun' \in BOOLEAN, ended' \in BOOLEAN,
         outcome' \in {"reading", "closed", "invalid"}
  PROVE  StreamTypes'
<1>1. Stream!EndsAt(Len(stream))' = Stream!EndsAt(Len(stream))
  BY DEF Stream!EndsAt, Stream!Bytes
<1> QED BY <1>1 DEF StreamInv, StreamTypes

\* A step that only reads, stops or gives up.
LEMMA QuietStep ==
  ASSUME StreamInv, Stream!Read \/ Stream!Stop \/ Stream!Overrun
  PROVE  StreamInv'
<1>1. UNCHANGED order /\ UNCHANGED <<stream, input, used, header, payload, inRun, ended, events>>
  BY DEF Stream!Read, Stream!Stop, Stream!Overrun, order
<1>2. /\ Delivered' /\ Orderly' /\ Count' = Count
      /\ Stream!EndsAt(Count)' = Stream!EndsAt(Count) /\ Stream!Message' = Stream!Message
      /\ Stream!ValidHeader(Stream!Message)' = Stream!ValidHeader(Stream!Message)
  BY <1>1, OrderKept
<1>3. /\ input \in Nat /\ got \in Nat /\ got <= input /\ used \in Nat /\ used <= got /\ header \in Nat
      /\ header <= HeaderSize /\ payload \in Nat /\ inRun \in BOOLEAN /\ ended \in BOOLEAN
      /\ outcome \in {"reading", "closed", "invalid"}
  BY DEF StreamInv, StreamTypes
<1>4. CASE Stream!Read
  <2>1. PICK n \in 1..Stream!Min({BufferSize, input - got}) : got' = got + n
    BY <1>4 DEF Stream!Read
  <2>2. got < input /\ outcome' = outcome /\ outcome = "reading"
    BY <1>4 DEF Stream!Read
  <2>3. BufferSize \in Int /\ input - got \in Int
    BY <1>3, StreamAssumption
  <2>4. Stream!Min({BufferSize, input - got}) \in Int /\ Stream!Min({BufferSize, input - got}) <= input - got
    BY <2>3, MinIs
  <2>5. got' \in Nat /\ got' <= input /\ used <= got'
    BY <1>3, <2>1, <2>3, <2>4
  <2>6. StreamTypes'
    BY <1>1, <1>3, <2>2, <2>5, TypesKept
  <2>7. Held' /\ AllTaken'
    BY <1>1, <1>2, <2>2 DEF StreamInv, Held, AllTaken
  <2> QED BY <1>2, <2>6, <2>7 DEF StreamInv
<1>5. CASE Stream!Stop
  <2>1. used = got /\ (ended \/ got = input) /\ outcome' = "closed" /\ got' = got
    BY <1>5 DEF Stream!Stop, Stream!AtEnd
  <2>2. StreamTypes'
    BY <1>1, <1>3, <2>1, TypesKept
  <2> QED BY <1>1, <1>2, <2>1, <2>2 DEF StreamInv, Held, AllTaken
<1>6. CASE Stream!Overrun
  <2>1. outcome' = "invalid" /\ got' = got
    BY <1>6 DEF Stream!Overrun
  <2>2. StreamTypes'
    BY <1>1, <1>3, <2>1, TypesKept
  <2> QED BY <1>2, <2>1, <2>2 DEF StreamInv, Held, AllTaken
<1> QED BY <1>4, <1>5, <1>6

\* A step that takes a part of a message, or refuses its header.
LEMMA PartStep ==
  ASSUME StreamInv, Stream!RefuseHeader \/ Stream!PartHeader \/ Stream!PartPayload
  PROVE  StreamInv'
<1>1. /\ UNCHANGED order /\ UNCHANGED <<stream, input, got, inRun, ended, events>>
      /\ Stream!Pushing /\ ~ended
  BY DEF Stream!RefuseHeader, Stream!PartHeader, Stream!PartPayload, order
<1>2. /\ Delivered' /\ Orderly' /\ Count' = Count
      /\ Stream!EndsAt(Count)' = Stream!EndsAt(Count) /\ Stream!Message' = Stream!Message
      /\ Stream!ValidHeader(Stream!Message)' = Stream!ValidHeader(Stream!Message)
  BY <1>1, OrderKept
<1>3. /\ input \in Nat /\ got \in Nat /\ got <= input /\ used \in Nat /\ used <= got /\ header \in Nat
      /\ header <= HeaderSize /\ payload \in Nat /\ inRun \in BOOLEAN /\ ended \in BOOLEAN
      /\ outcome = "reading" /\ HeaderSize \in Nat /\ HeaderSize # 0
  BY <1>1, StreamAssumption DEF StreamInv, StreamTypes, Stream!Pushing
<1>4. PICK head \in Nat, body \in Nat : head = Stream!HeaderTake /\ body = Stream!PayloadTake
  BY <1>1, Pushed
<1>5. /\ Count \in Nat /\ Count + 1 \in 1..Len(stream)
      /\ Stream!Message.size \in Nat /\ Stream!EndsAt(Count) \in Nat /\ payload <= Stream!Message.size
      /\ used + head <= got /\ header + head <= HeaderSize
      /\ header + head < HeaderSize => used + head = got
      /\ used + head + body <= got /\ payload + body <= Stream!Message.size
  BY <1>1, <1>4, Pushed
<1>6. /\ used = Stream!EndsAt(Count) + header + payload
      /\ header < HeaderSize => payload = 0
      /\ header = HeaderSize => Stream!ValidHeader(Stream!Message)
  BY <1>3 DEF StreamInv, Held
<1>7. CASE Stream!RefuseHeader
  <2>1. used' = used + head /\ outcome' = "invalid" /\ header' = HeaderSize /\ payload' = payload
    BY <1>4, <1>7 DEF Stream!RefuseHeader
  <2>2. used' \in Nat /\ used' <= got
    BY <1>3, <1>5, <2>1
  <2>3. StreamTypes'
    BY <1>1, <1>3, <2>1, <2>2, TypesKept
  <2> QED BY <1>2, <2>1, <2>3 DEF StreamInv, Held, AllTaken
<1>8. CASE Stream!PartHeader
  <2>1. /\ header + head < HeaderSize /\ header' = header + head /\ used' = got
        /\ payload' = payload /\ outcome' = outcome
    BY <1>4, <1>8 DEF Stream!PartHeader
  <2>2. StreamTypes'
    <3>1. header' \in Nat /\ header' <= HeaderSize /\ used' \in Nat /\ used' <= got
      BY <1>3, <2>1
    <3> QED BY <1>1, <1>3, <2>1, <3>1, TypesKept
  <2>3. /\ used' = Stream!EndsAt(Count) + header' + payload' /\ payload' = 0
        /\ header' # HeaderSize
    BY SMTT(30), <1>3, <1>5, <1>6, <2>1
  <2>4. Held' /\ AllTaken'
    BY <1>2, <1>3, <2>1, <2>3 DEF Held, AllTaken
  <2> QED BY <1>2, <2>2, <2>4 DEF StreamInv
<1>9. CASE Stream!PartPayload
  <2>1. /\ payload + body < Stream!Message.size /\ header' = HeaderSize /\ payload' = payload + body
        /\ used' = used + head + body /\ outcome' = outcome
        /\ header + head = HeaderSize /\ (header = HeaderSize \/ Stream!ValidHeader(Stream!Message))
    BY <1>4, <1>9 DEF Stream!PartPayload, Stream!Accepted
  <2>2. StreamTypes'
    <3>1. payload' \in Nat /\ used' \in Nat /\ used' <= got
      BY <1>3, <1>5, <2>1
    <3> QED BY <1>1, <1>3, <2>1, <3>1, TypesKept
  <2>3. used' = Stream!EndsAt(Count) + header' + payload'
    <3>1. PICK end \in Nat : end = Stream!EndsAt(Count)
      BY <1>5
    <3>2. used = end + header + payload
      BY <1>6, <3>1
    <3>3. used + head + body = end + (header + head) + (payload + body)
      BY <1>3, <1>4, <3>1, <3>2
    <3> QED BY <2>1, <3>1, <3>3
  <2>4. Stream!ValidHeader(Stream!Message)
    BY <1>6, <2>1
  <2>5. Count < Len(stream) /\ payload' < Stream!Message.size /\ ~(header' < HeaderSize)
    BY <1>3, <1>5, <2>1
  <2>6. Held' /\ AllTaken'
    BY <1>1, <1>2, <1>3, <2>1, <2>3, <2>4, <2>5 DEF Held, AllTaken
  <2> QED BY <1>2, <2>2, <2>6 DEF StreamInv
<1> QED BY <1>7, <1>8, <1>9

\* A message is complete: it is delivered, or its value refused.
LEMMA CompleteStep ==
  ASSUME StreamInv, Stream!Complete
  PROVE  StreamInv'
<1>1. /\ UNCHANGED <<stream, input, got>> /\ Stream!Pushing /\ ended = FALSE
  <2>1. UNCHANGED <<stream, input, got>> /\ Stream!Pushing /\ ~ended
    BY DEF Stream!Complete
  <2> QED BY <2>1 DEF StreamInv, StreamTypes
<1>2. /\ input \in Nat /\ got \in Nat /\ got <= input /\ used \in Nat /\ used <= got /\ header \in Nat
      /\ header <= HeaderSize /\ payload \in Nat /\ inRun \in BOOLEAN
      /\ outcome = "reading" /\ HeaderSize \in Nat /\ HeaderSize # 0
  BY <1>1, StreamAssumption DEF StreamInv, StreamTypes, Stream!Pushing
<1>3. PICK head \in Nat, body \in Nat : head = Stream!HeaderTake /\ body = Stream!PayloadTake
  BY <1>1, Pushed
<1>4. PICK m \in MessageType : m = Stream!Message
  BY <1>1, Pushed
<1>5. /\ Count \in Nat /\ Count + 1 \in 1..Len(stream) /\ m = stream[Count + 1] /\ m.size \in Nat
      /\ (m.type # "R" => m.good)
      /\ Stream!EndsAt(Count) \in Nat
      /\ Stream!EndsAt(Count + 1) = Stream!EndsAt(Count) + (HeaderSize + m.size)
      /\ used + head + body <= got /\ payload + body <= m.size
  BY <1>1, <1>3, <1>4, Pushed
<1>6. /\ used = Stream!EndsAt(Count) + header + payload
      /\ header < HeaderSize => payload = 0
      /\ header = HeaderSize => Stream!ValidHeader(m)
  BY <1>2, <1>4 DEF StreamInv, Held
<1>7. /\ payload + body >= m.size /\ used' = used + head + body
      /\ header + head = HeaderSize /\ (header = HeaderSize \/ Stream!ValidHeader(m))
  BY <1>3, <1>4 DEF Stream!Complete, Stream!Accepted
<1>8. used' \in Nat /\ used' <= got /\ used' = Stream!EndsAt(Count + 1)
  <2>1. PICK end \in Nat : end = Stream!EndsAt(Count)
    BY <1>5
  <2>2. used = end + header + payload /\ header + head = HeaderSize
    BY <1>6, <1>7, <2>1
  <2>3. payload + body = m.size
    <3>1. payload + body <= m.size /\ payload + body >= m.size /\ m.size \in Nat /\ payload \in Nat /\ body \in Nat
      BY <1>2, <1>3, <1>5, <1>7
    <3> QED BY <3>1
  <2>4. used + head + body = end + (HeaderSize + m.size)
    BY <1>2, <1>3, <2>1, <2>2, <2>3
  <2> QED BY <1>2, <1>3, <1>5, <1>7, <2>1, <2>4
<1>9. CASE m.type = "R" /\ ~m.good
  <2>1. /\ outcome' = "invalid" /\ header' = HeaderSize /\ payload' = m.size
        /\ UNCHANGED <<inRun, ended, events>>
    BY <1>4, <1>9 DEF Stream!Complete
  <2>2. UNCHANGED order
    BY <1>1, <2>1 DEF order
  <2>3. Delivered' /\ Orderly'
    BY <2>2, OrderKept
  <2>4. StreamTypes'
    <3>1. header' \in Nat /\ header' <= HeaderSize /\ payload' \in Nat
      BY <1>2, <1>5, <2>1
    <3>2. ended' \in BOOLEAN /\ inRun' \in BOOLEAN
      BY <1>1, <1>2, <2>1, Zenon
    <3> QED BY <1>1, <1>2, <1>8, <2>1, <3>1, <3>2, TypesKept
  <2> QED BY <2>1, <2>3, <2>4 DEF StreamInv, Held, AllTaken
<1>10. CASE ~(m.type = "R" /\ ~m.good)
  <2>1. /\ events' = Append(events, m) /\ header' = 0 /\ payload' = 0
        /\ inRun' = (inRun \/ m.type = "R") /\ ended' = (m.type = "E") /\ outcome' = outcome
    BY <1>4, <1>10 DEF Stream!Complete
  <2>2. inRun' \in BOOLEAN /\ ended' \in BOOLEAN
    BY <2>1, Zenon
  <2>3. events \in Seq(MessageType) /\ Count = Len(events) /\ \A i \in 1..Count : events[i] = stream[i]
    BY DEF StreamInv, Delivered, Count
  <2>4. /\ events' \in Seq(MessageType) /\ Count' = Count + 1
        /\ \A i \in 1..Count : events'[i] = events[i]
        /\ events'[Count + 1] = m
    BY <1>5, <2>1, <2>3 DEF Count
  <2>5. \A i \in 1..(Count + 1) : i \in 1..Count \/ i = Count + 1
    BY <1>5
  <2>6. Delivered'
    <3>1. Count' <= Len(stream)
      BY <1>5, <2>4
    <3>2. \A i \in 1..Count' : events'[i] = stream[i]
      BY <1>5, <2>3, <2>4, <2>5
    <3> QED BY <1>1, <2>4, <3>1, <3>2 DEF Delivered
  <2>7. StreamTypes'
    <3>1. header' \in Nat /\ header' <= HeaderSize /\ payload' \in Nat /\ outcome' = "reading"
      BY <1>2, <2>1
    <3> QED BY <1>1, <1>2, <1>8, <2>2, <3>1, TypesKept
  <2>8. Held' /\ AllTaken'
    <3>1. Stream!EndsAt(Count)' = Stream!EndsAt(Count + 1)
      BY <1>1, <2>4 DEF Stream!EndsAt, Stream!Bytes
    <3>2. used' = Stream!EndsAt(Count + 1) + header' + payload'
      <4>1. Stream!EndsAt(Count + 1) \in Nat
        BY <1>8
      <4> QED BY <1>8, <2>1, <4>1
    <3>3. header' # HeaderSize /\ payload' = 0 /\ outcome' = "reading"
      BY <1>2, <2>1
    <3> QED BY <3>1, <3>2, <3>3 DEF Held, AllTaken
  <2>9. Stream!ValidHeader(m)
    BY <1>6, <1>7
  <2>10. /\ \A i \in 1..Count : events[i].good
         /\ \A i \in 1..Count : events[i].type = "A" => \E j \in 1..(i - 1) : events[j].type = "R"
         /\ \A i \in 1..Count : events[i].type = "E" => FALSE
         /\ inRun => \E j \in 1..Count : events[j].type = "R"
    BY <1>1 DEF StreamInv, Orderly
  <2>11. m.good
    BY <1>5, <1>10
  <2>12. m.type = "A" => inRun
    BY <2>9 DEF Stream!ValidHeader
  <2>13. \A i \in 1..Count' : events'[i].good
    BY <2>4, <2>5, <2>10, <2>11
  <2>14. ASSUME NEW i \in 1..Count', events'[i].type = "A" PROVE \E j \in 1..(i - 1) : events'[j].type = "R"
    <3>1. CASE i \in 1..Count
      <4>1. PICK j \in 1..(i - 1) : events[j].type = "R"
        BY <2>4, <2>10, <2>14, <3>1
      <4>2. j \in 1..Count
        BY <1>5, <3>1
      <4> QED BY <2>4, <4>1, <4>2
    <3>2. CASE i = Count + 1
      <4>1. PICK j \in 1..Count : events[j].type = "R"
        BY <2>4, <2>10, <2>12, <2>14, <3>2
      <4>2. j \in 1..(i - 1)
        BY <1>5, <3>2
      <4> QED BY <2>4, <4>1, <4>2
    <3> QED BY <2>4, <2>5, <3>1, <3>2
  <2>15. ASSUME NEW i \in 1..Count', events'[i].type = "E" PROVE i = Count' /\ ended'
    <3>1. i \notin 1..Count
      BY <2>4, <2>10, <2>15
    <3>2. i = Count + 1
      BY <2>4, <2>5, <3>1
    <3> QED BY <2>1, <2>4, <2>15, <3>2
  <2>16. ASSUME inRun' PROVE \E j \in 1..Count' : events'[j].type = "R"
    <3>1. Count + 1 \in 1..Count' /\ \A j \in 1..Count : j \in 1..Count'
      BY <1>5, <2>4
    <3>2. CASE m.type = "R"
      BY <2>4, <3>1, <3>2
    <3>3. CASE inRun
      <4>1. PICK j \in 1..Count : events[j].type = "R"
        BY <2>10, <3>3
      <4> QED BY <2>4, <3>1, <4>1
    <3> QED BY <2>1, <2>16, <3>2, <3>3
  <2>17. Orderly'
    BY <2>13, <2>14, <2>15, <2>16 DEF Orderly
  <2> QED BY <2>6, <2>7, <2>8, <2>17 DEF StreamInv
<1> QED BY <1>9, <1>10

\* What StreamInv says is what the run checks.
LEMMA StreamInvSays ==
  ASSUME StreamInv
  PROVE  Stream!TypeOK /\ Stream!PieceIndependent /\ Stream!LegalOrder
<1>1. /\ stream \in Seq(MessageType) /\ events \in Seq(MessageType) /\ Count = Len(events) /\ Count \in Nat
      /\ Len(stream) \in Nat /\ Count <= Len(stream) /\ \A i \in 1..Count : events[i] = stream[i]
  BY DEF StreamInv, StreamTypes, Delivered, Count
<1>2. Stream!TypeOK
  <2>1. Stream!EndsAt(Len(stream)) \in Nat /\ HeaderSize \in Nat
    BY <1>1, EndsAre, StreamAssumption
  <2> QED BY <2>1 DEF StreamInv, StreamTypes, Stream!TypeOK
<1>3. events = SubSeq(stream, 1, Len(events))
  <2>1. SubSeq(stream, 1, Count) \in Seq(MessageType) /\ Len(SubSeq(stream, 1, Count)) = Count
        /\ \A i \in 1..Count : SubSeq(stream, 1, Count)[i] = stream[i]
    BY <1>1
  <2> QED BY <1>1, <2>1
<1>4. Stream!PieceIndependent
  BY <1>3 DEF StreamInv, Held, AllTaken, Count, Stream!PieceIndependent
<1>5. Stream!LegalOrder
  <2>1. DOMAIN events = 1..Count
    BY <1>1
  <2> QED BY <1>1, <2>1 DEF StreamInv, Orderly, Stream!LegalOrder
<1> QED BY <1>2, <1>4, <1>5

\* AudioStreamParser::push (fingerprint/audio_stream.cpp) and the loop that feeds it: whatever the
\* pieces standard input comes in and wherever it stops, the events are the complete messages among
\* the bytes taken, no audio comes before a run start, nothing after the end, and no message that is
\* not valid.
THEOREM StreamIsSound == MarksSpec => []StreamSound
<1> DEFINE Inv == part = "stream" => StreamInv
<1>1. MarksInit => Inv
  BY StreamInit DEF MarksInit
<1>2. Inv /\ [MarksNext]_allVars => Inv'
  <2> SUFFICES ASSUME Inv, [MarksNext]_allVars, part' = "stream" PROVE StreamInv'
    OBVIOUS
  <2>1. part = "stream" /\ StreamInv
    BY DEF MarksNext, CombineStep, LiveStep, StreamStep, FileStep, allVars
  <2>2. CASE UNCHANGED streamVars
    <3>1. UNCHANGED <<stream, input, got, used, header, payload, inRun, ended, outcome, events>>
      BY <2>2 DEF streamVars
    <3>2. UNCHANGED order
      BY <3>1 DEF order
    <3>3. StreamTypes'
      BY <2>1, <3>1, TypesKept DEF StreamInv, StreamTypes
    <3>4. Held' /\ AllTaken'
      BY <2>1, <3>1, <3>2, OrderKept DEF StreamInv, Held, AllTaken
    <3> QED BY <2>1, <3>2, <3>3, <3>4, OrderKept DEF StreamInv
  <2>3. CASE Stream!Next
    BY <2>1, <2>3, QuietStep, PartStep, CompleteStep DEF Stream!Next
  <2> QED BY <2>2, <2>3 DEF MarksNext, CombineStep, LiveStep, StreamStep, FileStep, allVars
<1>3. Inv => StreamSound
  BY StreamInvSays DEF StreamSound
<1> QED BY <1>1, <1>2, <1>3, PTL DEF MarksSpec

-----------------------------------------------------------------------------
(* The Evidence file, which is rewritten while it is watched. *)

\* What a step relies on: no file is ahead of the writer, and what is about to be renamed is the
\* rewrite under way.
NotAhead == revision \in Nat /\ file.revision \in Nat /\ file.revision <= revision
TempIsNewest == wpc = "rename" => temp.revision = revision
FileInv == NotAhead /\ TempIsNewest /\ File!RestsClean

\* The invariant holds at the start, and while the file is not there.
LEMMA FileInit == MarksInit => FileInv
<1>1. File!Init => FileInv
  BY DEF File!Init, FileInv, NotAhead, TempIsNewest, File!RestsClean, File!NoFile
<1> QED BY <1>1 DEF MarksInit, FileIdle

\* A look at the file changes nothing of the writer's.
LEMMA LooksChangeNothing ==
  ASSUME File!Reader \/ File!LookLast \/ File!OpenFails
  PROVE  UNCHANGED <<wpc, revision, temp, gaveUp, file>>
BY DEF File!Reader, File!LookDue, File!ReadTime, File!ReadSize, File!Open, File!Parse, File!LookLast,
       File!OpenFails, File!writerVars

\* Each step of the writer keeps the invariant and never takes the file back.
LEMMA FileForward ==
  ASSUME FileInv, [File!Next]_File!vars
  PROVE  FileInv' /\ File!Forward
<1> USE DEF FileInv, NotAhead, TempIsNewest, File!RestsClean, File!Forward
<1>1. CASE UNCHANGED <<wpc, revision, temp, gaveUp, file>>
  BY <1>1
<1>2. CASE File!Rewrite
  BY <1>2 DEF File!Rewrite
<1>3. CASE File!WriteTemp
  BY <1>3 DEF File!WriteTemp
<1>4. CASE File!WriteTempFails
  BY <1>4 DEF File!WriteTempFails, File!AfterFailedWrite
<1>5. CASE File!Rename
  BY <1>5 DEF File!Rename
<1>6. CASE File!RenameBlocked
  BY <1>6 DEF File!RenameBlocked
<1>7. CASE File!RenameGivenUp
  BY <1>7 DEF File!RenameGivenUp
<1> QED
  BY <1>1, <1>2, <1>3, <1>4, <1>5, <1>6, <1>7, LooksChangeNothing
  DEF File!Next, File!Writer, File!vars, File!writerVars, File!readerVars

\* replace_output_file (output_file.h:35-36) and WriteEvidenceFile: whatever fails and
\* whenever a reader looks, the file is never replaced by an older or a partial one,
\* and between rewrites it is the newest that was not given up.
THEOREM FileStaysWhole == MarksSpec => FileWhole
<1>1. [MarksNext]_allVars => [File!Next]_File!vars
  BY DEF MarksNext, CombineStep, LiveStep, StreamStep, FileStep, allVars, fileVars, File!vars, File!writerVars,
         File!readerVars
<1>2. FileInv /\ [MarksNext]_allVars => FileInv' /\ [File!Forward /\ File!RestsClean']_File!vars
  BY <1>1, FileForward DEF FileInv
<1> QED
  BY FileInit, <1>2, PTL DEF MarksSpec, FileWhole

==============================================================================
