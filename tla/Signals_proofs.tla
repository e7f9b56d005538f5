--------------------------- MODULE Signals_proofs ---------------------------
(***************************************************************************)
(* Proofs about what is measured while a recording is read: the cut        *)
(* candidates, the stretches of one aspect ratio, the volumes of the       *)
(* frames, and the captions with the programme data.                       *)
(***************************************************************************)
EXTENDS CutPoints, AspectBlocks, AudioVolumes, Captions,
        SequenceTheorems, FiniteSetTheorems, WellFoundedInduction, NaturalsInduction, TLAPS

\* Induction, in the form the provers can use: a set of naturals has a least element.
LEMMA LeastNatural ==
  ASSUME NEW T \in SUBSET Nat, T # {}
  PROVE  \E m \in T : \A n \in T : m <= n
<1> DEFINE R == OpToRel(<, Nat)
<1>1. IsWellFoundedOn(R, Nat)
  BY NatLessThanWellFounded
<1>2. \A x, y \in Nat : <<y, x>> \in R <=> y < x
  BY DEF OpToRel
<1> HIDE DEF R
<1>3. PICK m \in T : \A n \in T : ~(<<n, m>> \in R)
  BY <1>1, WFMin
<1>4. \A n \in T : m \in Nat /\ n \in Nat /\ ~(n < m)
  BY <1>2, <1>3
<1> QED BY <1>4

-----------------------------------------------------------------------------
(* The cut candidates. *)

CauseType == {"black", "flat", "size", "scene", "cutscene", "silence", "logo", "ratio"}
EntryType == [frame : 1..CutFrames, cause : SUBSET CauseType, volume : Nat \cup {-1}, dark : Int, flat : Int]
Ordered(l) == l \in Seq(EntryType) /\ \A i \in 1..(Len(l) - 1) : l[i].frame < l[i + 1].frame

LEMMA OrderedIs ==
  ASSUME NEW l, Ordered(l)
  PROVE  /\ l \in Seq(EntryType) /\ Len(l) \in Nat
         /\ \A i \in 1..Len(l) : l[i] \in EntryType /\ l[i].frame \in Int
         /\ \A i, j \in 1..Len(l) : i < j => l[i].frame < l[j].frame
<1>1. l \in Seq(EntryType) /\ Len(l) \in Nat /\ \A i \in 1..Len(l) : l[i] \in EntryType /\ l[i].frame \in Int
  <2>1. l \in Seq(EntryType)
    BY DEF Ordered
  <2>2. Len(l) \in Nat /\ \A i \in 1..Len(l) : l[i] \in EntryType
    BY <2>1
  <2>3. \A e \in EntryType : e.frame \in Int
    BY DEF EntryType
  <2> QED BY <2>1, <2>2, <2>3
<1>2. ASSUME NEW i \in 1..Len(l)
      PROVE  \A j \in 1..Len(l) : i < j => l[i].frame < l[j].frame
  <2> DEFINE wrong == {j \in 1..Len(l) : i < j /\ ~(l[i].frame < l[j].frame)}
  <2> SUFFICES ASSUME wrong # {} PROVE FALSE
    OBVIOUS
  <2>1. PICK j \in wrong : \A m \in wrong : j <= m
    <3>1. wrong \in SUBSET Nat
      OBVIOUS
    <3> HIDE DEF wrong
    <3> QED BY <3>1, LeastNatural
  <2>2. j \in 1..Len(l) /\ i < j /\ ~(l[i].frame < l[j].frame)
    BY <2>1
  <2>3. PICK m \in 1..(Len(l) - 1) : j = m + 1
    <3>1. j - 1 \in 1..(Len(l) - 1) /\ j = (j - 1) + 1
      BY <1>1, <2>2
    <3> QED BY <3>1
  <2>4. l[m].frame < l[j].frame /\ m \in 1..Len(l)
    BY <1>1, <2>3 DEF Ordered
  <2>5. m = i \/ l[i].frame < l[m].frame
    <3> SUFFICES ASSUME ~(m = i), ~(l[i].frame < l[m].frame) PROVE FALSE
      OBVIOUS
    <3>1. i < m
      BY <2>2, <2>3
    <3>2. m \in wrong
      BY <2>4, <3>1
    <3>3. j <= m
      BY <2>1, <3>2
    <3> QED BY <2>3, <3>3
  <2> QED BY <1>1, <2>2, <2>4, <2>5
<1> QED BY <1>1, <1>2

\* The entries before a frame are the first of the list.
Ahead(l, f) == Cardinality({i \in DOMAIN l : l[i].frame < f})

LEMMA AheadIs ==
  ASSUME NEW l, Ordered(l), NEW f \in Int
  PROVE  /\ Ahead(l, f) \in 0..Len(l)
         /\ \A i \in 1..Ahead(l, f) : l[i].frame < f
         /\ \A i \in (Ahead(l, f) + 1)..Len(l) : l[i].frame >= f
<1>1. /\ l \in Seq(EntryType) /\ Len(l) \in Nat
      /\ \A i \in 1..Len(l) : l[i] \in EntryType /\ l[i].frame \in Int
      /\ \A i, j \in 1..Len(l) : i < j => l[i].frame < l[j].frame
  BY OrderedIs
<1> DEFINE beyond == {i \in 1..(Len(l) + 1) : i = Len(l) + 1 \/ l[i].frame >= f}
<1>2. PICK k \in beyond : \A i \in beyond : k <= i
  <2>1. beyond \in SUBSET Nat /\ Len(l) + 1 \in beyond
    BY <1>1
  <2> HIDE DEF beyond
  <2> QED BY <2>1, LeastNatural
<1>3. k \in Nat /\ k >= 1 /\ k <= Len(l) + 1
  BY <1>1, <1>2
<1>4. ASSUME NEW i \in 1..Len(l), i < k PROVE l[i].frame < f
  <2>1. i \notin beyond
    BY <1>2, <1>3, <1>4
  <2> QED BY <1>1, <2>1
<1>5. ASSUME NEW i \in 1..Len(l), i >= k PROVE l[i].frame >= f
  <2>1. k \in 1..Len(l) /\ l[k].frame >= f
    BY <1>2, <1>3, <1>5
  <2>2. i = k \/ l[k].frame < l[i].frame
    BY <1>1, <1>3, <1>5, <2>1
  <2> QED BY <1>1, <2>1, <2>2
<1>6. {i \in DOMAIN l : l[i].frame < f} = 1..(k - 1)
  <2>1. DOMAIN l = 1..Len(l)
    BY <1>1
  <2>2. ASSUME NEW i \in 1..Len(l) PROVE l[i].frame < f <=> i < k
    <3>1. CASE i < k
      BY <1>4, <3>1
    <3>2. CASE ~(i < k)
      <4>1. l[i].frame >= f
        BY <1>3, <1>5, <3>2
      <4> QED BY <1>1, <3>2, <4>1
    <3> QED BY <3>1, <3>2
  <2>3. 1..(k - 1) = {i \in 1..Len(l) : i < k}
    BY <1>1, <1>3
  <2> QED BY <2>1, <2>2, <2>3
<1>7. Ahead(l, f) = k - 1
  <2>1. Cardinality(1..(k - 1)) = IF 1 > k - 1 THEN 0 ELSE (k - 1) - 1 + 1
    BY <1>3, FS_Interval
  <2>2. Cardinality(1..(k - 1)) = k - 1
    BY <1>3, <2>1
  <2> QED BY <1>6, <2>2 DEF Ahead
<1>8. \A i \in 1..(k - 1) : i \in 1..Len(l) /\ i < k
  BY <1>1, <1>3
<1>9. \A i \in ((k - 1) + 1)..Len(l) : i \in 1..Len(l) /\ i >= k
  BY <1>1, <1>3
<1> QED BY <1>1, <1>3, <1>4, <1>5, <1>7, <1>8, <1>9

\* A piece of a list.
LEMMA PieceIs ==
  ASSUME NEW l \in Seq(EntryType), NEW b \in 0..Len(l), NEW c \in b..Len(l), NEW first \in Int, first = b + 1
  PROVE  LET piece == SubSeq(l, first, c)
         IN piece \in Seq(EntryType) /\ Len(piece) = c - b /\ \A i \in 1..(c - b) : piece[i] = l[b + i]
<1>1. Len(l) \in Nat /\ b \in Nat /\ c \in Nat /\ b <= c /\ c <= Len(l)
  OBVIOUS
<1>2. \A i \in first..c : l[i] \in EntryType
  BY <1>1
<1>3. /\ SubSeq(l, first, c) \in Seq(EntryType) /\ Len(SubSeq(l, first, c)) = IF first <= c THEN c - first + 1 ELSE 0
      /\ \A i \in 1..(c - first + 1) : SubSeq(l, first, c)[i] = l[first + i - 1]
  BY <1>1, <1>2, SubSeqProperties
<1> DEFINE piece == SubSeq(l, first, c)
<1> HIDE DEF piece
<1>4. Len(piece) = c - b
  <2>1. Len(piece) = IF first <= c THEN c - first + 1 ELSE 0
    BY <1>3 DEF piece
  <2> QED BY <1>1, <2>1
<1>5. ASSUME NEW i \in 1..(c - b) PROVE piece[i] = l[b + i]
  <2>1. i \in 1..(c - first + 1) /\ first + i - 1 = b + i
    BY <1>1
  <2> QED BY <1>3, <2>1 DEF piece
<1> QED BY <1>3, <1>4, <1>5 DEF piece

\* What is put between the first and the rest.
LEMMA SplicedIs ==
  ASSUME NEW l \in Seq(EntryType), NEW a \in 0..Len(l), NEW e \in EntryType
  PROVE  LET y == SubSeq(l, 1, a) \o <<e>> \o SubSeq(l, a + 1, Len(l))
         IN /\ y \in Seq(EntryType) /\ Len(y) = Len(l) + 1
            /\ \A i \in 1..a : y[i] = l[i]
            /\ y[a + 1] = e
            /\ \A i \in (a + 2)..(Len(l) + 1) : y[i] = l[i - 1]
<1> DEFINE h == SubSeq(l, 1, a)
           t == SubSeq(l, a + 1, Len(l))
           n == Len(l)
<1>1. n \in Nat /\ a \in Nat /\ a <= n
  OBVIOUS
<1>2. h \in Seq(EntryType) /\ Len(h) = a /\ \A i \in 1..a : h[i] = l[i]
  <2>1. h \in Seq(EntryType) /\ Len(h) = a - 0 /\ \A i \in 1..(a - 0) : h[i] = l[0 + i]
    BY PieceIs
  <2> HIDE DEF h
  <2> QED BY <1>1, <2>1
<1>3. t \in Seq(EntryType) /\ Len(t) = n - a /\ \A i \in 1..(n - a) : t[i] = l[a + i]
  BY <1>1, PieceIs
<1> HIDE DEF h, t
<1>4. h \o <<e>> \in Seq(EntryType) /\ Len(h \o <<e>>) = a + 1 /\ (h \o <<e>>)[a + 1] = e
      /\ \A i \in 1..a : (h \o <<e>>)[i] = h[i]
  BY <1>1, <1>2
<1>5. PICK g : g = h \o <<e>>
  OBVIOUS
<1>6. g \in Seq(EntryType) /\ Len(g) = a + 1 /\ g[a + 1] = e /\ \A i \in 1..a : g[i] = l[i]
  BY <1>2, <1>4, <1>5
<1>7. Len(g \o t) = Len(g) + Len(t) /\ g \o t \in Seq(EntryType)
  <2>1. g \in Seq(EntryType) /\ t \in Seq(EntryType)
    BY <1>3, <1>6
  <2> HIDE DEF n
  <2> QED BY <2>1
<1>8. \A i \in 1..Len(g) : (g \o t)[i] = g[i]
  BY <1>3, <1>6
<1>9. ASSUME NEW i \in (a + 2)..(n + 1) PROVE (g \o t)[i] = l[i - 1]
  <2>1. PICK j \in 1..(n - a) : i = (a + 1) + j
    <3>1. i - (a + 1) \in 1..(n - a) /\ i = (a + 1) + (i - (a + 1))
      BY <1>1
    <3> QED BY <3>1
  <2>2. (g \o t)[Len(g) + j] = t[j]
    BY <1>3, <1>6
  <2>3. a + j = i - 1
    BY <1>1, <2>1
  <2> QED BY <1>3, <1>6, <2>1, <2>2, <2>3
<1>10. \A i \in 1..a : i \in 1..(a + 1)
  BY <1>1
<1>11. (a + 1) + (n - a) = n + 1 /\ a + 1 \in 1..(a + 1)
  BY <1>1
<1> QED BY <1>3, <1>5, <1>6, <1>7, <1>8, <1>9, <1>10, <1>11 DEF h, t

\* InsertBlackFrame keeps the order, whatever is there already.
LEMMA InsertKeeps ==
  ASSUME NEW l, Ordered(l), NEW e \in EntryType
  PROVE  Ordered(Insert(l, e))
<1> DEFINE a == Ahead(l, e.frame)
           n == Len(l)
<1>1. /\ l \in Seq(EntryType) /\ n \in Nat
      /\ \A i \in 1..n : l[i] \in EntryType /\ l[i].frame \in Int
      /\ \A i, j \in 1..n : i < j => l[i].frame < l[j].frame
  BY OrderedIs
<1>2. e.frame \in Int
  BY DEF EntryType
<1>3. a \in 0..n /\ (\A i \in 1..a : l[i].frame < e.frame) /\ \A i \in (a + 1)..n : l[i].frame >= e.frame
  BY <1>2, AheadIs
<1>4. Insert(l, e) =
        IF \E i \in DOMAIN l : l[i].frame = e.frame
        THEN [l EXCEPT ![a + 1].cause = @ \cup e.cause]
        ELSE SubSeq(l, 1, a) \o <<e>> \o SubSeq(l, a + 1, n)
  BY DEF Insert, Ahead
<1>5. DOMAIN l = 1..n
  BY <1>1
<1> HIDE DEF a
<1>6. CASE \E i \in DOMAIN l : l[i].frame = e.frame
  <2>1. PICK i \in 1..n : l[i].frame = e.frame
    BY <1>5, <1>6
  <2>2. a + 1 \in 1..n
    <3>1. ~(i <= a)
      BY <1>1, <1>2, <1>3, <2>1
    <3> QED BY <1>3, <2>1, <3>1
  <2>3. PICK k \in 1..n : k = a + 1
    BY <2>2
  <2>4. PICK old \in EntryType : old = l[k]
    BY <1>1
  <2> DEFINE new == [old EXCEPT !.cause = @ \cup e.cause]
  <2>5. new \in EntryType /\ new.frame = old.frame
    <3>1. e.cause \in SUBSET CauseType
      BY DEF EntryType
    <3> QED BY <3>1 DEF EntryType
  <2>6. Insert(l, e) = [l EXCEPT ![k] = new]
    BY <1>4, <1>6, <2>3, <2>4
  <2> HIDE DEF new
  <2>7. PICK y : y = [l EXCEPT ![k] = new]
    OBVIOUS
  <2>8. /\ y \in Seq(EntryType) /\ Len(y) = n
        /\ \A j \in 1..n : y[j].frame = l[j].frame
    <3>1. y \in Seq(EntryType) /\ Len(y) = n /\ \A j \in 1..n : y[j] = IF j = k THEN new ELSE l[j]
      BY <1>1, <2>5, <2>7
    <3> QED BY <2>4, <2>5, <3>1
  <2>9. \A j \in 1..(n - 1) : j \in 1..n /\ j + 1 \in 1..n /\ j < j + 1
    BY <1>1
  <2> QED BY <1>1, <2>6, <2>7, <2>8, <2>9 DEF Ordered
<1>7. CASE ~(\E i \in DOMAIN l : l[i].frame = e.frame)
  <2>1. PICK y : y = SubSeq(l, 1, a) \o <<e>> \o SubSeq(l, a + 1, n)
    OBVIOUS
  <2>2. /\ y \in Seq(EntryType) /\ Len(y) = n + 1
        /\ \A i \in 1..a : y[i] = l[i]
        /\ y[a + 1] = e
        /\ \A i \in (a + 2)..(n + 1) : y[i] = l[i - 1]
    BY <1>1, <1>3, <2>1, SplicedIs
  <2>3. ASSUME NEW i \in 1..n PROVE y[i].frame < y[i + 1].frame
    <3>1. CASE i < a
      <4>1. i \in 1..a /\ i + 1 \in 1..a /\ i \in 1..n /\ i + 1 \in 1..n /\ i < i + 1
        BY <1>3, <3>1
      <4> QED BY <1>1, <2>2, <4>1
    <3>2. CASE i = a
      <4>1. i \in 1..a
        BY <1>3, <3>2
      <4> QED BY <1>3, <2>2, <3>2, <4>1
    <3>3. CASE i = a + 1
      <4>1. i + 1 \in (a + 2)..(n + 1) /\ (i + 1) - 1 = i /\ i \in (a + 1)..n
        BY <1>1, <1>3, <3>3
      <4>2. y[i + 1] = l[i] /\ l[i].frame >= e.frame
        BY <1>3, <2>2, <4>1
      <4>3. l[i].frame # e.frame
        BY <1>5, <1>7
      <4> QED BY <1>1, <1>2, <2>2, <3>3, <4>2, <4>3
    <3>4. CASE i > a + 1
      <4>1. i \in (a + 2)..(n + 1) /\ i + 1 \in (a + 2)..(n + 1) /\ (i + 1) - 1 = i /\ i - 1 \in 1..n /\ i - 1 < i
        BY <1>1, <1>3, <3>4
      <4>2. y[i + 1] = l[i] /\ y[i] = l[i - 1]
        BY <2>2, <4>1
      <4> QED BY <1>1, <4>1, <4>2
    <3> QED BY <1>1, <1>3, <3>1, <3>2, <3>3, <3>4
  <2>4. (n + 1) - 1 = n
    BY <1>1
  <2>5. Insert(l, e) = y
    BY <1>4, <1>7, <2>1
  <2> QED BY <2>2, <2>3, <2>4, <2>5 DEF Ordered
<1> QED BY <1>6, <1>7

\* The frames `new` has, one after the other.
UpTo(upTo, l, new, n) ==
  upTo = [f \in 0..n |-> IF f = 0 THEN l ELSE IF f \in DOMAIN new THEN Insert(upTo[f - 1], new[f]) ELSE upTo[f - 1]]

LEMMA UpToExists ==
  ASSUME NEW l, NEW new, NEW N \in Nat
  PROVE  \E g : UpTo(g, l, new, N)
<1> DEFINE missing == {k \in Nat : ~\E g : UpTo(g, l, new, k)}
<1> SUFFICES ASSUME missing # {} PROVE FALSE
  OBVIOUS
<1>1. PICK k \in missing : \A n \in missing : k <= n
  <2>1. missing \in SUBSET Nat
    OBVIOUS
  <2> HIDE DEF missing
  <2> QED BY <2>1, LeastNatural
<1>2. k \in Nat
  BY <1>1
<1>3. CASE k = 0
  <2> DEFINE g == [f \in 0..0 |-> l]
  <2>1. \A f \in 0..0 : f = 0
    OBVIOUS
  <2>2. g = [f \in 0..0 |-> IF f = 0 THEN l ELSE IF f \in DOMAIN new THEN Insert(g[f - 1], new[f]) ELSE g[f - 1]]
    BY <2>1
  <2>3. UpTo(g, l, new, 0)
    BY <2>2 DEF UpTo
  <2> QED BY <1>1, <1>3, <2>3
<1>4. CASE k # 0
  <2>1. k - 1 \in Nat /\ k - 1 \notin missing
    <3>1. k - 1 \in Nat /\ ~(k <= k - 1)
      BY <1>2, <1>4
    <3> HIDE DEF missing
    <3> QED BY <1>1, <3>1
  <2>2. PICK g : UpTo(g, l, new, k - 1)
    BY <2>1
  <2> DEFINE h == [f \in 0..k |-> IF f = 0 THEN l ELSE IF f \in DOMAIN new THEN Insert(g[f - 1], new[f]) ELSE g[f - 1]]
  <2>3. \A f \in 0..(k - 1) : h[f] = g[f]
    <3>1. \A f \in 0..(k - 1) : f \in 0..k
      BY <1>2
    <3>2. \A f \in 0..(k - 1) : g[f] = IF f = 0 THEN l ELSE IF f \in DOMAIN new THEN Insert(g[f - 1], new[f]) ELSE g[f - 1]
      BY <2>2 DEF UpTo
    <3> QED BY <3>1, <3>2
  <2>4. \A f \in 0..k : f = 0 \/ h[f - 1] = g[f - 1]
    <3>1. \A f \in 0..k : f = 0 \/ f - 1 \in 0..(k - 1)
      BY <1>2
    <3> HIDE DEF h
    <3> QED BY <2>3, <3>1
  <2>5. h = [f \in 0..k |-> IF f = 0 THEN l ELSE IF f \in DOMAIN new THEN Insert(h[f - 1], new[f]) ELSE h[f - 1]]
    BY <2>4
  <2>6. UpTo(h, l, new, k)
    BY <2>5 DEF UpTo
  <2> QED BY <1>1, <2>6
<1> QED BY <1>3, <1>4

LEMMA InsertAllKeeps ==
  ASSUME NEW l, Ordered(l), NEW new, \A f \in 1..CutFrames : f \in DOMAIN new => new[f] \in EntryType
  PROVE  Ordered(InsertAll(l, new))
<1>1. CutFrames \in Nat
  BY CutAssumption
<1> DEFINE upTo[f \in 0..CutFrames] ==
             IF f = 0 THEN l ELSE IF f \in DOMAIN new THEN Insert(upTo[f - 1], new[f]) ELSE upTo[f - 1]
<1>2. InsertAll(l, new) = upTo[CutFrames]
  BY DEF InsertAll
<1>3. upTo = [f \in 0..CutFrames |->
                IF f = 0 THEN l ELSE IF f \in DOMAIN new THEN Insert(upTo[f - 1], new[f]) ELSE upTo[f - 1]]
  <2>1. PICK h : UpTo(h, l, new, CutFrames)
    BY <1>1, UpToExists
  <2>2. \E g : g = [f \in 0..CutFrames |->
                      IF f = 0 THEN l ELSE IF f \in DOMAIN new THEN Insert(g[f - 1], new[f]) ELSE g[f - 1]]
    BY <2>1 DEF UpTo
  <2> QED BY <2>2
<1> HIDE DEF upTo
<1>4. \A f \in 0..CutFrames :
        upTo[f] = IF f = 0 THEN l ELSE IF f \in DOMAIN new THEN Insert(upTo[f - 1], new[f]) ELSE upTo[f - 1]
  BY <1>3
<1> DEFINE wrong == {f \in 0..CutFrames : ~Ordered(upTo[f])}
<1>5. wrong = {}
  <2> SUFFICES ASSUME wrong # {} PROVE FALSE
    OBVIOUS
  <2>1. PICK f \in wrong : \A g \in wrong : f <= g
    <3>1. wrong \in SUBSET Nat
      BY <1>1
    <3> HIDE DEF wrong
    <3> QED BY <3>1, LeastNatural
  <2>2. f \in 0..CutFrames /\ ~Ordered(upTo[f])
    BY <2>1
  <2>3. f # 0
    BY <1>4, <2>2
  <2>4. f - 1 \in 0..CutFrames /\ ~(f <= f - 1) /\ f \in 1..CutFrames
    BY <1>1, <2>2, <2>3
  <2>5. PICK before : before = upTo[f - 1]
    OBVIOUS
  <2>6. Ordered(before)
    BY <2>1, <2>4, <2>5
  <2>7. upTo[f] = IF f \in DOMAIN new THEN Insert(before, new[f]) ELSE before
    BY <1>4, <2>2, <2>3, <2>5
  <2>8. CASE f \in DOMAIN new
    <3>1. Ordered(Insert(before, new[f]))
      BY <2>4, <2>6, <2>8, InsertKeeps
    <3> QED BY <2>2, <2>7, <2>8, <3>1
  <2>9. CASE f \notin DOMAIN new
    BY <2>2, <2>6, <2>7, <2>9
  <2> QED BY <2>8, <2>9
<1>6. CutFrames \in 0..CutFrames
  BY <1>1
<1> QED BY <1>2, <1>5, <1>6

\* What is left when an entry is taken out: the others, in their order.
LEMMA RemoveKeeps ==
  ASSUME NEW l, Ordered(l), NEW k \in 1..Len(l)
  PROVE  LET y == RemoveAt(l, k)
         IN /\ Ordered(y) /\ Len(y) = Len(l) - 1
            /\ \A i \in 1..(k - 1) : y[i] = l[i]
            /\ \A i \in k..(Len(l) - 1) : y[i] = l[i + 1]
            /\ ToSet(y) = ToSet(l) \ {l[k]}
<1> DEFINE h == SubSeq(l, 1, k - 1)
           t == SubSeq(l, k + 1, Len(l))
           n == Len(l)
<1>1. /\ l \in Seq(EntryType) /\ n \in Nat
      /\ \A i \in 1..n : l[i] \in EntryType /\ l[i].frame \in Int
      /\ \A i, j \in 1..n : i < j => l[i].frame < l[j].frame
  BY OrderedIs
<1>2. h \in Seq(EntryType) /\ Len(h) = k - 1 /\ \A i \in 1..(k - 1) : h[i] = l[i]
  <2>1. h \in Seq(EntryType) /\ Len(h) = (k - 1) - 0 /\ \A i \in 1..((k - 1) - 0) : h[i] = l[0 + i]
    BY <1>1, PieceIs
  <2> HIDE DEF h
  <2> QED BY <1>1, <2>1
<1>3. t \in Seq(EntryType) /\ Len(t) = n - k /\ \A i \in 1..(n - k) : t[i] = l[k + i]
  BY <1>1, PieceIs
<1> DEFINE y == RemoveAt(l, k)
<1>4. y = h \o t
  BY DEF RemoveAt
<1> HIDE DEF h, t, y
<1>5. y \in Seq(EntryType) /\ Len(y) = n - 1
  <2>1. h \o t \in Seq(EntryType) /\ Len(h \o t) = Len(h) + Len(t)
    <3>1. h \in Seq(EntryType) /\ t \in Seq(EntryType)
      BY <1>2, <1>3
    <3> QED BY <3>1
  <2> QED BY <1>1, <1>2, <1>3, <1>4, <2>1
<1>6. \A i \in 1..(k - 1) : y[i] = l[i]
  <2>1. \A i \in 1..Len(h) : (h \o t)[i] = h[i]
    BY <1>2, <1>3
  <2> QED BY <1>2, <1>4, <2>1
<1>7. ASSUME NEW i \in k..(n - 1) PROVE y[i] = l[i + 1]
  <2>1. PICK j \in 1..(n - k) : i = (k - 1) + j
    <3>1. i - (k - 1) \in 1..(n - k) /\ i = (k - 1) + (i - (k - 1))
      BY <1>1
    <3> QED BY <3>1
  <2>2. (h \o t)[Len(h) + j] = t[j]
    BY <1>2, <1>3
  <2>3. k + j = i + 1
    BY <1>1, <2>1
  <2> QED BY <1>2, <1>3, <1>4, <2>1, <2>2, <2>3
<1>8. ASSUME NEW i \in 1..((n - 1) - 1) PROVE y[i].frame < y[i + 1].frame
  <2>1. CASE i + 1 < k
    <3>1. i \in 1..(k - 1) /\ i + 1 \in 1..(k - 1) /\ i \in 1..n /\ i + 1 \in 1..n /\ i < i + 1
      BY <1>1, <2>1
    <3> QED BY <1>1, <1>6, <3>1
  <2>2. CASE i + 1 = k
    <3>1. i \in 1..(k - 1) /\ i + 1 \in k..(n - 1) /\ i \in 1..n /\ (i + 1) + 1 \in 1..n /\ i < (i + 1) + 1
      BY <1>1, <2>2
    <3> QED BY <1>1, <1>6, <1>7, <3>1
  <2>3. CASE i >= k
    <3>1. i \in k..(n - 1) /\ i + 1 \in k..(n - 1) /\ i + 1 \in 1..n /\ (i + 1) + 1 \in 1..n /\ i + 1 < (i + 1) + 1
      BY <1>1, <2>3
    <3> QED BY <1>1, <1>7, <3>1
  <2> QED BY <1>1, <2>1, <2>2, <2>3
<1>9. ToSet(y) = ToSet(l) \ {l[k]}
  <2>1. ToSet(y) = {y[i] : i \in 1..(n - 1)} /\ ToSet(l) = {l[i] : i \in 1..n}
    BY <1>1, <1>5 DEF ToSet
  <2>2. ASSUME NEW i \in 1..(n - 1) PROVE y[i] \in {l[j] : j \in 1..n} /\ y[i] # l[k]
    <3>1. CASE i < k
      <4>1. i \in 1..(k - 1) /\ i \in 1..n
        BY <1>1, <3>1
      <4> QED BY <1>1, <1>6, <3>1, <4>1
    <3>2. CASE i >= k
      <4>1. i \in k..(n - 1) /\ i + 1 \in 1..n /\ k < i + 1
        BY <1>1, <3>2
      <4>2. y[i] = l[i + 1] /\ l[k].frame < l[i + 1].frame
        BY <1>1, <1>7, <4>1
      <4> QED BY <1>1, <4>1, <4>2
    <3> QED BY <1>1, <3>1, <3>2
  <2>3. ASSUME NEW j \in 1..n, l[j] # l[k] PROVE l[j] \in {y[i] : i \in 1..(n - 1)}
    <3>1. CASE j < k
      <4>1. j \in 1..(k - 1) /\ j \in 1..(n - 1)
        BY <1>1, <3>1
      <4> QED BY <1>6, <4>1
    <3>2. CASE j > k
      <4>1. j - 1 \in k..(n - 1) /\ j - 1 \in 1..(n - 1) /\ (j - 1) + 1 = j
        BY <1>1, <3>2
      <4> QED BY <1>7, <4>1
    <3> QED BY <1>1, <2>3, <3>1, <3>2
  <2> QED BY <2>1, <2>2, <2>3
<1>10. Ordered(y)
  BY <1>5, <1>8 DEF Ordered
<1> QED BY <1>5, <1>6, <1>7, <1>9, <1>10 DEF y

Passed == {e \in ToSet(found) : Passes(e)}

\* While a loop removes, nothing that passes was removed, and behind its index nothing is left that
\* it tests for; nor anywhere what the loops before it tested for.
Filtering ==
  /\ ToSet(black) \subseteq ToSet(found) /\ Passed \subseteq ToSet(black)
  /\ phase \in {"bright", "uneven"} => \A i \in 1..Len(black) : ~TooLoud(black[i])
  /\ phase = "uneven" => \A i \in 1..Len(black) : ~TooBright(black[i])
  /\ candidate \in 0..Len(black) /\ \A i \in (candidate + 1)..Len(black) : ~Fails(phase, black[i])

CutInv ==
  /\ film \in [1..CutFrames -> FrameType] /\ plan \in PlanType
  /\ Ordered(black) /\ found \in Seq(EntryType)
  /\ phase = "watch" => candidate \in 1..CutFrames
  /\ phase \in {"silent", "runs"} => candidate \in Nat \ {0}
  /\ phase \in {"loud", "bright", "uneven"} => Filtering
  /\ phase = "turns" => ToSet(black) = Passed

\* What is seen and heard of a frame.
LEMMA FilmIs ==
  ASSUME film \in [1..CutFrames -> FrameType], NEW f \in 1..CutFrames
  PROVE  /\ film[f].volume \in Nat \cup {-1} /\ film[f].dark \in 0..3 /\ film[f].flat \in 0..2
         /\ f \in Nat
<1>1. film[f] \in FrameType /\ f \in Nat
  BY CutAssumption
<1> QED BY <1>1 DEF FrameType

LEMMA EntryIs ==
  ASSUME film \in [1..CutFrames -> FrameType], NEW f \in 1..CutFrames, NEW cause \in SUBSET CauseType
  PROVE  /\ Entry(f, cause) \in EntryType
         /\ \A v \in Nat \cup {-1} : WithVolume(f, cause, v) \in EntryType
<1>1. PICK v0, d, t : v0 = film[f].volume /\ d = film[f].dark /\ t = film[f].flat
  OBVIOUS
<1>2. v0 \in Nat \cup {-1} /\ d \in Int /\ t \in Int
  BY <1>1, FilmIs
<1>3. Entry(f, cause) = [frame |-> f, cause |-> cause, volume |-> v0, dark |-> d, flat |-> t]
  BY <1>1 DEF Entry
<1>4. [frame |-> f, cause |-> cause, volume |-> v0, dark |-> d, flat |-> t] \in EntryType
  BY <1>2 DEF EntryType
<1>5. ASSUME NEW v \in Nat \cup {-1} PROVE WithVolume(f, cause, v) \in EntryType
  <2>1. PICK e \in EntryType : e = Entry(f, cause)
    BY <1>3, <1>4
  <2>2. [e EXCEPT !.volume = v] \in EntryType
    BY DEF EntryType
  <2> QED BY <2>1, <2>2 DEF WithVolume
<1> QED BY <1>3, <1>4, <1>5

LEMMA CausesAre ==
  ASSUME NEW f
  PROVE  Causes(f) \in SUBSET CauseType
BY DEF Causes, CauseType

LEMMA EntriesAre ==
  ASSUME film \in [1..CutFrames -> FrameType], NEW frames, NEW cause \in SUBSET CauseType
  PROVE  \A f \in 1..CutFrames : f \in DOMAIN Entries(frames, cause) => Entries(frames, cause)[f] \in EntryType
<1>1. DOMAIN Entries(frames, cause) = frames /\ \A f \in frames : Entries(frames, cause)[f] = Entry(f, cause)
  BY DEF Entries
<1> QED BY <1>1, EntryIs

\* A volume is measured again, nothing else.
LEMMA MeasuredIs ==
  ASSUME film \in [1..CutFrames -> FrameType], NEW e \in EntryType
  PROVE  Measured(e) \in EntryType /\ Measured(e).frame = e.frame
<1> DEFINE known == {StoredVolume(a) : a \in {b \in Overlapped(e.frame) : StoredVolume(b) >= 0}} \cup {e.volume}
           least == CHOOSE v \in known : \A w \in known : v <= w
<1>1. e.frame \in 1..CutFrames /\ e.volume \in Nat \cup {-1}
  BY DEF EntryType
<1>2. \A a \in Overlapped(e.frame) : StoredVolume(a) \in Nat \cup {-1}
  <2>1. CutFrames \in Nat /\ VolumeSlip \in Nat /\ e.frame \in Int
    BY <1>1, CutAssumption
  <2>2. \A a \in Overlapped(e.frame) : a = 0 \/ a \in 1..CutFrames
    BY <2>1 DEF Overlapped, Most, Least
  <2> QED BY <2>2, FilmIs DEF StoredVolume
<1>3. known \subseteq Nat \cup {-1} /\ known # {}
  BY <1>1, <1>2
<1> HIDE DEF known
<1>4. least \in known
  <2> DEFINE above == {v + 1 : v \in known}
  <2>1. above \in SUBSET Nat /\ above # {}
    <3>1. \A v \in Nat \cup {-1} : v + 1 \in Nat
      OBVIOUS
    <3> QED BY <1>3, <3>1
  <2> HIDE DEF above
  <2>2. PICK m \in above : \A o \in above : m <= o
    BY <2>1, LeastNatural
  <2>3. PICK v \in known : m = v + 1
    BY <2>2 DEF above
  <2>4. ASSUME NEW w \in known PROVE v <= w
    <3>1. w + 1 \in above
      BY DEF above
    <3>2. m <= w + 1 /\ v \in Int /\ w \in Int
      BY <1>3, <2>2, <3>1
    <3> QED BY <2>3, <3>2
  <2> QED BY <2>4
<1> HIDE DEF least
<1>5. PICK v \in Nat \cup {-1} : Measured(e) = [e EXCEPT !.volume = v]
  <2>1. MaxVolume \div 2 \in Nat /\ 10 * MaxVolume \in Nat
    BY CutAssumption
  <2>2. CASE e.cause = {"scene"}
    BY <2>1, <2>2 DEF Measured
  <2>3. CASE e.cause # {"scene"}
    <3>1. Measured(e) = [e EXCEPT !.volume = least]
      BY <2>3 DEF Measured, least, known
    <3> QED BY <1>3, <1>4, <3>1
  <2> QED BY <2>2, <2>3
<1>6. [e EXCEPT !.volume = v] \in EntryType /\ [e EXCEPT !.volume = v].frame = e.frame
  BY DEF EntryType
<1> QED BY <1>5, <1>6

LEMMA CutStarts == CutInit => CutInv
<1> SUFFICES ASSUME CutInit PROVE CutInv
  OBVIOUS
<1>1. film \in [1..CutFrames -> FrameType] /\ plan \in PlanType /\ 1 \in 1..CutFrames
  BY CutAssumption DEF CutInit
<1>2. Ordered(<<>>) /\ <<>> \in Seq(EntryType)
  <2>1. <<>> \in Seq(EntryType) /\ Len(<<>>) = 0
    OBVIOUS
  <2> QED BY <2>1 DEF Ordered
<1> QED BY <1>1, <1>2 DEF CutInit, CutInv

\* While candidates are looked for.
LEMMA SearchKeeps ==
  ASSUME CutInv, Watch \/ LogoCuts \/ SilentSegment \/ SilentDone \/ SilenceRun \/ MarkEnd
  PROVE  CutInv'
<1>1. /\ film \in [1..CutFrames -> FrameType] /\ plan \in PlanType /\ Ordered(black) /\ found \in Seq(EntryType)
      /\ phase = "watch" => candidate \in 1..CutFrames
      /\ phase \in {"silent", "runs"} => candidate \in Nat \ {0}
      /\ CutFrames \in Nat \ {0}
  BY CutAssumption DEF CutInv
<1>2. film' = film /\ plan' = plan /\ found' = found
  BY DEF Watch, LogoCuts, SilentSegment, SilentDone, SilenceRun, MarkEnd
<1>3. SUFFICES /\ Ordered(black')
               /\ phase' = "watch" => candidate' \in 1..CutFrames
               /\ phase' \in {"silent", "runs"} => candidate' \in Nat \ {0}
               /\ phase' \notin {"loud", "bright", "uneven", "turns"}
  BY <1>1, <1>2 DEF CutInv
<1>4. CASE Watch
  <2>1. phase = "watch" /\ phase' = phase /\ candidate' = candidate + 1 /\ candidate < CutFrames
    BY <1>4 DEF Watch
  <2>2. candidate' \in 1..CutFrames
    BY <1>1, <2>1
  <2>3. Ordered(Insert(black, Entry(candidate + 1, Causes(candidate + 1))))
    <3>1. PICK f \in 1..CutFrames : f = candidate + 1
      BY <2>1, <2>2
    <3>2. Ordered(Insert(black, Entry(f, Causes(f))))
      BY <1>1, CausesAre, EntryIs, InsertKeeps
    <3> QED BY <3>1, <3>2
  <2> QED BY <1>1, <1>4, <2>1, <2>2, <2>3 DEF Watch
<1>5. CASE LogoCuts
  <2> DEFINE at == UNION {AfterLogo(i) \cup BeforeLogo(i) : i \in DOMAIN plan.logos}
             edge == (IF plan.after = 999 THEN {plan.logos[i][2] : i \in DOMAIN plan.logos} ELSE {})
                     \cup (IF plan.before = 999 THEN {plan.logos[i][1] : i \in DOMAIN plan.logos} ELSE {})
             new == [f \in at |-> WithVolume(f, {"logo"}, IF f \in edge THEN 0 ELSE film[f].volume)]
  <2>1. black' = InsertAll(black, new)
    BY <1>5 DEF LogoCuts
  <2> HIDE DEF at, edge
  <2>2. ASSUME NEW f \in 1..CutFrames, f \in DOMAIN new PROVE new[f] \in EntryType
    <3>1. PICK v : v = IF f \in edge THEN 0 ELSE film[f].volume
      OBVIOUS
    <3>2. v \in Nat \cup {-1}
      BY <1>1, <3>1, FilmIs
    <3>3. {"logo"} \in SUBSET CauseType
      BY DEF CauseType
    <3>4. new[f] = WithVolume(f, {"logo"}, v)
      BY <2>2, <3>1
    <3> QED BY <1>1, <3>2, <3>3, <3>4, EntryIs
  <2> HIDE DEF new
  <2>3. Ordered(black')
    BY <1>1, <2>1, <2>2, InsertAllKeeps
  <2>4. phase' = "silent" /\ candidate' = 1
    BY <1>5 DEF LogoCuts
  <2> QED BY <2>3, <2>4
<1>6. CASE SilentSegment
  <2>1. phase = "silent" /\ phase' = phase /\ candidate \in 1..CutFrames /\ candidate < CutFrames /\ candidate \in Nat
    BY <1>1, <1>6 DEF SilentSegment
  <2>2. CASE film[candidate].volume >= 5
    BY <1>1, <1>6, <2>1, <2>2 DEF SilentSegment
  <2>3. CASE ~(film[candidate].volume >= 5)
    <3> DEFINE j == SilenceEnd(candidate)
    <3>1. j \in (candidate + 1)..CutFrames
      <4> DEFINE loud == {f \in (candidate + 1)..CutFrames : f = CutFrames \/ film[f].volume >= 10}
      <4>1. loud \in SUBSET Nat /\ CutFrames \in loud
        BY <1>1, <2>1
      <4>2. PICK f \in loud : \A g \in loud : f <= g
        <5> HIDE DEF loud
        <5> QED BY <4>1, LeastNatural
      <4>3. ASSUME NEW g \in (candidate + 1)..(f - 1) PROVE film[g].volume < 10
        <5>1. g \in (candidate + 1)..CutFrames /\ g \in 1..CutFrames /\ ~(f <= g)
          BY <1>1, <2>1, <4>2
        <5>2. g \notin loud
          <6> HIDE DEF loud
          <6> QED BY <4>2, <5>1
        <5>3. ~(film[g].volume >= 10)
          BY <5>1, <5>2
        <5>4. film[g].volume \in Int
          BY <1>1, <5>1, FilmIs
        <5> QED BY <5>3, <5>4
      <4>4. f \in (candidate + 1)..CutFrames /\ (f = CutFrames \/ film[f].volume >= 10)
        BY <4>2
      <4> QED BY <4>3, <4>4 DEF SilenceEnd
    <3>2. /\ candidate' = j + 2
          /\ black' = IF j - 1 - candidate > plan.silent
                      THEN Insert(Insert(black, Entry(candidate, {"silence"})), WithVolume(j - 1, {"silence"}, film[j].volume))
                      ELSE black
      BY <1>6, <2>3 DEF SilentSegment
    <3> HIDE DEF j
    <3>3. Ordered(Insert(Insert(black, Entry(candidate, {"silence"})), WithVolume(j - 1, {"silence"}, film[j].volume)))
      <4>1. PICK before \in 1..CutFrames : before = j - 1
        BY <1>1, <2>1, <3>1
      <4>2. film[j].volume \in Nat \cup {-1}
        BY <1>1, <2>1, <3>1, FilmIs
      <4>3. {"silence"} \in SUBSET CauseType
        BY DEF CauseType
      <4>4. Ordered(Insert(black, Entry(candidate, {"silence"})))
        BY <1>1, <2>1, <4>3, EntryIs, InsertKeeps
      <4>5. WithVolume(before, {"silence"}, film[j].volume) \in EntryType
        BY <1>1, <4>2, <4>3, EntryIs
      <4> QED BY <4>1, <4>4, <4>5, InsertKeeps
    <3>4. candidate' \in Nat \ {0}
      BY <1>1, <2>1, <3>1, <3>2
    <3> QED BY <1>1, <2>1, <3>2, <3>3, <3>4
  <2> QED BY <2>2, <2>3
<1>7. CASE SilentDone
  BY <1>1, <1>7 DEF SilentDone
<1>8. CASE SilenceRun
  <2>1. phase = "runs" /\ phase' = phase /\ candidate \in 1..CutFrames /\ candidate' = candidate + 1 /\ candidate \in Nat
    BY <1>1, <1>8 DEF SilenceRun
  <2>2. {"silence"} \in SUBSET CauseType
    BY DEF CauseType
  <2>3. Ordered(Insert(black, Entry(candidate, {"silence"})))
    BY <1>1, <2>1, <2>2, EntryIs, InsertKeeps
  <2>4. Ordered(InsertAll(black, Entries(run.start..(candidate - 1), {"silence"})))
    <3>1. PICK new : new = Entries(run.start..(candidate - 1), {"silence"})
      OBVIOUS
    <3>2. \A f \in 1..CutFrames : f \in DOMAIN new => new[f] \in EntryType
      BY <1>1, <2>2, <3>1, EntriesAre
    <3> QED BY <1>1, <3>1, <3>2, InsertAllKeeps
  <2>5. \/ black' = black \/ black' = Insert(black, Entry(candidate, {"silence"}))
        \/ black' = InsertAll(black, Entries(run.start..(candidate - 1), {"silence"}))
    BY <1>8 DEF SilenceRun
  <2> QED BY <1>1, <2>1, <2>3, <2>4, <2>5
<1>9. CASE MarkEnd
  <2>1. [frame |-> CutFrames, cause |-> {"black"}, volume |-> 0, dark |-> 0, flat |-> 0] \in EntryType
    BY <1>1 DEF EntryType, CauseType
  <2>2. Ordered(black') /\ phase' = "volumes"
    BY <1>1, <1>9, <2>1, InsertKeeps DEF MarkEnd
  <2> QED BY <2>2
<1> QED BY <1>4, <1>5, <1>6, <1>7, <1>8, <1>9

\* Before the first filter.
LEMMA MeasureKeeps ==
  ASSUME CutInv, Measure
  PROVE  CutInv'
<1>1. /\ film \in [1..CutFrames -> FrameType] /\ plan \in PlanType /\ Ordered(black) /\ CutFrames \in Nat
  BY CutAssumption DEF CutInv
<1>2. PICK whole, more :
        /\ whole = InsertAll(black, Entries(more, {"flat"}))
        /\ black' = [i \in DOMAIN whole |-> Measured(whole[i])]
  BY DEF Measure
<1>3. Ordered(whole)
  <2>1. {"flat"} \in SUBSET CauseType
    BY DEF CauseType
  <2>2. PICK new : new = Entries(more, {"flat"})
    OBVIOUS
  <2>3. \A f \in 1..CutFrames : f \in DOMAIN new => new[f] \in EntryType
    BY <1>1, <2>1, <2>2, EntriesAre
  <2> QED BY <1>1, <1>2, <2>2, <2>3, InsertAllKeeps
<1>4. /\ whole \in Seq(EntryType) /\ Len(whole) \in Nat /\ \A i \in 1..Len(whole) : whole[i] \in EntryType
      /\ \A i, j \in 1..Len(whole) : i < j => whole[i].frame < whole[j].frame
  BY <1>3, OrderedIs
<1>5. DOMAIN whole = 1..Len(whole)
  BY <1>4
<1>6. \A i \in 1..Len(whole) : Measured(whole[i]) \in EntryType /\ Measured(whole[i]).frame = whole[i].frame
  BY <1>1, <1>4, MeasuredIs
<1>7. PICK y : y = [i \in 1..Len(whole) |-> Measured(whole[i])]
  OBVIOUS
<1>8. y \in Seq(EntryType) /\ Len(y) = Len(whole) /\ \A i \in 1..Len(whole) : y[i].frame = whole[i].frame
  <2>1. y \in [1..Len(whole) -> EntryType]
    BY <1>6, <1>7
  <2>2. y \in Seq(EntryType) /\ Len(y) = Len(whole)
    BY <1>4, <2>1
  <2> QED BY <1>6, <1>7, <2>2
<1>9. Ordered(y)
  <2>1. \A i \in 1..(Len(whole) - 1) : i \in 1..Len(whole) /\ i + 1 \in 1..Len(whole) /\ i < i + 1
    BY <1>4
  <2> QED BY <1>4, <1>8, <2>1 DEF Ordered
<1>10. black' = y /\ found' = y /\ phase' = "loud" /\ candidate' = Len(y) /\ film' = film /\ plan' = plan
  BY <1>2, <1>5, <1>7 DEF Measure
<1>11. Filtering'
  <2>1. ToSet(black') \subseteq ToSet(found') /\ Passed' \subseteq ToSet(black')
    BY <1>10 DEF Passed
  <2>2. candidate' \in 0..Len(black') /\ (candidate' + 1)..Len(black') = {}
    BY <1>4, <1>8, <1>10
  <2> QED BY <1>10, <2>1, <2>2 DEF Filtering
<1> QED BY <1>1, <1>8, <1>9, <1>10, <1>11 DEF CutInv

LEMMA PassesIs ==
  ASSUME NEW e \in EntryType, plan \in PlanType
  PROVE  Passes(e) <=> ~TooLoud(e) /\ ~TooBright(e) /\ ~TooUneven(e)
<1>1. e.volume \in Int /\ e.dark \in Int /\ e.flat \in Int
  BY DEF EntryType
<1>2. MaxVolume \in Int /\ Darkest \in Int /\ Flattest \in Int
  <2>1. plan.darkest \in 0..2 /\ plan.flattest \in 0..2 /\ plan.least \in 0..2
    BY DEF PlanType
  <2> QED BY <2>1, CutAssumption DEF Darkest, Flattest, Most
<1> HIDE DEF Darkest, Flattest
<1>3. /\ ~(e.volume > MaxVolume) <=> e.volume <= MaxVolume
      /\ ~(e.dark > Darkest) <=> e.dark <= Darkest
      /\ ~(e.flat > Flattest) <=> e.flat <= Flattest
  BY <1>1, <1>2
<1> QED BY <1>3 DEF Passes, TooLoud, TooBright, TooUneven

\* A turn of a loop that removes: of the entry at its index it knows the test, of those behind it
\* it knew it before.
LEMMA RemovalKeeps ==
  ASSUME CutInv, NEW test \in {"loud", "bright", "uneven"}, phase = test, candidate # 0,
         phase' = phase, found' = found, film' = film, plan' = plan, candidate' = candidate - 1,
         black' = IF Fails(test, black[candidate]) THEN RemoveAt(black, candidate) ELSE black
  PROVE  CutInv'
<1> DEFINE n == Len(black)
<1>1. Filtering /\ Ordered(black) /\ plan \in PlanType
  BY DEF CutInv
<1>2. /\ black \in Seq(EntryType) /\ n \in Nat /\ \A i \in 1..n : black[i] \in EntryType
  BY <1>1, OrderedIs
<1>3. /\ candidate \in 1..n
      /\ \A i \in (candidate + 1)..n : ~Fails(test, black[i])
      /\ test \in {"bright", "uneven"} => \A i \in 1..n : ~TooLoud(black[i])
      /\ test = "uneven" => \A i \in 1..n : ~TooBright(black[i])
      /\ ToSet(black) \subseteq ToSet(found) /\ Passed \subseteq ToSet(black)
  BY <1>1, <1>2 DEF Filtering
<1>4. Passed' = Passed
  BY DEF Passed, Passes, Darkest, Flattest
<1> DEFINE k == candidate
<1>5. CASE ~Fails(test, black[k])
  <2>1. \A i \in ((k - 1) + 1)..n : i = k \/ i \in (k + 1)..n
    BY <1>2, <1>3
  <2>2. \A i \in ((k - 1) + 1)..n : ~Fails(test, black[i])
    BY <1>3, <1>5, <2>1
  <2>3. k - 1 \in 0..n /\ black' = black
    BY <1>2, <1>3, <1>5
  <2>4. Filtering'
    BY <1>3, <1>4, <2>2, <2>3 DEF Filtering, Fails, TooLoud, TooBright, TooUneven, Darkest, Flattest
  <2> QED BY <2>3, <2>4 DEF CutInv
<1>6. CASE Fails(test, black[k])
  <2>1. PICK y : y = RemoveAt(black, k)
    OBVIOUS
  <2>2. /\ Ordered(y) /\ Len(y) = n - 1
        /\ \A i \in 1..(k - 1) : y[i] = black[i]
        /\ \A i \in k..(n - 1) : y[i] = black[i + 1]
        /\ ToSet(y) = ToSet(black) \ {black[k]}
    BY <1>1, <1>3, <2>1, RemoveKeeps
  <2>3. black' = y
    BY <1>6, <2>1
  <2>4. \A i \in 1..(n - 1) : \E j \in 1..n : y[i] = black[j]
    <3> SUFFICES ASSUME NEW i \in 1..(n - 1) PROVE \E j \in 1..n : y[i] = black[j]
      OBVIOUS
    <3>1. CASE i < k
      <4>1. i \in 1..(k - 1) /\ i \in 1..n
        BY <1>2, <1>3, <3>1
      <4> QED BY <2>2, <4>1
    <3>2. CASE i >= k
      <4>1. i \in k..(n - 1) /\ i + 1 \in 1..n
        BY <1>2, <1>3, <3>2
      <4> QED BY <2>2, <4>1
    <3> QED BY <1>2, <1>3, <3>1, <3>2
  <2>5. \A i \in ((k - 1) + 1)..(n - 1) : ~Fails(test, y[i])
    <3>1. \A i \in ((k - 1) + 1)..(n - 1) : i \in k..(n - 1) /\ i + 1 \in (k + 1)..n
      BY <1>2, <1>3
    <3> QED BY <1>3, <2>2, <3>1
  <2>6. k - 1 \in 0..(n - 1)
    BY <1>2, <1>3
  <2>7. black[k] \notin Passed
    <3>1. ~Passes(black[k])
      <4>1. TooLoud(black[k]) \/ TooBright(black[k]) \/ TooUneven(black[k])
        BY <1>6 DEF Fails
      <4> QED BY <1>1, <1>2, <1>3, <4>1, PassesIs
    <3> QED BY <3>1 DEF Passed
  <2>8. ToSet(y) \subseteq ToSet(found) /\ Passed \subseteq ToSet(y)
    BY <1>3, <2>2, <2>7
  <2>9. /\ test \in {"bright", "uneven"} => \A i \in 1..(n - 1) : ~TooLoud(y[i])
        /\ test = "uneven" => \A i \in 1..(n - 1) : ~TooBright(y[i])
    BY <1>3, <2>4
  <2>10. Filtering'
    BY <1>4, <2>2, <2>3, <2>5, <2>6, <2>8, <2>9 DEF Filtering, Fails, TooLoud, TooBright, TooUneven, Darkest, Flattest
  <2> QED BY <2>2, <2>3, <2>10 DEF CutInv
<1> QED BY <1>5, <1>6

Follows(test, next) ==
  \/ test = "loud" /\ next = "bright"
  \/ test = "bright" /\ next = "uneven"
  \/ test = "uneven" /\ next = "turns"

\* The loop is over, and the next begins at the end of what is left.
LEMMA RemovalEnds ==
  ASSUME CutInv, NEW test, NEW next, Follows(test, next),
         phase = test, candidate = 0, phase' = next, candidate' = Len(black),
         UNCHANGED <<black, found, film, plan>>
  PROVE  CutInv'
<1> DEFINE n == Len(black)
<1>1. \/ test = "loud" /\ next = "bright"
      \/ test = "bright" /\ next = "uneven"
      \/ test = "uneven" /\ next = "turns"
  BY DEF Follows
<1>2. Filtering /\ Ordered(black) /\ plan \in PlanType
  BY <1>1 DEF CutInv
<1>3. black \in Seq(EntryType) /\ n \in Nat /\ \A i \in 1..n : black[i] \in EntryType
  BY <1>2, OrderedIs
<1>4. \A i \in 1..n : ~Fails(test, black[i])
  <2>1. (0 + 1)..n = 1..n
    OBVIOUS
  <2> QED BY <1>2, <2>1 DEF Filtering
<1>5. Passed' = Passed
  BY DEF Passed, Passes, Darkest, Flattest
<1>6. CASE test = "uneven" /\ next = "turns"
  <2>1. ASSUME NEW i \in 1..n PROVE black[i] \in Passed
    <3>1. ~TooLoud(black[i]) /\ ~TooBright(black[i]) /\ ~TooUneven(black[i])
      BY <1>2, <1>4, <1>6 DEF Filtering, Fails
    <3>2. Passes(black[i])
      BY <1>2, <1>3, <3>1, PassesIs
    <3>3. black[i] \in ToSet(black)
      BY <1>3 DEF ToSet
    <3> QED BY <1>2, <3>2, <3>3 DEF Passed, Filtering
  <2>2. ToSet(black) = Passed
    <3>1. ToSet(black) = {black[i] : i \in 1..n}
      BY <1>3 DEF ToSet
    <3> QED BY <1>2, <2>1, <3>1 DEF Filtering
  <2> QED BY <1>2, <1>5, <1>6, <2>2 DEF CutInv
<1>7. CASE ~(test = "uneven" /\ next = "turns")
  <2>1. \A i \in 1..n : ~TooLoud(black[i])
    BY <1>1, <1>2, <1>4, <1>7 DEF Filtering, Fails
  <2>2. next = "uneven" => \A i \in 1..n : ~TooBright(black[i])
    BY <1>1, <1>2, <1>4, <1>7 DEF Filtering, Fails
  <2>3. n \in 0..n /\ (n + 1)..n = {}
    BY <1>3
  <2>4. Filtering'
    BY <1>1, <1>2, <1>5, <1>7, <2>1, <2>2, <2>3 DEF Filtering, TooLoud, TooBright, Darkest
  <2> QED BY <1>1, <1>2, <1>7, <2>4 DEF CutInv
<1> QED BY <1>6, <1>7

LEMMA CutSteps == CutInv /\ [CutNext]_cutVars => CutInv'
<1> SUFFICES ASSUME CutInv, [CutNext]_cutVars PROVE CutInv'
  OBVIOUS
<1>1. ASSUME NEW test, NEW next, Follows(test, next),
             Drop(test, next)
      PROVE  CutInv'
  <2>1. CASE candidate = 0
    BY <1>1, <2>1, RemovalEnds DEF Drop
  <2>2. CASE candidate # 0
    <3>1. test \in {"loud", "bright", "uneven"}
      BY <1>1 DEF Follows
    <3> QED BY <1>1, <2>2, <3>1, RemovalKeeps DEF Drop
  <2> QED BY <2>1, <2>2
<1>2. CASE Turns
  <2>1. film \in [1..CutFrames -> FrameType] /\ Ordered(black)
    BY DEF CutInv
  <2>2. PICK a, b : a = Entries(plan.turns, {"ratio"}) /\ b = Entries(plan.channels, {"size"})
    OBVIOUS
  <2>3. {"ratio"} \in SUBSET CauseType /\ {"size"} \in SUBSET CauseType
    BY DEF CauseType
  <2>4. /\ \A f \in 1..CutFrames : f \in DOMAIN a => a[f] \in EntryType
        /\ \A f \in 1..CutFrames : f \in DOMAIN b => b[f] \in EntryType
    BY <2>1, <2>2, <2>3, EntriesAre
  <2>5. Ordered(InsertAll(InsertAll(black, a), b))
    BY <2>1, <2>4, InsertAllKeeps
  <2> QED BY <1>2, <2>2, <2>5 DEF Turns, CutInv
<1>3. CASE CutOver \/ UNCHANGED cutVars
  BY <1>3 DEF CutOver, cutVars, CutInv, Filtering, Passed, Passes, Darkest, Flattest, Fails, TooLoud, TooBright, TooUneven
<1>4. Follows("loud", "bright") /\ Follows("bright", "uneven") /\ Follows("uneven", "turns")
  BY DEF Follows
<1>5. CASE DropLoud \/ DropBright \/ DropUneven
  <2>1. CASE DropLoud
    BY <1>1, <1>4, <2>1 DEF DropLoud
  <2>2. CASE DropBright
    BY <1>1, <1>4, <2>2 DEF DropBright
  <2>3. CASE DropUneven
    BY <1>1, <1>4, <2>3 DEF DropUneven
  <2> QED BY <1>5, <2>1, <2>2, <2>3
<1> QED BY <1>2, <1>3, <1>5, SearchKeeps, MeasureKeeps DEF CutNext

\* The candidates BuildBlocks walks over are in the order of their frames, whatever was inserted
\* into their middle, and its three loops leave those that pass and no other.
THEOREM CandidatesAreExact == CutSpec => []CandidatesExact
<1>1. CutInv => CandidatesExact
  <2> SUFFICES ASSUME CutInv PROVE CandidatesExact
    OBVIOUS
  <2>1. /\ \A i \in 1..Len(black) : black[i] \in EntryType
        /\ \A i, j \in 1..Len(black) : i < j => black[i].frame < black[j].frame
    BY OrderedIs DEF CutInv
  <2>2. ASSUME NEW i \in 1..Len(black)
        PROVE  black[i].frame \in 1..CutFrames /\ (i > 1 => black[i - 1].frame < black[i].frame)
    <3>1. Len(black) \in Nat
      BY OrderedIs DEF CutInv
    <3>2. i > 1 => i - 1 \in 1..Len(black) /\ i - 1 < i
      BY <3>1
    <3> QED BY <2>1, <3>2 DEF EntryType
  <2>3. phase = "turns" => ToSet(black) = {e \in ToSet(found) : Passes(e)}
    BY DEF CutInv, Passed
  <2> QED BY <2>2, <2>3 DEF CandidatesExact, CandidatesSorted, FiltersExact
<1> QED BY <1>1, CutStarts, CutSteps, PTL DEF CutSpec

-----------------------------------------------------------------------------
(* The stretches of one aspect ratio. *)

RatioType == Ratios \cup {Undefined}
StretchType == [start : Int, end : Int, ratio : RatioType]
TrendType == [ratio : RatioType, count : Int, start : Int]

Opened(l) == l[Len(l)].start
Tiled(l) ==
  /\ l \in Seq(StretchType) /\ Len(l) >= 1 /\ l[1].start = 1
  /\ \A i \in 1..(Len(l) - 1) : l[i].start <= l[i].end /\ l[i + 1].start = l[i].end + 1

\* While frames are read, a trend that may turn the ratio began within the open stretch, and not
\* with it; and as long as there is a ratio to lose, the misses are of frames of the open stretch.
InFrames ==
  /\ frameRead \in 1..AspectFrames /\ misses \in Nat /\ ratio \in RatioType
  /\ aspectTrend \in TrendType /\ aspectTrend.start <= frameRead
  /\ Opened(list) <= frameRead
  /\ aspectTrend.ratio = ratio \/ Opened(list) < aspectTrend.start
  /\ ratio # 0 => misses <= frameRead - Opened(list)

\* While the list is tidied, its last stretch is closed as well.
InTidying ==
  /\ entry \in Nat /\ entry <= Len(list)
  /\ list[Len(list)].end = AspectFrames /\ Opened(list) <= AspectFrames

AspectInv ==
  /\ stage \in {"frames", "tidy"} => Tiled(list)
  /\ stage = "frames" => InFrames
  /\ stage = "tidy" => InTidying

LEMMA TiledTypes ==
  ASSUME NEW l, Tiled(l)
  PROVE  /\ Len(l) \in Nat /\ Len(l) >= 1 /\ Opened(l) \in Int
         /\ \A i \in 1..Len(l) : l[i] \in StretchType /\ l[i].start \in Int /\ l[i].end \in Int /\ l[i].ratio \in RatioType
<1>1. Len(l) \in Nat /\ Len(l) >= 1 /\ \A i \in 1..Len(l) : l[i] \in StretchType
  BY DEF Tiled
<1>2. \A s \in StretchType : s.start \in Int /\ s.end \in Int /\ s.ratio \in RatioType
  BY DEF StretchType
<1>3. Len(l) \in 1..Len(l)
  BY <1>1
<1> QED BY <1>1, <1>2, <1>3 DEF Opened

\* Closing a stretch.
LEMMA EndedIs ==
  ASSUME NEW l \in Seq(StretchType), NEW n \in 1..Len(l), NEW closed \in Int
  PROVE  LET next == [l EXCEPT ![n].end = closed]
         IN /\ next \in Seq(StretchType) /\ Len(next) = Len(l)
            /\ \A i \in 1..Len(l) : /\ next[i].start = l[i].start
                                   /\ next[i].end = IF i = n THEN closed ELSE l[i].end
<1> DEFINE s == [l[n] EXCEPT !.end = closed]
           next == [l EXCEPT ![n] = s]
<1>1. l[n] \in StretchType
  OBVIOUS
<1>2. s \in StretchType /\ s.start = l[n].start /\ s.end = closed
  BY <1>1 DEF StretchType
<1>3. next = [l EXCEPT ![n].end = closed]
  OBVIOUS
<1> HIDE DEF s
<1>4. /\ next \in Seq(StretchType) /\ Len(next) = Len(l)
      /\ \A i \in 1..Len(l) : next[i] = IF i = n THEN s ELSE l[i]
  BY <1>2
<1> QED BY <1>2, <1>3, <1>4

\* Closing the open stretch before a frame within it, where the next one begins.
LEMMA TurnedTiles ==
  ASSUME NEW l, Tiled(l), NEW from \in Int, Opened(l) < from, NEW r \in RatioType, NEW closed, closed = from - 1
  PROVE  LET next == Append([l EXCEPT ![Len(l)].end = closed], Stretch(from, r))
         IN Tiled(next) /\ Opened(next) = from
<1> DEFINE n == Len(l)
           open == [l EXCEPT ![n].end = closed]
           next == Append(open, Stretch(from, r))
<1>1. /\ n \in Nat /\ n >= 1 /\ l \in Seq(StretchType) /\ l[1].start = 1
      /\ \A i \in 1..(n - 1) : l[i].start <= l[i].end /\ l[i + 1].start = l[i].end + 1
  BY DEF Tiled
<1>2. Stretch(from, r) \in StretchType /\ Stretch(from, r).start = from
  BY DEF Stretch, StretchType
<1>3. /\ open \in Seq(StretchType) /\ Len(open) = n
      /\ \A i \in 1..n : open[i].start = l[i].start /\ open[i].end = IF i = n THEN closed ELSE l[i].end
  <2>1. n \in 1..Len(l) /\ closed \in Int
    BY <1>1
  <2> QED BY <1>1, <2>1, EndedIs
<1> HIDE DEF open, n
<1>4. /\ next \in Seq(StretchType) /\ Len(next) = n + 1 /\ next[n + 1] = Stretch(from, r)
      /\ \A i \in 1..n : next[i] = open[i]
  BY <1>1, <1>2, <1>3
<1>5. \A i \in 1..n : i = n \/ (i \in 1..(n - 1) /\ i + 1 \in 1..n)
  BY <1>1
<1> HIDE DEF next
<1>6. ASSUME NEW i \in 1..n PROVE next[i].start <= next[i].end /\ next[i + 1].start = next[i].end + 1
  <2>1. CASE i = n
    <3>1. l[n].start < from /\ n \in 1..n
      BY <1>1 DEF Opened, n
    <3>2. l[n].start \in Int
      BY <3>1, TiledTypes DEF n
    <3>3. next[n].start = l[n].start /\ next[n].end = closed /\ next[n + 1].start = from
      BY <1>2, <1>3, <1>4, <3>1
    <3> QED BY <2>1, <3>1, <3>2, <3>3
  <2>2. CASE i \in 1..(n - 1) /\ i + 1 \in 1..n
    <3>1. next[i].start = l[i].start /\ next[i + 1].start = l[i + 1].start
      BY <1>3, <1>4, <2>2
    <3>2. next[i].end = l[i].end
      BY <1>1, <1>3, <1>4, <2>2
    <3> QED BY <1>1, <2>2, <3>1, <3>2
  <2> QED BY <1>5, <2>1, <2>2
<1>7. next[1].start = 1 /\ 1 \in 1..n
  <2>1. 1 \in 1..n
    BY <1>1
  <2> QED BY <1>1, <1>3, <1>4, <2>1
<1>8. Len(next) \in Nat /\ n + 1 - 1 = n
  BY <1>1, <1>4
<1>9. Tiled(next) /\ Opened(next) = from
  BY <1>1, <1>2, <1>4, <1>6, <1>7, <1>8 DEF Tiled, Opened
<1> QED BY <1>9 DEF next, open, n

\* What a frame leaves, whether or not the ratio is lost with it.
LEMMA MissedReads ==
  ASSUME NEW at \in 1..AspectFrames, frameRead' = at, NEW count \in Nat, NEW t \in TrendType, NEW l, Tiled(l),
         NEW r \in RatioType, Missed(at, count, t, l, r),
         t.start <= at, Opened(l) <= at, t.ratio = r \/ Opened(l) < t.start,
         r # 0 => count <= at - Opened(l)
  PROVE  Tiled(list') /\ InFrames'
<1>1. CASE count > Lost /\ r # 0
  <2> DEFINE after == Append([l EXCEPT ![Len(l)].end = at - Lost - 1], Stretch(at - Lost, 0))
  <2>1. list' = after /\ ratio' = 0 /\ misses' = count /\ aspectTrend' = [t EXCEPT !.ratio = 0]
    BY <1>1 DEF Missed, Undefined
  <2>2. at - Lost \in Int /\ Opened(l) < at - Lost /\ at - Lost <= at /\ Opened(l) \in Int
    BY <1>1, TiledTypes, AspectAssumption
  <2>3. Tiled(after) /\ Opened(after) = at - Lost
    BY <2>2, TurnedTiles DEF RatioType, Undefined
  <2>4. aspectTrend' \in TrendType /\ aspectTrend'.ratio = 0 /\ aspectTrend'.start = t.start
    BY <2>1 DEF TrendType, RatioType, Undefined
  <2> QED BY <2>1, <2>2, <2>3, <2>4 DEF InFrames, RatioType, Undefined
<1>2. CASE ~(count > Lost /\ r # 0)
  <2>1. list' = l /\ ratio' = r /\ misses' = count /\ aspectTrend' = t
    BY <1>2 DEF Missed, Undefined
  <2> QED BY <2>1 DEF InFrames
<1> QED BY <1>1, <1>2

\* A frame is read.
LEMMA FrameReads ==
  ASSUME stage = "frames", Tiled(list), InFrames, Frame
  PROVE  Tiled(list') /\ InFrames'
<1>1. PICK r \in Readings : Read(r)
  BY DEF Frame
<1> DEFINE at == frameRead + 1
<1>2. frameRead < AspectFrames /\ frameRead' = at
  BY <1>1 DEF Frame, Read
<1>3. at \in 1..AspectFrames /\ AspectFrames \in Nat /\ frameRead \in Nat /\ Opened(list) \in Int /\ at = frameRead + 1
  BY <1>2, TiledTypes, AspectAssumption DEF InFrames
<1>4. r # Unreliable => r \in RatioType
  BY DEF Readings, RatioType
<1>5. /\ aspectTrend \in TrendType /\ aspectTrend.start <= frameRead /\ aspectTrend.start \in Int
      /\ misses \in Nat /\ ratio \in RatioType /\ Opened(list) <= frameRead
      /\ aspectTrend.ratio = ratio \/ Opened(list) < aspectTrend.start
      /\ ratio # 0 => misses <= frameRead - Opened(list)
  BY DEF InFrames, TrendType
<1>6. NoTrend(at) \in TrendType /\ NoTrend(at).start = at
  BY <1>3, <1>5 DEF NoTrend, TrendType
<1> HIDE DEF at
<1>7. CASE r = Unreliable
  <2>1. Missed(at, misses, NoTrend(at), list, ratio)
    BY <1>1, <1>7 DEF Read, at
  <2> QED BY <1>2, <1>3, <1>5, <1>6, <2>1, MissedReads
<1>8. CASE r # Unreliable /\ r = ratio
  <2>1. Missed(at, 0, NoTrend(at), list, ratio)
    BY <1>1, <1>8 DEF Read, at
  <2> QED BY <1>2, <1>3, <1>5, <1>6, <2>1, MissedReads
<1>9. CASE r # Unreliable /\ r # ratio /\ r # aspectTrend.ratio
  <2> DEFINE t == [ratio |-> r, count |-> 0, start |-> at]
  <2>1. Missed(at, misses + 1, t, list, ratio)
    BY <1>1, <1>9 DEF Read, at
  <2>2. t \in TrendType /\ t.start = at
    BY <1>3, <1>4, <1>9 DEF TrendType
  <2> HIDE DEF t
  <2> QED BY <1>2, <1>3, <1>5, <2>1, <2>2, MissedReads
<1>10. CASE r # Unreliable /\ r # ratio /\ r = aspectTrend.ratio /\ aspectTrend.count + 1 > Trend
  <2> DEFINE from == aspectTrend.start
             t == [aspectTrend EXCEPT !.count = 0]
             l == Append([list EXCEPT ![Len(list)].end = from - 1], Stretch(from, r))
  <2>1. Missed(at, 1, t, l, r)
    BY <1>1, <1>10 DEF Read, Turned, at
  <2>2. from \in Int /\ Opened(list) < from /\ from <= frameRead /\ from - 1 \in Int
    BY <1>5, <1>10
  <2>3. Tiled(l) /\ Opened(l) = from
    BY <1>4, <1>10, <2>2, TurnedTiles
  <2>4. t \in TrendType /\ t.start = from /\ t.ratio = r
    BY <1>5, <1>10 DEF TrendType
  <2> HIDE DEF t, l, from
  <2> QED BY <1>2, <1>3, <1>4, <1>10, <2>1, <2>2, <2>3, <2>4, MissedReads
<1>11. CASE r # Unreliable /\ r # ratio /\ r = aspectTrend.ratio /\ ~(aspectTrend.count + 1 > Trend)
  <2> DEFINE t == [aspectTrend EXCEPT !.count = @ + 1]
  <2>1. Missed(at, misses + 1, t, list, ratio)
    BY <1>1, <1>11 DEF Read, at
  <2>2. t \in TrendType /\ t.start = aspectTrend.start /\ t.ratio = aspectTrend.ratio
    BY <1>5 DEF TrendType
  <2> HIDE DEF t
  <2> QED BY <1>2, <1>3, <1>5, <1>11, <2>1, <2>2, MissedReads
<1> QED BY <1>7, <1>8, <1>9, <1>10, <1>11

\* Joining stretches that follow one another keeps the whole covered.
LEMMA MergedTiles ==
  ASSUME Tiled(list), InTidying, NEW a \in 1..Len(list), NEW b \in 1..Len(list), a < b, NEW r \in RatioType,
         list[a].start <= list[b].end
  PROVE  LET next == Merged(a, b, r)
         IN /\ Tiled(next) /\ next[Len(next)].end = AspectFrames /\ Opened(next) <= AspectFrames
<1> DEFINE n == Len(list)
           m == n - (b - a)
           next == Merged(a, b, r)
<1>1. /\ n \in Nat /\ m \in Nat /\ a <= m /\ m < n /\ m >= 1 /\ \A i \in 1..n : list[i] \in StretchType
      /\ list[1].start = 1
      /\ \A i \in 1..(n - 1) : list[i].start <= list[i].end /\ list[i + 1].start = list[i].end + 1
  BY DEF Tiled
<1>2. [start |-> list[a].start, end |-> list[b].end, ratio |-> r] \in StretchType
  BY <1>1 DEF StretchType
<1>3. /\ next \in [1..m -> StretchType]
      /\ \A i \in 1..m : i < a => next[i] = list[i]
      /\ next[a] = [start |-> list[a].start, end |-> list[b].end, ratio |-> r]
      /\ \A i \in 1..m : i > a => next[i] = list[i + (b - a)] /\ i + (b - a) \in 1..n
  BY SMTT(30), <1>1, <1>2 DEF Merged
<1> HIDE DEF next
<1>4. next \in Seq(StretchType) /\ Len(next) = m
  <2>1. next \in [1..m -> StretchType]
    BY <1>3
  <2>2. m \in Nat
    BY <1>1
  <2> HIDE DEF m
  <2> QED BY <2>1, <2>2
<1>5. next[1].start = 1
  <2>1. CASE a = 1
    BY <1>1, <1>3, <2>1
  <2>2. CASE a > 1
    BY <1>1, <1>3, <2>2
  <2> QED BY <1>1, <2>1, <2>2
<1>6. ASSUME NEW i \in 1..(m - 1)
      PROVE next[i].start <= next[i].end /\ next[i + 1].start = next[i].end + 1
  <2>1. CASE i + 1 < a
    <3>1. next[i] = list[i] /\ next[i + 1] = list[i + 1] /\ i \in 1..(n - 1)
      BY <1>1, <1>3, <2>1
    <3> QED BY <1>1, <3>1
  <2>2. CASE i + 1 = a
    <3>1. next[i] = list[i] /\ next[i + 1].start = list[i + 1].start /\ i \in 1..(n - 1)
      BY <1>1, <1>3, <2>2
    <3> QED BY <1>1, <3>1
  <2>3. CASE i = a
    <3>1. i + 1 + (b - a) = b + 1 /\ b \in 1..(n - 1)
      BY <1>1, <2>3
    <3>2. next[i].start = list[a].start /\ next[i].end = list[b].end /\ next[i + 1] = list[b + 1]
      BY <1>1, <1>3, <2>3, <3>1
    <3> QED BY <1>1, <3>1, <3>2
  <2>4. CASE i > a
    <3> DEFINE j == i + (b - a)
    <3>1. j \in 1..(n - 1) /\ i + 1 + (b - a) = j + 1
      BY <1>1, <2>4
    <3>2. next[i] = list[j] /\ next[i + 1] = list[j + 1]
      BY <1>1, <1>3, <2>4, <3>1
    <3> QED BY <1>1, <3>1, <3>2
  <2> QED BY <2>1, <2>2, <2>3, <2>4
<1>7. next[m].end = AspectFrames /\ next[m].start <= AspectFrames
  <2>1. list[n].end = AspectFrames /\ list[n].start <= AspectFrames
    BY DEF InTidying, Opened
  <2>2. CASE m = a
    <3>1. b = n
      BY <1>1, <2>2
    <3> QED BY <1>3, <2>1, <2>2, <3>1
  <2>3. CASE m > a
    <3>1. m + (b - a) = n
      BY <1>1
    <3> QED BY <1>1, <1>3, <2>1, <2>3, <3>1
  <2> QED BY <1>1, <2>2, <2>3
<1> HIDE DEF m
<1>8. Tiled(next) /\ next[Len(next)].end = AspectFrames /\ Opened(next) <= AspectFrames
  BY <1>1, <1>4, <1>5, <1>6, <1>7 DEF Tiled, Opened
<1> QED BY <1>8 DEF next

\* A turn of the tidying loop.
LEMMA TidyTiles ==
  ASSUME stage = "tidy", Tiled(list), InTidying, Tidy
  PROVE  Tiled(list') /\ InTidying'
<1> DEFINE n == Len(list)
<1>1. /\ entry \in Nat /\ entry <= n /\ entry > 1 /\ n \in Nat
      /\ list \in Seq(StretchType) /\ \A i \in 1..n : list[i] \in StretchType
      /\ list[n].end = AspectFrames /\ list[n].start <= AspectFrames
      /\ \A i \in 1..(n - 1) : list[i].start <= list[i].end /\ list[i + 1].start = list[i].end + 1
  <2>1. /\ list \in Seq(StretchType)
        /\ \A i \in 1..(n - 1) : list[i].start <= list[i].end /\ list[i + 1].start = list[i].end + 1
    BY DEF Tiled
  <2>2. entry \in Nat /\ entry <= n /\ list[n].end = AspectFrames /\ list[n].start <= AspectFrames
    BY DEF InTidying, Opened
  <2>3. entry > 1
    BY DEF Tidy
  <2>4. n \in Nat /\ \A i \in 1..n : list[i] \in StretchType
    BY <2>1
  <2> QED BY <2>1, <2>2, <2>3, <2>4
<1>2. \A i \in 1..n : list[i].start <= list[i].end /\ list[i].start \in Int /\ list[i].end \in Int /\ list[i].ratio \in RatioType
  <2>1. \A i \in 1..n : i = n \/ i \in 1..(n - 1)
    BY <1>1
  <2> QED BY <1>1, <2>1 DEF StretchType
<1>3. CASE ~Joinable(entry)
  <2>1. list' = list /\ entry' = entry - 1
    BY <1>3 DEF Tidy
  <2> QED BY <1>1, <2>1 DEF InTidying, Opened
<1>4. CASE Joinable(entry)
  <2>1. Join(entry) /\ entry' = Len(list')
    BY <1>4 DEF Tidy
  <2>2. ASSUME NEW a \in {entry - 1, entry - 2}, a >= 1, NEW r \in RatioType, list' = Merged(a, entry, r)
        PROVE  Tiled(list') /\ InTidying'
    <3>1. a \in 1..n /\ entry \in 1..n /\ a < entry
      BY <1>1, <2>2
    <3>2. list[a].start <= list[entry].end
      <4>1. CASE a = entry - 1
        <5>1. a \in 1..(n - 1) /\ a + 1 = entry
          BY <1>1, <2>2, <4>1
        <5> QED BY <1>1, <1>2, <3>1, <5>1
      <4>2. CASE a = entry - 2
        <5> DEFINE b == a + 1
        <5>1. a \in 1..(n - 1) /\ b \in 1..(n - 1) /\ b + 1 = entry /\ b \in 1..n
          BY <1>1, <2>2, <4>2
        <5>2. list[a].start <= list[a].end /\ list[b].start = list[a].end + 1 /\ list[b].start <= list[b].end
              /\ list[entry].start = list[b].end + 1 /\ list[entry].start <= list[entry].end
          BY <1>1, <1>2, <3>1, <5>1
        <5> HIDE DEF b
        <5> QED BY SMTT(30), <1>2, <3>1, <5>1, <5>2
      <4> QED BY <2>2, <4>1, <4>2
    <3>3. Tiled(list') /\ list'[Len(list')].end = AspectFrames /\ Opened(list') <= AspectFrames
      BY <2>2, <3>1, <3>2, MergedTiles
    <3> QED BY <2>1, <3>3 DEF InTidying, Tiled, Opened
  <2>3. CASE TooShort(entry)
    <3>1. list' = [list EXCEPT ![entry].ratio = 0]
      BY <2>1, <2>3 DEF Join, Undefined
    <3>2. [list[entry] EXCEPT !.ratio = 0] \in StretchType
      <4>1. list[entry] \in StretchType
        BY <1>1
      <4> QED BY <4>1 DEF StretchType, RatioType, Undefined
    <3>3. list' = [list EXCEPT ![entry] = [list[entry] EXCEPT !.ratio = 0]]
      BY <1>1, <3>1
    <3>4. /\ list' \in Seq(StretchType) /\ Len(list') = n
          /\ \A i \in 1..n : list'[i].start = list[i].start /\ list'[i].end = list[i].end
      BY SMTT(30), <1>1, <3>2, <3>3 DEF StretchType
    <3>5. \A i \in 1..(n - 1) : i \in 1..n /\ i + 1 \in 1..n
      BY <1>1
    <3>6. 1 \in 1..n /\ n \in 1..n
      BY <1>1
    <3>7. Tiled(list')
      BY <1>1, <3>4, <3>5, <3>6 DEF Tiled
    <3> QED BY <1>1, <2>1, <3>4, <3>6, <3>7 DEF InTidying, Opened
  <2>4. CASE ~TooShort(entry) /\ LogoThrough(entry)
    <3>1. list' = Merged(entry - 1, entry, Longer(entry))
      BY <2>1, <2>4 DEF Join
    <3>2. Longer(entry) \in RatioType
      <4>1. entry \in 1..n /\ entry - 1 \in 1..n
        BY <1>1
      <4> QED BY <1>2, <4>1 DEF Longer
    <3> QED BY <1>1, <2>2, <3>1, <3>2
  <2>5. CASE ~TooShort(entry) /\ ~LogoThrough(entry)
    <3>1. list[entry].ratio \in RatioType
      <4>1. entry \in 1..n
        BY <1>1
      <4> QED BY <1>2, <4>1
    <3>2. CASE Headless(entry) \/ Alike(entry)
      <4>1. list' = Merged(entry - 1, entry, list[entry].ratio)
        BY <2>1, <2>5, <3>2 DEF Join
      <4> QED BY <1>1, <2>2, <3>1, <4>1
    <3>3. CASE ~(Headless(entry) \/ Alike(entry))
      <4>1. list' = Merged(entry - 2, entry, list[entry].ratio)
        BY <2>1, <2>5, <3>3 DEF Join
      <4>2. entry > 2
        BY <1>4, <2>5, <3>3 DEF Joinable, Interrupted
      <4> QED BY <1>1, <2>2, <3>1, <4>1, <4>2
    <3> QED BY <3>2, <3>3
  <2> QED BY <2>3, <2>4, <2>5
<1> QED BY <1>3, <1>4

LEMMA AspectStarts == AspectInit => AspectInv
<1> SUFFICES ASSUME AspectInit PROVE AspectInv
  OBVIOUS
<1>1. PICK r \in Ratios \cup {Undefined} :
        /\ ratio = r /\ aspectTrend = [ratio |-> r, count |-> 0, start |-> 1] /\ list = <<Stretch(1, r)>>
  BY DEF AspectInit
<1>2. stage = "frames" /\ frameRead = 1 /\ misses = 0
  BY DEF AspectInit
<1>3. r \in RatioType
  BY DEF RatioType
<1>4. Stretch(1, r) \in StretchType /\ Stretch(1, r).start = 1
  BY <1>3 DEF Stretch, StretchType
<1>5. list \in Seq(StretchType) /\ Len(list) = 1 /\ list[1] = Stretch(1, r)
  BY <1>1, <1>4
<1>6. Tiled(list) /\ Opened(list) = 1
  BY <1>4, <1>5 DEF Tiled, Opened
<1>7. InFrames
  BY <1>1, <1>2, <1>3, <1>6, AspectAssumption DEF InFrames, TrendType
<1> QED BY <1>2, <1>6, <1>7 DEF AspectInv

\* After the last frame the open stretch is closed with it.
LEMMA ClosedTiles ==
  ASSUME Tiled(list), InFrames, Close
  PROVE  Tiled(list') /\ InTidying'
<1> DEFINE n == Len(list)
           l == [list EXCEPT ![n].end = AspectFrames]
<1>1. Opened(list) <= AspectFrames /\ AspectFrames \in Nat
  BY AspectAssumption DEF InFrames, Close
<1>2. n \in 1..n /\ n \in Nat /\ list \in Seq(StretchType) /\ \A i \in 1..n : list[i] \in StretchType
  BY DEF Tiled
<1>3. /\ l \in Seq(StretchType) /\ Len(l) = n
      /\ \A i \in 1..n : l[i].start = list[i].start /\ (i # n => l[i].end = list[i].end)
      /\ l[n].end = AspectFrames
  BY <1>1, <1>2, EndedIs
<1>4. PICK snap \in Snaps : list' = Snapped(l, snap) /\ entry' = n
  BY DEF Close
<1> HIDE DEF l
<1>5. ASSUME NEW i \in 1..n
      PROVE  LET s == [l[i] EXCEPT !.ratio = IF @ = Undefined THEN Undefined ELSE snap[@]]
             IN s \in StretchType /\ s.start = l[i].start /\ s.end = l[i].end
  <2>1. l[i] \in StretchType /\ snap \in [Ratios -> RatioType]
    BY <1>3 DEF Snaps, RatioType
  <2>2. PICK r : r = IF l[i].ratio = Undefined THEN Undefined ELSE snap[l[i].ratio]
    OBVIOUS
  <2>3. r \in RatioType
    BY <2>1, <2>2 DEF StretchType, RatioType
  <2>4. [l[i] EXCEPT !.ratio = r] \in StretchType
    BY <2>1, <2>3 DEF StretchType
  <2>5. [l[i] EXCEPT !.ratio = r].start = l[i].start /\ [l[i] EXCEPT !.ratio = r].end = l[i].end
    BY <2>1 DEF StretchType
  <2> QED BY <2>2, <2>4, <2>5
<1>6. /\ list' \in Seq(StretchType) /\ Len(list') = n
      /\ \A i \in 1..n : list'[i].start = list[i].start /\ (i # n => list'[i].end = list[i].end)
      /\ list'[n].end = AspectFrames
  <2>1. DOMAIN l = 1..n
    BY <1>3
  <2>2. list' = [i \in 1..n |-> [l[i] EXCEPT !.ratio = IF @ = Undefined THEN Undefined ELSE snap[@]]]
    BY <1>4, <2>1 DEF Snapped
  <2>3. /\ list' \in [1..n -> StretchType]
        /\ \A i \in 1..n : list'[i].start = l[i].start /\ list'[i].end = l[i].end
    BY <1>5, <2>2
  <2>4. list' \in Seq(StretchType) /\ Len(list') = n
    <3> HIDE DEF n
    <3> QED BY <1>2, <2>3
  <2> QED BY <1>2, <1>3, <2>3, <2>4
<1>7. \A i \in 1..(n - 1) : i \in 1..n /\ i + 1 \in 1..n /\ i # n
  BY <1>2
<1>8. Tiled(list')
  <2>1. /\ n >= 1 /\ list[1].start = 1
        /\ \A i \in 1..(n - 1) : list[i].start <= list[i].end /\ list[i + 1].start = list[i].end + 1
    BY DEF Tiled
  <2>2. list'[1].start = 1
    BY <1>2, <1>6, <2>1
  <2>3. ASSUME NEW i \in 1..(n - 1)
        PROVE  list'[i].start <= list'[i].end /\ list'[i + 1].start = list'[i].end + 1
    BY <1>6, <1>7, <2>1, <2>3
  <2> QED BY <1>6, <2>1, <2>2, <2>3 DEF Tiled
<1> QED BY <1>1, <1>2, <1>4, <1>6, <1>8 DEF InTidying, Opened

LEMMA AspectSteps ==
  ASSUME AspectInv, [AspectNext]_aspectVars
  PROVE  AspectInv'
<1>1. CASE Frame
  <2>1. stage = "frames" /\ stage' = "frames"
    BY <1>1 DEF Frame
  <2> QED BY <1>1, <2>1, FrameReads DEF AspectInv
<1>2. CASE Close
  <2>1. stage = "frames" /\ stage' = "tidy"
    BY <1>2 DEF Close
  <2> QED BY <1>2, <2>1, ClosedTiles DEF AspectInv
<1>3. CASE Tidy
  <2>1. stage = "tidy" /\ stage' = "tidy"
    BY <1>3 DEF Tidy
  <2> QED BY <1>3, <2>1, TidyTiles DEF AspectInv
<1>4. CASE TidyDone \/ SlipEnd \/ SlipDone \/ CutAll \/ AspectOver
  <2>1. stage' \notin {"frames", "tidy"}
    BY <1>4 DEF TidyDone, SlipEnd, SlipDone, CutAll, AspectOver, aspectVars
  <2> QED BY <2>1 DEF AspectInv
<1>5. CASE UNCHANGED aspectVars
  BY <1>5 DEF aspectVars, AspectInv, InFrames, InTidying, Tiled, Opened
<1> QED BY <1>1, <1>2, <1>3, <1>4, <1>5 DEF AspectNext

\* ProcessARInfo and the tidying of BuildMasterCommList: whatever ratios are read, for however long,
\* the stretches of the list follow one another from the first frame without gap or overlap.
THEOREM RatiosTile == AspectSpec => []StretchesTile
<1>1. AspectInv => StretchesTile
  <2> SUFFICES ASSUME AspectInv, stage \in {"frames", "tidy"}
               PROVE /\ list[1].start = 1
                     /\ \A i \in 1..(Len(list) - 1) : list[i].start <= list[i].end /\ list[i + 1].start = list[i].end + 1
                     /\ IF stage = "frames" THEN Newest.start <= frameRead
                        ELSE Newest.end = AspectFrames /\ Newest.start <= AspectFrames
    BY DEF StretchesTile
  <2> QED BY DEF AspectInv, Tiled, InFrames, InTidying, Opened, Newest
<1> QED BY <1>1, AspectStarts, AspectSteps, PTL DEF AspectSpec

-----------------------------------------------------------------------------
(* The volumes of the frames. *)

SampleType == [at : Int, unseen : Int, lost : Int]
SoundType == [base : Int, samples : Seq(SampleType), lost : Int, volume : [Frames -> Seq([samples : Seq(SampleType), lost : Int])]]

\* A sample stands for a time near that it was recorded at: what VolumesInPlace says of it.
Near(sample, place, now) ==
  LET since == now - sample.lost
  IN sample.at - place \in -2 * Precision - since..Precision + sample.unseen

\* The samples held end where the sound does, but for what was lost, and what was lost unseen since
\* they came was lost; r, u: what is recorded and what is unseen.
Trails(sample, behind, now, r, u) ==
  /\ r - sample.at = behind + (now - sample.lost)
  /\ u <= sample.unseen + (now - sample.lost)

SamplesInPlace(x, r, u) ==
  \A k \in 1..Len(x.samples) :
    /\ Near(x.samples[k], x.base + k - 1, x.lost)
    /\ Trails(x.samples[k], Len(x.samples) - k + 1, x.lost, r, u)

VolumeOf(entries, f) ==
  /\ Len(entries) <= 1
  /\ \A k \in 1..Len(entries) :
       /\ Len(entries[k].samples) = Interval
       /\ \A i \in 1..Interval : Near(entries[k].samples[i], Shown(f) + i - 1, entries[k].lost)

\* Frames with a volume end before the buffer begins, or after its beginning by less than a frame.
VolumesBehind(x, bound) == \A f \in Frames : x.volume[f] # <<>> => Shown(f) + Interval <= bound

Slack(x) == IF x.samples = <<>> THEN 0 ELSE Precision

\* What is heard, when r is recorded, l is lost, u of it unseen, and the clock is c.
SoundInv(x, l, r, u, c) ==
  /\ x \in SoundType /\ x.lost = l
  /\ SamplesInPlace(x, r, u)
  /\ \A f \in Frames : VolumeOf(x.volume[f], f)
  /\ VolumesBehind(x, x.base + Slack(x))
  /\ Top(x) <= r + Precision /\ Top(x) - c \in -Precision..Precision

LEMMA Numbers ==
  /\ Interval \in Nat /\ Precision \in Nat /\ Interval > Precision /\ Interval # 0
  /\ Ticks \div Interval \in Nat /\ \A f \in Frames : f \in Nat /\ Shown(f) \in Int
  /\ MinHeld \in Nat /\ Capacity \in Nat
<1>1. Interval \in Nat /\ Precision \in Nat /\ Interval > Precision /\ Ticks \in Nat /\ MinHeld \in Nat /\ Capacity \in Nat
  BY VolumesAssumption
<1>2. Interval # 0 /\ Ticks \div Interval \in Nat
  BY <1>1
<1>3. \A f \in Int : (f - 1) * Interval \in Int
  BY <1>1
<1>4. \A f \in Frames : f \in Nat /\ f \in Int
  BY <1>2 DEF Frames
<1> QED BY <1>1, <1>2, <1>3, <1>4 DEF Shown

\* The sound of frame f is taken out; when the frame ends in it, none of it is missing.
LEMMA TakenKeeps ==
  ASSUME NEW x, NEW l \in Int, NEW r \in Int, NEW u \in Int, NEW c \in Int, SoundInv(x, l, r, u, c), NEW f \in Frames,
         Shown(f) + Interval <= Top(x)
  PROVE  SoundInv(Taken(x, f), l, r, u, c)
<1> DEFINE first == Shown(f) - x.base
           n == Len(x.samples)
           after == first + Interval
           rest == SubSeq(x.samples, after + 1, n)
           part == SubSeq(x.samples, first + 1, after)
           e == [samples |-> part, lost |-> x.lost]
           volumes == Volumes(x, f, part)
           y == [base |-> x.base + first + Interval, samples |-> rest, lost |-> x.lost, volume |-> volumes]
<1>0. first \in Int /\ n \in Nat /\ Interval \in Nat /\ first + Interval <= n
  <2>1. x.base \in Int /\ n \in Nat
    BY DEF SoundInv, SoundType
  <2> HIDE DEF n
  <2>2. Shown(f) + Interval <= x.base + n
    BY DEF Top, n
  <2> QED BY <2>1, <2>2, Numbers
<1>1. CASE first < 0
  <2>1. Taken(x, f) = x
    BY <1>1 DEF Taken
  <2> QED BY <2>1
<1>2. CASE ~(first < 0)
  <2>1. Taken(x, f) = y
    <3>1. ~(first < 0 \/ first > n \/ Interval > n) /\ ~(first + Interval > n)
      <4> HIDE DEF first, n
      <4> QED BY <1>0, <1>2
    <3> QED BY <3>1, Zenon DEF Taken
  <2>2. /\ x \in SoundType /\ x.lost = l /\ SamplesInPlace(x, r, u) /\ VolumesBehind(x, x.base + Slack(x))
        /\ \A g \in Frames : VolumeOf(x.volume[g], g)
        /\ Top(x) <= r + Precision /\ Top(x) - c \in -Precision..Precision
    BY DEF SoundInv
  <2>3. /\ x.base \in Int /\ x.samples \in Seq(SampleType) /\ x.lost \in Int
        /\ x.volume \in [Frames -> Seq([samples : Seq(SampleType), lost : Int])]
        /\ n \in Nat /\ Shown(f) \in Int /\ Interval \in Nat /\ Interval # 0 /\ Precision \in Nat /\ Interval > Precision
    <3>1. /\ x.base \in Int /\ x.samples \in Seq(SampleType) /\ x.lost \in Int
          /\ x.volume \in [Frames -> Seq([samples : Seq(SampleType), lost : Int])]
      BY <2>2 DEF SoundType
    <3>2. n \in Nat
      BY <3>1
    <3> HIDE DEF n
    <3> QED BY <3>1, <3>2, Numbers
  <2>4. first \in Int /\ first >= 0 /\ after \in Int /\ after <= n /\ after = first + Interval /\ x.base + after = Shown(f) + Interval
    <3>1. after = first + Interval /\ x.base + after = Shown(f) + Interval
      BY <2>3
    <3> HIDE DEF first, n
    <3> QED BY <1>0, <1>2, <3>1
  <2> HIDE DEF first, n, after
  <2>5. /\ rest \in Seq(SampleType) /\ Len(rest) = n - after
        /\ \A k \in 1..(n - after) : rest[k] = x.samples[after + k] /\ after + k \in 1..n
    <3>1. \A i \in (after + 1)..n : x.samples[i] \in SampleType
      BY <2>3, <2>4 DEF n
    <3>2. /\ rest \in Seq(SampleType) /\ Len(rest) = IF after + 1 <= n THEN n - (after + 1) + 1 ELSE 0
          /\ \A i \in 1..(n - (after + 1) + 1) : rest[i] = x.samples[(after + 1) + i - 1]
      BY <2>3, <2>4, <3>1, SubSeqProperties
    <3> HIDE DEF rest
    <3>3. n - (after + 1) + 1 = n - after /\ \A k \in 1..(n - after) : (after + 1) + k - 1 = after + k /\ after + k \in 1..n
      BY <2>3, <2>4
    <3>4. Len(rest) = n - after
      <4>1. CASE after + 1 <= n
        BY <3>2, <3>3, <4>1
      <4>2. CASE ~(after + 1 <= n)
        BY <2>3, <2>4, <3>2, <4>2
      <4> QED BY <4>1, <4>2
    <3>5. ASSUME NEW k \in 1..(n - after) PROVE rest[k] = x.samples[after + k] /\ after + k \in 1..n
      BY <3>2, <3>3
    <3> QED BY <3>2, <3>4, <3>5
  <2>6. /\ part \in Seq(SampleType) /\ Len(part) = Interval
        /\ \A k \in 1..Interval : part[k] = x.samples[first + k] /\ first + k \in 1..n
    <3>1. \A i \in (first + 1)..after : x.samples[i] \in SampleType
      BY SMTT(30), <2>3, <2>4 DEF n
    <3>2. /\ part \in Seq(SampleType) /\ Len(part) = IF first + 1 <= after THEN after - (first + 1) + 1 ELSE 0
          /\ \A i \in 1..(after - (first + 1) + 1) : part[i] = x.samples[(first + 1) + i - 1]
      BY <2>3, <2>4, <3>1, SubSeqProperties
    <3> HIDE DEF part
    <3>3. /\ after - (first + 1) + 1 = Interval
          /\ \A k \in 1..Interval : (first + 1) + k - 1 = first + k /\ first + k \in 1..n
      <4>1. after - (first + 1) + 1 = Interval
        BY <2>3, <2>4
      <4>2. ASSUME NEW k \in 1..Interval PROVE (first + 1) + k - 1 = first + k /\ first + k \in 1..n
        <5>1. k \in Int /\ k >= 1 /\ k <= Interval
          BY <2>3
        <5> QED BY <2>3, <2>4, <5>1
      <4> QED BY <4>1, <4>2
    <3>4. first + 1 <= after
      BY <2>3, <2>4
    <3>5. Len(part) = Interval
      BY <3>2, <3>3, <3>4
    <3>6. ASSUME NEW k \in 1..Interval PROVE part[k] = x.samples[first + k] /\ first + k \in 1..n
      BY <3>2, <3>3
    <3> QED BY <3>2, <3>5, <3>6
  <2> HIDE DEF rest, part
  <2>7. x.volume[f] = <<>>
    <3>1. Slack(x) \in Int /\ Slack(x) <= Precision
      BY <2>3 DEF Slack
    <3>2. Shown(f) >= x.base
      BY <2>3, <2>4
    <3>3. ~(Shown(f) + Interval <= x.base + Slack(x))
      BY <2>3, <3>1, <3>2
    <3> QED BY <2>2, <3>3 DEF VolumesBehind
  <2>8. e \in [samples : Seq(SampleType), lost : Int] /\ e.samples = part /\ e.lost = x.lost
    BY <2>3, <2>6
  <2> HIDE DEF e
  <2>9. /\ volumes \in [Frames -> Seq([samples : Seq(SampleType), lost : Int])]
        /\ \A g \in Frames : g # f => volumes[g] = x.volume[g]
        /\ volumes[f] = <<e>>
    <3>1. Append(x.volume[f], e) = <<e>>
      BY <2>7
    <3>2. <<e>> \in Seq([samples : Seq(SampleType), lost : Int])
      BY <2>8
    <3>3. volumes = [x.volume EXCEPT ![f] = <<e>>]
      BY <3>1 DEF Volumes, e
    <3> QED BY <2>3, <3>2, <3>3
  <2> HIDE DEF volumes
  <2>10. y.base = Shown(f) + Interval /\ y.base = x.base + after /\ y.samples = rest /\ y.lost = x.lost /\ y.volume = volumes
    BY <2>3, <2>4
  <2>11. y \in SoundType
    <3>1. x.base + first + Interval \in Int
      BY <2>3, <2>4
    <3> QED BY <2>3, <2>5, <2>9, <3>1 DEF SoundType
  <2> HIDE DEF y
  <2>12. ASSUME NEW k \in 1..n
         PROVE  /\ Near(x.samples[k], x.base + k - 1, x.lost)
                /\ Trails(x.samples[k], n - k + 1, x.lost, r, u)
    BY <2>2 DEF SamplesInPlace, n
  <2>13. SamplesInPlace(y, r, u)
    <3> SUFFICES ASSUME NEW k \in 1..(n - after)
                 PROVE  /\ Near(rest[k], y.base + k - 1, x.lost)
                        /\ Trails(rest[k], (n - after) - k + 1, x.lost, r, u)
      BY <2>5, <2>10 DEF SamplesInPlace
    <3>1. after + k \in 1..n /\ rest[k] = x.samples[after + k]
      BY <2>5
    <3>2. y.base + k - 1 = x.base + (after + k) - 1 /\ (n - after) - k + 1 = n - (after + k) + 1
      <4>1. y.base = x.base + after /\ x.base \in Int /\ after \in Int /\ n \in Int /\ k \in Int
        BY <2>3, <2>4, <2>10
      <4> HIDE DEF after, n
      <4> QED BY <4>1
    <3> QED BY <2>12, <3>1, <3>2
  <2>14. ASSUME NEW g \in Frames PROVE VolumeOf(y.volume[g], g)
    <3>1. CASE g # f
      BY <2>2, <2>9, <2>10, <3>1
    <3>2. CASE g = f
      <4>1. Len(<<e>>) = 1 /\ <<e>>[1] = e /\ 1..1 = {1} /\ 1 <= 1
        OBVIOUS
      <4>2. ASSUME NEW i \in 1..Interval PROVE Near(part[i], Shown(f) + i - 1, x.lost)
        <5>1. first + i \in 1..n /\ part[i] = x.samples[first + i]
          BY <2>6
        <5>2. x.base + (first + i) - 1 = Shown(f) + i - 1
          BY SMTT(30), <2>3 DEF first
        <5> QED BY <2>12, <5>1, <5>2
      <4>3. VolumeOf(<<e>>, f)
        BY <2>6, <2>8, <4>1, <4>2 DEF VolumeOf
      <4> QED BY <2>9, <2>10, <3>2, <4>3
    <3> QED BY <3>1, <3>2
  <2>15. VolumesBehind(y, y.base + Slack(y))
    <3> SUFFICES ASSUME NEW g \in Frames, y.volume[g] # <<>>
                 PROVE  Shown(g) + Interval <= y.base + Slack(y)
      BY DEF VolumesBehind
    <3>1. Slack(y) \in Nat
      BY <2>3 DEF Slack
    <3>2. CASE g = f
      BY <2>3, <2>10, <3>1, <3>2
    <3>3. CASE g # f
      <4>1. Shown(g) + Interval <= x.base + Slack(x)
        BY <2>2, <2>9, <2>10, <3>3 DEF VolumesBehind
      <4>2. Slack(x) \in Int /\ Slack(x) <= Precision
        BY <2>3 DEF Slack
      <4>3. Shown(g) \in Int /\ Shown(f) >= x.base
        BY <2>3, <2>4, Numbers
      <4> QED BY <2>3, <2>10, <3>1, <4>1, <4>2, <4>3
    <3> QED BY <3>2, <3>3
  <2>16. Top(y) = Top(x)
    BY SMTT(30), <2>3, <2>4, <2>5, <2>10 DEF Top, n
  <2>17. SoundInv(y, l, r, u, c)
    BY <2>2, <2>10, <2>11, <2>13, <2>14, <2>15, <2>16 DEF SoundInv
  <2> QED BY <2>1, <2>17
<1> QED BY <1>1, <1>2

\* The loop over the frames, whichever it begins with.
TurnsOf(turn, s, m, n) == turn = [f \in 1..n |-> IF f <= m THEN [sound |-> s, goes |-> TRUE] ELSE Turn(turn[f - 1], f)]

LEMMA TurnsExist ==
  ASSUME NEW s, NEW m \in Nat, m >= 1, NEW N \in Nat
  PROVE  \E turn : TurnsOf(turn, s, m, N)
<1> DEFINE missing == {k \in Nat : ~\E g : TurnsOf(g, s, m, k)}
<1> SUFFICES ASSUME missing # {} PROVE FALSE
  OBVIOUS
<1>1. PICK k \in missing : \A n \in missing : k <= n
  <2>1. missing \in SUBSET Nat
    OBVIOUS
  <2> HIDE DEF missing
  <2> QED BY <2>1, LeastNatural
<1>2. CASE k = 0
  <2> DEFINE g == [n \in 1..0 |-> s]
  <2>1. 1..0 = {}
    OBVIOUS
  <2>2. g = [n \in 1..0 |-> IF n <= m THEN [sound |-> s, goes |-> TRUE] ELSE Turn(g[n - 1], n)]
    BY <2>1
  <2>3. TurnsOf(g, s, m, 0)
    BY <2>2 DEF TurnsOf
  <2> QED BY <1>1, <1>2, <2>3
<1>3. CASE k # 0
  <2>1. k - 1 \in Nat /\ k - 1 \notin missing
    <3>1. k \in Nat
      BY <1>1
    <3>2. k - 1 \in Nat /\ ~(k <= k - 1)
      BY <1>3, <3>1
    <3> HIDE DEF missing
    <3> QED BY <1>1, <3>2
  <2>2. PICK g : TurnsOf(g, s, m, k - 1)
    BY <2>1
  <2> DEFINE h == [n \in 1..k |-> IF n <= m THEN [sound |-> s, goes |-> TRUE] ELSE Turn(g[n - 1], n)]
  <2>3. \A n \in 1..(k - 1) : h[n] = g[n]
    <3>1. k \in Nat /\ \A n \in 1..(k - 1) : n \in 1..k
      BY <1>1
    <3>2. \A n \in 1..(k - 1) : g[n] = IF n <= m THEN [sound |-> s, goes |-> TRUE] ELSE Turn(g[n - 1], n)
      BY <2>2 DEF TurnsOf
    <3> QED BY <3>1, <3>2
  <2>4. \A n \in 1..k : n <= m \/ h[n - 1] = g[n - 1]
    <3>1. k \in Nat
      BY <1>1
    <3>2. \A n \in 1..k : n <= m \/ n - 1 \in 1..(k - 1)
      BY <3>1
    <3> HIDE DEF h
    <3> QED BY <2>3, <3>2
  <2>5. h = [n \in 1..k |-> IF n <= m THEN [sound |-> s, goes |-> TRUE] ELSE Turn(h[n - 1], n)]
    BY <2>4
  <2>6. TurnsOf(h, s, m, k)
    BY <2>5 DEF TurnsOf
  <2> QED BY <1>1, <2>6
<1> QED BY <1>2, <1>3

\* The loop begins with a frame.
LEMMA FirstFrameIs ==
  ASSUME NEW x, read \in Nat, read >= 3
  PROVE  FirstFrame(x) \in 1..(read - 2)
<1> DEFINE from == {f \in 1..(read - 2) : f = 1 \/ Shown(f) <= x.base}
           behind == {(read - 2) - f : f \in from}
<1>1. 1 \in from /\ from \subseteq 1..(read - 2)
  OBVIOUS
<1> HIDE DEF from
<1>2. behind \in SUBSET Nat /\ behind # {}
  <2>1. \A g \in from : (read - 2) - g \in Nat
    BY <1>1
  <2>2. (read - 2) - 1 \in behind
    BY <1>1
  <2> QED BY <2>1, <2>2
<1>3. PICK d \in behind : \A o \in behind : d <= o
  <2> HIDE DEF behind
  <2> QED BY <1>2, LeastNatural
<1>4. PICK m \in from : d = (read - 2) - m
  BY <1>3
<1>5. \A g \in from : g <= m
  <2> SUFFICES ASSUME NEW g \in from PROVE g <= m
    OBVIOUS
  <2>1. (read - 2) - g \in behind
    OBVIOUS
  <2>2. d <= (read - 2) - g
    BY <1>3, <2>1
  <2> QED BY <1>1, <1>4, <2>2
<1>6. (CHOOSE f \in from : \A g \in from : g <= f) \in from
  BY <1>4, <1>5
<1>7. FirstFrame(x) = CHOOSE f \in from : \A g \in from : g <= f
  BY DEF FirstFrame, from
<1> QED BY <1>1, <1>6, <1>7

\* What the loop leaves.
LEMMA BackfilledKeeps ==
  ASSUME NEW x, NEW l \in Int, NEW r \in Int, NEW u \in Int, NEW c \in Int, SoundInv(x, l, r, u, c),
         read \in Nat, read <= Ticks \div Interval
  PROVE  SoundInv(Backfilled(x), l, r, u, c)
<1>1. CASE read < 3
  BY <1>1 DEF Backfilled
<1>2. CASE ~(read < 3)
  <2>1. PICK m : m = FirstFrame(x)
    OBVIOUS
  <2>2. m \in Nat /\ m >= 1 /\ m <= read
    BY <1>2, <2>1, FirstFrameIs
  <2> DEFINE turn[f \in 1..read] == IF f <= m THEN [sound |-> x, goes |-> TRUE] ELSE Turn(turn[f - 1], f)
  <2>3. Backfilled(x) = turn[read].sound
    BY <1>2, <2>1 DEF Backfilled
  <2>4. turn = [f \in 1..read |-> IF f <= m THEN [sound |-> x, goes |-> TRUE] ELSE Turn(turn[f - 1], f)]
    <3>1. PICK h : TurnsOf(h, x, m, read)
      BY <2>2, TurnsExist
    <3>2. \E g : g = [f \in 1..read |-> IF f <= m THEN [sound |-> x, goes |-> TRUE] ELSE Turn(g[f - 1], f)]
      BY <3>1 DEF TurnsOf
    <3> QED BY <3>2
  <2> HIDE DEF turn
  <2>5. \A f \in 1..read : turn[f] = IF f <= m THEN [sound |-> x, goes |-> TRUE] ELSE Turn(turn[f - 1], f)
    BY <2>4
  <2> DEFINE wrong == {f \in 1..read : ~SoundInv(turn[f].sound, l, r, u, c)}
  <2>6. wrong = {}
    <3> SUFFICES ASSUME wrong # {} PROVE FALSE
      OBVIOUS
    <3>1. PICK f \in wrong : \A g \in wrong : f <= g
      <4>1. wrong \in SUBSET Nat
        OBVIOUS
      <4> HIDE DEF wrong
      <4> QED BY <4>1, LeastNatural
    <3>2. f \in 1..read /\ ~SoundInv(turn[f].sound, l, r, u, c)
      BY <3>1
    <3>3. ~(f <= m)
      <4> SUFFICES ASSUME f <= m PROVE FALSE
        OBVIOUS
      <4>1. turn[f].sound = x
        BY <2>5, <3>2
      <4> QED BY <3>2, <4>1
    <3>4. f - 1 \in 1..read /\ ~(f <= f - 1) /\ f \in Nat
      BY <2>2, <3>2, <3>3
    <3>5. PICK t : t = turn[f - 1]
      OBVIOUS
    <3>6. SoundInv(t.sound, l, r, u, c)
      BY <3>1, <3>4, <3>5
    <3>7. turn[f] = Turn(t, f)
      BY <2>5, <3>2, <3>3, <3>5
    <3>8. Turn(t, f).sound = t.sound \/ (f - 1 < read - 1 /\ Shown(f) <= Top(t.sound) /\ Turn(t, f).sound = Taken(t.sound, f - 1))
      BY DEF Turn
    <3>9. CASE Turn(t, f).sound = t.sound
      BY <3>2, <3>6, <3>7, <3>9
    <3>10. CASE f - 1 < read - 1 /\ Shown(f) <= Top(t.sound) /\ Turn(t, f).sound = Taken(t.sound, f - 1)
      <4>1. f - 1 \in Frames
        BY <3>4, <3>10, Numbers DEF Frames
      <4>3. Shown(f - 1) + Interval = Shown(f)
        BY <3>4, Numbers DEF Shown
      <4>2. SoundInv(Taken(t.sound, f - 1), l, r, u, c)
        BY <3>6, <3>10, <4>1, <4>3, TakenKeeps
      <4> QED BY <3>2, <3>7, <3>10, <4>2
    <3> QED BY <3>8, <3>9, <3>10
  <2>7. read \in 1..read
    BY <1>2
  <2> QED BY <2>3, <2>6, <2>7
<1> QED BY <1>1, <1>2
Sound == [base |-> base, samples |-> buffer, lost |-> lost, volume |-> volume]

\* The clock is behind what is recorded by no more than what was lost unseen.  While the buffer is
\* empty, frames with a volume end before what is recorded and before the clock, or little after.
VolumesInv ==
  /\ read \in Nat /\ read <= Ticks \div Interval
  /\ clock \in Int /\ recorded \in Int /\ lost \in Int /\ unseen \in Nat
  /\ clock - recorded \in -unseen..Precision
  /\ Sound \in SoundType
  /\ \A f \in Frames : VolumeOf(volume[f], f)
  /\ buffer # <<>> => SoundInv(Sound, lost, recorded, unseen, clock)
  /\ buffer = <<>> => VolumesBehind(Sound, recorded + Precision) /\ VolumesBehind(Sound, clock + Precision)

LEMMA VolumesStart == VolumesInit => VolumesInv
<1> SUFFICES ASSUME VolumesInit PROVE VolumesInv
  OBVIOUS
<1>1. /\ read = 0 /\ clock = 0 /\ started = FALSE /\ base = 0 /\ buffer = <<>> /\ recorded = 0 /\ lost = 0
      /\ unseen = 0 /\ volume = [f \in Frames |-> <<>>]
  BY DEF VolumesInit
<1>2. Sound \in SoundType
  BY <1>1 DEF Sound, SoundType
<1>3. \A f \in Frames : volume[f] = <<>>
  BY <1>1
<1>4. Len(<<>>) = 0 /\ 1..0 = {}
  OBVIOUS
<1>5. \A f : VolumeOf(<<>>, f)
  BY <1>4 DEF VolumeOf
<1>6. VolumesBehind(Sound, recorded + Precision) /\ VolumesBehind(Sound, clock + Precision)
  BY <1>3 DEF VolumesBehind, Sound
<1> QED BY <1>1, <1>2, <1>3, <1>5, <1>6, Numbers DEF VolumesInv

\* The time a packet is put at: it is off by no more than the precision one way, and what is lost
\* unseen the other; and it is not before the sound, unless the clock was.
LEMMA NowIs ==
  ASSUME VolumesInv, NEW n \in Lengths, NEW roundings \in SUBSET Roundings, NEW gap \in Nat,
         AudioPacket(n, roundings, gap)
  PROVE  LET begins == recorded + gap
             now == Clock({begins + r : r \in roundings})
         IN /\ now \in Int /\ unseen' \in {0, unseen + gap}
            /\ now - begins \in -unseen'..Precision
            /\ now >= recorded \/ now = clock
<1> DEFINE begins == recorded + gap
           stamps == {begins + r : r \in roundings}
           told == {stamp \in stamps : ~Ignored(stamp)}
           now == Clock(stamps)
<1>1. unseen' = IF \E r \in roundings : ~Ignored(begins + r) THEN 0 ELSE unseen + gap
  BY DEF AudioPacket
<1>2. /\ clock \in Int /\ recorded \in Int /\ unseen \in Nat /\ begins \in Int /\ begins >= recorded
      /\ clock - recorded \in -unseen..Precision
  BY DEF VolumesInv
<1>3. Precision \in Nat /\ \A r \in roundings : r \in 0..Precision
  BY VolumesAssumption
<1>4. now = IF told = {} THEN clock ELSE CHOOSE stamp \in told : TRUE
  BY DEF Clock
<1> HIDE DEF now
<1>5. CASE told = {}
  <2>1. \A r \in roundings : Ignored(begins + r)
    BY <1>5
  <2>3. unseen' = unseen + gap /\ now = clock
    BY <1>1, <1>4, <1>5, <2>1
  <2> HIDE DEF begins
  <2>4. clock - begins \in -(unseen + gap)..Precision
    BY <1>2, <1>3 DEF begins
  <2> QED BY <1>2, <2>3, <2>4 DEF now, begins
<1>6. CASE told # {}
  <2>1. now \in told
    BY <1>4, <1>6
  <2>2. PICK r \in roundings : now = begins + r /\ ~Ignored(begins + r)
    BY <2>1
  <2>3. unseen' = 0
    BY <1>1, <2>2
  <2> HIDE DEF begins
  <2>4. now \in Int /\ now - begins \in 0..Precision /\ now >= recorded
    BY <1>2, <1>3, <2>2
  <2> QED BY <1>2, <1>3, <2>3, <2>4 DEF now, begins
<1> QED BY <1>5, <1>6

\* Where the buffer is put: it ends near the packet, and never moves back over a frame.
LEMMA AnchoredIs ==
  ASSUME VolumesInv, NEW now \in Int, now >= recorded \/ now = clock,
         NEW begins \in Int, begins >= recorded, now - begins <= Precision
  PROVE  /\ Anchored(now) \in Int
         /\ (Anchored(now) + Len(buffer)) - now \in -Precision..Precision
         /\ Anchored(now) + Len(buffer) <= begins + Precision
         /\ IF buffer = <<>> THEN Anchored(now) = now
            ELSE Anchored(now) = base \/ (Anchored(now) = now - Len(buffer) /\ Anchored(now) >= base)
<1> DEFINE m == Len(buffer)
<1>1. /\ clock \in Int /\ recorded \in Int /\ base \in Int /\ buffer \in Seq(SampleType) /\ m \in Nat /\ Precision \in Nat
  BY Numbers DEF VolumesInv, Sound, SoundType
<1>2. CASE buffer = <<>>
  <2>1. Anchored(now) = now - m /\ m = 0
    BY <1>2 DEF Anchored
  <2> QED BY <1>1, <1>2, <2>1
<1>3. CASE buffer # <<>>
  <2>1. base + m <= recorded + Precision /\ (base + m) - clock \in -Precision..Precision
    BY <1>3 DEF VolumesInv, SoundInv, Sound, Top
  <2> HIDE DEF m
  <2>2. CASE Apart(base + m, now) > Precision
    <3>1. Anchored(now) = now - m
      BY <2>2 DEF Anchored, m
    <3>2. now >= base + m
      <4>1. ~(now < (base + m) - Precision)
        BY <1>1, <2>1
      <4> QED BY <1>1, <2>2, <4>1 DEF Apart
    <3> QED BY <1>1, <1>3, <3>1, <3>2 DEF m
  <2>3. CASE ~(Apart(base + m, now) > Precision)
    <3>1. Anchored(now) = base
      BY <1>3, <2>3 DEF Anchored, m
    <3>2. (base + m) - now \in -Precision..Precision
      BY <1>1, <2>3 DEF Apart
    <3> QED BY <1>1, <1>3, <2>1, <3>1, <3>2 DEF m
  <2> QED BY <2>2, <2>3
<1> QED BY <1>2, <1>3
\* What a packet adds, before frames take theirs.
Fresh(n) == [k \in 1..n |-> [at |-> recorded' - n + k - 1, unseen |-> unseen', lost |-> lost']]
Extended(n, now) == [base |-> Anchored(now), samples |-> buffer \o Fresh(n), lost |-> lost', volume |-> volume]

LEMMA FreshIs ==
  ASSUME NEW n \in Nat \ {0}, recorded' \in Int, unseen' \in Int, lost' \in Int, buffer \in Seq(SampleType)
  PROVE  /\ buffer \o Fresh(n) \in Seq(SampleType)
         /\ Len(buffer \o Fresh(n)) = Len(buffer) + n
         /\ \A k \in 1..Len(buffer) : (buffer \o Fresh(n))[k] = buffer[k]
         /\ \A j \in 1..n :
              (buffer \o Fresh(n))[Len(buffer) + j] = [at |-> recorded' - n + j - 1, unseen |-> unseen', lost |-> lost']
<1>1. \A k \in 1..n : [at |-> recorded' - n + k - 1, unseen |-> unseen', lost |-> lost'] \in SampleType
  BY DEF SampleType
<1>2. Fresh(n) \in [1..n -> SampleType]
  BY <1>1 DEF Fresh
<1>3. Fresh(n) \in Seq(SampleType) /\ Len(Fresh(n)) = n
  BY <1>2
<1>4. \A k \in 1..n : Fresh(n)[k] = [at |-> recorded' - n + k - 1, unseen |-> unseen', lost |-> lost']
  BY DEF Fresh
<1> HIDE DEF Fresh
<1>5. Len(buffer) \in Nat
  OBVIOUS
<1>6. buffer \o Fresh(n) \in Seq(SampleType) /\ Len(buffer \o Fresh(n)) = Len(buffer) + n
  BY <1>3
<1>7. \A k \in 1..Len(buffer) : (buffer \o Fresh(n))[k] = buffer[k]
  BY <1>3
<1>8. \A j \in 1..n : (buffer \o Fresh(n))[Len(buffer) + j] = Fresh(n)[j]
  BY <1>3, <1>5
<1> QED BY <1>4, <1>6, <1>7, <1>8

\* A packet of n samples comes, at the time `now`, gap after what was recorded.
Comes(now, gap, n, behind, further, l, more, r, upTo, u, v) ==
  /\ more = l + gap /\ upTo = r + gap + n /\ further = behind + n
  /\ v \in {0, u + gap} /\ now - (r + gap) \in -v..Precision

\* A sample that waits stays near its place, wherever the buffer is put.
LEMMA StaysNear ==
  ASSUME NEW s \in SampleType, NEW old \in Int, NEW place \in Int, NEW behind \in Int, NEW further \in Int,
         NEW l \in Int, NEW more \in Int, NEW r \in Int, NEW upTo \in Int, NEW u \in Nat, NEW v \in Nat, NEW now \in Int,
         NEW gap \in Nat, NEW n \in Nat,
         Near(s, old, l), Trails(s, behind, l, r, u),
         Comes(now, gap, n, behind, further, l, more, r, upTo, u, v), place = old \/ place = now - behind
  PROVE  Near(s, place, more) /\ Trails(s, further, more, upTo, v)
<1>1. s.at \in Int /\ s.unseen \in Int /\ s.lost \in Int /\ Precision \in Nat
  BY Numbers DEF SampleType
<1>2. /\ s.at - old >= -2 * Precision - (l - s.lost) /\ s.at - old <= Precision + s.unseen
      /\ r - s.at = behind + (l - s.lost) /\ u <= s.unseen + (l - s.lost)
  BY <1>1 DEF Near, Trails
<1>3. /\ more = l + gap /\ upTo = r + gap + n /\ further = behind + n
      /\ v \in {0, u + gap} /\ now - (r + gap) \in -v..Precision
  BY DEF Comes
<1>4. upTo - s.at = further + (more - s.lost)
  <2>1. upTo = r + gap + n /\ more = l + gap /\ further = behind + n
    BY <1>3
  <2>2. r - s.at = behind + (l - s.lost)
    BY <1>2
  <2> QED BY <1>1, <2>1, <2>2
<1>5. v <= s.unseen + (more - s.lost)
  <2>1. v <= u + gap /\ more = l + gap
    BY <1>3
  <2> QED BY <1>1, <1>2, <2>1
<1>6. now - (r + gap) >= -v /\ now - (r + gap) <= Precision
  BY <1>1, <1>3
<1>7. s.at - place >= -2 * Precision - (more - s.lost) /\ s.at - place <= Precision + s.unseen
  <2>1. CASE place = old
    BY <1>1, <1>2, <1>3, <2>1
  <2>2. CASE place = now - behind
    <3>1. s.at - place = -(now - (r + gap)) - (more - s.lost)
      BY <1>1, <1>2, <1>3, <2>2
    <3> QED BY <1>1, <1>5, <1>6, <3>1
  <2> QED BY <2>1, <2>2
<1> QED BY <1>1, <1>4, <1>5, <1>7 DEF Near, Trails

\* A sample that comes is near its place.
LEMMA ComesNear ==
  ASSUME NEW m \in Nat, NEW n \in Nat, NEW j \in 1..n, NEW a \in Int, NEW l \in Int, NEW begins \in Int, NEW v \in Nat,
         NEW now \in Int, now - begins \in -v..Precision, (a + m) - now \in -Precision..Precision,
         NEW s, s = [at |-> (begins + n) - n + j - 1, unseen |-> v, lost |-> l]
  PROVE  Near(s, a + (m + j) - 1, l) /\ Trails(s, (m + n) - (m + j) + 1, l, begins + n, v)
<1>1. s.at = begins + j - 1 /\ s.unseen = v /\ s.lost = l /\ Precision \in Nat /\ j \in Int
  BY Numbers
<1>2. s.at - (a + (m + j) - 1) = begins - (a + m) /\ l - s.lost = 0
  BY <1>1
<1>3. begins - (a + m) >= -2 * Precision /\ begins - (a + m) <= Precision + v
  BY <1>1
<1> QED BY <1>1, <1>2, <1>3 DEF Near, Trails

\* The buffer with the packet, before frames take theirs.
LEMMA ExtendedIs ==
  ASSUME VolumesInv, NEW n \in Lengths, NEW gap \in Nat, NEW now \in Int,
         recorded' = recorded + gap + n, lost' = lost + gap, unseen' \in {0, unseen + gap},
         now - (recorded + gap) \in -unseen'..Precision, now >= recorded \/ now = clock
  PROVE  SoundInv(Extended(n, now), lost', recorded', unseen', now + n)
<1> DEFINE m == Len(buffer)
           begins == recorded + gap
           a == Anchored(now)
           x == Extended(n, now)
<1>1. /\ clock \in Int /\ recorded \in Int /\ lost \in Int /\ unseen \in Nat /\ begins \in Int /\ begins >= recorded
      /\ n \in Nat /\ n # 0 /\ unseen' \in Nat /\ recorded' = begins + n /\ recorded' \in Int /\ lost' \in Int
      /\ Precision \in Nat
  <2>1. /\ clock \in Int /\ recorded \in Int /\ lost \in Int /\ unseen \in Nat /\ Precision \in Nat
    BY Numbers DEF VolumesInv
  <2>2. n \in Nat /\ n # 0
    BY VolumesAssumption
  <2> QED BY <2>1, <2>2
<1>2. /\ base \in Int /\ buffer \in Seq(SampleType)
      /\ volume \in [Frames -> Seq([samples : Seq(SampleType), lost : Int])]
  BY DEF VolumesInv, Sound, SoundType
<1>3. m \in Nat
  BY <1>2
<1>4. /\ a \in Int /\ (a + m) - now \in -Precision..Precision /\ a + m <= begins + Precision
      /\ IF buffer = <<>> THEN a = now ELSE a = base \/ (a = now - m /\ a >= base)
  <2>1. now - begins <= Precision
    BY <1>1
  <2> HIDE DEF begins
  <2> QED BY <1>1, <2>1, AnchoredIs
<1>5. /\ x.base = a /\ x.lost = lost' /\ x.volume = volume
      /\ x.samples \in Seq(SampleType) /\ Len(x.samples) = m + n
      /\ \A k \in 1..m : x.samples[k] = buffer[k]
      /\ \A j \in 1..n : x.samples[m + j] = [at |-> recorded' - n + j - 1, unseen |-> unseen', lost |-> lost']
  <2>1. x.samples = buffer \o Fresh(n)
    BY DEF Extended
  <2>2. x.base = a /\ x.lost = lost' /\ x.volume = volume
    BY DEF Extended
  <2>3. n \in Nat \ {0}
    BY <1>1
  <2>4. recorded' \in Int /\ unseen' \in Int /\ lost' \in Int /\ buffer \in Seq(SampleType)
    BY <1>1, <1>2
  <2>5. /\ buffer \o Fresh(n) \in Seq(SampleType)
        /\ Len(buffer \o Fresh(n)) = Len(buffer) + n
        /\ \A k \in 1..Len(buffer) : (buffer \o Fresh(n))[k] = buffer[k]
        /\ \A j \in 1..n :
             (buffer \o Fresh(n))[Len(buffer) + j] = [at |-> recorded' - n + j - 1, unseen |-> unseen', lost |-> lost']
    BY <2>3, <2>4, FreshIs
  <2> HIDE DEF x, a
  <2> QED BY <2>1, <2>2, <2>5
<1>6. x \in SoundType
  BY <1>1, <1>2, <1>4, <1>5 DEF Extended, SoundType
<1> HIDE DEF x, a, m, begins
<1>7. ASSUME NEW k \in 1..(m + n)
      PROVE  /\ Near(x.samples[k], a + k - 1, lost')
             /\ Trails(x.samples[k], (m + n) - k + 1, lost', recorded', unseen')
  <2>1. CASE k \in 1..m
    <3>1. buffer # <<>>
      BY <1>3, <2>1 DEF m
    <3>2. /\ Near(buffer[k], base + k - 1, lost) /\ Trails(buffer[k], m - k + 1, lost, recorded, unseen)
      BY <2>1, <3>1 DEF VolumesInv, SoundInv, SamplesInPlace, Sound, m
    <3>3. buffer[k] \in SampleType
      BY <1>2, <2>1 DEF m
    <3>4. a = base \/ a = now - m
      BY <1>4, <3>1
    <3>5. PICK sample \in SampleType : sample = buffer[k] /\ sample = x.samples[k]
      BY <1>5, <2>1, <3>3
    <3>6. PICK old \in Int, place \in Int, behind \in Int, further \in Int :
            /\ old = base + k - 1 /\ place = a + k - 1 /\ behind = m - k + 1 /\ further = (m + n) - k + 1
      BY <1>1, <1>2, <1>3, <1>4
    <3>7. Near(sample, old, lost) /\ Trails(sample, behind, lost, recorded, unseen)
      BY <3>2, <3>5, <3>6
    <3>8. further = behind + n /\ (place = old \/ place = now - behind)
      BY <1>1, <1>2, <1>3, <1>4, <3>4, <3>6
    <3>9. Near(sample, place, lost') /\ Trails(sample, further, lost', recorded', unseen')
      <4>1. PICK l \in Int, more \in Int, r \in Int, upTo \in Int, u \in Nat, v \in Nat :
              l = lost /\ more = lost' /\ r = recorded /\ upTo = recorded' /\ u = unseen /\ v = unseen'
        BY <1>1
      <4>2. Comes(now, gap, n, behind, further, l, more, r, upTo, u, v) /\ n \in Nat
        BY <1>1, <3>8, <4>1 DEF Comes
      <4>3. Near(sample, old, l) /\ Trails(sample, behind, l, r, u)
        BY <3>7, <4>1
      <4>4. Near(sample, place, more) /\ Trails(sample, further, more, upTo, v)
        BY <3>8, <4>2, <4>3, StaysNear
      <4> QED BY <4>1, <4>4
    <3> QED BY <3>5, <3>6, <3>9
  <2>2. CASE k \notin 1..m
    <3>1. PICK j \in 1..n : k = m + j
      <4>1. k - m \in 1..n /\ k = m + (k - m)
        BY <1>1, <1>3, <2>2
      <4> QED BY <4>1
    <3>2. x.samples[k] = [at |-> (begins + n) - n + j - 1, unseen |-> unseen', lost |-> lost']
      BY <1>1, <1>5, <3>1
    <3>3. now - begins \in -unseen'..Precision
      BY DEF begins
    <3>4. /\ Near(x.samples[k], a + (m + j) - 1, lost')
          /\ Trails(x.samples[k], (m + n) - (m + j) + 1, lost', begins + n, unseen')
      BY <1>1, <1>3, <1>4, <3>2, <3>3, ComesNear
    <3> QED BY <1>1, <3>1, <3>4
  <2> QED BY <2>1, <2>2
<1>8. SamplesInPlace(x, recorded', unseen')
  BY <1>5, <1>7 DEF SamplesInPlace
<1>9. VolumesBehind(x, x.base + Slack(x))
  <2>1. Slack(x) = Precision
    <3>1. x.samples # <<>>
      BY <1>1, <1>3, <1>5
    <3> QED BY <3>1 DEF Slack
  <2> SUFFICES ASSUME NEW f \in Frames, volume[f] # <<>> PROVE Shown(f) + Interval <= a + Precision
    BY <1>5, <2>1 DEF VolumesBehind
  <2>2. Shown(f) + Interval \in Int
    BY Numbers
  <2>3. CASE buffer # <<>>
    <3>1. SoundInv(Sound, lost, recorded, unseen, clock)
      BY <2>3 DEF VolumesInv
    <3>2. Shown(f) + Interval <= base + Precision
      <4>1. VolumesBehind(Sound, Sound.base + Slack(Sound))
        BY <3>1 DEF SoundInv
      <4>2. Sound.base = base /\ Slack(Sound) = Precision /\ Sound.volume = volume
        BY <2>3 DEF Sound, Slack
      <4> QED BY <4>1, <4>2 DEF VolumesBehind
    <3>3. a >= base
      BY <1>2, <1>4, <2>3
    <3> QED BY <1>1, <1>2, <1>4, <2>2, <3>2, <3>3
  <2>4. CASE buffer = <<>>
    <3>1. a = now
      BY <1>4, <2>4
    <3>2. Shown(f) + Interval <= recorded + Precision /\ Shown(f) + Interval <= clock + Precision
      BY <2>4, <3>1 DEF VolumesInv, VolumesBehind, Sound
    <3> QED BY <1>1, <2>2, <3>1, <3>2
  <2> QED BY <2>3, <2>4
<1>10. Top(x) = (a + m) + n
  BY <1>1, <1>3, <1>4, <1>5 DEF Top
<1>11. Top(x) <= recorded' + Precision /\ Top(x) - (now + n) \in -Precision..Precision
  BY <1>1, <1>3, <1>4, <1>10
<1>12. \A f \in Frames : VolumeOf(x.volume[f], f)
  BY <1>5 DEF VolumesInv
<1> QED BY <1>5, <1>6, <1>8, <1>9, <1>11, <1>12 DEF SoundInv, x

\* A packet keeps what VolumesInv says of the buffer: once frames have taken their sound out of it,
\* and when the buffer gets too full and is emptied.
LEMMA HeardKeeps ==
  ASSUME VolumesInv, NEW n \in Lengths, NEW gap \in Nat, NEW now \in Int,
         recorded' = recorded + gap + n, lost' = lost + gap, unseen' \in {0, unseen + gap},
         now - (recorded + gap) \in -unseen'..Precision, now >= recorded \/ now = clock
  PROVE  LET x == Heard(n, now)
         IN /\ x \in SoundType /\ x.lost = lost'
            /\ \A f \in Frames : VolumeOf(x.volume[f], f)
            /\ \/ SoundInv(x, lost', recorded', unseen', now + n)
               \/ x.samples = <<>> /\ VolumesBehind(x, recorded' + Precision) /\ VolumesBehind(x, (now + n) + Precision)
<1>1. /\ clock \in Int /\ recorded \in Int /\ lost \in Int /\ unseen \in Nat /\ gap \in Nat /\ now \in Int
      /\ n \in Nat /\ n >= Precision /\ Precision \in Nat /\ lost' \in Int /\ recorded' \in Int /\ unseen' \in Nat
      /\ recorded' = recorded + gap + n
  <2>1. /\ clock \in Int /\ recorded \in Int /\ lost \in Int /\ unseen \in Nat /\ Precision \in Nat
    BY Numbers DEF VolumesInv
  <2>2. n \in Nat /\ n >= Precision
    BY VolumesAssumption
  <2> QED BY <2>1, <2>2
<1>2. CASE Len(buffer) >= Capacity \/ n + Len(buffer) > Capacity
  <2> DEFINE x == [base |-> 0, samples |-> <<>>, lost |-> lost', volume |-> volume]
  <2>1. Heard(n, now) = x
    BY <1>2 DEF Heard
  <2>2. volume \in [Frames -> Seq([samples : Seq(SampleType), lost : Int])]
    BY DEF VolumesInv, Sound, SoundType
  <2>3. x \in SoundType /\ x.lost = lost' /\ x.samples = <<>> /\ x.volume = volume
    <3>1. <<>> \in Seq(SampleType) /\ 0 \in Int
      OBVIOUS
    <3> QED BY <1>1, <2>2, <3>1 DEF SoundType
  <2>4. \A f \in Frames : VolumeOf(volume[f], f)
    BY DEF VolumesInv
  <2> HIDE DEF x
  <2>5. ASSUME NEW f \in Frames, volume[f] # <<>>
        PROVE  Shown(f) + Interval <= recorded' + Precision /\ Shown(f) + Interval <= (now + n) + Precision
    <3>1. Shown(f) + Interval \in Int
      BY Numbers
    <3>2. CASE buffer = <<>>
      <4>1. Shown(f) + Interval <= recorded + Precision /\ Shown(f) + Interval <= clock + Precision
        BY <2>5, <3>2 DEF VolumesInv, VolumesBehind, Sound
      <4> QED BY <1>1, <3>1, <4>1
    <3>3. CASE buffer # <<>>
      <4>1. SoundInv(Sound, lost, recorded, unseen, clock)
        BY <3>3 DEF VolumesInv
      <4>2. Sound.base = base /\ Sound.samples = buffer /\ Sound.volume = volume /\ Slack(Sound) = Precision
        BY <3>3 DEF Sound, Slack
      <4>3. Shown(f) + Interval <= base + Precision
        BY <2>5, <4>1, <4>2 DEF SoundInv, VolumesBehind
      <4>4. base + Len(buffer) <= recorded + Precision /\ (base + Len(buffer)) - clock <= Precision
        BY <1>1, <4>1, <4>2 DEF SoundInv, Top, SoundType
      <4>5. Len(buffer) \in Nat /\ Len(buffer) >= 1 /\ base \in Int
        BY <3>3 DEF VolumesInv, Sound, SoundType
      <4> QED BY <1>1, <3>1, <4>3, <4>4, <4>5
    <3> QED BY <3>2, <3>3
  <2>6. VolumesBehind(x, recorded' + Precision) /\ VolumesBehind(x, (now + n) + Precision)
    BY <2>3, <2>5 DEF VolumesBehind
  <2> QED BY <2>1, <2>3, <2>4, <2>6
<1>3. CASE ~(Len(buffer) >= Capacity \/ n + Len(buffer) > Capacity)
  <2>1. Heard(n, now) = Backfilled(Extended(n, now))
    BY <1>3 DEF Heard, Extended, Fresh
  <2>2. SoundInv(Extended(n, now), lost', recorded', unseen', now + n)
    BY ExtendedIs
  <2>3. now + n \in Int /\ read \in Nat /\ read <= Ticks \div Interval /\ unseen' \in Int
    BY <1>1 DEF VolumesInv
  <2>4. PICK x : x = Extended(n, now)
    OBVIOUS
  <2>5. PICK c \in Int : c = now + n
    BY <2>3
  <2>6. SoundInv(Backfilled(x), lost', recorded', unseen', c)
    BY <1>1, <2>2, <2>3, <2>4, <2>5, BackfilledKeeps
  <2>7. SoundInv(Heard(n, now), lost', recorded', unseen', now + n)
    BY <2>1, <2>4, <2>5, <2>6
  <2> QED BY <2>7 DEF SoundInv
<1> QED BY <1>2, <1>3

LEMMA PacketSteps ==
  ASSUME VolumesInv, NEW n \in Lengths, NEW roundings \in {{}} \cup {{r} : r \in Roundings}, NEW gap \in Losses \cup {0},
         AudioPacket(n, roundings, gap)
  PROVE  VolumesInv'
<1> DEFINE now == Clock({(recorded + gap) + r : r \in roundings})
           x == Heard(n, now)
<1>1. gap \in Nat /\ n \in Nat /\ roundings \in SUBSET Roundings /\ Precision \in Nat
  <2>1. Losses \subseteq Nat /\ Precision \in Nat
    BY VolumesAssumption
  <2>2. n \in Nat
    BY VolumesAssumption
  <2>3. roundings \in SUBSET Roundings
    OBVIOUS
  <2>4. gap \in Nat
    BY <2>1
  <2> QED BY <2>1, <2>2, <2>3, <2>4
<1>2. /\ recorded' = (recorded + gap) + n /\ lost' = lost + gap /\ started' = TRUE /\ clock' = now + n
      /\ base' = x.base /\ buffer' = x.samples /\ volume' = x.volume /\ read' = read
  BY DEF AudioPacket
<1>3. /\ now \in Int /\ unseen' \in {0, unseen + gap} /\ now - (recorded + gap) \in -unseen'..Precision
      /\ now >= recorded \/ now = clock
  BY <1>1, NowIs
<1> HIDE DEF now
<1>4. /\ x \in SoundType /\ x.lost = lost'
      /\ \A f \in Frames : VolumeOf(x.volume[f], f)
      /\ \/ SoundInv(x, lost', recorded', unseen', now + n)
         \/ x.samples = <<>> /\ VolumesBehind(x, recorded' + Precision) /\ VolumesBehind(x, (now + n) + Precision)
  BY <1>1, <1>2, <1>3, HeardKeeps
<1> HIDE DEF x
<1>5. Sound' = x
  <2>1. x = [base |-> x.base, samples |-> x.samples, lost |-> x.lost, volume |-> x.volume]
    BY <1>4 DEF SoundType
  <2> QED BY <1>2, <1>4, <2>1 DEF Sound
<1>6. /\ clock' \in Int /\ recorded' \in Int /\ lost' \in Int /\ unseen' \in Nat
      /\ clock' - recorded' \in -unseen'..Precision
  <2>1. recorded \in Int /\ lost \in Int /\ unseen \in Nat
    BY DEF VolumesInv
  <2>2. clock' - recorded' = now - (recorded + gap)
    BY <1>1, <1>2, <1>3, <2>1
  <2> QED BY <1>1, <1>2, <1>3, <2>1, <2>2
<1>7. \A f \in Frames : VolumeOf(volume'[f], f)
  BY <1>2, <1>4
<1>8. buffer' # <<>> => SoundInv(x, lost', recorded', unseen', clock')
  BY <1>2, <1>4
<1>9. buffer' = <<>> => VolumesBehind(x, recorded' + Precision) /\ VolumesBehind(x, clock' + Precision)
  <2> SUFFICES ASSUME x.samples = <<>>, SoundInv(x, lost', recorded', unseen', clock')
               PROVE  VolumesBehind(x, recorded' + Precision) /\ VolumesBehind(x, clock' + Precision)
    BY <1>2, <1>4
  <2>1. x.base <= recorded' + Precision /\ x.base <= clock' + Precision /\ x.base \in Int /\ VolumesBehind(x, x.base)
    <3>1. Top(x) = x.base + 0 /\ Slack(x) = 0 /\ x.base \in Int
      BY DEF Top, Slack, SoundInv, SoundType
    <3>2. Top(x) <= recorded' + Precision /\ Top(x) - clock' \in -Precision..Precision /\ VolumesBehind(x, x.base + Slack(x))
      BY DEF SoundInv
    <3>3. x.base + 0 = x.base
      BY <3>1
    <3> QED BY SMTT(30), <1>1, <1>6, <3>1, <3>2, <3>3
  <2> SUFFICES ASSUME NEW f \in Frames, x.volume[f] # <<>>
               PROVE  Shown(f) + Interval <= recorded' + Precision /\ Shown(f) + Interval <= clock' + Precision
    BY DEF VolumesBehind
  <2>2. Shown(f) + Interval <= x.base /\ Shown(f) + Interval \in Int
    BY <2>1, Numbers DEF VolumesBehind
  <2> QED BY <1>1, <1>6, <2>1, <2>2
<1>10. read' \in Nat /\ read' <= Ticks \div Interval
  BY <1>2 DEF VolumesInv
<1> QED BY <1>2, <1>4, <1>5, <1>6, <1>7, <1>8, <1>9, <1>10 DEF VolumesInv

LEMMA VolumeSteps == VolumesInv /\ [VolumesNext]_volumeVars => VolumesInv'
<1> SUFFICES ASSUME VolumesInv, [VolumesNext]_volumeVars PROVE VolumesInv'
  OBVIOUS
<1>1. ASSUME NEW n \in Lengths, NEW roundings \in {{}} \cup {{r} : r \in Roundings}, NEW gap \in Losses \cup {0},
             AudioPacket(n, roundings, gap)
      PROVE  VolumesInv'
  BY <1>1, PacketSteps
<1>2. ASSUME UNCHANGED <<clock, started, base, buffer, recorded, lost, unseen, volume>>,
             read' \in Nat, read' <= Ticks \div Interval
      PROVE  VolumesInv'
  <2>1. Sound' = Sound
    BY <1>2 DEF Sound
  <2> QED BY <1>2, <2>1 DEF VolumesInv
<1>3. CASE VideoFrame
  <2>1. read' \in Nat /\ read' <= Ticks \div Interval
    BY <1>3, Numbers DEF VideoFrame, VolumesInv
  <2> QED BY <1>2, <1>3, <2>1 DEF VideoFrame
<1>4. CASE VolumesOver \/ UNCHANGED volumeVars
  BY <1>2, <1>4 DEF VolumesOver, volumeVars, VolumesInv
<1> QED BY <1>1, <1>3, <1>4 DEF VolumesNext

\* A frame's volume is computed once, from the sound recorded while it was shown: retrieve_frame_volume,
\* whatever stamps, losses, repair and a full buffer do to the time of audio_buffer.
THEOREM VolumesKeepPlace == VolumesSpec => []VolumesInPlace
<1>1. VolumesInv => VolumesInPlace
  <2> SUFFICES ASSUME VolumesInv, NEW f \in Frames
               PROVE  /\ Len(volume[f]) <= 1
                      /\ \A k \in DOMAIN volume[f] :
                           /\ Len(volume[f][k].samples) = Interval
                           /\ \A i \in 1..Interval :
                                LET sample == volume[f][k].samples[i]
                                    since == volume[f][k].lost - sample.lost
                                IN sample.at - (Shown(f) + i - 1) \in -2 * Precision - since..Precision + sample.unseen
    BY DEF VolumesInPlace
  <2>1. volume[f] \in Seq([samples : Seq(SampleType), lost : Int])
    BY DEF VolumesInv, Sound, SoundType
  <2>2. DOMAIN volume[f] = 1..Len(volume[f])
    BY <2>1
  <2>3. VolumeOf(volume[f], f)
    BY DEF VolumesInv
  <2> QED BY <2>2, <2>3 DEF VolumeOf, Near
<1> QED BY <1>1, VolumesStart, VolumeSteps, PTL DEF VolumesSpec

-----------------------------------------------------------------------------
(* The programme data in captions. *)

Bytes == Nat \X Nat
TitleType == [frame : Nat, name : Seq(Bytes), chip : Bytes, duration : Bytes, position : Bytes]
XType ==
  [idle : BOOLEAN, endless : BOOLEAN, buf : Seq(Codes), cache : Seq(Seq(Codes)), list : Seq(TitleType), sent : TitleType]

\* What was put together of a packet, and a packet.
Gathered(buf) == \A k \in 1..Len(buf) : buf[k].code \notin {"end", "more"}
Packet(e) ==
  /\ e \in Seq(Codes) /\ Len(e) >= 1
  /\ \A k \in 1..Len(e) : e[k].code # "more" /\ (e[k].code = "end" => k = Len(e))
Complete(e) == e[Len(e)].code = "end"

\* The cache keeps one packet, or the front of one, of each class and type; of the name and the rating
\* it has whole only what was sent last.
CacheOK(cache) ==
  /\ cache \in Seq(Seq(Codes)) /\ Len(cache) <= MaxCache
  /\ \A i \in 1..Len(cache) : Packet(cache[i]) /\ Len(cache[i]) <= Prefix
  /\ \A i, k \in 1..Len(cache) : i # k => Key(cache[i]) # Key(cache[k])
Remembers(cache, sent) ==
  \A i \in 1..Len(cache) : Complete(cache[i]) =>
    /\ About(cache[i], "name") => Payload(cache[i]) = sent.name
    /\ About(cache[i], "chip") /\ Len(cache[i]) > 2 => cache[i][2].data = sent.chip
Agrees(titles, sent) ==
  /\ titles \in Seq(TitleType) /\ Len(titles) > 0 /\ sent \in TitleType
  /\ titles[Len(titles)].name = sent.name /\ titles[Len(titles)].chip = sent.chip
DataInv(x) ==
  /\ x \in XType
  /\ Gathered(x.buf) /\ CacheOK(x.cache) /\ Remembers(x.cache, x.sent) /\ Agrees(x.list, x.sent)

LEMMA CodesTyped ==
  /\ \A p \in Codes : p \in CodePair /\ p.data \in Bytes /\ (IsControl(p) \/ p.of = 0)
  /\ \A a, b \in Codes : (a.code = "start" /\ b.code = "start" /\ a.of = b.of /\ a.type = b.type) => a.data = b.data
<1>1. \A p \in Codes : p \in CodePair
  <2> SUFFICES ASSUME NEW p \in Codes PROVE p \in CodePair
    OBVIOUS
  <2>1. PICK packet \in UNION {Mixes[m] : m \in DOMAIN Mixes} : p \in CodesIn(packet.pairs)
    BY DEF Codes
  <2>2. packet.pairs \in Seq(Pair)
    BY CaptionAssumption
  <2>3. PICK k \in DOMAIN packet.pairs : packet.pairs[k].field = 2 /\ p = packet.pairs[k].xds
    BY <2>1 DEF CodesIn
  <2>4. packet.pairs[k] \in Pair
    BY <2>2, <2>3
  <2> QED BY <2>3, <2>4 DEF Pair
<1> QED BY <1>1, CaptionAssumption DEF CodePair, Bytes

\* Two packets of one key, of which one is about the programme, are of one type.
LEMMA KeyTells ==
  ASSUME NEW e, Packet(e), NEW f, Packet(f), NEW type
  PROVE  /\ About(e, type) /\ About(f, type) => Key(e) = Key(f)
         /\ About(e, type) /\ Key(e) = Key(f) => About(f, type)
<1>1. e[1] \in Codes /\ f[1] \in Codes /\ e[1].code # "more" /\ f[1].code # "more"
  BY DEF Packet
<1>2. /\ e[1] \in CodePair /\ f[1] \in CodePair /\ (IsControl(e[1]) \/ e[1].of = 0) /\ (IsControl(f[1]) \/ f[1].of = 0)
      /\ (e[1].code = "start" /\ f[1].code = "start" /\ e[1].of = f[1].of /\ e[1].type = f[1].type) => e[1].data = f[1].data
  BY <1>1, CodesTyped
<1> QED BY <1>1, <1>2 DEF About, Key, IsControl

\* What the cache keeps of a packet.
LEMMA KeptIs ==
  ASSUME NEW buf, Packet(buf)
  PROVE  /\ Packet(Kept(buf)) /\ Len(Kept(buf)) <= Prefix /\ Key(Kept(buf)) = Key(buf)
         /\ Kept(buf) \in Seq(Codes) /\ Len(Kept(buf)) = IF Len(buf) < Prefix THEN Len(buf) ELSE Prefix
         /\ Len(buf) <= Prefix => Kept(buf) = buf
         /\ Len(buf) > Prefix => ~Complete(Kept(buf))
<1>1. buf \in Seq(Codes) /\ Len(buf) \in Nat /\ Len(buf) >= 1 /\ Prefix \in Nat /\ Prefix > 0
  BY CaptionAssumption DEF Packet
<1>2. PICK n : n = IF Len(buf) < Prefix THEN Len(buf) ELSE Prefix
  OBVIOUS
<1>3. n \in 1..Len(buf) /\ n <= Prefix /\ n \in Nat
  BY <1>1, <1>2
<1>4. PICK k : k = Kept(buf)
  OBVIOUS
<1>5. k = SubSeq(buf, 1, n)
  BY <1>2, <1>4 DEF Kept
<1>6. k \in Seq(Codes) /\ Len(k) = n /\ \A m \in 1..n : k[m] = buf[m]
  BY <1>1, <1>3, <1>5
<1>7. \A m \in 1..n : m \in 1..Len(buf) /\ (m = Len(buf) => m = n)
  BY <1>1, <1>3
<1>8. Packet(k)
  BY <1>3, <1>6, <1>7 DEF Packet
<1>9. Key(k) = Key(buf)
  BY <1>3, <1>6 DEF Key
<1>10. ASSUME Len(buf) <= Prefix PROVE k = buf
  <2>1. n = Len(buf)
    BY <1>1, <1>2, <1>10
  <2> QED BY <1>1, <1>5, <2>1
<1>11. ASSUME Len(buf) > Prefix PROVE ~Complete(k)
  <2>1. n = Prefix /\ n # Len(buf) /\ n \in 1..n
    BY <1>1, <1>2, <1>3, <1>11
  <2>2. k[n] = buf[n] /\ buf[n].code # "end"
    BY <1>3, <1>6, <2>1 DEF Packet
  <2> QED BY <1>6, <2>2 DEF Complete
<1> QED BY <1>2, <1>3, <1>4, <1>6, <1>8, <1>9, <1>10, <1>11

\* What is as cached is what is cached.
LEMMA PrefixSame ==
  ASSUME NEW buf, Packet(buf), Complete(buf), NEW e, Packet(e), Len(e) <= Prefix, IsPrefix(Kept(buf), e)
  PROVE  e = Kept(buf)
<1>1. PICK k : k = Kept(buf)
  OBVIOUS
<1>2. /\ k \in Seq(Codes) /\ Len(k) \in Nat /\ Len(k) >= 1
      /\ Len(k) = (IF Len(buf) < Prefix THEN Len(buf) ELSE Prefix)
      /\ Len(buf) <= Prefix => k = buf
  BY <1>1, KeptIs DEF Packet
<1>3. e \in Seq(Codes) /\ Len(e) \in Nat /\ Len(buf) \in Nat /\ Prefix \in Nat
  BY CaptionAssumption DEF Packet
<1>4. Len(k) <= Len(e) /\ SubSeq(k, 1, Len(k)) = SubSeq(e, 1, Len(k))
  BY <1>1 DEF IsPrefix
<1>5. SubSeq(k, 1, Len(k)) = k
  BY <1>2
<1>6. Len(k) \in 1..Len(e) /\ e[Len(k)] = k[Len(k)]
  <2>1. Len(k) \in 1..Len(e) /\ Len(k) \in 1..Len(k)
    BY <1>2, <1>3, <1>4
  <2>2. SubSeq(e, 1, Len(k))[Len(k)] = e[Len(k)]
    BY <1>3, <2>1
  <2> QED BY <1>4, <1>5, <2>1, <2>2
<1>7. Len(k) = Len(e)
  <2>1. CASE Len(buf) < Prefix \/ Len(buf) = Prefix
    <3>1. k = buf
      BY <1>2, <1>3, <2>1
    <3>2. e[Len(k)].code = "end"
      BY <1>6, <3>1 DEF Complete
    <3> QED BY <1>6, <3>2 DEF Packet
  <2>2. CASE Len(buf) > Prefix
    BY <1>2, <1>3, <1>4, <2>2
  <2> QED BY <1>3, <2>1, <2>2
<1>8. SubSeq(e, 1, Len(e)) = e
  BY <1>3
<1> QED BY <1>1, <1>4, <1>5, <1>7, <1>8

\* The cache after a packet: the packet, and those of other keys.
Renewed(x, buf) == IF Differs(x, buf) THEN Cached(x, buf) ELSE x.cache

LEMMA CacheAfter ==
  ASSUME NEW x, x \in XType, CacheOK(x.cache), NEW buf, Packet(buf), Complete(buf)
  PROVE  /\ CacheOK(Renewed(x, buf))
         /\ \A i \in 1..Len(Renewed(x, buf)) :
              \/ Renewed(x, buf)[i] = Kept(buf)
              \/ /\ Key(Renewed(x, buf)[i]) # Key(buf)
                 /\ \E k \in 1..Len(x.cache) : Renewed(x, buf)[i] = x.cache[k]
         /\ ~Differs(x, buf) => \E k \in 1..Len(x.cache) : x.cache[k] = Kept(buf)
<1>1. PICK old : old = x.cache
  OBVIOUS
<1>2. /\ old \in Seq(Seq(Codes)) /\ Len(old) <= MaxCache /\ Len(old) \in Nat /\ DOMAIN old = 1..Len(old)
      /\ \A i \in 1..Len(old) : old[i] \in Seq(Codes) /\ Packet(old[i]) /\ Len(old[i]) <= Prefix
      /\ \A i, k \in 1..Len(old) : i # k => Key(old[i]) # Key(old[k])
  <2>1. old \in Seq(Seq(Codes)) /\ Len(old) \in Nat /\ DOMAIN old = 1..Len(old)
    BY <1>1 DEF CacheOK
  <2>2. \A i \in 1..Len(old) : old[i] \in Seq(Codes)
    BY <2>1
  <2> QED BY <1>1, <2>1, <2>2 DEF CacheOK
<1>3. PICK e : e = Kept(buf)
  OBVIOUS
<1>4. e \in Seq(Codes) /\ Packet(e) /\ Len(e) <= Prefix /\ Key(e) = Key(buf)
  BY <1>3, KeptIs
<1>5. MaxCache \in Nat /\ MaxCache > 0
  BY CaptionAssumption
<1>6. PICK new : new = Renewed(x, buf)
  OBVIOUS
<1>7. SUFFICES
        /\ new \in Seq(Seq(Codes)) /\ Len(new) <= MaxCache
        /\ \A i \in 1..Len(new) : new[i] = e \/ (Key(new[i]) # Key(buf) /\ \E k \in 1..Len(old) : new[i] = old[k])
        /\ \A i, k \in 1..Len(new) : i # k => Key(new[i]) # Key(new[k])
        /\ ~Differs(x, buf) => \E k \in 1..Len(old) : old[k] = e
  <2>1. ASSUME \A i \in 1..Len(new) : new[i] = e \/ (Key(new[i]) # Key(buf) /\ \E k \in 1..Len(old) : new[i] = old[k])
        PROVE  \A i \in 1..Len(new) : Packet(new[i]) /\ Len(new[i]) <= Prefix
    BY <1>2, <1>4, <2>1
  <2> QED BY <1>1, <1>3, <1>6, <1>7, <2>1 DEF CacheOK
<1>8. CASE ~Differs(x, buf)
  <2>1. new = old
    BY <1>1, <1>6, <1>8 DEF Renewed
  <2>2. PICK n \in 1..Len(old) : Key(old[n]) = Key(buf) /\ IsPrefix(e, old[n])
    BY <1>1, <1>2, <1>3, <1>8 DEF Differs, CachedAt
  <2>3. old[n] = e
    BY <1>2, <1>3, <2>2, PrefixSame
  <2>4. \A i \in 1..Len(old) : i = n \/ Key(old[i]) # Key(buf)
    BY <1>2, <2>2
  <2> QED BY <1>2, <2>1, <2>3, <2>4
<1>9. CASE Differs(x, buf) /\ CachedAt(x, buf) # {}
  <2>1. new = [i \in 1..Len(old) |-> IF Key(old[i]) = Key(buf) THEN e ELSE old[i]]
    <3>1. new = [i \in DOMAIN x.cache |-> IF i \in CachedAt(x, buf) THEN Kept(buf) ELSE x.cache[i]]
      BY <1>6, <1>9 DEF Renewed, Cached
    <3>2. \A i \in 1..Len(old) : i \in CachedAt(x, buf) <=> Key(old[i]) = Key(buf)
      BY <1>1, <1>2 DEF CachedAt
    <3> QED BY <1>1, <1>2, <1>3, <3>1, <3>2
  <2>2. new \in Seq(Seq(Codes)) /\ Len(new) = Len(old)
    <3>1. new \in [1..Len(old) -> Seq(Codes)]
      BY <1>2, <1>4, <2>1
    <3> QED BY <1>2, <3>1
  <2>3. \A i \in 1..Len(old) : new[i] = IF Key(old[i]) = Key(buf) THEN e ELSE old[i]
    BY <2>1
  <2>4. \A i \in 1..Len(old) : Key(new[i]) = Key(old[i])
    BY <1>4, <2>3
  <2>5. \A i, k \in 1..Len(new) : i # k => Key(new[i]) # Key(new[k])
    BY <1>2, <2>2, <2>4
  <2> QED BY <1>2, <1>9, <2>2, <2>3, <2>5
<1>10. CASE Differs(x, buf) /\ CachedAt(x, buf) = {}
  <2>1. \A i \in 1..Len(old) : Key(old[i]) # Key(buf)
    BY <1>1, <1>2, <1>10 DEF CachedAt
  <2>2. CASE Len(old) < MaxCache
    <3>1. new = Append(old, e)
      BY <1>1, <1>3, <1>6, <1>10, <2>2 DEF Renewed, Cached
    <3>2. /\ new \in Seq(Seq(Codes)) /\ Len(new) = Len(old) + 1 /\ new[Len(old) + 1] = e
          /\ \A i \in 1..Len(old) : new[i] = old[i]
      BY <1>2, <1>4, <3>1
    <3>3. \A i \in 1..Len(new) : i \in 1..Len(old) \/ i = Len(old) + 1
      BY <1>2, <3>2
    <3>4. \A i, k \in 1..Len(new) : i # k => Key(new[i]) # Key(new[k])
      <4> SUFFICES ASSUME NEW i \in 1..Len(new), NEW k \in 1..Len(new), i # k PROVE Key(new[i]) # Key(new[k])
        OBVIOUS
      <4>1. CASE i \in 1..Len(old) /\ k \in 1..Len(old)
        BY <1>2, <3>2, <4>1
      <4>2. CASE i = Len(old) + 1 /\ k \in 1..Len(old)
        BY <1>4, <2>1, <3>2, <4>2
      <4>3. CASE k = Len(old) + 1 /\ i \in 1..Len(old)
        BY <1>4, <2>1, <3>2, <4>3
      <4> QED BY <3>3, <4>1, <4>2, <4>3
    <3>5. Len(new) <= MaxCache
      BY <1>2, <1>5, <2>2, <3>2
    <3>6. \A i \in 1..Len(new) : new[i] = e \/ (Key(new[i]) # Key(buf) /\ \E k \in 1..Len(old) : new[i] = old[k])
      BY <2>1, <3>2, <3>3
    <3> QED BY <1>10, <3>2, <3>4, <3>5, <3>6
  <2>3. CASE ~(Len(old) < MaxCache)
    <3>1. new = [old EXCEPT ![MaxCache] = e]
      BY <1>1, <1>3, <1>6, <1>10, <2>3 DEF Renewed, Cached
    <3>2. MaxCache \in 1..Len(old)
      BY <1>2, <1>5, <2>3
    <3>3. /\ new \in Seq(Seq(Codes)) /\ Len(new) = Len(old)
          /\ \A i \in 1..Len(old) : new[i] = IF i = MaxCache THEN e ELSE old[i]
      BY <1>2, <1>4, <3>1, <3>2, ExceptSeq
    <3>4. \A i, k \in 1..Len(new) : i # k => Key(new[i]) # Key(new[k])
      BY <1>2, <1>4, <2>1, <3>3
    <3> QED BY <1>2, <1>10, <2>1, <3>3, <3>4
  <2> QED BY <2>2, <2>3
<1> QED BY <1>8, <1>9, <1>10

-----------------------------------------------------------------------------
\* The list of what the programme is, after a packet.
LEMMA PayloadIs ==
  ASSUME NEW buf, Packet(buf), Len(buf) >= 2
  PROVE  /\ Payload(buf) \in Seq(Bytes) /\ Len(Payload(buf)) = Len(buf) - 2
         /\ \A k \in 1..Len(buf) - 2 : Payload(buf)[k] = buf[k + 1].data /\ Payload(buf)[k] \in Bytes
<1>1. buf \in Seq(Codes) /\ Len(buf) \in Nat
  BY DEF Packet
<1>2. \A k \in 1..Len(buf) - 2 : buf[k + 1].data \in Bytes
  <2> SUFFICES ASSUME NEW k \in 1..Len(buf) - 2 PROVE buf[k + 1].data \in Bytes
    OBVIOUS
  <2>1. buf[k + 1] \in Codes
    BY <1>1
  <2> QED BY <2>1, CodesTyped
<1>3. Payload(buf) \in [1..Len(buf) - 2 -> Bytes]
  BY <1>2 DEF Payload
<1>4. Len(buf) - 2 \in Nat
  BY <1>1
<1>5. Payload(buf) \in Seq(Bytes) /\ Len(Payload(buf)) = Len(buf) - 2
  BY <1>3, <1>4
<1> QED BY <1>2, <1>5 DEF Payload

\* What is noted goes to the end of the list.
LEMMA NotedLast ==
  ASSUME NEW titles \in Seq(TitleType), Len(titles) > 0, NEW noted \in TitleType
  PROVE  LET new == Append(titles, noted)
         IN  new \in Seq(TitleType) /\ Len(new) > 0 /\ new[Len(new)] = noted
OBVIOUS

LEMMA NotedTime ==
  ASSUME NEW titles \in Seq(TitleType), Len(titles) > 0, NEW frame \in Nat, NEW compared, NEW value \in Bytes, NEW new,
         \/ new = Noted(titles, "duration", value, compared, frame)
         \/ new = Noted(titles, "position", value, compared, frame)
  PROVE  /\ new \in Seq(TitleType) /\ Len(new) > 0
         /\ new[Len(new)].name = titles[Len(titles)].name /\ new[Len(new)].chip = titles[Len(titles)].chip
<1>1. PICK last : last = titles[Len(titles)]
  OBVIOUS
<1>2. last \in TitleType
  BY <1>1
<1>3. PICK noted : /\ \/ noted = [last EXCEPT !.duration = value, !.frame = frame]
                      \/ noted = [last EXCEPT !.position = value, !.frame = frame]
                   /\ new = titles \/ new = Append(titles, noted)
  <2>1. CASE new = Noted(titles, "duration", value, compared, frame)
    BY <1>1, <2>1 DEF Noted, Last
  <2>2. CASE new = Noted(titles, "position", value, compared, frame)
    BY <1>1, <2>2 DEF Noted, Last
  <2> QED BY <2>1, <2>2
<1>4. noted \in TitleType /\ noted.name = last.name /\ noted.chip = last.chip
  BY <1>2, <1>3 DEF TitleType
<1> QED BY <1>1, <1>3, <1>4, NotedLast

LEMMA ToldIs ==
  ASSUME NEW titles \in Seq(TitleType), Len(titles) > 0, NEW frame \in Nat, NEW buf, Packet(buf), Len(buf) >= 2,
         NEW new, new = Told(titles, buf, frame)
  PROVE  /\ new \in Seq(TitleType) /\ Len(new) > 0
         /\ new[Len(new)].name = IF About(buf, "name") THEN Payload(buf) ELSE titles[Len(titles)].name
         /\ new[Len(new)].chip =
              IF About(buf, "chip") /\ Len(buf) > 2 THEN Payload(buf)[1] ELSE titles[Len(titles)].chip
<1>1. PICK data : data = Payload(buf)
  OBVIOUS
<1>2. /\ data \in Seq(Bytes) /\ Len(data) = Len(buf) - 2 /\ Len(data) \in Nat /\ Len(buf) \in Nat
      /\ \A k \in 1..Len(data) : data[k] \in Bytes
  BY <1>1, PayloadIs DEF Packet
<1>3. /\ About(buf, "name") => ~About(buf, "chip") /\ ~About(buf, "length")
      /\ About(buf, "chip") => ~About(buf, "length")
  BY DEF About
<1>4. CASE About(buf, "length") /\ Len(data) >= 1
  <2>1. PICK timed : timed = Noted(titles, "duration", data[1], Swapped(data[1]), frame)
    OBVIOUS
  <2>2. data[1] \in Bytes
    BY <1>2, <1>4
  <2>3. /\ timed \in Seq(TitleType) /\ Len(timed) > 0
        /\ timed[Len(timed)].name = titles[Len(titles)].name /\ timed[Len(timed)].chip = titles[Len(titles)].chip
    BY <2>1, <2>2, NotedTime
  <2>4. CASE Len(data) = 1
    <3>1. new = timed
      BY <1>1, <1>3, <1>4, <2>1, <2>4 DEF Told
    <3> QED BY <1>3, <1>4, <2>3, <3>1
  <2>5. CASE Len(data) > 1
    <3>1. new = Noted(timed, "position", data[2], Swapped(data[2]), frame)
      BY <1>1, <1>3, <1>4, <2>1, <2>5 DEF Told
    <3>2. data[2] \in Bytes
      BY <1>2, <2>5
    <3>3. /\ new \in Seq(TitleType) /\ Len(new) > 0
          /\ new[Len(new)].name = timed[Len(timed)].name /\ new[Len(new)].chip = timed[Len(timed)].chip
      BY <2>3, <3>1, <3>2, NotedTime
    <3> QED BY <1>3, <1>4, <2>3, <3>3
  <2> QED BY <1>2, <1>4, <2>4, <2>5
<1>5. CASE About(buf, "name")
  <2>1. new = Noted(titles, "name", data, data, frame)
    BY <1>1, <1>3, <1>5 DEF Told
  <2>2. PICK last : last = titles[Len(titles)]
    OBVIOUS
  <2>3. last \in TitleType
    BY <2>2
  <2>4. PICK noted : /\ noted = [last EXCEPT !.name = data, !.frame = frame]
                     /\ (new = titles /\ data = last.name) \/ new = Append(titles, noted)
    BY <2>1, <2>2 DEF Noted, Last
  <2>5. noted \in TitleType /\ noted.name = data /\ noted.chip = last.chip
    BY <1>2, <2>3, <2>4 DEF TitleType
  <2>6. new \in Seq(TitleType) /\ Len(new) > 0 /\ new[Len(new)].chip = last.chip /\ new[Len(new)].name = data
    <3>1. CASE new = titles /\ data = last.name
      BY <2>2, <3>1
    <3>2. CASE new = Append(titles, noted)
      BY <2>5, <3>2, NotedLast
    <3> QED BY <2>4, <3>1, <3>2
  <2> QED BY <1>1, <1>3, <1>5, <2>2, <2>6
<1>6. CASE About(buf, "chip") /\ Len(data) >= 1
  <2>1. data # <<>> /\ Len(buf) > 2 /\ data[1] \in Bytes
    BY <1>2, <1>6
  <2>2. new = Noted(titles, "chip", data[1], data[1], frame)
    BY <1>1, <1>3, <1>6, <2>1 DEF Told
  <2>3. PICK last : last = titles[Len(titles)]
    OBVIOUS
  <2>4. last \in TitleType
    BY <2>3
  <2>5. PICK noted : /\ noted = [last EXCEPT !.chip = data[1], !.frame = frame]
                     /\ (new = titles /\ data[1] = last.chip) \/ new = Append(titles, noted)
    BY <2>2, <2>3 DEF Noted, Last
  <2>6. noted \in TitleType /\ noted.chip = data[1] /\ noted.name = last.name
    BY <2>1, <2>4, <2>5 DEF TitleType
  <2>7. new \in Seq(TitleType) /\ Len(new) > 0 /\ new[Len(new)].name = last.name /\ new[Len(new)].chip = data[1]
    <3>1. CASE new = titles /\ data[1] = last.chip
      BY <2>3, <3>1
    <3>2. CASE new = Append(titles, noted)
      BY <2>6, <3>2, NotedLast
    <3> QED BY <2>5, <3>1, <3>2
  <2> QED BY <1>1, <1>3, <1>6, <2>1, <2>3, <2>7
<1>7. CASE ~About(buf, "name") /\ ~(About(buf, "length") /\ Len(data) >= 1) /\ ~(About(buf, "chip") /\ Len(data) >= 1)
  <2>1. ~(About(buf, "chip") /\ data # <<>>) /\ ~(About(buf, "chip") /\ Len(buf) > 2)
    BY <1>2, <1>7
  <2>2. ~(About(buf, "length") /\ Len(data) = 1) /\ ~(About(buf, "length") /\ Len(data) > 1)
    BY <1>2, <1>7
  <2>3. new = titles
    BY <1>1, <1>7, <2>1, <2>2 DEF Told
  <2> QED BY <1>7, <2>1, <2>3
<1> QED BY <1>4, <1>5, <1>6, <1>7

\* What was sent, after a packet.
LEMMA ObservedIs ==
  ASSUME NEW sent \in TitleType, NEW buf, Packet(buf), Len(buf) >= 2, NEW new, new = Observed(sent, buf)
  PROVE  /\ new \in TitleType
         /\ new.name = IF About(buf, "name") THEN Payload(buf) ELSE sent.name
         /\ new.chip = IF About(buf, "chip") /\ Len(buf) > 2 THEN Payload(buf)[1] ELSE sent.chip
<1>1. /\ Payload(buf) \in Seq(Bytes) /\ Len(buf) \in Nat
      /\ Len(buf) > 2 => Payload(buf)[1] \in Bytes
  <2>1. Len(buf) \in Nat
    BY DEF Packet
  <2>2. Len(buf) > 2 => 1 \in 1..Len(buf) - 2
    BY <2>1
  <2> QED BY <2>1, <2>2, PayloadIs
<1>2. About(buf, "name") => ~About(buf, "chip")
  BY DEF About
<1>3. CASE About(buf, "name")
  <2>1. new = [sent EXCEPT !.name = Payload(buf)]
    BY <1>2, <1>3 DEF Observed
  <2> QED BY <1>1, <1>2, <1>3, <2>1 DEF TitleType
<1>4. CASE About(buf, "chip") /\ Len(buf) > 2
  <2>1. new = [sent EXCEPT !.chip = Payload(buf)[1]]
    BY <1>2, <1>4 DEF Observed
  <2> QED BY <1>1, <1>2, <1>4, <2>1 DEF TitleType
<1>5. CASE ~About(buf, "name") /\ ~(About(buf, "chip") /\ Len(buf) > 2)
  <2>1. new = sent
    BY <1>5 DEF Observed
  <2> QED BY <1>5, <2>1
<1> QED BY <1>3, <1>4, <1>5

\* What the cache has whole is what was sent last.
LEMMA RememberedAfter ==
  ASSUME NEW x, x \in XType, CacheOK(x.cache), Remembers(x.cache, x.sent),
         NEW buf, Packet(buf), Complete(buf), Len(buf) >= 2
  PROVE  Remembers(Renewed(x, buf), Observed(x.sent, buf))
<1>1. PICK new : new = Renewed(x, buf)
  OBVIOUS
<1>2. PICK sent : sent = Observed(x.sent, buf)
  OBVIOUS
<1>3. x.sent \in TitleType /\ CacheOK(new)
  BY <1>1, CacheAfter DEF XType
<1>4. /\ sent.name = IF About(buf, "name") THEN Payload(buf) ELSE x.sent.name
      /\ sent.chip = IF About(buf, "chip") /\ Len(buf) > 2 THEN Payload(buf)[1] ELSE x.sent.chip
  BY <1>2, <1>3, ObservedIs
<1>5. SUFFICES ASSUME NEW i \in 1..Len(new), Complete(new[i])
               PROVE  /\ About(new[i], "name") => Payload(new[i]) = sent.name
                      /\ About(new[i], "chip") /\ Len(new[i]) > 2 => new[i][2].data = sent.chip
  BY <1>1, <1>2 DEF Remembers
<1>6. CASE new[i] = Kept(buf)
  <2>1. new[i] = buf
    <3>1. Len(buf) \in Nat /\ Prefix \in Nat
      BY CaptionAssumption DEF Packet
    <3>2. ~(Len(buf) > Prefix)
      BY <1>5, <1>6, KeptIs
    <3> QED BY <1>6, <3>1, <3>2, KeptIs
  <2>2. Len(buf) > 2 => Payload(buf)[1] = buf[2].data
    <3>1. Len(buf) \in Nat
      BY DEF Packet
    <3>2. Len(buf) > 2 => 1 \in 1..Len(buf) - 2
      BY <3>1
    <3>3. \A k \in 1..Len(buf) - 2 : Payload(buf)[k] = buf[k + 1].data
      BY PayloadIs
    <3>4. Len(buf) > 2 => Payload(buf)[1] = buf[1 + 1].data
      BY <3>2, <3>3
    <3> QED BY <3>4
  <2> QED BY <1>4, <2>1, <2>2
<1>7. CASE Key(new[i]) # Key(buf) /\ \E k \in 1..Len(x.cache) : new[i] = x.cache[k]
  <2>1. PICK k \in 1..Len(x.cache) : new[i] = x.cache[k]
    BY <1>7
  <2>2. /\ About(new[i], "name") => Payload(new[i]) = x.sent.name
        /\ About(new[i], "chip") /\ Len(new[i]) > 2 => new[i][2].data = x.sent.chip
    BY <1>5, <2>1 DEF Remembers
  <2>3. Packet(new[i])
    BY <1>3 DEF CacheOK
  <2>4. /\ About(new[i], "name") => ~About(buf, "name")
        /\ About(new[i], "chip") => ~About(buf, "chip")
    BY <1>7, <2>3, KeyTells
  <2> QED BY <1>4, <2>2, <2>4
<1> QED BY <1>1, <1>6, <1>7, CacheAfter

\* A packet that is not looked at again says what was sent.
LEMMA UnchangedIsSent ==
  ASSUME NEW x, x \in XType, CacheOK(x.cache), Remembers(x.cache, x.sent),
         NEW buf, Packet(buf), Complete(buf), Len(buf) >= 2, ~Differs(x, buf), ~(Len(buf) > Prefix)
  PROVE  /\ Observed(x.sent, buf).name = x.sent.name
         /\ Observed(x.sent, buf).chip = x.sent.chip
<1>1. PICK sent : sent = Observed(x.sent, buf)
  OBVIOUS
<1>2. x.sent \in TitleType
  BY DEF XType
<1>3. /\ sent.name = IF About(buf, "name") THEN Payload(buf) ELSE x.sent.name
      /\ sent.chip = IF About(buf, "chip") /\ Len(buf) > 2 THEN Payload(buf)[1] ELSE x.sent.chip
  BY <1>1, <1>2, ObservedIs
<1>4. PICK k \in 1..Len(x.cache) : x.cache[k] = Kept(buf)
  BY CacheAfter
<1>5. Len(buf) \in Nat /\ Prefix \in Nat
  BY CaptionAssumption DEF Packet
<1>6. x.cache[k] = buf
  BY <1>4, <1>5, KeptIs
<1>7. /\ About(buf, "name") => Payload(buf) = x.sent.name
      /\ About(buf, "chip") /\ Len(buf) > 2 => buf[2].data = x.sent.chip
  BY <1>4, <1>6 DEF Remembers
<1>8. Len(buf) > 2 => Payload(buf)[1] = buf[2].data
  <2>1. Len(buf) > 2 => 1 \in 1..Len(buf) - 2
    BY <1>5
  <2>2. \A n \in 1..Len(buf) - 2 : Payload(buf)[n] = buf[n + 1].data
    BY PayloadIs
  <2>3. Len(buf) > 2 => Payload(buf)[1] = buf[1 + 1].data
    BY <2>1, <2>2
  <2> QED BY <2>3
<1> QED BY <1>1, <1>3, <1>7, <1>8

\* The end of a packet keeps the list current.
LEMMA EndedKeeps ==
  ASSUME NEW x, DataInv(x), NEW buf, Packet(buf), Complete(buf), NEW frame \in Nat, NEW y, y = Ended(x, buf, frame)
  PROVE  DataInv(y)
<1>1. /\ x \in XType /\ CacheOK(x.cache) /\ Remembers(x.cache, x.sent) /\ Agrees(x.list, x.sent)
      /\ DOMAIN x = {"idle", "endless", "buf", "cache", "list", "sent"}
  BY DEF DataInv, XType
<1>2. Gathered(<<>>) /\ <<>> \in Seq(Codes)
  BY DEF Gathered
<1>3. CASE ~IsWhole(buf)
  <2>1. y = [x EXCEPT !.idle = TRUE, !.buf = <<>>]
    BY <1>3 DEF Ended
  <2>2. /\ y \in XType /\ y.buf = <<>> /\ y.cache = x.cache /\ y.list = x.list /\ y.sent = x.sent
    BY <1>1, <1>2, <2>1 DEF XType
  <2> QED BY <1>1, <1>2, <2>2 DEF DataInv
<1>4. CASE IsWhole(buf)
  <2>1. Len(buf) >= 2
    BY <1>4 DEF IsWhole
  <2>2. PICK titles : titles = IF Differs(x, buf) \/ Len(buf) > Prefix THEN Told(x.list, buf, frame) ELSE x.list
    OBVIOUS
  <2>3. PICK sent : sent = Observed(x.sent, buf)
    OBVIOUS
  <2>4. PICK cache : cache = Renewed(x, buf)
    OBVIOUS
  <2>5. PICK closed : closed = [x EXCEPT !.idle = TRUE, !.buf = <<>>]
    OBVIOUS
  <2>6. y = [closed EXCEPT !.cache = cache, !.list = titles, !.sent = sent]
    BY <1>4, <2>2, <2>3, <2>4, <2>5 DEF Ended, Renewed
  <2>7. x.list \in Seq(TitleType) /\ Len(x.list) > 0 /\ x.sent \in TitleType
    BY <1>1 DEF Agrees
  <2>8. CacheOK(cache) /\ Remembers(cache, sent)
    BY <1>1, <2>1, <2>3, <2>4, CacheAfter, RememberedAfter
  <2>9. /\ sent \in TitleType
        /\ sent.name = IF About(buf, "name") THEN Payload(buf) ELSE x.sent.name
        /\ sent.chip = IF About(buf, "chip") /\ Len(buf) > 2 THEN Payload(buf)[1] ELSE x.sent.chip
    BY <2>1, <2>3, <2>7, ObservedIs
  <2>10. Agrees(titles, sent)
    <3>1. CASE Differs(x, buf) \/ Len(buf) > Prefix
      <4>1. titles = Told(x.list, buf, frame)
        BY <2>2, <3>1
      <4>2. /\ titles \in Seq(TitleType) /\ Len(titles) > 0
            /\ titles[Len(titles)].name = IF About(buf, "name") THEN Payload(buf) ELSE x.list[Len(x.list)].name
            /\ titles[Len(titles)].chip =
                 IF About(buf, "chip") /\ Len(buf) > 2 THEN Payload(buf)[1] ELSE x.list[Len(x.list)].chip
        <5>1. PICK told : told = x.list
          OBVIOUS
        <5>2. told \in Seq(TitleType) /\ Len(told) > 0 /\ titles = Told(told, buf, frame)
          BY <2>7, <4>1, <5>1
        <5>3. /\ titles \in Seq(TitleType) /\ Len(titles) > 0
              /\ titles[Len(titles)].name = IF About(buf, "name") THEN Payload(buf) ELSE told[Len(told)].name
              /\ titles[Len(titles)].chip =
                   IF About(buf, "chip") /\ Len(buf) > 2 THEN Payload(buf)[1] ELSE told[Len(told)].chip
          BY <2>1, <5>2, ToldIs
        <5> QED BY <5>1, <5>3
      <4> QED BY <1>1, <2>9, <4>2 DEF Agrees
    <3>2. CASE ~(Differs(x, buf) \/ Len(buf) > Prefix)
      <4>1. titles = x.list
        BY <2>2, <3>2
      <4>2. sent.name = x.sent.name /\ sent.chip = x.sent.chip
        BY <1>1, <2>1, <2>3, <3>2, UnchangedIsSent
      <4> QED BY <1>1, <2>9, <4>1, <4>2 DEF Agrees
    <3> QED BY <3>1, <3>2
  <2>11. cache \in Seq(Seq(Codes)) /\ titles \in Seq(TitleType)
    BY <2>8, <2>10 DEF CacheOK, Agrees
  <2>12. closed \in XType /\ closed.buf = <<>>
    BY <1>1, <1>2, <2>5 DEF XType
  <2>13. y \in XType /\ y.buf = <<>> /\ y.cache = cache /\ y.list = titles /\ y.sent = sent
    BY <2>6, <2>9, <2>11, <2>12 DEF XType
  <2> QED BY <1>2, <2>8, <2>10, <2>13 DEF DataInv
<1> QED BY <1>3, <1>4

\* A pair of the second field.
LEMMA AddXDSKeeps ==
  ASSUME NEW x, DataInv(x), NEW p \in Codes, NEW frame \in Nat, NEW z, z = AddXDS(x, p, frame)
  PROVE  DataInv(z)
<1>1. /\ x \in XType /\ Gathered(x.buf) /\ CacheOK(x.cache) /\ Remembers(x.cache, x.sent) /\ Agrees(x.list, x.sent)
  BY DEF DataInv
<1>2. Gathered(<<>>) /\ <<>> \in Seq(Codes)
  BY DEF Gathered
<1>3. PICK y : y = OpenedBy(x, p)
  OBVIOUS
<1>4. p.code \in {"start", "more", "end", "data"}
  BY CodesTyped DEF CodePair
<1>5. /\ DataInv(y) /\ y \in XType
      /\ Collects(x, p) => p.code # "more"
  <2>1. CASE x.idle /\ IsControl(p)
    <3>1. y = [x EXCEPT !.idle = FALSE, !.endless = p.code = "more" /\ p.of = LastClass, !.buf = <<>>]
      BY <1>3, <2>1 DEF OpenedBy
    <3>2. y \in XType /\ y.buf = <<>> /\ y.cache = x.cache /\ y.list = x.list /\ y.sent = x.sent
      BY <1>1, <1>2, <3>1 DEF XType
    <3> QED BY <1>1, <1>2, <2>1, <3>2 DEF DataInv, Collects, IsControl
  <2>2. CASE ~(x.idle /\ IsControl(p))
    <3>1. y = x
      BY <1>3, <2>2 DEF OpenedBy
    <3> QED BY <1>1, <2>2, <3>1 DEF Collects, IsControl
  <2> QED BY <2>1, <2>2
<1>6. CASE ~Collects(x, p)
  <2>1. z = y
    BY <1>3, <1>6 DEF AddXDS
  <2> QED BY <1>5, <2>1
<1>7. CASE Collects(x, p) /\ Len(y.buf) >= MaxPairs - 2
  <2>1. z = [y EXCEPT !.idle = TRUE, !.buf = <<>>]
    BY <1>3, <1>7 DEF AddXDS
  <2>2. z \in XType /\ z.buf = <<>> /\ z.cache = y.cache /\ z.list = y.list /\ z.sent = y.sent
    BY <1>2, <1>5, <2>1 DEF XType
  <2> QED BY <1>2, <1>5, <2>2 DEF DataInv
<1>8. CASE Collects(x, p) /\ ~(Len(y.buf) >= MaxPairs - 2)
  <2>1. PICK buf : buf = Append(y.buf, p)
    OBVIOUS
  <2>2. y.buf \in Seq(Codes) /\ Gathered(y.buf) /\ Len(y.buf) \in Nat
    BY <1>5 DEF DataInv, XType
  <2>3. /\ buf \in Seq(Codes) /\ Len(buf) = Len(y.buf) + 1 /\ buf[Len(buf)] = p
        /\ \A k \in 1..Len(y.buf) : buf[k] = y.buf[k]
    BY <2>1, <2>2
  <2>4. \A k \in 1..Len(buf) : k \in 1..Len(y.buf) \/ k = Len(buf)
    BY <2>2, <2>3
  <2>5. CASE p.code = "end"
    <3>1. z = Ended(y, buf, frame)
      BY <1>3, <1>8, <2>1, <2>5 DEF AddXDS
    <3>2. Packet(buf) /\ Complete(buf)
      <4>1. Len(buf) >= 1 /\ Complete(buf)
        BY <2>2, <2>3, <2>5 DEF Complete
      <4>2. \A k \in 1..Len(y.buf) : buf[k].code # "more" /\ buf[k].code # "end"
        BY <2>2, <2>3 DEF Gathered
      <4>3. \A k \in 1..Len(buf) : buf[k].code # "more" /\ (buf[k].code = "end" => k = Len(buf))
        BY <2>3, <2>4, <2>5, <4>2
      <4> QED BY <2>3, <4>1, <4>3 DEF Packet
    <3> QED BY <1>5, <3>1, <3>2, EndedKeeps
  <2>6. CASE p.code # "end"
    <3>1. z = [y EXCEPT !.buf = buf]
      BY <1>3, <1>8, <2>1, <2>6 DEF AddXDS
    <3>2. z \in XType /\ z.buf = buf /\ z.cache = y.cache /\ z.list = y.list /\ z.sent = y.sent
      BY <1>5, <2>3, <3>1 DEF XType
    <3>3. Gathered(buf)
      <4>1. \A k \in 1..Len(y.buf) : buf[k].code \notin {"end", "more"}
        BY <2>2, <2>3 DEF Gathered
      <4> QED BY <1>5, <1>8, <2>3, <2>4, <2>6, <4>1 DEF Gathered
    <3> QED BY <1>5, <3>2, <3>3 DEF DataInv
  <2> QED BY <2>5, <2>6
<1> QED BY <1>6, <1>7, <1>8

LEMMA NoDataInv == DataInv(XDS0)
<1>1. NoTitle \in TitleType
  BY DEF NoTitle, TitleType, NoData, Bytes
<1>2. XDS0 \in XType
  BY <1>1 DEF XDS0, XType
<1>3. CacheOK(XDS0.cache) /\ Remembers(XDS0.cache, XDS0.sent)
  BY CaptionAssumption DEF XDS0, CacheOK, Remembers
<1>4. Gathered(XDS0.buf) /\ Agrees(XDS0.list, XDS0.sent)
  BY <1>1 DEF XDS0, Gathered, Agrees
<1> QED BY <1>2, <1>3, <1>4 DEF DataInv

-----------------------------------------------------------------------------
(* The runs and the text of the captions. *)

RunType == [start : Nat, end : Int, type : Styles]
TextType == [start : Nat, end : Int, len : Nat, letter : BOOLEAN]

\* Runs in order, none beyond the frame.
RunsTo(row, frame) ==
  /\ row \in Seq(RunType) /\ Len(row) > 0
  /\ row[Len(row)].start <= frame /\ row[Len(row)].end <= frame
  /\ \A i \in 1..(Len(row) - 1) : row[i].end <= row[i + 1].start /\ row[i].start <= row[i + 1].start
\* Segments that have room for two characters more, and segments of which the newest has them.
Roomy(row) ==
  /\ row \in Seq(TextType) /\ Len(row) > 0
  /\ \A i \in 1..Len(row) : row[i].len <= MaxText + 2
Writable(row) == Roomy(row) /\ row[Len(row)].len <= MaxText

CapType ==
  [style : Styles, latest : Styles, screen : BOOLEAN, memory : BOOLEAN, runs : Seq(RunType),
   texts : Seq(TextType), lastcc : PairKinds, prevccData : Seq(Pair), xds : XType]
CapInv(c, frame) ==
  /\ c \in CapType /\ frame \in Nat
  /\ RunsTo(c.runs, frame) /\ c.runs[Len(c.runs)].type = c.style
  /\ Writable(c.texts)
  /\ DataInv(c.xds) /\ CodesIn(c.prevccData) \subseteq Codes

LEMMA RunEnded ==
  ASSUME NEW row \in Seq(RunType), Len(row) > 0, NEW end \in Int, NEW new, new = WithEnd(row, end)
  PROVE  /\ new \in Seq(RunType) /\ Len(new) = Len(row)
         /\ new[Len(row)] = [row[Len(row)] EXCEPT !.end = end]
         /\ \A i \in 1..(Len(row) - 1) : new[i] = row[i]
<1>1. PICK last : last = [row[Len(row)] EXCEPT !.end = end]
  OBVIOUS
<1>2. Len(row) \in Nat /\ Len(row) \in 1..Len(row) /\ row[Len(row)] \in RunType
  OBVIOUS
<1>3. last \in RunType
  BY <1>1, <1>2 DEF RunType
<1>4. new = [row EXCEPT ![Len(row)] = last]
  BY <1>1 DEF WithEnd
<1>5. /\ new \in Seq(RunType) /\ Len(new) = Len(row)
      /\ \A i \in 1..Len(row) : new[i] = IF i = Len(row) THEN last ELSE row[i]
  BY <1>2, <1>3, <1>4, ExceptSeq
<1>6. \A i \in 1..(Len(row) - 1) : i \in 1..Len(row) /\ i # Len(row)
  BY <1>2
<1> QED BY <1>1, <1>2, <1>5, <1>6

\* The run whose end is set stays in its place.
LEMMA EndedFits ==
  ASSUME NEW frame \in Nat, NEW row, RunsTo(row, frame), NEW end \in Int, end <= frame, NEW new, new = WithEnd(row, end)
  PROVE  RunsTo(new, frame) /\ Len(new) = Len(row) /\ new[Len(new)].type = row[Len(row)].type
<1>1. row \in Seq(RunType) /\ Len(row) \in Nat /\ Len(row) > 0 /\ row[Len(row)] \in RunType
  BY DEF RunsTo
<1>2. /\ new \in Seq(RunType) /\ Len(new) = Len(row)
      /\ new[Len(row)] = [row[Len(row)] EXCEPT !.end = end]
      /\ \A i \in 1..(Len(row) - 1) : new[i] = row[i]
  BY <1>1, RunEnded
<1>3. /\ new[Len(row)].start = row[Len(row)].start /\ new[Len(row)].type = row[Len(row)].type
      /\ new[Len(row)].end = end
  BY <1>1, <1>2 DEF RunType
<1>4. ASSUME NEW i \in 1..(Len(new) - 1)
      PROVE  new[i].end <= new[i + 1].start /\ new[i].start <= new[i + 1].start
  <2>1. i \in 1..(Len(row) - 1) /\ (i + 1 \in 1..(Len(row) - 1) \/ i + 1 = Len(row))
    BY <1>1, <1>2
  <2>2. new[i] = row[i] /\ new[i + 1].start = row[i + 1].start
    BY <1>2, <1>3, <2>1
  <2> QED BY <2>1, <2>2 DEF RunsTo
<1> QED BY <1>1, <1>2, <1>3, <1>4 DEF RunsTo

LEMMA RunIs ==
  ASSUME NEW frame \in Nat, NEW type \in Styles
  PROVE  LET next == Run(frame, -1, type)
         IN  next \in RunType /\ next.start = frame /\ next.end = -1 /\ next.type = type
BY DEF Run, RunType

\* A run after those before.
LEMMA RunAdded ==
  ASSUME NEW frame \in Nat, NEW row, RunsTo(row, frame),
         NEW next \in RunType, next.start = frame, next.end = -1
  PROVE  RunsTo(Append(row, next), frame) /\ Append(row, next)[Len(Append(row, next))] = next
<1> DEFINE new == Append(row, next)
<1>1. row \in Seq(RunType) /\ Len(row) \in Nat /\ Len(row) > 0
  BY DEF RunsTo
<1>2. /\ new \in Seq(RunType) /\ Len(new) = Len(row) + 1 /\ new[Len(row) + 1] = next
      /\ \A i \in 1..Len(row) : new[i] = row[i]
  BY <1>1
<1> HIDE DEF new
<1>3. ASSUME NEW i \in 1..(Len(new) - 1)
      PROVE  new[i].end <= new[i + 1].start /\ new[i].start <= new[i + 1].start
  <2>1. i \in 1..Len(row) /\ (i = Len(row) \/ (i \in 1..(Len(row) - 1) /\ i + 1 \in 1..Len(row)))
    BY <1>1, <1>2
  <2>2. CASE i = Len(row)
    BY <1>2, <2>1, <2>2 DEF RunsTo
  <2>3. CASE i \in 1..(Len(row) - 1) /\ i + 1 \in 1..Len(row)
    BY <1>2, <2>1, <2>3 DEF RunsTo
  <2> QED BY <2>1, <2>2, <2>3
<1>4. -1 <= frame
  OBVIOUS
<1> QED BY <1>1, <1>2, <1>3, <1>4 DEF RunsTo, new

\* The runs but the last two.
LEMMA RunsCut ==
  ASSUME NEW frame \in Nat, NEW row, RunsTo(row, frame), Len(row) > 2, NEW new, new = SubSeq(row, 1, Len(row) - 2)
  PROVE  RunsTo(new, frame) /\ new[Len(new)] = row[Len(row) - 2]
<1>1. /\ row \in Seq(RunType) /\ Len(row) \in Nat
      /\ \A i \in 1..Len(row) : row[i] \in RunType /\ row[i].start \in Nat /\ row[i].end \in Int
  <2>1. row \in Seq(RunType)
    BY DEF RunsTo
  <2>2. ASSUME NEW i \in 1..Len(row) PROVE row[i] \in RunType /\ row[i].start \in Nat /\ row[i].end \in Int
    <3>1. row[i] \in RunType
      BY <2>1
    <3> QED BY <3>1 DEF RunType
  <2> QED BY <2>1, <2>2
<1>2. PICK n : n = Len(row) - 2
  OBVIOUS
<1>3. n \in Nat /\ n > 0 /\ n \in 1..(Len(row) - 1) /\ n + 1 \in 1..(Len(row) - 1) /\ n + 1 + 1 = Len(row)
  BY <1>1, <1>2
<1>4. new \in Seq(RunType) /\ Len(new) = n /\ \A i \in 1..n : new[i] = row[i]
  BY <1>1, <1>2, <1>3
<1>5. /\ row[n].end <= row[n + 1].start /\ row[n].start <= row[n + 1].start
      /\ row[n + 1].start <= row[n + 1 + 1].start /\ row[Len(row)].start <= frame
  BY <1>3 DEF RunsTo
<1>6. row[n].end <= frame /\ row[n].start <= frame
  <2>1. n \in 1..Len(row) /\ n + 1 \in 1..Len(row) /\ Len(row) \in 1..Len(row)
    BY <1>1, <1>3
  <2>2. /\ row[n].end \in Int /\ row[n].start \in Nat /\ row[n + 1].start \in Nat /\ row[Len(row)].start \in Nat
    BY <1>1, <2>1
  <2>3. row[n + 1].start <= row[Len(row)].start
    BY <1>3, <1>5
  <2>4. row[n].end <= row[n + 1].start /\ row[n].start <= row[n + 1].start /\ row[Len(row)].start <= frame
    BY <1>5
  <2>5. PICK first : first = row[n].start
    OBVIOUS
  <2>6. PICK ending : ending = row[n].end
    OBVIOUS
  <2>7. PICK second : second = row[n + 1].start
    OBVIOUS
  <2>8. PICK third : third = row[Len(row)].start
    OBVIOUS
  <2>9. first \in Nat /\ ending \in Int /\ second \in Nat /\ third \in Nat
    BY <2>2, <2>5, <2>6, <2>7, <2>8
  <2>10. ending <= second /\ first <= second /\ second <= third /\ third <= frame
    BY <2>3, <2>4, <2>5, <2>6, <2>7, <2>8
  <2>11. ending <= frame /\ first <= frame
    BY <2>9, <2>10
  <2> QED BY <2>5, <2>6, <2>11
<1>7. ASSUME NEW i \in 1..(n - 1)
      PROVE  new[i].end <= new[i + 1].start /\ new[i].start <= new[i + 1].start
  <2>1. i \in 1..n /\ i + 1 \in 1..n /\ i \in 1..(Len(row) - 1)
    BY <1>1, <1>2, <1>3
  <2> QED BY <1>4, <2>1 DEF RunsTo
<1>8. n \in 1..n
  BY <1>3
<1> QED BY <1>2, <1>3, <1>4, <1>6, <1>7, <1>8 DEF RunsTo

\* AddNewCCBlock keeps the runs in order, and the open one is of the style it is given.
LEMMA BlockAdded ==
  ASSUME NEW frame \in Nat, NEW row, RunsTo(row, frame), NEW type \in Styles
  PROVE  /\ RunsTo(AddNewCCBlock(row, frame, type), frame)
         /\ AddNewCCBlock(row, frame, type)[Len(AddNewCCBlock(row, frame, type))].type = type
<1> DEFINE new == AddNewCCBlock(row, frame, type)
<1>1. row \in Seq(RunType) /\ Len(row) \in Nat /\ Len(row) > 0 /\ frame <= frame /\ frame \in Int
  BY DEF RunsTo
<1> SUFFICES RunsTo(new, frame) /\ new[Len(new)].type = type
  OBVIOUS
<1> HIDE DEF new
<1>2. CASE row[Len(row)].type = type
  <2>1. new = WithEnd(row, frame)
    BY <1>2 DEF new, AddNewCCBlock, Last
  <2> QED BY <1>1, <1>2, <2>1, EndedFits
<1>3. CASE row[Len(row)].type # type /\ row[Len(row)].end = -1
  <2>1. new = Reopened(row, frame, type)
    BY <1>3 DEF new, AddNewCCBlock, Last
  <2>2. PICK before : before = WithEnd(row, frame - 1)
    OBVIOUS
  <2>3. RunsTo(before, frame)
    <3>1. frame - 1 \in Int /\ frame - 1 <= frame
      OBVIOUS
    <3> QED BY <2>2, <3>1, EndedFits
  <2>4. PICK next : next = Run(frame, -1, type)
    OBVIOUS
  <2>5. PICK closed : closed = Append(before, next)
    OBVIOUS
  <2>6. RunsTo(closed, frame) /\ closed[Len(closed)].type = type
    <3>1. next \in RunType /\ next.start = frame /\ next.end = -1 /\ next.type = type
      BY <2>4, RunIs
    <3>2. RunsTo(closed, frame) /\ closed[Len(closed)] = next
      BY <2>3, <2>5, <3>1, RunAdded
    <3> QED BY <3>1, <3>2
  <2>7. CASE new = closed
    BY <2>6, <2>7
  <2>8. CASE new # closed
    <3>1. /\ new = WithEnd(SubSeq(closed, 1, Len(closed) - 2), -1)
          /\ Len(closed) > 2 /\ closed[Len(closed)].type = closed[Len(closed) - 2].type
      BY <2>1, <2>2, <2>4, <2>5, <2>8 DEF Reopened
    <3>2. PICK cut : cut = SubSeq(closed, 1, Len(closed) - 2)
      OBVIOUS
    <3>3. RunsTo(cut, frame) /\ cut[Len(cut)] = closed[Len(closed) - 2]
      BY <2>6, <3>1, <3>2, RunsCut
    <3>4. -1 \in Int /\ -1 <= frame /\ new = WithEnd(cut, -1)
      BY <3>1, <3>2
    <3>5. RunsTo(new, frame) /\ new[Len(new)].type = cut[Len(cut)].type
      BY <3>3, <3>4, EndedFits
    <3> QED BY <2>6, <3>1, <3>3, <3>5
  <2> QED BY <2>7, <2>8
<1>4. CASE row[Len(row)].type # type /\ row[Len(row)].end # -1
  <2>1. PICK next : next = Run(frame, -1, type)
    OBVIOUS
  <2>2. next \in RunType /\ next.start = frame /\ next.end = -1 /\ next.type = type
    BY <2>1, RunIs
  <2>3. new = Append(row, next)
    BY <1>4, <2>1 DEF new, AddNewCCBlock, Last
  <2>4. RunsTo(new, frame) /\ new[Len(new)] = next
    BY <2>2, <2>3, RunAdded
  <2> QED BY <2>2, <2>4
<1> QED BY <1>2, <1>3, <1>4

\* A segment that is ended keeps its text.
LEMMA TextEnded ==
  ASSUME NEW row, Roomy(row), NEW end \in Int, NEW new, new = WithEnd(row, end)
  PROVE  Roomy(new) /\ Len(new) = Len(row) /\ \A i \in 1..Len(row) : new[i].len = row[i].len
<1>1. row \in Seq(TextType) /\ Len(row) \in Nat /\ Len(row) > 0 /\ Len(row) \in 1..Len(row) /\ row[Len(row)] \in TextType
  BY DEF Roomy
<1>2. PICK last : last = [row[Len(row)] EXCEPT !.end = end]
  OBVIOUS
<1>3. last \in TextType /\ last.len = row[Len(row)].len
  <2>1. PICK old : old = row[Len(row)]
    OBVIOUS
  <2>2. old \in TextType /\ old.start \in Nat /\ old.len \in Nat /\ old.letter \in BOOLEAN
    BY <1>1, <2>1 DEF TextType
  <2>3. last = [start |-> old.start, end |-> end, len |-> old.len, letter |-> old.letter]
    BY <1>2, <2>1, <2>2 DEF TextType
  <2> QED BY <2>1, <2>2, <2>3 DEF TextType
<1>4. new = [row EXCEPT ![Len(row)] = last]
  BY <1>2 DEF WithEnd
<1>5. /\ new \in Seq(TextType) /\ Len(new) = Len(row)
      /\ \A i \in 1..Len(row) : new[i] = IF i = Len(row) THEN last ELSE row[i]
  BY <1>1, <1>3, <1>4, ExceptSeq
<1>6. \A i \in 1..Len(row) : new[i].len = row[i].len
  BY <1>3, <1>5
<1> QED BY <1>1, <1>5, <1>6 DEF Roomy

\* A new segment is empty.
LEMMA TextStarted ==
  ASSUME NEW row, Roomy(row), NEW frame \in Nat, NEW new, new = NewText(row, frame)
  PROVE  Writable(new) /\ new[Len(new)].len = 0
<1>1. row \in Seq(TextType) /\ Len(row) \in Nat /\ Len(row) > 0
  BY DEF Roomy
<1>2. PICK before : before = WithEnd(row, frame - 1)
  OBVIOUS
<1>3. Roomy(before) /\ Len(before) = Len(row) /\ before \in Seq(TextType)
  <2>1. frame - 1 \in Int
    OBVIOUS
  <2> QED BY <1>2, <2>1, TextEnded DEF Roomy
<1>7. PICK next : next = Text(frame, 0, 0, FALSE)
  OBVIOUS
<1>8. next \in TextType /\ next.len = 0
  BY <1>7 DEF Text, TextType
<1>9. new = Append(before, next)
  BY <1>2, <1>7 DEF NewText
<1>10. /\ new \in Seq(TextType) /\ Len(new) = Len(row) + 1 /\ new[Len(row) + 1] = next
       /\ \A i \in 1..Len(row) : new[i] = before[i]
  BY <1>3, <1>8, <1>9
<1>11. MaxText \in Nat /\ 0 <= MaxText /\ 0 <= MaxText + 2
  BY CaptionAssumption
<1>12. \A i \in 1..Len(new) : i = Len(row) + 1 \/ i \in 1..Len(row)
  BY <1>1, <1>10
<1>13. \A i \in 1..Len(row) : before[i].len <= MaxText + 2
  BY <1>3 DEF Roomy
<1>14. \A i \in 1..Len(new) : new[i].len <= MaxText + 2
  BY <1>8, <1>10, <1>11, <1>12, <1>13
<1> QED BY <1>1, <1>8, <1>10, <1>11, <1>14 DEF Roomy, Writable

\* Characters go to the newest segment.
LEMMA TextTyped ==
  ASSUME NEW row, Roomy(row), NEW chars \in Nat, NEW letter \in BOOLEAN, row[Len(row)].len + chars <= MaxText + 2,
         NEW new, new = Typed(row, chars, letter)
  PROVE  Roomy(new) /\ Len(new) = Len(row) /\ new[Len(new)].len = row[Len(row)].len + chars
<1>1. row \in Seq(TextType) /\ Len(row) \in Nat /\ Len(row) > 0 /\ Len(row) \in 1..Len(row) /\ row[Len(row)] \in TextType
  BY DEF Roomy
<1>2. PICK old : old = row[Len(row)]
  OBVIOUS
<1>3. PICK last : last = Text(old.start, old.end, old.len + chars, letter)
  OBVIOUS
<1>4. last \in TextType /\ last.len = old.len + chars
  <2>1. old.start \in Nat /\ old.end \in Int /\ old.len + chars \in Nat
    BY <1>1, <1>2 DEF TextType
  <2> QED BY <1>3, <2>1 DEF Text, TextType
<1>5. new = [row EXCEPT ![Len(row)] = last]
  BY <1>2, <1>3 DEF Typed, Last
<1>6. /\ new \in Seq(TextType) /\ Len(new) = Len(row)
      /\ \A i \in 1..Len(row) : new[i] = IF i = Len(row) THEN last ELSE row[i]
  BY <1>1, <1>4, <1>5, ExceptSeq
<1>7. \A i \in 1..Len(new) : new[i].len <= MaxText + 2
  BY <1>2, <1>4, <1>6 DEF Roomy
<1> QED BY <1>1, <1>2, <1>4, <1>6, <1>7 DEF Roomy

-----------------------------------------------------------------------------
(* The commands. *)

\* What the fields of the caption state are.
LEMMA CapFields ==
  ASSUME NEW c, NEW frame, CapInv(c, frame)
  PROVE  /\ c.style \in Styles /\ c.latest \in Styles /\ c.screen \in BOOLEAN /\ c.memory \in BOOLEAN
         /\ c.runs \in Seq(RunType) /\ c.texts \in Seq(TextType) /\ c.lastcc \in PairKinds
         /\ c.prevccData \in Seq(Pair) /\ c.xds \in XType
BY DEF CapInv, CapType

\* Later, nothing but the frame has changed.
LEMMA CapLater ==
  ASSUME NEW c, NEW frame, CapInv(c, frame), NEW later \in Nat, frame <= later
  PROVE  CapInv(c, later)
<1>1. /\ c.runs \in Seq(RunType) /\ Len(c.runs) > 0 /\ Len(c.runs) \in 1..Len(c.runs) /\ frame \in Nat
      /\ c.runs[Len(c.runs)].start <= frame /\ c.runs[Len(c.runs)].end <= frame
  BY DEF CapInv, RunsTo
<1>2. c.runs[Len(c.runs)] \in RunType
  BY <1>1
<1>3. c.runs[Len(c.runs)].start \in Nat /\ c.runs[Len(c.runs)].end \in Int
  BY <1>2 DEF RunType
<1>4. c.runs[Len(c.runs)].start <= later /\ c.runs[Len(c.runs)].end <= later
  BY <1>1, <1>3
<1>5. RunsTo(c.runs, later)
  BY <1>4 DEF CapInv, RunsTo
<1> QED BY <1>5 DEF CapInv

\* A new run and a new segment.
Restyled(c, frame, shown, kept, type, kind) ==
  [c EXCEPT !.screen = shown, !.memory = kept, !.style = type, !.latest = kind,
            !.runs = AddNewCCBlock(c.runs, frame, type), !.texts = NewText(c.texts, frame)]

LEMMA RestyledKeeps ==
  ASSUME NEW c, NEW frame, CapInv(c, frame), NEW type \in Styles, NEW kind \in Styles, NEW shown \in BOOLEAN, NEW kept \in BOOLEAN
  PROVE  CapInv(Restyled(c, frame, shown, kept, type, kind), frame)
<1>1. frame \in Nat /\ RunsTo(c.runs, frame) /\ Roomy(c.texts) /\ c \in CapType
  BY DEF CapInv, Writable
<1>2. PICK row : row = AddNewCCBlock(c.runs, frame, type)
  OBVIOUS
<1>3. RunsTo(row, frame) /\ row[Len(row)].type = type
  <2>1. frame \in Nat /\ RunsTo(c.runs, frame)
    BY <1>1
  <2>2. RunsTo(AddNewCCBlock(c.runs, frame, type), frame)
    BY <2>1, BlockAdded
  <2>3. AddNewCCBlock(c.runs, frame, type)[Len(AddNewCCBlock(c.runs, frame, type))].type = type
    BY <2>1, BlockAdded
  <2> QED BY <1>2, <2>2, <2>3
<1>4. PICK written : written = NewText(c.texts, frame)
  OBVIOUS
<1>5. Writable(written)
  BY <1>1, <1>4, TextStarted
<1>6. row \in Seq(RunType) /\ written \in Seq(TextType)
  BY <1>3, <1>5 DEF RunsTo, Writable, Roomy
<1>7. PICK d : d = Restyled(c, frame, shown, kept, type, kind)
  OBVIOUS
<1>8. d = [c EXCEPT !.screen = shown, !.memory = kept, !.style = type, !.latest = kind, !.runs = row, !.texts = written]
  BY <1>2, <1>4, <1>7 DEF Restyled
<1>9. /\ d \in CapType /\ d.runs = row /\ d.texts = written /\ d.style = type
      /\ d.xds = c.xds /\ d.prevccData = c.prevccData
  BY <1>1, <1>6, <1>8 DEF CapType
<1>10. CapInv(d, frame)
  BY <1>3, <1>5, <1>9 DEF CapInv
<1> QED BY <1>7, <1>10

\* New text only.
LEMMA Rewritten ==
  ASSUME NEW c, NEW frame, CapInv(c, frame), NEW written, Writable(written), NEW d, d = [c EXCEPT !.texts = written]
  PROVE  CapInv(d, frame)
<1>1. c \in CapType /\ written \in Seq(TextType)
  BY DEF CapInv, Writable, Roomy
<1>2. /\ d \in CapType /\ d.runs = c.runs /\ d.texts = written /\ d.style = c.style
      /\ d.xds = c.xds /\ d.prevccData = c.prevccData
  BY <1>1 DEF CapType
<1> QED BY <1>2 DEF CapInv

\* A command.
LEMMA CommandedKeeps ==
  ASSUME NEW c, NEW frame, CapInv(c, frame), NEW pair, NEW d, d = Commanded(c, pair, frame)
  PROVE  CapInv(d, frame)
<1>1. /\ frame \in Nat /\ c \in CapType /\ Writable(c.texts) /\ Roomy(c.texts)
      /\ c.style \in Styles /\ c.latest \in Styles /\ c.screen \in BOOLEAN /\ c.memory \in BOOLEAN
  BY CapFields DEF CapInv, Writable
<1>2. CASE pair \in {"load", "roll", "direct"}
  <2>1. PICK type : type = StyleOf(pair)
    OBVIOUS
  <2>2. type \in Styles
    BY <1>2, <2>1 DEF StyleOf, Styles
  <2>3. d = [c EXCEPT !.style = type, !.latest = type, !.runs = AddNewCCBlock(c.runs, frame, type),
                      !.texts = NewText(c.texts, frame)]
    BY <1>2, <2>1 DEF Commanded
  <2>4. d = Restyled(c, frame, c.screen, c.memory, type, type)
    BY <1>1, <2>3 DEF CapType, Restyled
  <2> QED BY <1>1, <2>2, <2>4, RestyledKeeps
<1>3. CASE pair = "erase"
  <2>1. d = [c EXCEPT !.screen = FALSE, !.style = "none", !.runs = AddNewCCBlock(c.runs, frame, "none"),
                      !.texts = NewText(c.texts, frame)]
    BY <1>3 DEF Commanded
  <2>2. PICK type : type = "none"
    OBVIOUS
  <2>3. d = Restyled(c, frame, FALSE, c.memory, type, c.latest)
    BY <1>1, <2>1, <2>2 DEF CapType, Restyled
  <2>4. type \in Styles /\ FALSE \in BOOLEAN
    BY <2>2 DEF Styles
  <2> QED BY <1>1, <2>3, <2>4, RestyledKeeps
<1>4. CASE pair = "flip"
  <2>1. d = Flipped(c, frame)
    BY <1>4 DEF Commanded
  <2>2. PICK type : type = IF ~c.memory THEN "none"
                           ELSE IF Len(c.runs) > 1 /\ Last(c.runs).type = "none" THEN c.latest ELSE c.style
    OBVIOUS
  <2>3. type \in Styles
    BY <1>1, <2>2 DEF Styles
  <2>4. d = [c EXCEPT !.screen = c.memory, !.memory = c.screen, !.style = type,
                      !.runs = AddNewCCBlock(c.runs, frame, type), !.texts = NewText(c.texts, frame)]
    BY <2>1, <2>2 DEF Flipped
  <2>5. d = Restyled(c, frame, c.memory, c.screen, type, c.latest)
    BY <1>1, <2>4 DEF CapType, Restyled
  <2> QED BY <1>1, <2>3, <2>5, RestyledKeeps
<1>5. CASE pair = "forget"
  <2>1. d = [c EXCEPT !.memory = FALSE]
    BY <1>5 DEF Commanded
  <2>2. /\ d \in CapType /\ d.runs = c.runs /\ d.texts = c.texts /\ d.style = c.style
        /\ d.xds = c.xds /\ d.prevccData = c.prevccData
    BY <1>1, <2>1 DEF CapType
  <2> QED BY <2>2 DEF CapInv
<1>6. CASE pair \in {"line", "odd"}
  <2>1. d = Spaced(c, frame)
    BY <1>6 DEF Commanded
  <2>2. PICK row : row = IF Last(c.texts).len > LongText THEN NewText(c.texts, frame) ELSE c.texts
    OBVIOUS
  <2>3. PICK written : written = Typed(row, 1, FALSE)
    OBVIOUS
  <2>4. d = [c EXCEPT !.texts = written]
    BY <2>1, <2>2, <2>3 DEF Spaced
  <2>5. Roomy(row) /\ row[Len(row)].len \in Nat /\ row[Len(row)].len <= LongText
    <3>1. c.texts \in Seq(TextType) /\ Len(c.texts) \in Nat /\ Len(c.texts) > 0
      BY <1>1 DEF Roomy
    <3>2. c.texts[Len(c.texts)] \in TextType
      BY <3>1
    <3>3. c.texts[Len(c.texts)].len \in Nat /\ LongText \in Nat
      BY <3>2, CaptionAssumption DEF TextType
    <3>4. CASE c.texts[Len(c.texts)].len > LongText
      <4>1. row = NewText(c.texts, frame)
        BY <2>2, <3>4 DEF Last
      <4>2. Writable(row) /\ row[Len(row)].len = 0
        BY <1>1, <4>1, TextStarted
      <4> QED BY <3>3, <4>2 DEF Writable
    <3>5. CASE ~(c.texts[Len(c.texts)].len > LongText)
      <4>1. row = c.texts
        BY <2>2, <3>5 DEF Last
      <4> QED BY <1>1, <3>3, <3>5, <4>1
    <3> QED BY <3>4, <3>5
  <2>6. row[Len(row)].len + 1 <= MaxText
    BY <2>5, CaptionAssumption
  <2>7. Roomy(written) /\ written[Len(written)].len = row[Len(row)].len + 1
    <3>1. row[Len(row)].len + 1 <= MaxText + 2 /\ 1 \in Nat /\ FALSE \in BOOLEAN
      BY <2>5, <2>6, CaptionAssumption
    <3> QED BY <2>3, <2>5, <3>1, TextTyped
  <2>8. Writable(written)
    BY <2>6, <2>7 DEF Writable
  <2> QED BY <2>4, <2>8, Rewritten
<1>7. CASE pair \notin {"load", "roll", "direct", "erase", "flip", "forget", "line", "odd"}
  <2>1. d = c
    BY <1>7 DEF Commanded
  <2> QED BY <2>1
<1> QED BY <1>2, <1>3, <1>4, <1>5, <1>6, <1>7

\* Two characters at most go to the newest segment, which has room for them.
LEMMA WithTextKeeps ==
  ASSUME NEW c, NEW frame, CapInv(c, frame), NEW pair \in {"letters", "sign"}
  PROVE  LET d == WithText(c, pair)
         IN  /\ d \in CapType /\ d.runs = c.runs /\ d.style = c.style /\ d.xds = c.xds
             /\ d.prevccData = c.prevccData /\ Roomy(d.texts)
<1>1. c \in CapType /\ Writable(c.texts) /\ Roomy(c.texts)
  BY DEF CapInv, Writable
<1>2. PICK chars : chars = IF pair = "letters" THEN 2 ELSE 1
  OBVIOUS
<1>3. PICK letter \in BOOLEAN : letter = (pair = "letters")
  OBVIOUS
<1>4. PICK by : by = IF pair = "letters" THEN {c.style, c.latest} ELSE {c.style}
  OBVIOUS
<1>5. PICK shown \in BOOLEAN : shown = (c.screen \/ by \cap {"rollup", "painton"} # {})
  OBVIOUS
<1>6. PICK kept \in BOOLEAN : kept = (c.memory \/ "popon" \in by)
  OBVIOUS
<1>7. PICK written : written = Typed(c.texts, chars, letter)
  OBVIOUS
<1>8. Roomy(written)
  <2>1. PICK row : row = c.texts
    OBVIOUS
  <2>2. row \in Seq(TextType) /\ Len(row) > 0 /\ row[Len(row)] \in TextType
    BY <1>1, <2>1 DEF Roomy
  <2>3. row[Len(row)].len \in Nat /\ row[Len(row)].len <= MaxText /\ MaxText \in Nat
    BY <1>1, <2>1, <2>2, CaptionAssumption DEF TextType, Writable
  <2>4. chars \in Nat /\ row[Len(row)].len + chars <= MaxText + 2
    BY <1>2, <2>3
  <2> QED BY <1>1, <1>7, <2>1, <2>4, TextTyped
<1>9. PICK d : d = WithText(c, pair)
  OBVIOUS
<1>10. d = [c EXCEPT !.screen = shown, !.memory = kept, !.texts = written]
  BY <1>2, <1>3, <1>4, <1>5, <1>6, <1>7, <1>9 DEF WithText
<1>11. written \in Seq(TextType)
  BY <1>8 DEF Roomy
<1>12. /\ d \in CapType /\ d.runs = c.runs /\ d.style = c.style /\ d.xds = c.xds
       /\ d.prevccData = c.prevccData /\ d.texts = written
  BY <1>1, <1>10, <1>11 DEF CapType
<1> QED BY <1>8, <1>9, <1>12

\* AddCC: a segment that is full is split before the next characters come.
LEMMA AddCCKeeps ==
  ASSUME NEW c, NEW now \in Nat, CapInv(c, now + 1), NEW pair \in PairKinds
  PROVE  CapInv(AddCC(c, pair, now), now + 1)
<1>1. PICK frame : frame = now + 1
  OBVIOUS
<1>2. PICK typed : typed = IF pair \in {"letters", "sign"} THEN WithText(c, pair) ELSE c
  OBVIOUS
<1>3. PICK split : split = IF IsFull(Last(typed.texts)) THEN [typed EXCEPT !.texts = NewText(typed.texts, frame)] ELSE typed
  OBVIOUS
<1>4. /\ CapInv(c, frame) /\ frame \in Nat /\ c \in CapType /\ Roomy(c.texts)
      /\ RunsTo(c.runs, frame) /\ c.runs[Len(c.runs)].type = c.style
      /\ DataInv(c.xds) /\ CodesIn(c.prevccData) \subseteq Codes
  BY <1>1 DEF CapInv, Writable
<1>5. /\ typed \in CapType /\ typed.runs = c.runs /\ typed.style = c.style /\ typed.xds = c.xds
      /\ typed.prevccData = c.prevccData /\ Roomy(typed.texts)
  <2>1. CASE pair \in {"letters", "sign"}
    BY <1>2, <1>4, <2>1, WithTextKeeps
  <2>2. CASE pair \notin {"letters", "sign"}
    BY <1>2, <1>4, <2>2
  <2> QED BY <2>1, <2>2
<1>6. CapInv(split, frame)
  <2>1. typed.texts \in Seq(TextType) /\ Len(typed.texts) \in Nat /\ Len(typed.texts) > 0
    BY <1>5 DEF Roomy
  <2>2. CASE IsFull(Last(typed.texts))
    <3>1. PICK written : written = NewText(typed.texts, frame)
      OBVIOUS
    <3>2. Writable(written) /\ written \in Seq(TextType)
      <4>1. Writable(written)
        BY <1>4, <1>5, <3>1, TextStarted
      <4> QED BY <4>1 DEF Writable, Roomy
    <3>3. split = [typed EXCEPT !.texts = written]
      BY <1>3, <2>2, <3>1
    <3>4. /\ split \in CapType /\ split.runs = typed.runs /\ split.style = typed.style /\ split.xds = typed.xds
          /\ split.prevccData = typed.prevccData /\ split.texts = written
      BY <1>5, <3>2, <3>3 DEF CapType
    <3> QED BY <1>4, <1>5, <3>2, <3>4 DEF CapInv
  <2>3. CASE ~IsFull(Last(typed.texts))
    <3>1. split = typed
      BY <1>3, <2>3
    <3>2. typed.texts[Len(typed.texts)] \in TextType
      BY <2>1
    <3>3. typed.texts[Len(typed.texts)].len <= MaxText
      <4>1. typed.texts[Len(typed.texts)].len \in Nat /\ MaxText \in Nat
        BY <3>2, CaptionAssumption DEF TextType
      <4>2. ~(typed.texts[Len(typed.texts)].len > MaxText)
        BY <2>3 DEF IsFull, Last
      <4> QED BY <4>1, <4>2
    <3>4. Writable(split.texts)
      BY <1>5, <3>1, <3>3 DEF Writable
    <3> QED BY <1>4, <1>5, <3>1, <3>4 DEF CapInv
  <2> QED BY <2>2, <2>3
<1>7. PICK new : new = AddCC(c, pair, now)
  OBVIOUS
<1>8. CASE pair = "pad"
  <2>1. new = c
    BY <1>7, <1>8 DEF AddCC
  <2> QED BY <1>1, <1>4, <1>7, <2>1
<1>9. CASE pair # "pad" /\ pair \in Commands /\ pair = c.lastcc
  <2>1. new = split
    BY <1>1, <1>2, <1>3, <1>7, <1>9 DEF AddCC
  <2> QED BY <1>1, <1>6, <1>7, <2>1
<1>10. CASE pair # "pad" /\ ~(pair \in Commands /\ pair = c.lastcc)
  <2>1. PICK done : done = Commanded(split, pair, frame)
    OBVIOUS
  <2>2. CapInv(done, frame)
    BY <1>6, <2>1, CommandedKeeps
  <2>3. new = [done EXCEPT !.lastcc = pair]
    BY <1>1, <1>2, <1>3, <1>7, <1>10, <2>1 DEF AddCC
  <2>4. /\ new \in CapType /\ new.runs = done.runs /\ new.style = done.style /\ new.xds = done.xds
        /\ new.prevccData = done.prevccData /\ new.texts = done.texts
    BY <2>2, <2>3 DEF CapInv, CapType
  <2>5. CapInv(new, frame)
    BY <2>2, <2>4 DEF CapInv
  <2> QED BY <1>1, <1>7, <2>5
<1> QED BY <1>8, <1>9, <1>10

\* A pair of either field.
LEMMA AddPairKeeps ==
  ASSUME NEW c, NEW now \in Nat, CapInv(c, now + 1), NEW q \in Pair, q.field = 2 => q.xds \in Codes
  PROVE  CapInv(AddPair(c, q, now), now + 1)
<1>1. CASE q.field = 1
  <2>1. PICK pair : pair = IF q.pair = "bad" THEN "pad" ELSE q.pair
    OBVIOUS
  <2>2. pair \in PairKinds
    <3>1. q \in [field : {1, 3}, pair : PairKinds]
      BY <1>1 DEF Pair
    <3>2. q.pair \in PairKinds
      BY <3>1
    <3>3. CASE q.pair = "bad"
      BY <2>1, <3>3 DEF PairKinds
    <3>4. CASE q.pair # "bad"
      BY <2>1, <3>2, <3>4
    <3> QED BY <3>3, <3>4
  <2>3. AddPair(c, q, now) = AddCC(c, pair, now)
    BY <1>1, <2>1 DEF AddPair
  <2> QED BY <2>2, <2>3, AddCCKeeps
<1>2. CASE q.field = 2
  <2>1. PICK x : x = AddXDS(c.xds, q.xds, now)
    OBVIOUS
  <2>2. PICK d : d = [c EXCEPT !.xds = x]
    OBVIOUS
  <2>3. DataInv(x) /\ x \in XType
    <3>1. DataInv(c.xds) /\ q.xds \in Codes
      BY <1>2 DEF CapInv
    <3>2. DataInv(x)
      BY <2>1, <3>1, AddXDSKeeps
    <3> QED BY <3>2 DEF DataInv
  <2>4. /\ d \in CapType /\ d.runs = c.runs /\ d.style = c.style /\ d.xds = x
        /\ d.prevccData = c.prevccData /\ d.texts = c.texts
    BY <2>2, <2>3 DEF CapInv, CapType
  <2>5. CapInv(d, now + 1)
    BY <2>3, <2>4 DEF CapInv
  <2>6. AddPair(c, q, now) = d
    BY <1>2, <2>1, <2>2 DEF AddPair
  <2> QED BY <2>5, <2>6
<1>3. CASE q.field # 1 /\ q.field # 2
  <2>1. AddPair(c, q, now) = c
    BY <1>3 DEF AddPair
  <2> QED BY <2>1
<1> QED BY <1>1, <1>2, <1>3

-----------------------------------------------------------------------------
(* Packets. *)

PairsOK(pairs) == pairs \in Seq(Pair) /\ CodesIn(pairs) \subseteq Codes

LEMMA PairIs ==
  ASSUME NEW pairs, PairsOK(pairs), NEW n \in 1..Len(pairs)
  PROVE  pairs[n] \in Pair /\ (pairs[n].field = 2 => pairs[n].xds \in Codes)
<1>1. pairs[n] \in Pair /\ n \in DOMAIN pairs
  BY DEF PairsOK
<1>2. pairs[n].field = 2 => pairs[n].xds \in CodesIn(pairs)
  BY <1>1 DEF CodesIn
<1> QED BY <1>1, <1>2 DEF PairsOK

\* The first n pairs of a packet, one after another.
AddedOn(c, pairs, now, n, before) == IF n = 0 THEN c ELSE AddPair(before, pairs[n], now)
AddedTo(f, c, pairs, now, n) == f = [k \in 0..n |-> AddedOn(c, pairs, now, k, f[k - 1])]

LEMMA AddedFirst ==
  ASSUME NEW c, NEW pairs, NEW now, NEW before
  PROVE  AddedOn(c, pairs, now, 0, before) = c
BY DEF AddedOn

LEMMA AddedExists ==
  ASSUME NEW c, NEW pairs, NEW now, NEW N0 \in Nat
  PROVE  \E f : AddedTo(f, c, pairs, now, N0)
<1> DEFINE missing == {k \in Nat : ~\E f : AddedTo(f, c, pairs, now, k)}
<1> SUFFICES ASSUME missing # {} PROVE FALSE
  OBVIOUS
<1>1. PICK k \in missing : \A n \in missing : k <= n
  <2>1. missing \in SUBSET Nat
    OBVIOUS
  <2> HIDE DEF missing
  <2> QED BY <2>1, LeastNatural
<1>2. k \in Nat
  BY <1>1
<1>3. CASE k = 0
  <2> DEFINE f == [x \in 0..0 |-> c]
  <2>1. \A x \in 0..0 : x = 0
    OBVIOUS
  <2>2. \A x \in 0..0 : AddedOn(c, pairs, now, x, f[x - 1]) = c
    BY <2>1, AddedFirst
  <2>3. f = [x \in 0..0 |-> AddedOn(c, pairs, now, x, f[x - 1])]
    BY <2>2
  <2>4. AddedTo(f, c, pairs, now, 0)
    BY <2>3 DEF AddedTo
  <2> QED BY <1>1, <1>3, <2>4
<1>4. CASE k # 0
  <2>1. k - 1 \in Nat /\ k - 1 \notin missing
    <3>1. k - 1 \in Nat /\ ~(k <= k - 1)
      BY <1>2, <1>4
    <3> HIDE DEF missing
    <3> QED BY <1>1, <3>1
  <2>2. PICK g : AddedTo(g, c, pairs, now, k - 1)
    BY <2>1
  <2> DEFINE h == [x \in 0..k |-> AddedOn(c, pairs, now, x, g[x - 1])]
  <2>3. \A x \in 0..(k - 1) : h[x] = g[x]
    <3>1. \A x \in 0..(k - 1) : x \in 0..k
      BY <1>2
    <3>2. \A x \in 0..(k - 1) : g[x] = AddedOn(c, pairs, now, x, g[x - 1])
      BY <2>2 DEF AddedTo
    <3> QED BY <3>1, <3>2
  <2>4. \A x \in 0..k : x = 0 \/ h[x - 1] = g[x - 1]
    <3>1. \A x \in 0..k : x = 0 \/ x - 1 \in 0..(k - 1)
      BY <1>2
    <3> HIDE DEF h
    <3> QED BY <2>3, <3>1
  <2>5. \A x \in 0..k : AddedOn(c, pairs, now, x, g[x - 1]) = AddedOn(c, pairs, now, x, h[x - 1])
    <3> HIDE DEF h
    <3> QED BY <2>4, AddedFirst
  <2>6. h = [x \in 0..k |-> AddedOn(c, pairs, now, x, h[x - 1])]
    <3> DEFINE other == [x \in 0..k |-> AddedOn(c, pairs, now, x, h[x - 1])]
    <3>1. h = other
      BY <2>5
    <3> QED BY <3>1
  <2>7. AddedTo(h, c, pairs, now, k)
    BY <2>6 DEF AddedTo
  <2> QED BY <1>1, <2>7
<1> QED BY <1>3, <1>4

LEMMA AddAllKeeps ==
  ASSUME NEW c, NEW now \in Nat, CapInv(c, now + 1), NEW pairs, PairsOK(pairs)
  PROVE  CapInv(AddAll(c, pairs, now), now + 1)
<1>1. Len(pairs) \in Nat
  BY DEF PairsOK
<1> DEFINE after == CHOOSE f : f = [n \in 0..Len(pairs) |-> IF n = 0 THEN c ELSE AddPair(f[n - 1], pairs[n], now)]
<1>2. AddAll(c, pairs, now) = after[Len(pairs)]
  BY DEF AddAll
<1>3. after = [n \in 0..Len(pairs) |-> IF n = 0 THEN c ELSE AddPair(after[n - 1], pairs[n], now)]
  <2>1. PICK f : AddedTo(f, c, pairs, now, Len(pairs))
    BY <1>1, AddedExists
  <2>2. f = [n \in 0..Len(pairs) |-> IF n = 0 THEN c ELSE AddPair(f[n - 1], pairs[n], now)]
    BY <2>1 DEF AddedTo, AddedOn
  <2> QED BY <2>2
<1> HIDE DEF after
<1>4. /\ after[0] = c
      /\ \A n \in 1..Len(pairs) : after[n] = AddPair(after[n - 1], pairs[n], now)
  <2>1. 0 \in 0..Len(pairs) /\ \A n \in 1..Len(pairs) : n \in 0..Len(pairs) /\ n # 0
    BY <1>1
  <2> QED BY <1>3, <2>1
<1> DEFINE bad == {n \in 0..Len(pairs) : ~CapInv(after[n], now + 1)}
<1> SUFFICES bad = {}
  <2>1. Len(pairs) \in 0..Len(pairs)
    BY <1>1
  <2> QED BY <1>2, <2>1
<1> SUFFICES ASSUME bad # {} PROVE FALSE
  OBVIOUS
<1>5. PICK k \in bad : \A n \in bad : k <= n
  <2>1. bad \in SUBSET Nat
    BY <1>1
  <2> HIDE DEF bad
  <2> QED BY <2>1, LeastNatural
<1>6. k \in 0..Len(pairs) /\ ~CapInv(after[k], now + 1)
  BY <1>5
<1>7. k # 0
  BY <1>4, <1>6
<1>8. k \in 1..Len(pairs) /\ k - 1 \in 0..Len(pairs) /\ ~(k <= k - 1)
  BY <1>1, <1>6, <1>7
<1>9. k - 1 \notin bad
  <2> HIDE DEF bad
  <2> QED BY <1>5, <1>8
<1>10. CapInv(after[k - 1], now + 1)
  BY <1>8, <1>9
<1>11. pairs[k] \in Pair /\ (pairs[k].field = 2 => pairs[k].xds \in Codes)
  BY <1>8, PairIs
<1>12. CapInv(AddPair(after[k - 1], pairs[k], now), now + 1)
  BY <1>10, <1>11, AddPairKeeps
<1> QED BY <1>4, <1>6, <1>8, <1>12

\* What a packet of the recording carries.
LEMMA CarriesPairs ==
  ASSUME NEW m \in DOMAIN Mixes, NEW p \in Mixes[m]
  PROVE  p.form \in {"CC", "GA", "two", "four", "five"} /\ PairsOK(p.pairs)
<1>1. p.form \in {"CC", "GA", "two", "four", "five"} /\ p.pairs \in Seq(Pair)
  BY CaptionAssumption
<1>2. CodesIn(p.pairs) \subseteq Codes
  BY DEF Codes
<1> QED BY <1>1, <1>2 DEF PairsOK

LEMMA LookedKeeps ==
  ASSUME NEW pairs, PairsOK(pairs)
  PROVE  PairsOK(Looked(pairs))
<1>1. CASE Looked(pairs) = pairs
  BY <1>1
<1>2. CASE Looked(pairs) # pairs
  <2>1. Looked(pairs) = <<pairs[1]>> /\ Len(pairs) = 2
    BY <1>2 DEF Looked
  <2>2. pairs[1] \in Pair /\ (pairs[1].field = 2 => pairs[1].xds \in Codes)
    BY <2>1, PairIs
  <2>3. PICK q : q = pairs[1]
    OBVIOUS
  <2>4. <<q>> \in Seq(Pair) /\ DOMAIN <<q>> = {1} /\ <<q>>[1] = q
    BY <2>2, <2>3
  <2>5. CodesIn(<<q>>) \subseteq Codes
    BY <2>2, <2>3, <2>4 DEF CodesIn
  <2> QED BY <2>1, <2>3, <2>4, <2>5 DEF PairsOK
<1> QED BY <1>1, <1>2

\* A packet that is whole.
LEMMA ReceivedKeeps ==
  ASSUME NEW now \in Nat, CapInv(Now, now + 1), NEW p, p.form \in {"CC", "GA", "two", "four", "five"}, PairsOK(p.pairs)
  PROVE  CapInv(Received(p, now), now + 1)
<1>1. CASE p.form \in {"CC", "GA", "four"}
  <2>1. Received(p, now) = AddAll(Now, p.pairs, now)
    BY <1>1 DEF Received
  <2> QED BY <2>1, AddAllKeeps
<1>2. CASE p.form = "two"
  <2>1. Received(p, now) = AddAll(Now, Looked(p.pairs), now)
    BY <1>2 DEF Received
  <2>2. PairsOK(Looked(p.pairs))
    BY LookedKeeps
  <2> QED BY <2>1, <2>2, AddAllKeeps
<1>3. CASE p.form = "five"
  <2>1. PICK waiting : waiting = IF p.type = 2 THEN Looked(p.pairs) ELSE p.pairs
    OBVIOUS
  <2>2. PairsOK(waiting)
    BY <2>1, LookedKeeps
  <2>3. PICK c : c = AddAll(Now, prevccData, now)
    OBVIOUS
  <2>4. PairsOK(prevccData)
    BY DEF CapInv, CapType, PairsOK, Now
  <2>5. CapInv(c, now + 1)
    BY <2>3, <2>4, AddAllKeeps
  <2>6. PICK d : d = [c EXCEPT !.prevccData = waiting]
    OBVIOUS
  <2>7. Received(p, now) = d
    BY <1>3, <2>1, <2>3, <2>6 DEF Received
  <2>8. waiting \in Seq(Pair) /\ CodesIn(waiting) \subseteq Codes
    BY <2>2 DEF PairsOK
  <2>9. /\ d \in CapType /\ d.runs = c.runs /\ d.style = c.style /\ d.xds = c.xds
        /\ d.prevccData = waiting /\ d.texts = c.texts
    BY <2>5, <2>6, <2>8 DEF CapInv, CapType
  <2>10. CapInv(d, now + 1)
    BY <2>5, <2>8, <2>9 DEF CapInv
  <2> QED BY <2>7, <2>10
<1> QED BY <1>1, <1>2, <1>3

-----------------------------------------------------------------------------
\* What is always true of the captions.
CaptionInv ==
  /\ mix \in DOMAIN Mixes /\ framenum \in Nat
  /\ CapInv(Now, framenum)

LEMMA CaptionStarts == CaptionInit => CaptionInv
<1> SUFFICES ASSUME CaptionInit PROVE CaptionInv
  OBVIOUS
<1>1. /\ mix \in DOMAIN Mixes /\ framenum = 1
      /\ style = "none" /\ latest = "none" /\ screen = FALSE /\ memory = FALSE
      /\ runs = <<Run(0, -1, "none")>> /\ texts = <<Text(1, -1, 0, FALSE)>>
      /\ lastcc = "pad" /\ prevccData = <<>> /\ xds = XDS0
  BY DEF CaptionInit
<1>2. PICK first : first = Run(0, -1, "none")
  OBVIOUS
<1>3. first \in RunType /\ first.start = 0 /\ first.end = -1 /\ first.type = "none"
  BY <1>2 DEF Run, RunType, Styles
<1>4. RunsTo(runs, 1) /\ runs[Len(runs)].type = "none"
  <2>1. runs \in Seq(RunType) /\ Len(runs) = 1 /\ runs[1] = first /\ 1..(Len(runs) - 1) = {}
    BY <1>1, <1>2, <1>3
  <2> QED BY <1>3, <2>1 DEF RunsTo
<1>5. PICK empty : empty = Text(1, -1, 0, FALSE)
  OBVIOUS
<1>6. empty \in TextType /\ empty.len = 0
  BY <1>5 DEF Text, TextType
<1>7. Writable(texts)
  <2>1. texts = <<empty>>
    BY <1>1, <1>5
  <2>2. texts \in Seq(TextType) /\ Len(texts) = 1 /\ texts[1] = empty
    BY <1>6, <2>1
  <2>3. 0 <= MaxText /\ 0 <= MaxText + 2
    BY CaptionAssumption
  <2> QED BY <1>6, <2>2, <2>3 DEF Writable, Roomy
<1>8. DataInv(xds) /\ xds \in XType
  BY <1>1, NoDataInv DEF DataInv
<1>9. CodesIn(prevccData) \subseteq Codes /\ prevccData \in Seq(Pair)
  BY <1>1 DEF CodesIn
<1>10. Now \in CapType
  <2>1. runs \in Seq(RunType) /\ texts \in Seq(TextType)
    BY <1>4, <1>7 DEF RunsTo, Writable, Roomy
  <2>2. "none" \in Styles /\ "pad" \in PairKinds
    BY DEF Styles, PairKinds
  <2> QED BY <1>1, <1>8, <1>9, <2>1, <2>2 DEF Now, CapType
<1>11. CapInv(Now, 1)
  BY <1>1, <1>4, <1>7, <1>8, <1>9, <1>10 DEF CapInv, Now
<1> QED BY <1>1, <1>11 DEF CaptionInv

LEMMA CaptionSteps == CaptionInv /\ [CaptionNext]_captionVars => CaptionInv'
<1> SUFFICES ASSUME CaptionInv, [CaptionNext]_captionVars PROVE CaptionInv'
  OBVIOUS
<1>1. mix \in DOMAIN Mixes /\ framenum \in Nat /\ CapInv(Now, framenum)
  BY DEF CaptionInv
<1>2. ASSUME UNCHANGED <<framenum, mix, style, latest, screen, memory, runs, texts, lastcc, prevccData, xds>>
      PROVE  CaptionInv'
  <2>1. Now' = Now
    BY <1>2 DEF Now
  <2> QED BY <1>1, <1>2, <2>1 DEF CaptionInv
<1>3. CASE ProcessCCData
  <2>1. PICK p \in Mixes[mix] :
          LET c == IF p.whole THEN Received(p, framenum) ELSE Now
          IN /\ style' = c.style /\ latest' = c.latest /\ screen' = c.screen /\ memory' = c.memory
             /\ runs' = c.runs /\ texts' = c.texts /\ lastcc' = c.lastcc /\ prevccData' = c.prevccData /\ xds' = c.xds
    BY <1>3 DEF ProcessCCData
  <2>2. PICK c : c = IF p.whole THEN Received(p, framenum) ELSE Now
    OBVIOUS
  <2>3. CapInv(Now, framenum + 1)
    <3>1. framenum + 1 \in Nat /\ framenum <= framenum + 1
      BY <1>1
    <3> QED BY <1>1, <3>1, CapLater
  <2>4. CapInv(c, framenum + 1)
    <3>1. p.form \in {"CC", "GA", "two", "four", "five"} /\ PairsOK(p.pairs)
      BY <1>1, <2>1, CarriesPairs
    <3>2. ASSUME p.whole PROVE CapInv(Received(p, framenum), framenum + 1)
      <4>1. framenum \in Nat
        BY <1>1
      <4> QED BY <2>3, <3>1, <4>1, ReceivedKeeps
    <3> QED BY <2>2, <2>3, <3>2
  <2>5. Now' = c
    <3>1. c \in CapType
      BY <2>4 DEF CapInv
    <3>2. /\ style' = c.style /\ latest' = c.latest /\ screen' = c.screen /\ memory' = c.memory
          /\ runs' = c.runs /\ texts' = c.texts /\ lastcc' = c.lastcc /\ prevccData' = c.prevccData /\ xds' = c.xds
      BY <2>1, <2>2
    <3>3. Now' = [style |-> c.style, latest |-> c.latest, screen |-> c.screen, memory |-> c.memory, runs |-> c.runs,
                  texts |-> c.texts, lastcc |-> c.lastcc, prevccData |-> c.prevccData, xds |-> c.xds]
      BY <3>2 DEF Now
    <3> QED BY <3>1, <3>3 DEF CapType
  <2>6. framenum' = framenum + 1 /\ mix' = mix
    BY <1>3 DEF ProcessCCData
  <2> QED BY <1>1, <2>4, <2>5, <2>6 DEF CaptionInv
<1>4. CASE Classify \/ ProcessCCDict \/ CaptionsOver \/ UNCHANGED captionVars
  BY <1>2, <1>4 DEF Classify, ProcessCCDict, CaptionsOver, captionVars
<1>5. CASE CloseCaptions
  <2>1. /\ runs' = WithEnd(runs, CaptionFrames) /\ texts' = WithEnd(texts, CaptionFrames)
        /\ UNCHANGED <<mix, framenum, style, latest, screen, memory, lastcc, prevccData, xds>>
        /\ CaptionFrames \in Int /\ CaptionFrames <= framenum
    <3>1. CaptionFrames \in Nat /\ framenum > CaptionFrames
      BY <1>5, CaptionAssumption DEF CloseCaptions
    <3> QED BY <1>1, <1>5, <3>1 DEF CloseCaptions
  <2>2. /\ Now \in CapType /\ RunsTo(runs, framenum) /\ runs[Len(runs)].type = style /\ Writable(texts)
        /\ DataInv(xds) /\ CodesIn(prevccData) \subseteq Codes
    BY <1>1 DEF CapInv, Now
  <2>3. RunsTo(runs', framenum) /\ runs'[Len(runs')].type = style
    BY <1>1, <2>1, <2>2, EndedFits
  <2>4. Writable(texts')
    <3>1. Roomy(texts) /\ texts[Len(texts)].len <= MaxText /\ Len(texts) \in 1..Len(texts)
      BY <2>2 DEF Writable, Roomy
    <3>2. /\ Roomy(texts') /\ Len(texts') = Len(texts)
          /\ \A i \in 1..Len(texts) : texts'[i].len = texts[i].len
      BY <2>1, <3>1, TextEnded
    <3> QED BY <3>1, <3>2 DEF Writable
  <2>5. Now' \in CapType
    <3>1. runs' \in Seq(RunType) /\ texts' \in Seq(TextType)
      BY <2>3, <2>4 DEF RunsTo, Writable, Roomy
    <3>2. /\ style \in Styles /\ latest \in Styles /\ screen \in BOOLEAN /\ memory \in BOOLEAN
          /\ lastcc \in PairKinds /\ prevccData \in Seq(Pair) /\ xds \in XType
      BY <2>2 DEF Now, CapType
    <3> QED BY <2>1, <3>1, <3>2 DEF Now, CapType
  <2>6. CapInv(Now', framenum)
    BY <1>1, <2>1, <2>2, <2>3, <2>4, <2>5 DEF CapInv, Now
  <2> QED BY <1>1, <2>1, <2>6 DEF CaptionInv
<1> QED BY <1>3, <1>4, <1>5 DEF CaptionNext

\* A segment of text never outgrows its room, whatever pairs come; the open run is of the style the
\* commands have led to, and the runs are in order; and the programme list ends with the name and the
\* rating of the packet that came last, however packets were cut, repeated and cached.
THEOREM CaptionsAreSound == CaptionSpec => []CaptionsSound
<1>1. CaptionInv => CaptionsSound
  <2> SUFFICES ASSUME CaptionInv PROVE CaptionsSound
    OBVIOUS
  <2>1. /\ Writable(texts) /\ RunsTo(runs, framenum) /\ runs[Len(runs)].type = style /\ DataInv(xds)
    BY DEF CaptionInv, CapInv, Now
  <2>2. TextFits
    <3>1. /\ texts \in Seq(TextType) /\ DOMAIN texts = 1..Len(texts)
          /\ \A i \in 1..Len(texts) : texts[i].len <= MaxText + 2 /\ texts[i] \in TextType
      BY <2>1 DEF Writable, Roomy
    <3>2. \A i \in 1..Len(texts) : texts[i].len <= TextRoom
      BY <3>1, CaptionAssumption DEF TextType
    <3> QED BY <3>1, <3>2 DEF TextFits
  <2>3. RunsFollowStyle
    BY <2>1 DEF RunsFollowStyle, RunsTo, Last
  <2>4. DescriptionCurrent
    BY <2>1 DEF DescriptionCurrent, DataInv, Agrees, Last
  <2> QED BY <2>2, <2>3, <2>4 DEF CaptionsSound
<1> QED BY <1>1, CaptionStarts, CaptionSteps, PTL DEF CaptionSpec
=============================================================================
