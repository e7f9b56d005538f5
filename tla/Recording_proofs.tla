-------------------------- MODULE Recording_proofs --------------------------
(***************************************************************************)
(* Proofs about the parts of MCRecording.                                  *)
(*                                                                         *)
(* The reading loop: detection has everything up to the last frame it was  *)
(* given, the decoder is at the next frame, or the loop looks for a resume *)
(* point that is at most one frame late and is not yet past it.            *)
(*                                                                         *)
(* The scores: what rule 1 fills is supported on both sides, and a block   *)
(* that is weighed as show and long passes each rule.                      *)
(*                                                                         *)
(* The window: each key makes a list that fits of one that fits.           *)
(*                                                                         *)
(* The comparison: in each list the walk has a place, a range and whether  *)
(* it is inside it, and the next edge of that place.  Every turn passes    *)
(* the nearest edge, or both edges when they are near.  So what lies       *)
(* between two positions, away from edges, is inside a range of a list     *)
(* exactly when the walk is.                                               *)
(***************************************************************************)
EXTENDS MCRecording, SequenceTheorems, WellFoundedInduction, NaturalsInduction, TLAPS

\* Induction, in the form the provers can use: a set of naturals has a least element.
LEMMA LeastNatural ==
  ASSUME NEW T \in SUBSET Nat, T # {}
  PROVE  \E m \in T : \A n \in T : m <= n
<1> DEFINE R == OpToRel(<, Nat)
<1>1. IsWellFoundedOn(R, Nat)
  BY NatLessThanWellFounded
<1>2. \A x, y \in Nat : <<y, x>> \in R <=> y < x
  BY DEF OpToRel
<1> HIDE DEF R
<1>3. PICK m \in T : \A n \in T : ~(<<n, m>> \in R)
  BY <1>1, WFMin
<1>4. \A n \in T : ~(n < m)
  BY <1>2, <1>3
<1> QED BY <1>3, <1>4

\* A set of integers between two limits has a greatest element.
LEMMA GreatestBelow ==
  ASSUME NEW n \in Int, NEW T \in SUBSET Int, T # {}, \A m \in T : m <= n
  PROVE  \E m \in T : \A k \in T : k <= m
<1> DEFINE D == {n - m : m \in T}
<1>1. D \in SUBSET Nat /\ D # {}
  OBVIOUS
<1> HIDE DEF D
<1>2. PICK d \in D : \A e \in D : d <= e
  BY <1>1, LeastNatural
<1>3. PICK m \in T : d = n - m
  BY <1>2 DEF D
<1>4. \A k \in T : k <= m
  <2> TAKE k \in T
  <2>1. n - k \in D
    BY DEF D
  <2>2. d <= n - k
    BY <1>2, <2>1
  <2> QED BY <1>3, <2>2
<1> QED BY <1>4

-----------------------------------------------------------------------------
(* A place in a list. *)

IsList(list) == list \in Seq([from : Nat, to : Nat]) /\ Ordered(list)

Covers(list, x) == \E k \in 1..Len(list) : list[k].from <= x /\ x < list[k].to

IsPlace(list, n, on) == n \in 1..Len(list) + 1 /\ on \in BOOLEAN /\ (on => n <= Len(list))
\* The edge that comes next at a place, and what is past all edges before it.
Edge(list, n, on) == IF on THEN list[n].to ELSE list[n].from
Past(list, n, on, x) == (\A k \in 1..n - 1 : list[k].to <= x) /\ (on => list[n].from <= x)
\* How many edges those are.
EdgesPassed(n, on) == 2 * (n - 1) + (IF on THEN 1 ELSE 0)

LEMMA ListIs ==
  ASSUME NEW list, IsList(list)
  PROVE  /\ Len(list) \in Nat /\ DOMAIN list = 1..Len(list)
         /\ \A k \in 1..Len(list) : list[k].from \in Nat /\ list[k].to \in Nat /\ list[k].from <= list[k].to
         /\ \A k, n \in 1..Len(list) : k < n => list[k].to <= list[n].from
<1>1. \A k \in 1..Len(list) : list[k] \in [from : Nat, to : Nat]
  BY ElementOfSeq DEF IsList
<1>2. DOMAIN list = 1..Len(list) /\ Len(list) \in Nat
  BY DEF IsList
<1> QED BY <1>1, <1>2 DEF IsList, Ordered

\* What is past the edges before a place and not past the next is covered when the place is in a range.
LEMMA PlaceIs ==
  ASSUME NEW list, IsList(list), NEW n, NEW on, IsPlace(list, n, on), NEW x \in Nat, Past(list, n, on, x),
         n <= Len(list) => x < Edge(list, n, on)
  PROVE  Covers(list, x) <=> on
<1>1. /\ Len(list) \in Nat /\ n \in Nat
      /\ \A k \in 1..Len(list) : list[k].from \in Nat /\ list[k].to \in Nat /\ list[k].from <= list[k].to
      /\ \A k, l \in 1..Len(list) : k < l => list[k].to <= list[l].from
  BY ListIs DEF IsPlace
<1>2. CASE on
  BY <1>1, <1>2 DEF IsPlace, Past, Edge, Covers
<1>3. CASE ~on
  <2>1. ASSUME NEW k \in 1..Len(list), list[k].from <= x, x < list[k].to PROVE FALSE
    <3>1. CASE k < n
      BY <1>1, <2>1, <3>1 DEF Past
    <3>2. CASE n <= k
      <4>1. n \in 1..Len(list) /\ x < list[n].from
        BY <1>1, <1>3, <3>2 DEF IsPlace, Edge
      <4>2. n = k \/ list[n].to <= list[k].from
        BY <1>1, <3>2, <4>1
      <4> QED BY <1>1, <2>1, <4>1, <4>2
    <3> QED BY <1>1, <3>1, <3>2
  <2> QED BY <1>3, <2>1 DEF Covers
<1> QED BY <1>2, <1>3 DEF IsPlace

\* Passing the next edge.
LEMMA PassingIs ==
  ASSUME NEW list, IsList(list), NEW n, NEW on, IsPlace(list, n, on), n <= Len(list),
         NEW m, m = IF on THEN n + 1 ELSE n
  PROVE  /\ IsPlace(list, m, ~on)
         /\ \A x \in Nat : Past(list, n, on, x) /\ Edge(list, n, on) <= x => Past(list, m, ~on, x)
         /\ m <= Len(list) => Edge(list, n, on) <= Edge(list, m, ~on)
         /\ Edge(list, n, on) \in Nat
         /\ Edge(list, n, on) <= list[Len(list)].to
         /\ m > Len(list) => Edge(list, n, on) = list[Len(list)].to
         /\ EdgesPassed(m, ~on) = EdgesPassed(n, on) + 1
<1>1. /\ Len(list) \in Nat /\ n \in 1..Len(list) /\ Len(list) \in 1..Len(list)
      /\ \A k \in 1..Len(list) : list[k].from \in Nat /\ list[k].to \in Nat /\ list[k].from <= list[k].to
      /\ \A k, l \in 1..Len(list) : k < l => list[k].to <= list[l].from
  BY ListIs DEF IsPlace
<1>2. list[n].to <= list[Len(list)].to
  <2>1. n = Len(list) \/ list[n].to <= list[Len(list)].from
    BY <1>1
  <2> QED BY <1>1, <2>1
<1>3. CASE on
  <2>1. m = n + 1 /\ Edge(list, n, on) = list[n].to
    BY <1>3 DEF Edge
  <2>2. \A x \in Nat : Past(list, n, on, x) /\ list[n].to <= x => Past(list, m, ~on, x)
    BY <1>1, <1>3, <2>1 DEF Past
  <2>3. m <= Len(list) => list[n].to <= Edge(list, m, ~on)
    BY <1>1, <1>3, <2>1 DEF Edge
  <2>4. IsPlace(list, m, ~on)
    BY <1>1, <1>3, <2>1 DEF IsPlace
  <2>5. EdgesPassed(m, ~on) = EdgesPassed(n, on) + 1
    BY <1>1, <1>3, <2>1 DEF EdgesPassed
  <2>6. m > Len(list) => Edge(list, n, on) = list[Len(list)].to
    BY <1>1, <2>1
  <2> QED BY <1>1, <1>2, <2>1, <2>2, <2>3, <2>4, <2>5, <2>6
<1>4. CASE ~on
  <2>1. m = n /\ Edge(list, n, on) = list[n].from /\ Edge(list, m, ~on) = list[n].to
    BY <1>4 DEF Edge
  <2>2. \A x \in Nat : Past(list, n, on, x) /\ list[n].from <= x => Past(list, m, ~on, x)
    BY <1>1, <1>4, <2>1 DEF Past
  <2> QED BY <1>1, <1>2, <1>4, <2>1, <2>2 DEF IsPlace, EdgesPassed
<1> QED BY <1>3, <1>4 DEF IsPlace

-----------------------------------------------------------------------------
(* The walk. *)

Walks == {"show", "both", "reference", "detected"}
InReference == walk \in {"both", "reference"}
InDetected == walk \in {"both", "detected"}
NextReference == Edge(reference, i, InReference)
NextDetected == Edge(detected, j, InDetected)

\* Not near an edge.
Sharp(x) == x \in Nat /\ x \notin Comparing!Blurred
\* Not after, or hardly.
NotPast(at0, edge) == at0 <= edge \/ at0 - edge < tolerance

ListsGiven == IsList(reference) /\ IsList(detected) /\ tolerance \in Nat
Exact(kind, list, other) ==
  \A x : Sharp(x) => (x \in Comparing!Reported(kind) <=> x < position /\ Covers(list, x) /\ ~Covers(other, x))
FromStart == \A e \in events : e[2] \in Nat /\ e[3] \in Nat
ReportsDiffer == Exact("missed", reference, detected) /\ Exact("false", detected, reference) /\ FromStart

\* Where the walk is.
Placed ==
  /\ IsPlace(reference, i, InReference) /\ IsPlace(detected, j, InDetected)
  /\ \A x : Sharp(x) /\ position <= x => Past(reference, i, InReference, x) /\ Past(detected, j, InDetected, x)
  /\ i <= Len(reference) => NotPast(position, NextReference)
  /\ j <= Len(detected) => NotPast(position, NextDetected)
\* It ends at the horizon, not before and not after.
InView ==
  /\ reference # <<>> \/ detected # <<>>
  /\ position <= Comparing!Horizon
  /\ detected # <<>> => j <= Len(detected) \/ position = Comparing!Horizon
  /\ detected = <<>> => i <= Len(reference) \/ position = Comparing!Horizon
Counted == turns <= EdgesPassed(i, InReference) + EdgesPassed(j, InDetected)
WalkInv ==
  ListsGiven /\ position \in Nat /\ turns \in Nat /\ rows = {} /\ Placed /\ ReportsDiffer /\ InView /\ Counted

\* A turn passes the next edge of the reference (r), of the detected list (d), or both.
Turn(r, d) ==
  /\ walk' \in Walks /\ UNCHANGED <<reference, detected, tolerance, rows>> /\ turns' = turns + 1
  /\ position < Comparing!Horizon
  /\ r \/ d
  /\ r => i <= Len(reference)
  /\ d => j <= Len(detected)
  /\ r /\ d => NextReference - NextDetected < tolerance /\ NextDetected - NextReference < tolerance
  /\ d => position' = NextDetected
  /\ ~d => position' = NextReference /\ (j <= Len(detected) => NextReference <= NextDetected)
  /\ ~r => (i <= Len(reference) => NextDetected <= NextReference)
  /\ InReference' = (IF r THEN ~InReference ELSE InReference) /\ i' = (IF r /\ InReference THEN i + 1 ELSE i)
  /\ InDetected' = (IF d THEN ~InDetected ELSE InDetected) /\ j' = (IF d /\ InDetected THEN j + 1 ELSE j)
  /\ events' = events \cup {<<kind, position, position'>> :
                           kind \in {k \in {"missed"} : InReference /\ ~InDetected}
                                    \cup {k \in {"false"} : InDetected /\ ~InReference}}

\* Near an edge no time is sharp.
LEMMA SharpIs ==
  ASSUME ListsGiven, NEW x, Sharp(x), NEW list \in {reference, detected}, NEW n, NEW on, IsPlace(list, n, on),
         n <= Len(list)
  PROVE  x < Edge(list, n, on) - tolerance \/ x >= Edge(list, n, on) + tolerance
<1>1. PICK e : e = Edge(list, n, on)
  OBVIOUS
<1>2. IsList(list) /\ x \in Nat /\ tolerance \in Nat
  BY DEF ListsGiven, Sharp
<1>3. n \in 1..Len(list) /\ n \in DOMAIN list /\ list[n].from \in Nat /\ list[n].to \in Nat
  BY <1>2, ListIs DEF IsPlace
<1>4. list[n] \in Comparing!Ranges(reference) \cup Comparing!Ranges(detected)
  BY <1>3 DEF Comparing!Ranges
<1>5. e = list[n].from \/ e = list[n].to
  BY <1>1 DEF Edge
<1>6. e \in Nat
  BY <1>3, <1>5
<1>7. x \in {y \in e - tolerance..e + tolerance - 1 : tolerance > 0} => x \in Comparing!Blurred
  BY <1>4, <1>5 DEF Comparing!Blurred
<1>8. x \notin {y \in e - tolerance..e + tolerance - 1 : tolerance > 0}
  BY <1>7 DEF Sharp
<1> QED BY <1>1, <1>2, <1>6, <1>8

ReportsAre ==
  \A kind, x : x \in Comparing!Reported(kind) <=> \E e \in events : e[1] = kind /\ x \in e[2]..e[3] - 1
LEMMA ReportedIs == ReportsAre
<1> SUFFICES ASSUME NEW kind, NEW x
             PROVE  x \in Comparing!Reported(kind) <=> \E e \in events : e[1] = kind /\ x \in e[2]..e[3] - 1
  BY DEF ReportsAre
<1>1. \A e : [from |-> e[2], to |-> e[3]].from = e[2] /\ [from |-> e[2], to |-> e[3]].to = e[3]
  OBVIOUS
<1>2. PICK S : S = {[from |-> e[2], to |-> e[3]] : e \in {y \in events : y[1] = kind}}
  OBVIOUS
<1>3. x \in Comparing!Reported(kind) <=> \E r \in S : x \in r.from..r.to - 1
  BY <1>2 DEF Comparing!Reported, Comparing!FramesOf
<1> QED BY <1>1, <1>2, <1>3

LEMMA TurnKeeps ==
  ASSUME WalkInv, NEW r \in BOOLEAN, NEW d \in BOOLEAN, Turn(r, d)
  PROVE  WalkInv'
<1>1. /\ IsList(reference) /\ IsList(detected) /\ tolerance \in Nat /\ position \in Nat
      /\ IsPlace(reference, i, InReference) /\ IsPlace(detected, j, InDetected)
      /\ ListsGiven'
  BY DEF WalkInv, ListsGiven, Placed, Turn
<1>2. Len(reference) \in Nat /\ Len(detected) \in Nat /\ i \in Nat /\ j \in Nat
  BY <1>1, ListIs DEF IsPlace
<1>3. ASSUME i <= Len(reference)
      PROVE  NextReference \in Nat /\ NextReference <= reference[Len(reference)].to
  BY <1>1, <1>3, PassingIs DEF NextReference
<1>4. ASSUME j <= Len(detected)
      PROVE  NextDetected \in Nat /\ NextDetected <= detected[Len(detected)].to
  BY <1>1, <1>4, PassingIs DEF NextDetected
<1>5. /\ r => i <= Len(reference)
      /\ d => j <= Len(detected)
      /\ r /\ d => NextReference - NextDetected < tolerance /\ NextDetected - NextReference < tolerance
      /\ d => position' = NextDetected
      /\ ~d => r /\ position' = NextReference /\ (j <= Len(detected) => NextReference <= NextDetected)
      /\ ~r => d /\ (i <= Len(reference) => NextDetected <= NextReference)
      /\ UNCHANGED <<reference, detected, tolerance, rows>>
  BY DEF Turn
<1>6. /\ position' \in Nat
      /\ i <= Len(reference) => position' <= NextReference \/ position' - NextReference < tolerance
      /\ j <= Len(detected) => position' <= NextDetected
      /\ position <= position' \/ position - position' < tolerance
  <2>1. /\ i <= Len(reference) => position <= NextReference \/ position - NextReference < tolerance
        /\ j <= Len(detected) => position <= NextDetected \/ position - NextDetected < tolerance
    BY DEF WalkInv, Placed, NotPast
  <2> QED BY <1>1, <1>3, <1>4, <1>5, <2>1
<1>7. ASSUME NEW x, Sharp(x)
      PROVE  /\ x \in Nat
             /\ i <= Len(reference) => x < NextReference - tolerance \/ x >= NextReference + tolerance
             /\ j <= Len(detected) => x < NextDetected - tolerance \/ x >= NextDetected + tolerance
  BY <1>1, <1>7, SharpIs DEF ListsGiven, NextReference, NextDetected, Sharp
<1>8. ASSUME NEW x, Sharp(x), position' <= x PROVE position <= x
  <2>1. CASE d
    <3>1. NextDetected \in Nat /\ position' = NextDetected /\ x \in Nat
          /\ (x < NextDetected - tolerance \/ x >= NextDetected + tolerance)
      BY <1>4, <1>5, <1>7, <1>8, <2>1
    <3> QED BY <1>1, <1>6, <1>8, <3>1
  <2>2. CASE ~d
    <3>1. NextReference \in Nat /\ position' = NextReference /\ x \in Nat
          /\ (x < NextReference - tolerance \/ x >= NextReference + tolerance)
      BY <1>3, <1>5, <1>7, <1>8, <2>2
    <3> QED BY <1>1, <1>6, <1>8, <3>1
  <2> QED BY <2>1, <2>2
<1>9. /\ InReference' = (IF r THEN ~InReference ELSE InReference) /\ i' = (IF r /\ InReference THEN i + 1 ELSE i)
      /\ InDetected' = (IF d THEN ~InDetected ELSE InDetected) /\ j' = (IF d /\ InDetected THEN j + 1 ELSE j)
  BY DEF Turn
<1>10. /\ IsPlace(reference, i', InReference')
       /\ \A x : Sharp(x) /\ position' <= x => Past(reference, i', InReference', x)
       /\ i' <= Len(reference) => i <= Len(reference) /\ NextReference <= Edge(reference, i', InReference')
       /\ i' <= Len(reference) => Edge(reference, i', InReference') \in Nat
       /\ i <= Len(reference) /\ i' > Len(reference) => r /\ NextReference = reference[Len(reference)].to
       /\ EdgesPassed(i', InReference') = EdgesPassed(i, InReference) + (IF r THEN 1 ELSE 0)
  <2>0. \A x : Sharp(x) /\ position' <= x => Past(reference, i, InReference, x)
    BY <1>8 DEF WalkInv, Placed
  <2>1. CASE r
    <3>1. i' = (IF InReference THEN i + 1 ELSE i) /\ InReference' = ~InReference /\ i <= Len(reference)
      BY <1>5, <1>9, <2>1
    <3>2. /\ IsPlace(reference, i', ~InReference)
          /\ \A x \in Nat : Past(reference, i, InReference, x) /\ Edge(reference, i, InReference) <= x
                           => Past(reference, i', ~InReference, x)
          /\ i' <= Len(reference) => Edge(reference, i, InReference) <= Edge(reference, i', ~InReference)
          /\ i' > Len(reference) => Edge(reference, i, InReference) = reference[Len(reference)].to
          /\ EdgesPassed(i', ~InReference) = EdgesPassed(i, InReference) + 1
      BY <1>1, <3>1, PassingIs
    <3>3. ASSUME NEW x, Sharp(x), position' <= x PROVE NextReference <= x
      BY <1>1, <1>3, <1>4, <1>5, <1>6, <1>7, <2>1, <3>1, <3>3
    <3>4. \A x : Sharp(x) /\ position' <= x => Past(reference, i', ~InReference, x)
      BY <1>7, <2>0, <3>2, <3>3 DEF NextReference
    <3>5. i' <= Len(reference) => Edge(reference, i', ~InReference) \in Nat
      BY <1>1, <3>2, PassingIs
    <3> QED BY <2>1, <3>1, <3>2, <3>4, <3>5 DEF NextReference
  <2>2. CASE ~r
    <3>1. i' = i /\ InReference' = InReference
      BY <1>9, <2>2
    <3> QED BY <1>1, <1>2, <1>3, <2>0, <2>2, <3>1 DEF NextReference, EdgesPassed
  <2> QED BY <2>1, <2>2
<1>11. /\ IsPlace(detected, j', InDetected')
       /\ \A x : Sharp(x) /\ position' <= x => Past(detected, j', InDetected', x)
       /\ j' <= Len(detected) => j <= Len(detected) /\ NextDetected <= Edge(detected, j', InDetected')
       /\ j' <= Len(detected) => Edge(detected, j', InDetected') \in Nat
       /\ j <= Len(detected) /\ j' > Len(detected) => d /\ NextDetected = detected[Len(detected)].to
       /\ EdgesPassed(j', InDetected') = EdgesPassed(j, InDetected) + (IF d THEN 1 ELSE 0)
  <2>0. \A x : Sharp(x) /\ position' <= x => Past(detected, j, InDetected, x)
    BY <1>8 DEF WalkInv, Placed
  <2>1. CASE d
    <3>1. j' = (IF InDetected THEN j + 1 ELSE j) /\ InDetected' = ~InDetected /\ j <= Len(detected)
      BY <1>5, <1>9, <2>1
    <3>2. /\ IsPlace(detected, j', ~InDetected)
          /\ \A x \in Nat : Past(detected, j, InDetected, x) /\ Edge(detected, j, InDetected) <= x
                           => Past(detected, j', ~InDetected, x)
          /\ j' <= Len(detected) => Edge(detected, j, InDetected) <= Edge(detected, j', ~InDetected)
          /\ j' > Len(detected) => Edge(detected, j, InDetected) = detected[Len(detected)].to
          /\ EdgesPassed(j', ~InDetected) = EdgesPassed(j, InDetected) + 1
      BY <1>1, <3>1, PassingIs
    <3>3. ASSUME NEW x, Sharp(x), position' <= x PROVE NextDetected <= x
      BY <1>5, <2>1, <3>3
    <3>4. \A x : Sharp(x) /\ position' <= x => Past(detected, j', ~InDetected, x)
      BY <1>7, <2>0, <3>2, <3>3 DEF NextDetected
    <3>5. j' <= Len(detected) => Edge(detected, j', ~InDetected) \in Nat
      BY <1>1, <3>2, PassingIs
    <3> QED BY <2>1, <3>1, <3>2, <3>4, <3>5 DEF NextDetected
  <2>2. CASE ~d
    <3>1. j' = j /\ InDetected' = InDetected
      BY <1>9, <2>2
    <3> QED BY <1>1, <1>2, <1>4, <2>0, <2>2, <3>1 DEF NextDetected, EdgesPassed
  <2> QED BY <2>1, <2>2
<1>12. \A x : Sharp(x) <=> Sharp(x)'
  BY <1>5 DEF Sharp, Comparing!Blurred
<1>13. Placed'
  <2>1. /\ i' <= Len(reference) => NotPast(position', Edge(reference, i', InReference'))
        /\ j' <= Len(detected) => NotPast(position', Edge(detected, j', InDetected'))
    BY <1>1, <1>3, <1>4, <1>6, <1>10, <1>11 DEF NotPast
  <2> QED BY <1>5, <1>10, <1>11, <1>12, <2>1 DEF Placed, NotPast, NextReference, NextDetected
\* Between the positions.
<1>14. ASSUME NEW x, Sharp(x), position <= x, x < position'
       PROVE  (Covers(reference, x) <=> InReference) /\ (Covers(detected, x) <=> InDetected)
  <2>1. /\ Past(reference, i, InReference, x) /\ Past(detected, j, InDetected, x)
        /\ i <= Len(reference) => x < Edge(reference, i, InReference)
        /\ j <= Len(detected) => x < Edge(detected, j, InDetected)
    <3>1. Past(reference, i, InReference, x) /\ Past(detected, j, InDetected, x)
      BY <1>14 DEF WalkInv, Placed
    <3>2. i <= Len(reference) => x < NextReference
      BY <1>1, <1>3, <1>6, <1>7, <1>14
    <3>3. j <= Len(detected) => x < NextDetected
      BY <1>1, <1>4, <1>6, <1>7, <1>14
    <3> QED BY <3>1, <3>2, <3>3 DEF NextReference, NextDetected
  <2>2. x \in Nat
    BY <1>14 DEF Sharp
  <2> QED BY <1>1, <2>1, <2>2, PlaceIs
<1>15. ASSUME NEW kind, NEW x, Sharp(x)
       PROVE  (x \in Comparing!Reported(kind))' <=>
                \/ x \in Comparing!Reported(kind)
                \/ /\ position <= x /\ x < position'
                   /\ \/ kind = "missed" /\ InReference /\ ~InDetected
                      \/ kind = "false" /\ InDetected /\ ~InReference
  <2>0. ReportsAre'
    BY ReportedIs, PTL
  <2>1. (x \in Comparing!Reported(kind))' <=> \E e \in events' : e[1] = kind /\ x \in e[2]..e[3] - 1
    BY <2>0 DEF ReportsAre
  <2>2. x \in Comparing!Reported(kind) <=> \E e \in events : e[1] = kind /\ x \in e[2]..e[3] - 1
    BY ReportedIs DEF ReportsAre
  <2>3. x \in position..position' - 1 <=> position <= x /\ x < position'
    <3>1. PICK from \in Nat, to \in Nat, at0 \in Nat : from = position /\ to = position' /\ at0 = x
      BY <1>1, <1>6, <1>7, <1>15
    <3>2. at0 \in from..to - 1 <=> from <= at0 /\ at0 < to
      OBVIOUS
    <3> QED BY <3>1, <3>2
  <2>4. \A e : e \in events' <=>
          \/ e \in events
          \/ e = <<"missed", position, position'>> /\ InReference /\ ~InDetected
          \/ e = <<"false", position, position'>> /\ InDetected /\ ~InReference
    BY DEF Turn
  <2>5. ASSUME NEW k, NEW e, e = <<k, position, position'>> PROVE e[1] = k /\ e[2] = position /\ e[3] = position'
    BY <2>5
  <2>6. PICK missed, wrong : missed = <<"missed", position, position'>> /\ wrong = <<"false", position, position'>>
    OBVIOUS
  <2>7. /\ missed[1] = "missed" /\ missed[2] = position /\ missed[3] = position'
        /\ wrong[1] = "false" /\ wrong[2] = position /\ wrong[3] = position'
    BY <2>5, <2>6
  <2>8. \A e : e \in events' <=>
          \/ e \in events
          \/ e = missed /\ InReference /\ ~InDetected
          \/ e = wrong /\ InDetected /\ ~InReference
    BY <2>4, <2>6
  <2>9. PICK P : P = position..position' - 1
    OBVIOUS
  <2>10. /\ x \in missed[2]..missed[3] - 1 <=> x \in P
         /\ x \in wrong[2]..wrong[3] - 1 <=> x \in P
    BY <2>7, <2>9
  <2>11. x \in P <=> position <= x /\ x < position'
    BY <2>3, <2>9
  <2>12. (x \in Comparing!Reported(kind))' <=>
          \/ x \in Comparing!Reported(kind)
          \/ x \in P /\ kind = "missed" /\ InReference /\ ~InDetected
          \/ x \in P /\ kind = "false" /\ InDetected /\ ~InReference
    BY <2>1, <2>2, <2>7, <2>8, <2>10
  <2> QED BY <2>11, <2>12
<1>16. ReportsDiffer'
  <2>1. ASSUME NEW x, Sharp(x)
        PROVE  /\ (x \in Comparing!Reported("missed"))' <=> x < position' /\ Covers(reference, x) /\ ~Covers(detected, x)
               /\ (x \in Comparing!Reported("false"))' <=> x < position' /\ Covers(detected, x) /\ ~Covers(reference, x)
    <3>1. /\ x \in Comparing!Reported("missed") <=> x < position /\ Covers(reference, x) /\ ~Covers(detected, x)
          /\ x \in Comparing!Reported("false") <=> x < position /\ Covers(detected, x) /\ ~Covers(reference, x)
      BY <2>1 DEF WalkInv, ReportsDiffer, Exact
    <3>2. x \in Nat
      BY <2>1 DEF Sharp
    <3>3. CASE position <= x /\ x < position'
      <4>1. (Covers(reference, x) <=> InReference) /\ (Covers(detected, x) <=> InDetected)
        BY <1>14, <2>1, <3>3
      <4>2. ~(x < position)
        BY <1>1, <3>2, <3>3
      <4> QED BY <1>15, <2>1, <3>1, <3>3, <4>1, <4>2
    <3>4. CASE x < position
      <4>1. x < position'
        BY <1>1, <1>6, <1>8, <2>1, <3>2, <3>4
      <4> QED BY <1>1, <1>15, <2>1, <3>1, <3>2, <3>4, <4>1
    <3>5. CASE position <= x /\ position' <= x
      BY <1>1, <1>6, <1>15, <2>1, <3>1, <3>2, <3>5
    <3> QED BY <1>1, <1>6, <3>2, <3>3, <3>4, <3>5
  <2>2. FromStart'
    <3>1. ASSUME NEW e \in events' PROVE e[2] \in Nat /\ e[3] \in Nat
      <4>1. e \in events \/ \E kind : e = <<kind, position, position'>>
        BY <3>1 DEF Turn
      <4>2. CASE e \in events
        BY <4>2 DEF WalkInv, ReportsDiffer, FromStart
      <4>3. CASE e \notin events
        BY <1>1, <1>6, <4>1, <4>3
      <4> QED BY <4>2, <4>3
    <3> QED BY <3>1 DEF FromStart
  <2> QED BY <1>5, <1>12, <2>1, <2>2 DEF ReportsDiffer, Exact
<1>17. InView'
  <2>1. Comparing!Horizon' = Comparing!Horizon
    BY <1>5 DEF Comparing!Horizon
  <2>2. reference # <<>> \/ detected # <<>>
    BY DEF WalkInv, InView
  <2>3. CASE detected # <<>>
    <3>1. Comparing!Horizon = detected[Len(detected)].to
      BY <2>3 DEF Comparing!Horizon
    <3>2. position <= Comparing!Horizon /\ (j <= Len(detected) \/ position = Comparing!Horizon)
      BY <2>3 DEF WalkInv, InView
    <3>3. detected[Len(detected)].to \in Nat /\ position < Comparing!Horizon
      BY <1>1, <1>2, <2>3, ListIs DEF Turn
    <3>4. j <= Len(detected) /\ NextDetected \in Nat /\ NextDetected <= detected[Len(detected)].to
      BY <1>1, <1>4, <3>1, <3>2, <3>3
    <3>5. position' <= Comparing!Horizon
      BY <1>6, <3>1, <3>3, <3>4
    <3>6. j' <= Len(detected) \/ position' = Comparing!Horizon
      <4>1. j' \in Nat
        BY <1>11, <1>2 DEF IsPlace
      <4> QED BY <1>2, <1>5, <1>11, <3>1, <3>4, <4>1
    <3> QED BY <1>5, <2>1, <2>2, <2>3, <3>5, <3>6 DEF InView
  <2>4. CASE detected = <<>>
    <3>1. Comparing!Horizon = reference[Len(reference)].to /\ Len(detected) = 0
      BY <2>4 DEF Comparing!Horizon
    <3>2. ~d
      BY <1>2, <1>5, <3>1, <1>1 DEF IsPlace
    <3> QED BY <1>1, <1>2, <1>3, <1>5, <1>10, <2>1, <2>2, <2>4, <3>1, <3>2 DEF InView, IsPlace
  <2> QED BY <2>3, <2>4
<1>18. Counted' /\ turns' \in Nat
  <2>1. turns' = turns + 1 /\ turns \in Nat /\ turns <= EdgesPassed(i, InReference) + EdgesPassed(j, InDetected)
    BY DEF Turn, WalkInv, Counted
  <2>2. EdgesPassed(i, InReference) \in Int /\ EdgesPassed(j, InDetected) \in Int
    BY <1>2 DEF EdgesPassed
  <2>3. r \/ d
    BY DEF Turn
  <2> QED BY <1>10, <1>11, <2>1, <2>2, <2>3 DEF Counted
<1>19. rows' = {}
  BY <1>5 DEF WalkInv
<1> QED BY <1>1, <1>6, <1>13, <1>16, <1>17, <1>18, <1>19 DEF WalkInv

(* The turns of the code. *)

\* In the lists of the walk the code's conditions are about the next edges.
LEMMA WalkTurns ==
  ASSUME WalkInv, Comparing!BothShow \/ Comparing!BothCommercial \/ Comparing!OnlyReference \/ Comparing!OnlyDetected
  PROVE  \E r, d \in BOOLEAN : Turn(r, d)
<1>1. /\ IsList(reference) /\ IsList(detected) /\ tolerance \in Nat
      /\ IsPlace(reference, i, InReference) /\ IsPlace(detected, j, InDetected)
  BY DEF WalkInv, ListsGiven, Placed
<1>2. Len(reference) \in Nat /\ Len(detected) \in Nat /\ i \in Nat /\ j \in Nat
  BY <1>1, ListIs DEF IsPlace
<1>3. /\ i <= Len(reference) => reference[i].from \in Nat /\ reference[i].to \in Nat
      /\ j <= Len(detected) => detected[j].from \in Nat /\ detected[j].to \in Nat
  BY <1>1, ListIs DEF IsPlace
<1> USE DEF Comparing!Step, Comparing!lists, Comparing!Go, Comparing!Report, Comparing!Walking, Comparing!Expected,
            Comparing!Found, Comparing!From, Comparing!To, Comparing!Nearby, Walks
<1>0. position < Comparing!Horizon
  BY DEF Comparing!BothShow, Comparing!BothCommercial, Comparing!OnlyReference, Comparing!OnlyDetected
<1>4. CASE Comparing!BothShow
  <2>1. walk = "show" /\ ~InReference /\ ~InDetected
    BY <1>4 DEF Comparing!BothShow, InReference, InDetected
  <2>2. NextReference = reference[i].from /\ NextDetected = detected[j].from
    BY <2>1 DEF NextReference, NextDetected, Edge
  <2>3. UNCHANGED <<i, j, events, reference, detected, tolerance, rows>> /\ turns' = turns + 1
    BY <1>4 DEF Comparing!BothShow
  <2>4. \/ /\ walk' = "both" /\ position' = NextDetected /\ i <= Len(reference) /\ j <= Len(detected)
           /\ NextReference - NextDetected < tolerance /\ NextDetected - NextReference < tolerance
        \/ /\ walk' = "detected" /\ position' = NextDetected /\ j <= Len(detected)
           /\ i <= Len(reference) => NextDetected <= NextReference
        \/ /\ walk' = "reference" /\ position' = NextReference /\ i <= Len(reference)
           /\ j <= Len(detected) => NextReference <= NextDetected
    BY <1>1, <1>2, <1>3, <1>4, <2>2 DEF Comparing!BothShow
  <2>5. Turn(TRUE, TRUE) \/ Turn(FALSE, TRUE) \/ Turn(TRUE, FALSE)
    BY <1>0, <2>1, <2>3, <2>4 DEF Turn, InReference, InDetected
  <2> QED BY <2>5
<1>5. CASE Comparing!BothCommercial
  <2>1. walk = "both" /\ InReference /\ InDetected /\ i <= Len(reference) /\ j <= Len(detected)
    BY <1>1, <1>5 DEF Comparing!BothCommercial, InReference, InDetected, IsPlace
  <2>2. NextReference = reference[i].to /\ NextDetected = detected[j].to
    BY <2>1 DEF NextReference, NextDetected, Edge
  <2>3. UNCHANGED <<events, reference, detected, tolerance, rows>> /\ turns' = turns + 1
    BY <1>5 DEF Comparing!BothCommercial
  <2>4. \/ /\ walk' = "show" /\ position' = NextDetected /\ i' = i + 1 /\ j' = j + 1
           /\ NextReference - NextDetected < tolerance /\ NextDetected - NextReference < tolerance
        \/ walk' = "reference" /\ position' = NextDetected /\ i' = i /\ j' = j + 1 /\ NextDetected <= NextReference
        \/ walk' = "detected" /\ position' = NextReference /\ i' = i + 1 /\ j' = j /\ NextReference <= NextDetected
    BY <1>1, <1>2, <1>3, <1>5, <2>1, <2>2 DEF Comparing!BothCommercial
  <2>5. Turn(TRUE, TRUE) \/ Turn(FALSE, TRUE) \/ Turn(TRUE, FALSE)
    BY <1>0, <2>1, <2>3, <2>4 DEF Turn, InReference, InDetected
  <2> QED BY <2>5
<1>6. CASE Comparing!OnlyReference
  <2>1. walk = "reference" /\ InReference /\ ~InDetected /\ i <= Len(reference)
    BY <1>1, <1>6 DEF Comparing!OnlyReference, InReference, InDetected, IsPlace
  <2>2. NextReference = reference[i].to /\ NextDetected = detected[j].from
    BY <2>1 DEF NextReference, NextDetected, Edge
  <2>3. /\ UNCHANGED <<j, reference, detected, tolerance, rows>> /\ turns' = turns + 1
        /\ events' = events \cup {<<"missed", position, position'>>}
    BY <1>6 DEF Comparing!OnlyReference
  <2>4. \/ /\ walk' = "show" /\ position' = NextReference /\ i' = i + 1
           /\ j <= Len(detected) => NextReference <= NextDetected
        \/ walk' = "both" /\ position' = NextDetected /\ i' = i /\ j <= Len(detected) /\ NextDetected <= NextReference
    BY <1>1, <1>2, <1>3, <1>6, <2>1, <2>2 DEF Comparing!OnlyReference, Comparing!ReferenceFirst
  <2>5. Turn(FALSE, TRUE) \/ Turn(TRUE, FALSE)
    BY <1>0, <2>1, <2>3, <2>4 DEF Turn, InReference, InDetected
  <2> QED BY <2>5
<1>7. CASE Comparing!OnlyDetected
  <2>1. walk = "detected" /\ ~InReference /\ InDetected /\ j <= Len(detected)
    BY <1>1, <1>7 DEF Comparing!OnlyDetected, InReference, InDetected, IsPlace
  <2>2. NextReference = reference[i].from /\ NextDetected = detected[j].to
    BY <2>1 DEF NextReference, NextDetected, Edge
  <2>3. /\ UNCHANGED <<i, reference, detected, tolerance, rows>> /\ turns' = turns + 1
        /\ events' = events \cup {<<"false", position, position'>>}
    BY <1>7 DEF Comparing!OnlyDetected
  <2>4. \/ /\ walk' = "show" /\ position' = NextDetected /\ j' = j + 1
           /\ i <= Len(reference) => NextDetected <= NextReference
        \/ walk' = "both" /\ position' = NextReference /\ j' = j /\ i <= Len(reference) /\ NextReference <= NextDetected
    BY <1>1, <1>2, <1>3, <1>7, <2>1, <2>2 DEF Comparing!OnlyDetected, Comparing!DetectedFirst
  <2>5. Turn(FALSE, TRUE) \/ Turn(TRUE, FALSE)
    BY <1>0, <2>1, <2>3, <2>4 DEF Turn, InReference, InDetected
  <2> QED BY <2>5
<1> QED BY <1>4, <1>5, <1>6, <1>7

(* The rows, and the end. *)

BothEmpty == reference = <<>> /\ detected = <<>>
\* The rows up to a place in each list: none twice, and one for each range that is alone.
RowsSoFar ==
  /\ i \in 1..Len(reference) + 1 /\ j \in 1..Len(detected) + 1
  /\ \A k \in 1..i - 1 : Comparing!Alone(reference[k], detected) => <<k, 0>> \in rows
  /\ \A k \in 1..j - 1 : Comparing!Alone(detected[k], reference) => <<0, k>> \in rows
  /\ \A a \in rows : a[1] \in 0..i - 1 /\ a[2] \in 0..j - 1
  /\ \A a, b \in rows : a # b => (a[1] = b[1] => a[1] = 0) /\ (a[2] = b[2] => a[2] = 0)
RowsInv ==
  /\ ListsGiven /\ turns <= 2 * (Len(reference) + Len(detected)) /\ RowsSoFar
  /\ IF BothEmpty THEN events = {} ELSE position = Comparing!Horizon /\ ReportsDiffer
  /\ walk = "compared" => i = Len(reference) + 1 /\ j = Len(detected) + 1
CompareInv ==
  \/ walk \in Walks /\ WalkInv
  \/ walk \in {"rows", "compared"} /\ RowsInv

LEMMA CompareStarts == Comparing!CompareInit => CompareInv
<1> SUFFICES ASSUME Comparing!CompareInit PROVE CompareInv
  OBVIOUS
<1>1. /\ reference \in BreakLists /\ detected \in BreakLists /\ tolerance \in Tolerances
      /\ walk = (IF BothEmpty THEN "rows" ELSE "show")
      /\ position = 0 /\ i = 1 /\ j = 1 /\ events = {} /\ rows = {} /\ turns = 0
  BY DEF Comparing!CompareInit, BothEmpty
<1>2. ListsGiven
  BY <1>1, BreakListsAssumption DEF ListsGiven, IsList
<1>3. /\ Len(reference) \in Nat /\ Len(detected) \in Nat
      /\ \A k \in 1..Len(reference) : reference[k].from \in Nat /\ reference[k].to \in Nat
      /\ \A k \in 1..Len(detected) : detected[k].from \in Nat /\ detected[k].to \in Nat
  BY <1>2, ListIs DEF ListsGiven
<1>4. CASE BothEmpty
  <2>1. RowsSoFar
    BY <1>1, <1>3 DEF RowsSoFar
  <2>2. walk = "rows" /\ turns <= 2 * (Len(reference) + Len(detected))
    BY <1>1, <1>3, <1>4
  <2> QED BY <1>1, <1>2, <1>4, <2>1, <2>2 DEF CompareInv, RowsInv
<1>5. CASE ~BothEmpty
  <2>1. walk = "show" /\ ~InReference /\ ~InDetected
    BY <1>1, <1>5 DEF InReference, InDetected
  <2>2. Placed
    <3>1. IsPlace(reference, i, InReference) /\ IsPlace(detected, j, InDetected)
      BY <1>1, <1>3, <2>1 DEF IsPlace, InReference, InDetected
    <3>2. ASSUME NEW x PROVE Past(reference, i, InReference, x) /\ Past(detected, j, InDetected, x)
      BY <1>1, <2>1 DEF Past
    <3>3. /\ i <= Len(reference) => NextReference \in Nat
          /\ j <= Len(detected) => NextDetected \in Nat
      BY <1>1, <1>3, <2>1 DEF NextReference, NextDetected, Edge
    <3> QED BY <1>1, <3>1, <3>2, <3>3 DEF Placed, NotPast
  <2>3. ReportsDiffer
    <3>1. \A kind, x : x \notin Comparing!Reported(kind)
      BY <1>1, ReportedIs DEF ReportsAre
    <3>2. \A x : Sharp(x) => ~(x < position)
      BY <1>1 DEF Sharp
    <3> QED BY <1>1, <3>1, <3>2 DEF ReportsDiffer, Exact, FromStart
  <2>4. InView
    <3>1. detected # <<>> => Len(detected) > 0
      BY <1>2, <1>3, EmptySeq DEF ListsGiven, IsList
    <3>2. reference # <<>> => Len(reference) > 0
      BY <1>2, <1>3, EmptySeq DEF ListsGiven, IsList
    <3>3. Comparing!Horizon \in Nat
      BY <1>3, <1>5, <3>1, <3>2 DEF Comparing!Horizon, BothEmpty
    <3> QED BY <1>1, <1>3, <1>5, <3>1, <3>2, <3>3 DEF InView, BothEmpty
  <2>5. Counted
    BY <1>1, <2>1 DEF Counted, EdgesPassed
  <2> QED BY <1>1, <1>2, <2>1, <2>2, <2>3, <2>4, <2>5 DEF CompareInv, WalkInv, Walks
<1> QED BY <1>4, <1>5

LEMMA WalkEnds == WalkInv /\ Comparing!Walked => CompareInv'
<1> SUFFICES ASSUME WalkInv, Comparing!Walked PROVE CompareInv'
  OBVIOUS
<1>1. /\ UNCHANGED <<reference, detected, tolerance, position, events, rows, turns>>
      /\ walk' = "rows" /\ i' = 1 /\ j' = 1
      /\ ~(position < Comparing!Horizon /\ (i <= Len(reference) \/ j <= Len(detected)))
  BY DEF Comparing!Walked, Comparing!lists, Comparing!Walking, Comparing!Expected, Comparing!Found
<1>2. /\ IsPlace(reference, i, InReference) /\ IsPlace(detected, j, InDetected) /\ ListsGiven /\ rows = {}
      /\ turns \in Nat /\ turns <= EdgesPassed(i, InReference) + EdgesPassed(j, InDetected) /\ position \in Nat
  BY DEF WalkInv, Placed, Counted
<1>3. Len(reference) \in Nat /\ Len(detected) \in Nat
  BY <1>2, ListIs DEF ListsGiven
<1>4. turns <= 2 * (Len(reference) + Len(detected))
  <2>1. EdgesPassed(i, InReference) \in Int /\ EdgesPassed(i, InReference) <= 2 * Len(reference)
    BY <1>2, <1>3 DEF IsPlace, EdgesPassed
  <2>2. EdgesPassed(j, InDetected) \in Int /\ EdgesPassed(j, InDetected) <= 2 * Len(detected)
    BY <1>2, <1>3 DEF IsPlace, EdgesPassed
  <2> QED BY <1>2, <1>3, <2>1, <2>2
<1>5. ~BothEmpty /\ position = Comparing!Horizon
  <2>1. /\ reference # <<>> \/ detected # <<>>
        /\ position <= Comparing!Horizon
        /\ detected # <<>> => j <= Len(detected) \/ position = Comparing!Horizon
        /\ detected = <<>> => i <= Len(reference) \/ position = Comparing!Horizon
    BY DEF WalkInv, InView
  <2>2. Comparing!Horizon \in Nat
    <3>1. /\ \A k \in 1..Len(reference) : reference[k].to \in Nat
          /\ \A k \in 1..Len(detected) : detected[k].to \in Nat
      BY <1>2, ListIs DEF ListsGiven
    <3>2. detected # <<>> => Len(detected) > 0
      BY <1>2, <1>3, EmptySeq DEF ListsGiven, IsList
    <3>3. reference # <<>> => Len(reference) > 0
      BY <1>2, <1>3, EmptySeq DEF ListsGiven, IsList
    <3> QED BY <1>3, <2>1, <3>1, <3>2, <3>3 DEF Comparing!Horizon
  <2> QED BY <1>1, <1>2, <2>1, <2>2 DEF BothEmpty
<1>6. RowsSoFar'
  BY <1>1, <1>2, <1>3 DEF RowsSoFar
<1>7. ReportsDiffer'
  BY <1>1 DEF WalkInv, ReportsDiffer, Exact, FromStart, Sharp, Comparing!Blurred, Comparing!Reported
<1>8. ListsGiven' /\ ~BothEmpty' /\ position' = Comparing!Horizon'
  BY <1>1, <1>2, <1>5 DEF ListsGiven, BothEmpty, Comparing!Horizon
<1> QED BY <1>1, <1>4, <1>6, <1>7, <1>8 DEF CompareInv, RowsInv

LEMMA RowKeeps == RowsInv /\ Comparing!Row => CompareInv'
<1> SUFFICES ASSUME RowsInv, Comparing!Row PROVE CompareInv'
  OBVIOUS
<1>1. UNCHANGED <<reference, detected, tolerance, walk, position, events, turns>> /\ walk = "rows"
  BY DEF Comparing!Row, Comparing!lists
<1>2. /\ Len(reference) \in Nat /\ Len(detected) \in Nat
      /\ \A k \in 1..Len(reference) : reference[k].from \in Nat /\ reference[k].to \in Nat
      /\ \A k \in 1..Len(detected) : detected[k].from \in Nat /\ detected[k].to \in Nat
      /\ i \in 1..Len(reference) + 1 /\ j \in 1..Len(detected) + 1
  BY ListIs DEF RowsInv, ListsGiven, RowsSoFar
<1>3. \/ j <= Len(detected) /\ rows' = rows \cup {<<0, j>>} /\ j' = j + 1 /\ i' = i
      \/ i <= Len(reference) /\ rows' = rows \cup {<<i, 0>>} /\ i' = i + 1 /\ j' = j
      \/ /\ i <= Len(reference) /\ j <= Len(detected) /\ i' = i + 1 /\ j' = j + 1
         /\ rows' = rows \cup {<<i, j>>} \/ rows' = rows
         /\ ~Comparing!Alone(reference[i], detected) /\ ~Comparing!Alone(detected[j], reference)
  <2>1. CASE Comparing!DetectedFirst /\ rows' = rows \cup {<<0, j>>} /\ j' = j + 1 /\ i' = i
    BY <2>1 DEF Comparing!DetectedFirst, Comparing!Found
  <2>2. CASE Comparing!ReferenceFirst /\ rows' = rows \cup {<<i, 0>>} /\ i' = i + 1 /\ j' = j
    BY <2>2 DEF Comparing!ReferenceFirst, Comparing!Expected
  <2>3. CASE /\ Comparing!Expected /\ Comparing!Found /\ ~Comparing!ReferenceFirst /\ ~Comparing!DetectedFirst
             /\ i' = i + 1 /\ j' = j + 1 /\ (rows' = rows \cup {<<i, j>>} \/ rows' = rows)
    <3>1. /\ i \in DOMAIN reference /\ j \in DOMAIN detected /\ i <= Len(reference) /\ j <= Len(detected)
          /\ ~(reference[i].to < detected[j].from) /\ ~(detected[j].to < reference[i].from)
      BY <1>2, <2>3, ListIs
      DEF RowsInv, ListsGiven, Comparing!Expected, Comparing!Found, Comparing!ReferenceFirst, Comparing!DetectedFirst,
          Comparing!From, Comparing!To
    <3>2. reference[i] \in Comparing!Ranges(reference) /\ detected[j] \in Comparing!Ranges(detected)
      BY <3>1 DEF Comparing!Ranges
    <3>3. ~Comparing!Alone(reference[i], detected) /\ ~Comparing!Alone(detected[j], reference)
      BY <3>1, <3>2 DEF Comparing!Alone
    <3> QED BY <2>3, <3>1, <3>3
  <2> QED BY <2>1, <2>2, <2>3 DEF Comparing!Row
<1>4. RowsSoFar'
  <2>1. \A e : <<e, 0>>[1] = e /\ <<e, 0>>[2] = 0 /\ <<0, e>>[1] = 0 /\ <<0, e>>[2] = e
    OBVIOUS
  <2>2. /\ \A k \in 1..i - 1 : Comparing!Alone(reference[k], detected) => <<k, 0>> \in rows
        /\ \A k \in 1..j - 1 : Comparing!Alone(detected[k], reference) => <<0, k>> \in rows
        /\ \A a \in rows : a[1] \in 0..i - 1 /\ a[2] \in 0..j - 1
        /\ \A a, b \in rows : a # b => (a[1] = b[1] => a[1] = 0) /\ (a[2] = b[2] => a[2] = 0)
    BY DEF RowsInv, RowsSoFar
  <2>3. i' \in 1..Len(reference) + 1 /\ j' \in 1..Len(detected) + 1
    BY <1>2, <1>3
  <2>4. \A k \in 1..i' - 1 : Comparing!Alone(reference[k], detected) => <<k, 0>> \in rows'
    BY <1>2, <1>3, <2>2
  <2>5. \A k \in 1..j' - 1 : Comparing!Alone(detected[k], reference) => <<0, k>> \in rows'
    BY <1>2, <1>3, <2>2
  <2>6. PICK new \in {<<0, j>>, <<i, 0>>, <<i, j>>} :
          /\ rows' = rows \cup {new} \/ rows' = rows
          /\ new[1] \in 0..i' - 1 /\ new[2] \in 0..j' - 1 /\ new[1] \in {0, i} /\ new[2] \in {0, j}
    BY <1>2, <1>3
  <2>7. ASSUME NEW a \in rows' PROVE a = new \/ a \in rows
    BY <2>6
  <2>8. /\ \A a \in rows' : a[1] \in 0..i' - 1 /\ a[2] \in 0..j' - 1
        /\ \A a, b \in rows' : a # b => (a[1] = b[1] => a[1] = 0) /\ (a[2] = b[2] => a[2] = 0)
    <3>1. \A n : (n \in 0..i - 1 => n \in 0..i' - 1) /\ (n \in 0..j - 1 => n \in 0..j' - 1)
      <4>1. i' \in {i, i + 1} /\ j' \in {j, j + 1}
        BY <1>3
      <4> QED BY <1>2, <4>1
    <3>2. \A a \in rows' : a[1] \in 0..i' - 1 /\ a[2] \in 0..j' - 1
      BY <2>2, <2>6, <2>7, <3>1
    <3>3. ASSUME NEW a \in rows
          PROVE  (a[1] = new[1] => a[1] = 0) /\ (a[2] = new[2] => a[2] = 0)
      BY <1>2, <2>2, <2>6
    <3>4. ASSUME NEW a \in rows', NEW b \in rows', a # b
          PROVE  (a[1] = b[1] => a[1] = 0) /\ (a[2] = b[2] => a[2] = 0)
      BY <2>2, <2>7, <3>3, <3>4
    <3> QED BY <3>2, <3>4
  <2>9. /\ \A k : Comparing!Alone(reference[k], detected)' <=> Comparing!Alone(reference[k], detected)
        /\ \A k : Comparing!Alone(detected[k], reference)' <=> Comparing!Alone(detected[k], reference)
    BY <1>1
  <2> QED BY <1>1, <2>3, <2>4, <2>5, <2>8, <2>9 DEF RowsSoFar
<1>5. (BothEmpty => events' = {}) /\ (~BothEmpty => position' = Comparing!Horizon' /\ ReportsDiffer')
  <2>1. CASE BothEmpty
    BY <1>1, <2>1 DEF RowsInv
  <2>2. CASE ~BothEmpty
    <3>1. position = Comparing!Horizon /\ ReportsDiffer
      BY <2>2 DEF RowsInv
    <3>2. Comparing!Horizon' = Comparing!Horizon
      BY <1>1 DEF Comparing!Horizon
    <3>3. ReportsDiffer'
      BY <1>1, <3>1 DEF ReportsDiffer, Exact, FromStart, Sharp, Comparing!Blurred, Comparing!Reported
    <3> QED BY <1>1, <2>2, <3>1, <3>2, <3>3
  <2> QED BY <2>1, <2>2
<1>6. ListsGiven' /\ (BothEmpty' <=> BothEmpty) /\ turns' <= 2 * (Len(reference') + Len(detected'))
  BY <1>1 DEF RowsInv, ListsGiven, BothEmpty
<1> QED BY <1>1, <1>4, <1>5, <1>6 DEF CompareInv, RowsInv

LEMMA CompareKept == CompareInv /\ [Comparing!CompareNext]_compareVars => CompareInv'
<1> SUFFICES ASSUME CompareInv, [Comparing!CompareNext]_compareVars PROVE CompareInv'
  OBVIOUS
<1>1. CASE UNCHANGED compareVars
  <2>1. UNCHANGED <<reference, detected, tolerance, walk, position, i, j, events, rows, turns>>
    BY <1>1 DEF compareVars
  <2>2. ReportsDiffer' = ReportsDiffer
    BY <2>1 DEF ReportsDiffer, Exact, FromStart, Sharp, Comparing!Blurred, Comparing!Reported
  <2>3. Placed' = Placed
    BY <2>1 DEF Placed, Sharp, Comparing!Blurred, InReference, InDetected, NextReference, NextDetected, NotPast
  <2>4. InView' = InView /\ Counted' = Counted /\ RowsSoFar' = RowsSoFar
    BY <2>1 DEF InView, Counted, RowsSoFar, Comparing!Horizon, InReference, InDetected
  <2>5. ListsGiven' = ListsGiven /\ BothEmpty' = BothEmpty /\ Comparing!Horizon' = Comparing!Horizon
    BY <2>1 DEF ListsGiven, BothEmpty, Comparing!Horizon
  <2> QED BY <2>1, <2>2, <2>3, <2>4, <2>5 DEF CompareInv, WalkInv, RowsInv
<1>2. ASSUME Comparing!BothShow \/ Comparing!BothCommercial \/ Comparing!OnlyReference \/ Comparing!OnlyDetected
      PROVE  CompareInv'
  <2>1. WalkInv
    BY <1>2
    DEF CompareInv, Comparing!BothShow, Comparing!BothCommercial, Comparing!OnlyReference, Comparing!OnlyDetected
  <2>2. PICK r \in BOOLEAN, d \in BOOLEAN : Turn(r, d)
    BY <1>2, <2>1, WalkTurns
  <2>3. WalkInv'
    BY <2>1, <2>2, TurnKeeps
  <2> QED BY <2>2, <2>3 DEF CompareInv, Turn
<1>3. CASE Comparing!Walked
  BY <1>3, WalkEnds DEF CompareInv, Comparing!Walked, Walks
<1>4. CASE Comparing!Row
  BY <1>4, RowKeeps DEF CompareInv, Comparing!Row, Walks
<1>5. CASE Comparing!RowsDone
  <2>1. /\ walk = "rows" /\ walk' = "compared" /\ ~(i <= Len(reference)) /\ ~(j <= Len(detected))
        /\ UNCHANGED <<reference, detected, tolerance, position, i, j, events, rows, turns>>
    BY <1>5 DEF Comparing!RowsDone, Comparing!lists, Comparing!Expected, Comparing!Found
  <2>2. RowsInv
    BY <2>1 DEF CompareInv, Walks
  <2>3. ReportsDiffer' = ReportsDiffer
    BY <2>1 DEF ReportsDiffer, Exact, FromStart, Sharp, Comparing!Blurred, Comparing!Reported
  <2>4. ListsGiven' = ListsGiven /\ BothEmpty' = BothEmpty /\ Comparing!Horizon' = Comparing!Horizon
        /\ RowsSoFar' = RowsSoFar
    BY <2>1 DEF ListsGiven, BothEmpty, Comparing!Horizon, RowsSoFar
  <2>5. i = Len(reference) + 1 /\ j = Len(detected) + 1
    BY <2>1, <2>2, ListIs DEF RowsInv, RowsSoFar, ListsGiven
  <2> QED BY <2>1, <2>2, <2>3, <2>4, <2>5 DEF CompareInv, RowsInv
<1>6. CASE Comparing!Compared
  BY <1>1, <1>6 DEF Comparing!Compared, Comparing!compareVars, compareVars
<1> QED BY <1>1, <1>2, <1>3, <1>4, <1>5, <1>6 DEF Comparing!CompareNext

LEMMA CompareInvSays == CompareInv => Comparing!DifferencesExact
<1> SUFFICES ASSUME RowsInv, walk \in {"rows", "compared"} PROVE Comparing!DifferencesExact
  BY DEF CompareInv, Comparing!DifferencesExact, Walks
<1> DEFINE before == IF reference = <<>> /\ detected = <<>> THEN {} ELSE 0..Comparing!Horizon - 1
           expected == Comparing!FramesOf(Comparing!Ranges(reference)) \cap before
           found == Comparing!FramesOf(Comparing!Ranges(detected)) \cap before
<1>1. /\ Len(reference) \in Nat /\ Len(detected) \in Nat
      /\ DOMAIN reference = 1..Len(reference) /\ DOMAIN detected = 1..Len(detected)
  BY ListIs DEF RowsInv, ListsGiven
<1>2. ASSUME NEW list, IsList(list), NEW x
      PROVE  x \in Comparing!FramesOf(Comparing!Ranges(list)) <=> x \in Nat /\ Covers(list, x)
  <2>1. x \in Comparing!FramesOf(Comparing!Ranges(list)) <=> \E k \in DOMAIN list : x \in list[k].from..list[k].to - 1
    BY DEF Comparing!FramesOf, Comparing!Ranges
  <2> QED BY <1>2, <2>1, ListIs DEF Covers
<1>3. (Comparing!Reported("missed") \ Comparing!Blurred) = (expected \ found) \ Comparing!Blurred
      /\ (Comparing!Reported("false") \ Comparing!Blurred) = (found \ expected) \ Comparing!Blurred
  <2>1. CASE BothEmpty
    <3>1. \A kind, x : x \notin Comparing!Reported(kind)
      BY <2>1, ReportedIs DEF ReportsAre, RowsInv
    <3> QED BY <2>1, <3>1 DEF BothEmpty
  <2>2. CASE ~BothEmpty
    <3>1. before = 0..Comparing!Horizon - 1 /\ position = Comparing!Horizon /\ ReportsDiffer
      BY <2>2 DEF BothEmpty, RowsInv
    <3>2. Comparing!Horizon \in Nat /\ IsList(reference) /\ IsList(detected)
      <4>1. /\ IsList(reference) /\ IsList(detected)
            /\ \A k \in 1..Len(reference) : reference[k].to \in Nat
            /\ \A k \in 1..Len(detected) : detected[k].to \in Nat
        BY ListIs DEF RowsInv, ListsGiven
      <4>2. (detected # <<>> => Len(detected) > 0) /\ (reference # <<>> => Len(reference) > 0)
        BY <1>1, <4>1, EmptySeq DEF IsList
      <4> QED BY <1>1, <2>2, <4>1, <4>2 DEF Comparing!Horizon, BothEmpty
    <3>3. ASSUME NEW kind, NEW x, x \in Comparing!Reported(kind) PROVE x \in Nat
      <4>1. PICK e \in events : x \in e[2]..e[3] - 1
        BY <3>3, ReportedIs DEF ReportsAre
      <4>2. e[2] \in Nat /\ e[3] \in Nat
        BY <3>1, <4>1 DEF ReportsDiffer, FromStart
      <4> QED BY <4>1, <4>2
    <3>4. ASSUME NEW x
          PROVE  /\ x \in expected <=> x \in Nat /\ x < position /\ Covers(reference, x)
                 /\ x \in found <=> x \in Nat /\ x < position /\ Covers(detected, x)
      <4>1. x \in before <=> x \in Nat /\ x < position
        BY <3>1, <3>2
      <4> QED BY <1>2, <3>2, <4>1
    <3>5. ASSUME NEW x, x \in Nat, x \notin Comparing!Blurred
          PROVE  /\ x \in Comparing!Reported("missed") <=> x < position /\ Covers(reference, x) /\ ~Covers(detected, x)
                 /\ x \in Comparing!Reported("false") <=> x < position /\ Covers(detected, x) /\ ~Covers(reference, x)
      BY <3>1, <3>5 DEF ReportsDiffer, Exact, Sharp
    <3> HIDE DEF expected, found
    <3>6. ASSUME NEW x, x \notin Comparing!Blurred
          PROVE  /\ x \in Comparing!Reported("missed") <=> x \in expected \ found
                 /\ x \in Comparing!Reported("false") <=> x \in found \ expected
      BY <3>3, <3>4, <3>5, <3>6
    <3> QED BY <3>6
  <2> QED BY <2>1, <2>2
<1>4. turns <= 2 * (Len(reference) + Len(detected))
  BY DEF RowsInv
<1>5. walk = "compared" =>
        /\ \A k \in DOMAIN reference : Comparing!Alone(reference[k], detected) => <<k, 0>> \in rows
        /\ \A k \in DOMAIN detected : Comparing!Alone(detected[k], reference) => <<0, k>> \in rows
        /\ \A a, b \in rows : a # b => (a[1] = b[1] => a[1] = 0) /\ (a[2] = b[2] => a[2] = 0)
  BY <1>1 DEF RowsInv, RowsSoFar
<1> QED BY <1>3, <1>4, <1>5 DEF Comparing!DifferencesExact

\* The part is chosen at the start; the others leave the comparison alone.
LEMMA ComparisonKept == RecordingSpec => [](part = "comparing" => CompareInv)
<1>1. RecordingInit => (part = "comparing" => CompareInv)
  BY CompareStarts DEF RecordingInit
<1>2. (part = "comparing" => CompareInv) /\ [RecordingNext]_allVars => (part = "comparing" => CompareInv)'
  <2> SUFFICES ASSUME part = "comparing" => CompareInv, [RecordingNext]_allVars, part' = "comparing" PROVE CompareInv'
    OBVIOUS
  <2>1. part = "comparing" /\ [Comparing!CompareNext]_compareVars
    BY DEF RecordingNext, BlocksStep, ReadingStep, ScoringStep, WritingStep, ComparingStep, allVars
  <2> QED BY <2>1, CompareKept
<1> QED BY <1>1, <1>2, PTL DEF RecordingSpec

(***************************************************************************)
(* For any two lists of breaks and any tolerance: what the walk of         *)
(* compare_reference_intervals reports is exactly how the lists differ,    *)
(* away from edges, in at most one turn an edge, and in the rows that      *)
(* InputReffer writes each break that is alone has one and none has two.   *)
(***************************************************************************)
THEOREM ComparisonExact == RecordingSpec => []DifferencesExact
<1>1. (part = "comparing" => CompareInv) => DifferencesExact
  BY CompareInvSays DEF DifferencesExact
<1> QED BY <1>1, ComparisonKept, PTL

-----------------------------------------------------------------------------
(* Reading. *)

LastFrame == Reading!Last

\* Detection has the frames up to the one the decoder gave last.
Following ==
  LastFrame = out /\ clock = 2 * out /\ seekPts <= 2 * out /\ seekReq = 0
\* Analysis was told to start over, and has not yet.
StartingOver ==
  submitted = <<>> /\ seekReq = 1 /\ seekPts = 0 /\ state \in {"loop", "drained", "ended"}
\* The recording was opened again and the frame after the last one, or one more, is looked for;
\* neither the decoder nor, while it is sought, the demuxer is past it.
Resuming ==
  /\ seekPts = 2 * LastFrame + LoopDelay /\ retryTarget = seekPts
  /\ 2 * out <= seekPts
  /\ seekReq > 0 => 2 * taken <= seekPts
  /\ state = "reading" /\ seekReq > 0 => seekPts > 0
ReadingInv ==
  /\ Reading!TypeOK /\ Reading!Continuous /\ Reading!ListsAll
  /\ IF retries = 0 THEN Following \/ StartingOver ELSE Resuming
  /\ LastFrame <= avail
  /\ state \in {"decoding", "draining"} => seekReq = 0
  /\ state = "draining" => LastFrame <= taken
  /\ state = "drained" => submitted = <<>>
  /\ outcome = "listed" => state = "ended"

LEMMA ReadingParametersAre ==
  /\ Frames \in Nat /\ Frames > 0 /\ MaxCorrections \in Nat /\ MaxCorrections > 0 /\ LiveRetries \in Nat
  /\ LoopDelay \in {0, 2} /\ Untimed \subseteq {1} /\ Reading!FrameTime = 2
  /\ Reading!Skipped \in Nat /\ 2 * Reading!Skipped = LoopDelay
BY ReadingParameters DEF Reading!ParametersOK, Reading!FrameTime, Reading!Skipped

ReadingTyped ==
  /\ avail \in 1..Frames /\ live \in BOOLEAN /\ follows \in BOOLEAN /\ twoPass \in BOOLEAN /\ byBytes \in BOOLEAN
  /\ taken \in 0..avail /\ out \in 0..taken
  /\ clock \in 0..2 * Frames + 2 /\ seekPts \in 0..2 * Frames + 2 /\ retryTarget \in 0..2 * Frames + 2
  /\ seekReq \in 0..MaxCorrections /\ retries \in 0..LiveRetries
  /\ logoKnown \in BOOLEAN /\ secondSearch \in BOOLEAN
  /\ submitted \in Seq(1..Frames)
  /\ state \in {"loop", "reading", "decoding", "draining", "drained", "ended"}
  /\ outcome \in {"none", "listed", "nothing", "positioning", "error"}
TypesAre == ReadingTyped <=> Reading!TypeOK
LEMMA ReadingTypes == TypesAre
<1>1. PICK top : top = 2 * Frames + 2
  OBVIOUS
<1>2. Reading!FrameTime * (Frames + 1) = top
  BY <1>1, ReadingParametersAre
<1>3. \A a, b, c, S : {a, b, c} \subseteq S <=> a \in S /\ b \in S /\ c \in S
  OBVIOUS
<1>4. {clock, seekPts, retryTarget} \subseteq 0..(Reading!FrameTime * (Frames + 1))
        <=> clock \in 0..top /\ seekPts \in 0..top /\ retryTarget \in 0..top
  BY <1>2, <1>3
<1> QED BY <1>1, <1>4, Zenon DEF TypesAre, ReadingTyped, Reading!TypeOK

LEMMA LastIs ==
  ASSUME Reading!TypeOK
  PROVE  LastFrame \in 0..Frames /\ Len(submitted) \in Nat /\ (submitted = <<>> => LastFrame = 0)
<1>1. submitted \in Seq(1..Frames) /\ Len(submitted) \in Nat
  BY DEF Reading!TypeOK
<1>2. CASE submitted = <<>>
  BY <1>1, <1>2, ReadingParametersAre DEF LastFrame, Reading!Last
<1>3. CASE submitted # <<>>
  <2>1. Len(submitted) \in 1..Len(submitted)
    BY <1>1, <1>3, EmptySeq
  <2>2. submitted[Len(submitted)] \in 1..Frames
    BY <1>1, <2>1, ElementOfSeq
  <2> QED BY <1>1, <1>3, <2>2 DEF LastFrame, Reading!Last
<1> QED BY <1>2, <1>3

LEMMA ReadingStarts == Reading!Init => ReadingInv
<1> SUFFICES ASSUME Reading!Init PROVE ReadingInv
  OBVIOUS
<1>1. submitted = <<>> /\ Len(submitted) = 0 /\ LastFrame = 0
  BY DEF Reading!Init, LastFrame, Reading!Last
<1>2. Reading!TypeOK
  <2>1. ReadingTyped
    <3>1. submitted \in Seq(1..Frames)
      BY <1>1
    <3>2. follows \in BOOLEAN
      BY DEF Reading!Init
    <3>3. /\ avail \in 1..Frames /\ avail \in Nat /\ 2 * Frames + 2 \in Nat
          /\ taken = 0 /\ out = 0 /\ clock = 0 /\ seekPts = 0 /\ retryTarget = 0 /\ seekReq = 0 /\ retries = 0
      BY ReadingParametersAre DEF Reading!Init
    <3>4. /\ taken \in 0..avail /\ out \in 0..taken
          /\ clock \in 0..2 * Frames + 2 /\ seekPts \in 0..2 * Frames + 2 /\ retryTarget \in 0..2 * Frames + 2
          /\ seekReq \in 0..MaxCorrections /\ retries \in 0..LiveRetries
      BY <3>3, ReadingParametersAre
    <3>5. /\ live \in BOOLEAN /\ twoPass \in BOOLEAN /\ byBytes \in BOOLEAN
          /\ logoKnown = FALSE /\ secondSearch = FALSE /\ state = "loop" /\ outcome = "none"
      BY DEF Reading!Init
    <3> QED BY <3>1, <3>2, <3>3, <3>4, <3>5 DEF ReadingTyped
  <2> QED BY <2>1, ReadingTypes DEF TypesAre
<1>3. Reading!Continuous
  BY <1>1 DEF Reading!Continuous
<1> QED BY <1>1, <1>2, <1>3 DEF Reading!Init, ReadingInv, Reading!ListsAll, Following, Reading!TypeOK

LEMMA LastStays == UNCHANGED submitted => LastFrame' = LastFrame
BY DEF LastFrame, Reading!Last

\* Steps that give detection nothing.
LEMMA QuietKeeps ==
  ASSUME ReadingInv, ReadingTyped', UNCHANGED submitted,
         avail <= avail',
         IF retries' = 0 THEN Following' \/ StartingOver' ELSE Resuming',
         state' \in {"decoding", "draining"} => seekReq' = 0,
         state' = "draining" => LastFrame <= taken',
         state' = "drained" => submitted = <<>>,
         outcome' = "listed" => state' = "ended" /\ taken' - LastFrame \in 0..Reading!Skipped
  PROVE  ReadingInv'
<1>1. LastFrame' = LastFrame /\ Reading!Continuous'
  BY DEF LastFrame, Reading!Last, ReadingInv, Reading!Continuous, Reading!Skipped
<1>2. LastFrame <= avail'
  <2>1. ReadingTyped
    BY ReadingTypes DEF TypesAre, ReadingInv
  <2>2. Frames \in Nat /\ LastFrame \in 0..Frames /\ LastFrame <= avail
    BY LastIs, ReadingParametersAre DEF ReadingInv
  <2>3. avail \in 1..Frames /\ avail' \in 1..Frames
    BY <2>1 DEF ReadingTyped
  <2> QED BY <2>2, <2>3
<1>3. Reading!ListsAll'
  BY <1>1 DEF Reading!ListsAll, LastFrame, Reading!Skipped
<1>4. TypesAre'
  BY ReadingTypes, PTL
<1> QED BY <1>1, <1>2, <1>3, <1>4 DEF ReadingInv, TypesAre

LEMMA ReadingIs ==
  ASSUME ReadingInv
  PROVE  ReadingTyped /\ LastFrame \in 0..Frames /\ LastFrame <= avail /\ (submitted = <<>> => LastFrame = 0)
BY ReadingTypes, LastIs DEF ReadingInv, TypesAre

LEMMA HonourSeekKeeps == ReadingInv /\ Reading!HonourSeek => ReadingInv'
<1> SUFFICES ASSUME ReadingInv, Reading!HonourSeek PROVE ReadingInv'
  OBVIOUS
<1>1. /\ ReadingTyped /\ LastFrame \in 0..Frames /\ LastFrame <= avail
      /\ submitted = <<>> => LastFrame = 0
  BY ReadingIs
<1>2. /\ state = "loop" /\ outcome # "listed"
      /\ UNCHANGED <<avail, live, follows, twoPass, retries, retryTarget, logoKnown, secondSearch, submitted>>
  BY DEF Reading!HonourSeek, ReadingInv, Reading!inputVars, Reading!logoVars
<1>3. LastFrame' = LastFrame
  BY <1>2, LastStays
<1>4. IF retries = 0 THEN Following \/ StartingOver ELSE Resuming
  BY DEF ReadingInv
<1>5. CASE seekReq = 0 /\ state' = "reading" /\ UNCHANGED <<taken, out, clock, seekPts, seekReq, byBytes, outcome>>
  <2>1. ReadingTyped'
    BY <1>1, <1>2, <1>5 DEF ReadingTyped
  <2>2. IF retries' = 0 THEN Following' ELSE Resuming'
    BY <1>2, <1>3, <1>4, <1>5 DEF Following, StartingOver, Resuming
  <2> QED BY <1>1, <1>2, <1>5, <2>1, <2>2, QuietKeeps DEF ReadingTyped
<1>6. CASE /\ seekReq > 0 /\ seekPts > 0 /\ clock' = 0 /\ UNCHANGED <<seekPts, seekReq>> /\ byBytes' \in BOOLEAN
           /\ \/ taken' \in 0..avail /\ 2 * taken' <= seekPts /\ out' = taken' /\ state' = "reading" /\ UNCHANGED outcome
              \/ out' = taken /\ state' = "reading" /\ UNCHANGED <<taken, outcome>>
              \/ state' = "ended" /\ outcome' = "error" /\ UNCHANGED <<taken, out>>
  <2>1. retries # 0 /\ Resuming
    BY <1>1, <1>4, <1>6 DEF Following, StartingOver, ReadingTyped
  <2>2. ReadingTyped'
    <3>1. out' \in 0..taken' /\ taken' \in 0..avail
      BY <1>1, <1>6 DEF ReadingTyped
    <3>2. clock' \in 0..2 * Frames + 2
      BY <1>6, ReadingParametersAre
    <3> QED BY <1>1, <1>2, <1>6, <3>1, <3>2 DEF ReadingTyped
  <2>3. Resuming'
    BY <1>1, <1>2, <1>3, <1>6, <2>1 DEF Resuming, ReadingTyped
  <2>4. avail <= avail' /\ UNCHANGED submitted /\ state' \in {"reading", "ended"} /\ outcome' # "listed"
    BY <1>1, <1>2, <1>6 DEF ReadingTyped
  <2>5. retries' # 0
    BY <1>2, <2>1
  <2> QED BY <2>2, <2>3, <2>4, <2>5, QuietKeeps
<1>7. CASE /\ seekReq > 0 /\ seekPts = 0
           /\ \/ /\ taken' = 0 /\ out' = 0 /\ clock' = 0 /\ seekReq' = 0 /\ state' = "reading"
                 /\ UNCHANGED <<seekPts, byBytes, outcome>>
              \/ state' = "ended" /\ outcome' = "error" /\ UNCHANGED <<taken, out, clock, seekPts, seekReq, byBytes>>
  <2>1. ReadingTyped'
    <3>1. out' \in 0..taken' /\ taken' \in 0..avail /\ clock' \in 0..2 * Frames + 2 /\ seekReq' \in 0..MaxCorrections
      BY <1>1, <1>7, ReadingParametersAre DEF ReadingTyped
    <3> QED BY <1>1, <1>2, <1>7, <3>1 DEF ReadingTyped
  <2>2. IF retries' = 0 THEN Following' \/ StartingOver' ELSE Resuming'
    BY <1>1, <1>2, <1>3, <1>4, <1>7 DEF Following, StartingOver, Resuming, ReadingTyped
  <2>3. avail <= avail' /\ UNCHANGED submitted /\ state' \in {"reading", "ended"} /\ outcome' # "listed"
    BY <1>1, <1>2, <1>7 DEF ReadingTyped
  <2> QED BY <2>1, <2>2, <2>3, QuietKeeps
<1>8. ASSUME NEW landing \in Reading!Landings(seekPts)
      PROVE  landing \in 0..avail /\ 2 * landing <= seekPts
  BY <1>1, <1>8, ReadingParametersAre DEF Reading!Landings, Reading!Time, ReadingTyped
<1>9. CASE seekReq = 0
  BY <1>5, <1>9 DEF Reading!HonourSeek, Reading!seekVars
<1>10. CASE seekReq > 0 /\ seekPts > 0
  <2>1. Reading!DoSeekRequest
    BY <1>1, <1>10 DEF Reading!HonourSeek, ReadingTyped
  <2> QED BY <1>1, <1>6, <1>8, <1>10, <2>1 DEF Reading!DoSeekRequest, Reading!Ended, ReadingTyped
<1>11. CASE seekReq > 0 /\ seekPts = 0
  <2>1. Reading!StartOver
    BY <1>1, <1>11 DEF Reading!HonourSeek, ReadingTyped
  <2> QED BY <1>7, <1>11, <2>1 DEF Reading!StartOver, Reading!Reopened, Reading!Ended, Reading!seekVars
<1> QED BY <1>1, <1>9, <1>10, <1>11 DEF ReadingTyped

\* Steps before the decoder: a packet is skipped, sent or not read.
LEMMA PacketKeeps ==
  ReadingInv /\ (Reading!SkipUntimed \/ Reading!CorrectSeek \/ Reading!SendPacket \/ Reading!ReadError) => ReadingInv'
<1> SUFFICES ASSUME ReadingInv, Reading!SkipUntimed \/ Reading!CorrectSeek \/ Reading!SendPacket \/ Reading!ReadError
             PROVE  ReadingInv'
  OBVIOUS
<1> DEFINE Same == UNCHANGED <<avail, live, follows, twoPass, out, clock, seekPts, byBytes, retries, retryTarget,
                               logoKnown, secondSearch, submitted, outcome>>
<1>1. /\ ReadingTyped /\ LastFrame \in 0..Frames /\ LastFrame <= avail
      /\ submitted = <<>> => LastFrame = 0
  BY ReadingIs
<1>2. state = "reading" /\ taken < avail /\ outcome # "listed" /\ Same
  BY DEF Reading!SkipUntimed, Reading!CorrectSeek, Reading!SendPacket, Reading!ReadError, ReadingInv,
         Reading!inputVars, Reading!logoVars, Reading!seekVars
<1>3. \/ /\ seekReq > 0 /\ taken + 1 \in Untimed /\ taken' = taken + 1 /\ seekReq' = seekReq /\ state' = "loop"
      \/ /\ 2 * (taken + 1) <= seekPts /\ seekReq \in 1..MaxCorrections - 1
         /\ taken' = taken + 1 /\ seekReq' = seekReq + 1 /\ state' = "loop"
      \/ taken' = taken + 1 /\ seekReq' = 0 /\ state' = "decoding"
      \/ taken' = taken /\ seekReq' = 0 /\ state' = "loop"
  BY <1>1, ReadingParametersAre
  DEF Reading!SkipUntimed, Reading!CorrectSeek, Reading!SendPacket, Reading!ReadError, Reading!seekVars, Reading!Time,
      ReadingTyped
<1>4. LastFrame' = LastFrame
  BY <1>2, LastStays
<1>5. ReadingTyped'
  <2>1. seekReq' \in 0..MaxCorrections /\ taken' \in 0..avail /\ out \in 0..taken'
    BY <1>1, <1>2, <1>3, ReadingParametersAre DEF ReadingTyped
  <2> QED BY <1>1, <1>2, <1>3, <2>1 DEF ReadingTyped
<1>6. IF retries = 0 THEN Following ELSE Resuming
  BY <1>2 DEF ReadingInv, StartingOver
<1>7. CASE retries = 0
  <2>1. Following'
    BY <1>2, <1>3, <1>4, <1>6, <1>7 DEF Following
  <2>2. avail <= avail' /\ state' \in {"loop", "decoding"} /\ (state' = "decoding" => seekReq' = 0) /\ retries' = 0
    BY <1>1, <1>2, <1>3, <1>7 DEF ReadingTyped
  <2> QED BY <1>2, <1>5, <2>1, <2>2, QuietKeeps
<1>8. CASE retries # 0
  <2>1. Resuming'
    <3>1. Resuming
      BY <1>6, <1>8
    <3>2. seekReq' > 0 => 2 * taken' <= seekPts
      <4>1. seekReq > 0 => seekPts \in Nat /\ seekPts > 0
        BY <1>1, <1>2, <3>1 DEF Resuming, ReadingTyped
      <4>2. seekPts = 2 * LastFrame + LoopDelay
        BY <3>1 DEF Resuming
      <4>3. seekReq > 0 => seekPts >= 2
        BY <1>1, <4>1, <4>2, ReadingParametersAre
      <4> QED BY <1>1, <1>3, <4>3, ReadingParametersAre DEF ReadingTyped
    <3> QED BY <1>2, <1>3, <1>4, <3>1, <3>2 DEF Resuming
  <2>2. avail <= avail' /\ state' \in {"loop", "decoding"} /\ (state' = "decoding" => seekReq' = 0) /\ retries' # 0
    BY <1>1, <1>2, <1>3, <1>8 DEF ReadingTyped
  <2> QED BY <1>2, <1>5, <2>1, <2>2, QuietKeeps
<1> QED BY <1>7, <1>8

\* The end of the input, and the end.
LEMMA EndKeeps ==
  ReadingInv /\ (Reading!RetryInput \/ Reading!EndInput \/ Reading!Decoded \/ Reading!Finish \/ Reading!Grow)
    => ReadingInv'
<1> SUFFICES ASSUME ReadingInv PROVE
      /\ Reading!RetryInput => ReadingInv'
      /\ Reading!EndInput \/ Reading!Decoded \/ Reading!Finish \/ Reading!Grow => ReadingInv'
  OBVIOUS
<1>1. /\ ReadingTyped /\ LastFrame \in 0..Frames /\ LastFrame <= avail
      /\ submitted = <<>> => LastFrame = 0
  BY ReadingIs
<1>2. IF retries = 0 THEN Following \/ StartingOver ELSE Resuming
  BY DEF ReadingInv
<1>3. ASSUME Reading!RetryInput PROVE ReadingInv'
  <2>1. /\ state = "reading" /\ outcome # "listed" /\ retries < LiveRetries
        /\ UNCHANGED <<avail, live, follows, twoPass, byBytes, logoKnown, secondSearch, submitted, outcome>>
        /\ taken' = 0 /\ out' = 0 /\ clock' = 0 /\ seekReq' = 1 /\ seekPts' = retryTarget'
        /\ retryTarget' = (IF retries = 0 THEN clock + LoopDelay ELSE retryTarget)
        /\ retries' = retries + 1 /\ state' = "loop"
    BY <1>3
    DEF Reading!RetryInput, Reading!MayRetry, Reading!Resume, Reading!Reopened, ReadingInv, Reading!inputVars,
        Reading!logoVars
  <2>2. LastFrame' = LastFrame
    BY <2>1, LastStays
  <2>3. seekPts' = 2 * LastFrame + LoopDelay
    BY <1>2, <2>1 DEF Following, StartingOver, Resuming
  <2>4. seekPts' \in 0..2 * Frames + 2
    BY <1>1, <2>3, ReadingParametersAre
  <2>5. ReadingTyped'
    <3>1. /\ seekPts' \in 0..2 * Frames + 2 /\ clock' \in 0..2 * Frames + 2 /\ retryTarget' \in 0..2 * Frames + 2
          /\ out' \in 0..taken' /\ taken' \in 0..avail /\ seekReq' \in 0..MaxCorrections /\ retries' \in 0..LiveRetries
      BY <1>1, <2>1, <2>4, ReadingParametersAre DEF ReadingTyped
    <3> QED BY <1>1, <2>1, <3>1 DEF ReadingTyped
  <2>6. Resuming' /\ retries' # 0
    BY <1>1, <2>1, <2>2, <2>3, <2>4, ReadingParametersAre DEF Resuming, ReadingTyped
  <2>7. avail <= avail'
    BY <1>1, <2>1 DEF ReadingTyped
  <2> QED BY <2>1, <2>5, <2>6, <2>7, QuietKeeps
<1>4. ASSUME Reading!EndInput \/ Reading!Decoded \/ Reading!Finish \/ Reading!Grow PROVE ReadingInv'
  <2>1. /\ UNCHANGED <<live, follows, twoPass, taken, out, clock, seekPts, byBytes, retries, retryTarget, logoKnown,
                       secondSearch, submitted>>
        /\ avail' \in avail..Frames
        /\ seekReq' \in {0, seekReq}
        /\ \/ state' = state /\ outcome' = outcome
           \/ state = "reading" /\ state' = "draining" /\ taken = avail /\ outcome' = outcome /\ seekReq' = 0
           \/ state = "decoding" /\ state' = "loop" /\ outcome' = outcome
           \/ /\ state \in {"drained", "draining"} /\ (state = "draining" => out = taken)
              /\ state' = "ended" /\ outcome' = IF submitted # <<>> THEN "listed" ELSE "nothing"
    <3>1. avail \in 1..Frames /\ avail \in avail..Frames
      BY <1>1, ReadingParametersAre DEF ReadingTyped
    <3> USE DEF Reading!Ended, Reading!inputVars, Reading!logoVars, Reading!seekVars
    <3>2. CASE Reading!EndInput
      BY <3>1, <3>2 DEF Reading!EndInput
    <3>3. CASE Reading!Decoded
      BY <3>1, <3>3 DEF Reading!Decoded
    <3>4. CASE Reading!Finish
      BY <3>1, <3>4 DEF Reading!Finish
    <3>5. CASE Reading!Grow
      BY <3>1, <3>5, ReadingParametersAre DEF Reading!Grow
    <3> QED BY <1>4, <3>2, <3>3, <3>4, <3>5
  <2>2. LastFrame' = LastFrame
    BY <2>1, LastStays
  <2>3. ReadingTyped'
    <3>1. avail' \in 1..Frames /\ taken' \in 0..avail' /\ seekReq' \in 0..MaxCorrections
      BY <1>1, <2>1, ReadingParametersAre DEF ReadingTyped
    <3> QED BY <1>1, <2>1, <3>1 DEF ReadingTyped
  <2>4. IF retries' = 0 THEN Following' \/ StartingOver' ELSE Resuming'
    <3>1. state' = "reading" => state = "reading" /\ seekReq' = seekReq
      BY <1>4, <2>1 DEF Reading!EndInput, Reading!Decoded, Reading!Finish, Reading!Grow, Reading!seekVars, Reading!Ended
    <3>2. StartingOver => StartingOver'
      BY <1>1, <1>4, <2>1
      DEF StartingOver, Reading!EndInput, Reading!Decoded, Reading!Finish, Reading!Grow, Reading!seekVars, Reading!Ended
    <3> QED BY <1>1, <1>2, <2>1, <2>2, <3>1, <3>2 DEF Following, Resuming, ReadingTyped
  <2>5. outcome' = "listed" => state' = "ended" /\ taken' - LastFrame \in 0..Reading!Skipped
    <3>1. CASE outcome = "listed"
      <4>1. state = "ended" /\ taken - LastFrame \in 0..Reading!Skipped
        BY <3>1 DEF ReadingInv, Reading!ListsAll, LastFrame
      <4> QED BY <2>1, <4>1
    <3>2. CASE outcome # "listed" /\ outcome' = "listed"
      <4>1. submitted # <<>> /\ state = "draining" /\ out = taken /\ state' = "ended"
        BY <2>1, <3>2 DEF ReadingInv
      <4>2. LastFrame <= taken
        BY <4>1 DEF ReadingInv
      <4>3. 2 * taken <= 2 * LastFrame + LoopDelay
        BY <1>1, <1>2, <4>1, ReadingParametersAre DEF Following, StartingOver, Resuming, ReadingTyped
      <4> QED BY <1>1, <2>1, <4>1, <4>2, <4>3, ReadingParametersAre DEF ReadingTyped
    <3> QED BY <3>1, <3>2
  <2>6. /\ avail <= avail'
        /\ state' \in {"decoding", "draining"} => seekReq' = 0
        /\ state' = "draining" => LastFrame <= taken'
        /\ state' = "drained" => submitted = <<>>
    BY <1>1, <2>1 DEF ReadingInv, ReadingTyped
  <2> QED BY <2>1, <2>3, <2>4, <2>5, <2>6, QuietKeeps
<1> QED BY <1>3, <1>4

\* The decoder gives a frame: detection gets it when it is the one looked for or after it.
LEMMA ReceiveKeeps == ReadingInv /\ Reading!Receive => ReadingInv'
<1> SUFFICES ASSUME ReadingInv, Reading!Receive PROVE ReadingInv'
  OBVIOUS
<1>1. /\ ReadingTyped /\ LastFrame \in 0..Frames /\ LastFrame <= avail
      /\ submitted = <<>> => LastFrame = 0
  BY ReadingIs
<1>2. /\ state \in {"decoding", "draining"} /\ out < taken /\ out' = out + 1 /\ seekReq = 0 /\ outcome # "listed"
      /\ UNCHANGED <<avail, live, follows, twoPass, taken, byBytes, retryTarget>>
  BY DEF Reading!Receive, ReadingInv, Reading!inputVars
<1>3. IF retries = 0 THEN Following ELSE Resuming
  BY <1>2 DEF ReadingInv, StartingOver
<1>4. Reading!Due(out + 1) <=> seekPts <= 2 * out
  BY <1>1, ReadingParametersAre DEF Reading!Due, Reading!Time, ReadingTyped
<1>5. /\ out + 1 \in 1..Frames /\ out + 1 <= avail /\ out + 1 <= taken /\ out + 1 \in 0..taken
      /\ 2 * out \in 0..2 * Frames + 2 /\ 2 * out + 2 \in 0..2 * Frames + 2 /\ 0 \in 0..2 * Frames + 2
      /\ 1 \in 0..MaxCorrections /\ 0 \in 0..MaxCorrections /\ 0 \in 0..LiveRetries
  BY <1>1, <1>2, ReadingParametersAre DEF ReadingTyped
<1>6. Reading!Time(out + 1) = 2 * out /\ Reading!Time(out + 1) + Reading!FrameTime = 2 * out + 2
  BY <1>1, ReadingParametersAre DEF Reading!Time, ReadingTyped
<1>7. TypesAre'
  BY ReadingTypes, PTL
<1>8. ASSUME Reading!Due(out + 1) PROVE ReadingInv'
  <2>1. PICK again \in BOOLEAN :
          /\ retries' = 0 /\ outcome' = outcome /\ logoKnown' \in BOOLEAN /\ secondSearch' \in BOOLEAN
          /\ IF again
             THEN /\ submitted' = <<>> /\ seekReq' = 1 /\ seekPts' = 0 /\ clock' = 2 * out
                  /\ state' = IF state = "draining" THEN "drained" ELSE "loop"
             ELSE /\ submitted' = Append(submitted, out + 1) /\ UNCHANGED <<seekReq, seekPts>>
                  /\ clock' = 2 * out + 2 /\ UNCHANGED state
    <3>1. Reading!Submit(out + 1)
      BY <1>8 DEF Reading!Receive
    <3> QED BY <1>1, <1>6, <3>1 DEF Reading!Submit, Reading!LogoStep, Reading!logoVars, ReadingTyped
  <2>2. CASE again
    <3>1. submitted' = <<>> /\ submitted' \in Seq(1..Frames)
      BY <2>1, <2>2
    <3>2. ReadingTyped'
      BY <1>1, <1>2, <1>5, <2>1, <2>2, <3>1 DEF ReadingTyped
    <3>3. LastFrame' = 0 /\ Reading!Continuous'
      BY <3>1 DEF LastFrame, Reading!Last, Reading!Continuous
    <3>4. StartingOver' /\ retries' = 0
      BY <2>1, <2>2 DEF StartingOver
    <3>5. LastFrame' <= avail'
      BY <1>1, <1>2, <3>3 DEF ReadingTyped
    <3>6. outcome' # "listed" /\ state' \in {"loop", "drained"}
      BY <1>2, <2>1, <2>2
    <3> QED BY <1>7, <3>1, <3>2, <3>3, <3>4, <3>5, <3>6 DEF ReadingInv, Reading!ListsAll, TypesAre
  <2>3. CASE ~again
    <3>1. /\ submitted \in Seq(1..Frames) /\ Len(submitted) \in Nat
          /\ submitted' = Append(submitted, out + 1)
      BY <1>1, <2>1, <2>3 DEF ReadingTyped
    <3>2. /\ submitted' \in Seq(1..Frames) /\ Len(submitted') = Len(submitted) + 1
          /\ \A k \in 1..Len(submitted) : submitted'[k] = submitted[k]
          /\ submitted'[Len(submitted) + 1] = out + 1
      BY <1>5, <3>1
    <3>3. LastFrame' = out + 1 /\ submitted' # <<>>
      BY <3>1, <3>2 DEF LastFrame, Reading!Last
    <3>4. ReadingTyped'
      BY <1>1, <1>2, <1>5, <2>1, <2>3, <3>2 DEF ReadingTyped
    \* The first frame that is due comes next, or one later.
    <3>5. out + 1 \in (LastFrame + 1)..(LastFrame + 1 + Reading!Skipped)
      <4>1. CASE retries = 0
        BY <1>1, <1>3, <4>1, ReadingParametersAre DEF Following, ReadingTyped
      <4>2. CASE retries # 0
        BY <1>1, <1>3, <1>4, <1>8, <4>2, ReadingParametersAre DEF Resuming, ReadingTyped
      <4> QED BY <4>1, <4>2
    <3>6. Reading!Continuous'
      <4>1. ASSUME NEW k \in 1..Len(submitted')
            PROVE  submitted'[k] \in ((IF k = 1 THEN 0 ELSE submitted'[k - 1]) + 1)
                                     ..((IF k = 1 THEN 0 ELSE submitted'[k - 1]) + 1 + Reading!Skipped)
        <5>1. CASE k \in 1..Len(submitted)
          <6>1. submitted[k] \in ((IF k = 1 THEN 0 ELSE submitted[k - 1]) + 1)
                                 ..((IF k = 1 THEN 0 ELSE submitted[k - 1]) + 1 + Reading!Skipped)
            BY <5>1 DEF ReadingInv, Reading!Continuous
          <6>2. k # 1 => k - 1 \in 1..Len(submitted)
            BY <3>1, <5>1
          <6> QED BY <3>2, <5>1, <6>1, <6>2
        <5>2. CASE k = Len(submitted) + 1
          <6>1. LastFrame = IF k = 1 THEN 0 ELSE submitted'[k - 1]
            <7>1. k = 1 <=> submitted = <<>>
              BY <3>1, <5>2, EmptySeq
            <7>2. k # 1 => k - 1 \in 1..Len(submitted) /\ k - 1 = Len(submitted)
              BY <3>1, <5>2
            <7> QED BY <3>2, <7>1, <7>2 DEF LastFrame, Reading!Last
          <6>2. submitted'[k] = out + 1
            BY <3>2, <5>2
          <6> QED BY <3>5, <6>1, <6>2
        <5> QED BY <3>1, <3>2, <4>1, <5>1, <5>2
      <4> QED BY <4>1 DEF Reading!Continuous, Reading!Skipped
    <3>7. Following' /\ retries' = 0
      BY <1>1, <1>2, <1>4, <1>8, <2>1, <2>3, <3>3 DEF Following, ReadingTyped
    <3>8. /\ LastFrame' <= avail' /\ outcome' # "listed" /\ state' \in {"decoding", "draining"} /\ seekReq' = 0
          /\ LastFrame' <= taken'
      BY <1>2, <1>5, <2>1, <2>3, <3>3
    <3> QED BY <1>7, <3>4, <3>6, <3>7, <3>8 DEF ReadingInv, Reading!ListsAll, TypesAre
  <2> QED BY <2>2, <2>3
<1>9. ASSUME ~Reading!Due(out + 1) PROVE ReadingInv'
  <2>1. /\ UNCHANGED <<seekReq, seekPts, retries, logoKnown, secondSearch, submitted>>
        /\ \/ clock' = 2 * out + 2 /\ UNCHANGED <<state, outcome>>
           \/ clock' = 2 * out /\ state' = "ended" /\ outcome' = "positioning"
    <3>1. Reading!PassOver(out + 1)
      BY <1>9 DEF Reading!Receive
    <3> QED BY <1>6, <3>1 DEF Reading!PassOver, Reading!Ended, Reading!logoVars
  <2>2. retries # 0 /\ Resuming
    BY <1>1, <1>3, <1>4, <1>9 DEF Following, ReadingTyped
  <2>3. LastFrame' = LastFrame
    BY <2>1, LastStays
  <2>4. ReadingTyped'
    BY <1>1, <1>2, <1>5, <2>1 DEF ReadingTyped
  <2>5. Resuming'
    <3>1. 2 * (out + 1) <= seekPts
      BY <1>1, <1>4, <1>9, <2>2, ReadingParametersAre DEF Resuming, ReadingTyped
    <3> QED BY <1>2, <2>1, <2>2, <2>3, <3>1 DEF Resuming
  <2>6. /\ avail <= avail' /\ outcome' # "listed" /\ seekReq' = 0 /\ retries' # 0 /\ state' # "drained"
        /\ state' = "draining" => LastFrame <= taken'
    BY <1>1, <1>2, <2>1, <2>2 DEF ReadingInv, ReadingTyped
  <2> QED BY <2>1, <2>4, <2>5, <2>6, QuietKeeps
<1> QED BY <1>8, <1>9

LEMMA ReadingKept == RecordingSpec => [](part = "reading" => ReadingInv)
<1>1. RecordingInit => (part = "reading" => ReadingInv)
  BY ReadingStarts DEF RecordingInit
<1>2. (part = "reading" => ReadingInv) /\ [RecordingNext]_allVars => (part = "reading" => ReadingInv)'
  <2> SUFFICES ASSUME part = "reading" => ReadingInv, [RecordingNext]_allVars, part' = "reading" PROVE ReadingInv'
    OBVIOUS
  <2>1. part = "reading" /\ [Reading!Next]_readingVars
    BY DEF RecordingNext, BlocksStep, ReadingStep, ScoringStep, WritingStep, ComparingStep, allVars
  <2>2. CASE UNCHANGED readingVars
    <3>1. ReadingTyped' = ReadingTyped /\ Reading!Continuous' = Reading!Continuous /\ Reading!ListsAll' = Reading!ListsAll
          /\ LastFrame' = LastFrame /\ UNCHANGED <<avail, taken, out, clock, seekPts, seekReq, retries, retryTarget, submitted,
                                                   state, outcome>>
      BY <2>2
      DEF readingVars, ReadingTyped, Reading!Continuous, Reading!Skipped, Reading!ListsAll, Reading!Last, LastFrame
    <3>2. TypesAre'
      BY ReadingTypes, PTL
    <3> QED BY <2>1, <3>1, <3>2, ReadingTypes DEF ReadingInv, TypesAre, Following, StartingOver, Resuming
  <2>3. CASE Reading!Next
    <3>1. Reading!Over => UNCHANGED readingVars
      BY DEF Reading!Over, Reading!vars, Reading!inputVars, Reading!seekVars, Reading!logoVars, readingVars
    <3> QED BY <2>1, <2>2, <2>3, <3>1, HonourSeekKeeps, PacketKeeps, EndKeeps, ReceiveKeeps DEF Reading!Next, Reading!Loop
  <2> QED BY <2>1, <2>2, <2>3
<1> QED BY <1>1, <1>2, PTL DEF RecordingSpec

(***************************************************************************)
(* For a recording of any length, still written or not, any number of      *)
(* retries and frames the decoder holds back: detection is given each      *)
(* frame once and in order and loses at most the frame by which the resume *)
(* point is late at a reopening, and what is listed is the whole recording *)
(* as far as it was read, wherever seeks land and whenever the logo search *)
(* starts over (app/analysis.cpp, media/video_decoder.cpp).                *)
(***************************************************************************)
THEOREM ReadingIsSound == RecordingSpec => []ReadingSound
<1>1. (part = "reading" => ReadingInv) => ReadingSound
  BY DEF ReadingInv, ReadingSound
<1> QED BY <1>1, ReadingKept, PTL

-----------------------------------------------------------------------------
(* Scoring. *)

\* Where the blocks end, up to block n.
FinishTo(f, list, n) == f = [x \in 0..n |-> IF x = 0 THEN 0 ELSE f[x - 1] + list[x].len]

LEMMA FinishExists ==
  ASSUME NEW list, NEW N0 \in Nat
  PROVE  \E f : FinishTo(f, list, N0)
<1> DEFINE missing == {k \in Nat : ~\E f : FinishTo(f, list, k)}
<1> SUFFICES ASSUME missing # {} PROVE FALSE
  OBVIOUS
<1>1. PICK k \in missing : \A n \in missing : k <= n
  <2>1. missing \in SUBSET Nat
    OBVIOUS
  <2> HIDE DEF missing
  <2> QED BY <2>1, LeastNatural
<1>2. k \in Nat
  BY <1>1
<1>3. CASE k = 0
  <2> DEFINE f == [x \in 0..0 |-> 0]
  <2>1. \A x \in 0..0 : x = 0
    OBVIOUS
  <2>2. f = [x \in 0..0 |-> IF x = 0 THEN 0 ELSE f[x - 1] + list[x].len]
    BY <2>1
  <2>3. FinishTo(f, list, 0)
    BY <2>2 DEF FinishTo
  <2> QED BY <1>1, <1>3, <2>3
<1>4. CASE k # 0
  <2>1. k - 1 \in Nat /\ k - 1 \notin missing
    <3>1. k - 1 \in Nat /\ ~(k <= k - 1)
      BY <1>2, <1>4
    <3> HIDE DEF missing
    <3> QED BY <1>1, <3>1
  <2>2. PICK g : FinishTo(g, list, k - 1)
    BY <2>1
  <2> DEFINE h == [x \in 0..k |-> IF x = 0 THEN 0 ELSE g[x - 1] + list[x].len]
  <2>3. \A x \in 0..(k - 1) : h[x] = g[x]
    <3>1. \A x \in 0..(k - 1) : x \in 0..k
      BY <1>2
    <3>2. \A x \in 0..(k - 1) : g[x] = IF x = 0 THEN 0 ELSE g[x - 1] + list[x].len
      BY <2>2 DEF FinishTo
    <3> QED BY <3>1, <3>2
  <2>4. \A x \in 0..k : x = 0 \/ h[x - 1] = g[x - 1]
    <3>1. \A x \in 0..k : x = 0 \/ x - 1 \in 0..(k - 1)
      BY <1>2
    <3> HIDE DEF h
    <3> QED BY <2>3, <3>1
  <2>5. h = [x \in 0..k |-> IF x = 0 THEN 0 ELSE h[x - 1] + list[x].len]
    BY <2>4
  <2>6. FinishTo(h, list, k)
    BY <2>5 DEF FinishTo
  <2> QED BY <1>1, <2>6
<1> QED BY <1>3, <1>4

GivenTyped == given \in Seq(Scores!BlockType) /\ given # <<>>

LEMMA FinishIs ==
  ASSUME GivenTyped
  PROVE  /\ \A x \in 0..Len(given) : Scores!Finish[x] \in Nat
         /\ \A x \in 1..Len(given) :
              /\ given[x].len \in Nat /\ given[x].len > 0
              /\ Scores!Finish[x] = Scores!Finish[x - 1] + given[x].len
<1> DEFINE F == Scores!Finish
           n == Len(given)
<1>1. n \in Nat /\ \A x \in 1..n : given[x].len \in Nat /\ given[x].len > 0
  <2>1. n \in Nat /\ \A x \in 1..n : given[x] \in Scores!BlockType
    BY DEF GivenTyped
  <2> QED BY <2>1 DEF Scores!BlockType
<1>2. PICK f : f = [x \in 0..n |-> IF x = 0 THEN 0 ELSE f[x - 1] + given[x].len]
  BY <1>1, FinishExists DEF FinishTo
<1>3. F = [x \in 0..n |-> IF x = 0 THEN 0 ELSE F[x - 1] + given[x].len]
  BY <1>2 DEF Scores!Finish, Scores!Count
<1> HIDE DEF F
<1>4. \A x \in 0..n : F[x] = IF x = 0 THEN 0 ELSE F[x - 1] + given[x].len
  BY <1>3
<1> DEFINE bad == {x \in 0..n : ~(F[x] \in Nat)}
<1>5. bad = {}
  <2> SUFFICES ASSUME bad # {} PROVE FALSE
    OBVIOUS
  <2>1. PICK x \in bad : \A m \in bad : x <= m
    <3>1. bad \in SUBSET Nat
      BY <1>1
    <3> HIDE DEF bad
    <3> QED BY <3>1, LeastNatural
  <2>2. x # 0 /\ x \in 1..n /\ F[x] = F[x - 1] + given[x].len
    BY <2>1, <1>1, <1>4
  <2>3. x - 1 \in 0..n /\ x - 1 \notin bad
    <3>1. x - 1 \in 0..n /\ ~(x <= x - 1)
      BY <2>2, <1>1
    <3> HIDE DEF bad
    <3> QED BY <3>1, <2>1
  <2> QED BY <2>1, <2>2, <2>3, <1>1
<1>6. \A x \in 1..n : F[x] = F[x - 1] + given[x].len
  BY <1>1, <1>4
<1> QED BY <1>1, <1>5, <1>6 DEF F

\* A run of blocks is at least as long as each of its blocks.
LEMMA TotalCovers ==
  ASSUME GivenTyped, NEW from \in 1..Len(given), NEW to \in 1..Len(given), NEW x \in from..to
  PROVE  Scores!Total(from, to) \in Int /\ Scores!Total(from, to) >= given[x].len
<1> DEFINE F == Scores!Finish
           n == Len(given)
<1>1. n \in Nat /\ x \in 1..n /\ from \in Int /\ to \in Int /\ from <= x /\ x <= to
  BY DEF GivenTyped
<1>2. /\ \A k \in 0..n : F[k] \in Nat
      /\ \A k \in 1..n : given[k].len \in Nat /\ F[k] = F[k - 1] + given[k].len
  BY FinishIs
<1> HIDE DEF F
<1>3. \A k \in 0..n : k >= from - 1 => F[k] >= F[from - 1]
  <2> DEFINE bad == {k \in 0..n : k >= from - 1 /\ ~(F[k] >= F[from - 1])}
  <2> SUFFICES ASSUME bad # {} PROVE FALSE
    OBVIOUS
  <2>1. PICK k \in bad : \A m \in bad : k <= m
    <3>1. bad \in SUBSET Nat
      BY <1>1
    <3> HIDE DEF bad
    <3> QED BY <3>1, LeastNatural
  <2>2. k \in 1..n /\ k - 1 \in 0..n /\ k - 1 >= from - 1 /\ from - 1 \in 0..n
    <3>1. k \in 0..n /\ k >= from - 1 /\ ~(F[k] >= F[from - 1]) /\ from - 1 \in 0..n
      BY <2>1, <1>1
    <3>2. F[from - 1] \in Nat
      BY <3>1, <1>2
    <3>3. k # from - 1
      BY <3>1, <3>2
    <3> QED BY <3>1, <3>3, <1>1
  <2>3. F[k - 1] >= F[from - 1]
    <3>1. k - 1 \notin bad
      <4>1. ~(k <= k - 1)
        BY <2>2
      <4> HIDE DEF bad
      <4> QED BY <4>1, <2>1
    <3> QED BY <3>1, <2>2
  <2>4. F[k] >= F[from - 1]
    <3>1. F[k] = F[k - 1] + given[k].len /\ given[k].len \in Nat /\ F[k - 1] \in Nat /\ F[from - 1] \in Nat
      BY <2>2, <1>2
    <3> QED BY <3>1, <2>3
  <2> QED BY <2>1, <2>4
<1>4. \A k \in x..n : F[k] >= F[x]
  <2> DEFINE bad == {k \in x..n : ~(F[k] >= F[x])}
  <2> SUFFICES ASSUME bad # {} PROVE FALSE
    OBVIOUS
  <2>1. PICK k \in bad : \A m \in bad : k <= m
    <3>1. bad \in SUBSET Nat
      BY <1>1
    <3> HIDE DEF bad
    <3> QED BY <3>1, LeastNatural
  <2>2. k \in 1..n /\ k - 1 \in x..n /\ x \in 0..n
    BY <2>1, <1>1, <1>2
  <2>3. F[k - 1] >= F[x]
    <3>1. k - 1 \notin bad
      <4>1. ~(k <= k - 1)
        BY <2>2
      <4> HIDE DEF bad
      <4> QED BY <4>1, <2>1
    <3> QED BY <3>1, <2>2
  <2>4. F[k] >= F[x]
    <3>1. F[k] = F[k - 1] + given[k].len /\ given[k].len \in Nat /\ F[k - 1] \in Nat /\ F[x] \in Nat
      <4>1. k - 1 \in 0..n
        BY <2>2
      <4> QED BY <4>1, <2>2, <1>2
    <3> QED BY <3>1, <2>3
  <2> QED BY <2>1, <2>4
<1>5. /\ F[x - 1] >= F[from - 1] /\ F[to] >= F[x] /\ F[x] = F[x - 1] + given[x].len
      /\ F[x - 1] \in Nat /\ F[x] \in Nat /\ F[to] \in Nat /\ F[from - 1] \in Nat /\ given[x].len \in Nat
  <2>1. x - 1 \in 0..n /\ x - 1 >= from - 1 /\ to \in x..n /\ from - 1 \in 0..n /\ to \in 0..n /\ x \in 0..n
    BY <1>1
  <2> QED BY <2>1, <1>1, <1>2, <1>3, <1>4
<1>6. Scores!Total(from, to) = F[to] - F[from - 1]
  BY DEF Scores!Total, F
<1> QED BY <1>5, <1>6

\* Scores stay positive whole numbers.
LEMMA TimesIs ==
  ASSUME NEW s \in Nat \ {0}, NEW n \in Nat, NEW d \in Nat \ {0}
  PROVE  Scores!Times(s, n, d) \in Nat \ {0}
<1>1. s * n \in Nat
  OBVIOUS
<1>2. \A p \in Nat : p \div d \in Nat
  OBVIOUS
<1> QED BY <1>1, <1>2 DEF Scores!Times

LEMMA CappedIs ==
  ASSUME NEW s \in Nat \ {0}
  PROVE  Scores!Capped(s) \in Nat \ {0}
BY DEF Scores!Capped, Scores!Cap

Loop == {"length", "forward", "backward", "evidence"}
Early == {"bumpers", "strong", "weak", "dark", "first", "last", "logoless"}
Late == {"middle", "padsBefore", "padsAfter", "scored"}

\* What is known of a state of the weighing.
ScoreTyped ==
  /\ GivenTyped
  /\ pass \in Loop \cup Early \cup Late
  /\ weighing \in Nat /\ weighing >= 1 /\ (pass \in Loop => weighing <= Len(given))
  /\ reach \in Nat
  /\ score \in [1..Len(given) -> Nat \ {0}]
  /\ marks \in [1..Len(given) -> SUBSET (1..9)]
  /\ pass \notin Loop => weighed \in [1..Len(given) -> Nat \ {0}]

Filled(x) == 1 \in marks[x]

\* Rule 1 fills no block at an edge, and beside what it filled is more of that or a commercial.
Supported ==
  \A x \in 1..Len(given) : Filled(x) =>
    /\ 1 < x /\ x < Len(given)
    /\ Filled(x - 1) \/ score[x - 1] > 110
    /\ Filled(x + 1) \/ score[x + 1] > 110

\* What was weighed as show, is long, and is not at an edge or silent.
LongShow(x) == weighed[x] < 80 /\ 2 * given[x].len >= MinShow /\ marks[x] \cap {7, 9} = {}

ScoreInv ==
  /\ ScoreTyped
  /\ pass \in Loop \cup {"bumpers", "strong"} => \A x \in 1..Len(given) : ~Filled(x)
  /\ pass \in {"weak", "dark"} => Supported
  /\ pass \in Early => \A x \in 1..Len(given) : LongShow(x) => score[x] < 80
  /\ pass \in Late => \A x \in 1..Len(given) : LongShow(x) => score[x] <= 105

LEMMA ScoreStart == ScoringInit => ScoreInv
<1> SUFFICES ASSUME ScoringInit PROVE ScoreInv
  OBVIOUS
<1>1. GivenTyped
  <2>1. given \in Weighed
    BY DEF ScoringInit, Scores!Init
  <2>2. \A list \in Weighed : list # <<>> /\ list \in Seq(Scores!BlockType)
    BY ScoringParameters DEF Scores!ParametersOK
  <2> QED BY <2>1, <2>2 DEF GivenTyped
<1>2. /\ pass = "length" /\ weighing = 1 /\ reach = 0
      /\ score = [x \in 1..Len(given) |-> 100] /\ marks = [x \in 1..Len(given) |-> {}]
  <2>1. DOMAIN given = 1..Len(given)
    BY <1>1 DEF GivenTyped
  <2> QED BY <2>1 DEF ScoringInit, Scores!Init, Scores!Indices
<1>3. Len(given) \in Nat /\ 1 <= Len(given)
  BY <1>1 DEF GivenTyped
<1>4. ScoreTyped
  <2>1. score \in [1..Len(given) -> Nat \ {0}] /\ marks \in [1..Len(given) -> SUBSET (1..9)]
    BY <1>2
  <2> QED BY <2>1, <1>1, <1>2, <1>3 DEF ScoreTyped, Loop
<1>5. \A x \in 1..Len(given) : ~Filled(x)
  BY <1>2 DEF Filled
<1> QED BY <1>2, <1>4, <1>5 DEF ScoreInv, Early, Late

\* The loop changes scores, and marks nothing.
LEMMA LoopKeeps ==
  ASSUME ScoreInv, pass \in Loop, given' = given, marks' = marks,
         score' \in [1..Len(given) -> Nat \ {0}],
         weighing' \in Nat, weighing' >= 1, reach' \in Nat,
         \/ pass' \in Loop /\ weighing' <= Len(given)
         \/ pass' = "bumpers" /\ weighed' = score'
  PROVE  ScoreInv'
<1>1. ScoreTyped'
  BY DEF ScoreInv, ScoreTyped, GivenTyped, Loop, Early, Late
<1>2. \A x \in 1..Len(given') : ~Filled(x)'
  BY DEF ScoreInv, Filled
<1>3. pass' \notin Late /\ pass' \notin {"weak", "dark"} /\ (pass' \in Early => pass' = "bumpers")
  BY DEF Loop, Early, Late
<1>4. pass' = "bumpers" => \A x \in 1..Len(given') : weighed'[x] < 80 => score'[x] < 80
  BY DEF Loop
<1> QED BY <1>1, <1>2, <1>3, <1>4 DEF ScoreInv, LongShow

\* A run of blocks that adds up to a standard length.
LEMMA BoostedKeeps ==
  ASSUME ScoreInv, NEW a \in Int, NEW b \in Int, a <= b, Scores!Boosted(a, b)
  PROVE  score' \in [1..Len(given) -> Nat \ {0}]
<1> DEFINE n == b - a + 1
<1>1. n \in Nat /\ n > 0
  OBVIOUS
<1> HIDE DEF n
<1>2. DOMAIN given = 1..Len(given) /\ score \in [1..Len(given) -> Nat \ {0}]
  BY DEF ScoreInv, ScoreTyped, GivenTyped
<1>3. \A s \in Nat \ {0} : /\ Scores!Times(s, n + 1, n) \in Nat \ {0}
                           /\ Scores!Times(s, 8 * n + 5, 8 * n) \in Nat \ {0}
  <2>1. n + 1 \in Nat /\ n \in Nat \ {0} /\ 8 * n + 5 \in Nat /\ 8 * n \in Nat \ {0}
    BY <1>1
  <2> QED BY <2>1, TimesIs
<1>4. \A s \in Nat \ {0} : /\ Scores!Capped(Scores!Times(s, n + 1, n)) \in Nat \ {0}
                           /\ Scores!Capped(Scores!Times(s, 8 * n + 5, 8 * n)) \in Nat \ {0}
  BY <1>3, CappedIs
<1>5. \A x \in 1..Len(given) :
        \/ score'[x] = score[x]
        \/ score'[x] = Scores!Capped(Scores!Times(score[x], n + 1, n))
        \/ score'[x] = Scores!Capped(Scores!Times(score[x], 8 * n + 5, 8 * n))
  <2> DEFINE total == Scores!Total(a, b)
             match(x) == total \in Strict \cup Loose /\ x \in a..b
             by(s) == IF total \in Strict THEN Scores!Times(s, n + 1, n) ELSE Scores!Times(s, 8 * n + 5, 8 * n)
  <2>1. score' = [x \in 1..Len(given) |-> IF match(x) THEN Scores!Capped(by(score[x])) ELSE score[x]]
    BY <1>2 DEF Scores!Boosted, Scores!Indices, n
  <2> HIDE DEF total
  <2> QED BY <2>1
<1>6. \A x \in 1..Len(given) : score'[x] \in Nat \ {0}
  <2> TAKE x \in 1..Len(given)
  <2>1. score[x] \in Nat \ {0}
    BY <1>2
  <2> QED BY <2>1, <1>4, <1>5
<1>7. score' = [x \in 1..Len(given) |-> score'[x]]
  BY <1>2 DEF Scores!Boosted, Scores!Indices
<1> QED BY <1>6, <1>7

\* What is seen and heard in a block.
LEMMA EvidenceIs ==
  ASSUME NEW blk \in Scores!BlockType, NEW s \in Nat \ {0}
  PROVE  Scores!ByShape(blk, Scores!ByCaptions(blk, Scores!ByExcess(blk, Scores!ByAverages(blk, Scores!ByLogo(blk, s)))))
           \in Nat \ {0}
<1>1. blk.captions \in Nat /\ blk.above \in 0..5
  BY DEF Scores!BlockType
<1>2. \A t \in Nat \ {0} : Scores!ByLogo(blk, t) \in Nat \ {0}
  <2> TAKE t \in Nat \ {0}
  <2>1. Scores!Times(t, 1, 100) \in Nat \ {0}
    <3>1. 1 \in Nat /\ 100 \in Nat \ {0}
      OBVIOUS
    <3> QED BY <3>1, TimesIs
  <2>2. Scores!Capped(Scores!Times(t, 1, 100)) \in Nat \ {0}
    BY <2>1, CappedIs
  <2>3. Scores!Times(t, 2, 1) \in Nat \ {0}
    <3>1. 2 \in Nat /\ 1 \in Nat \ {0}
      OBVIOUS
    <3> QED BY <3>1, TimesIs
  <2>4. Scores!Capped(Scores!Times(t, 2, 1)) \in Nat \ {0}
    BY <2>3, CappedIs
  <2> QED BY <2>2, <2>4 DEF Scores!ByLogo
<1>3. \A t \in Nat \ {0} : Scores!ByAverages(blk, t) \in Nat \ {0}
  <2> TAKE t \in Nat \ {0}
  <2>1. blk.above # 0 => <<2, 4, 8, 16, 32>>[blk.above] \in Nat
    BY <1>1
  <2>2. blk.above # 0 => Scores!Capped(Scores!Times(t, <<2, 4, 8, 16, 32>>[blk.above], 1)) \in Nat \ {0}
    <3> DEFINE p == <<2, 4, 8, 16, 32>>[blk.above]
    <3> HIDE DEF p
    <3>1. ASSUME blk.above # 0 PROVE Scores!Times(t, p, 1) \in Nat \ {0}
      <4>1. p \in Nat
        BY <2>1, <3>1 DEF p
      <4> QED BY <4>1, TimesIs
    <3>2. blk.above # 0 => Scores!Capped(Scores!Times(t, p, 1)) \in Nat \ {0}
      BY <3>1, CappedIs
    <3> QED BY <3>2 DEF p
  <2> QED BY <2>2 DEF Scores!ByAverages
<1>4. \A t \in Nat \ {0} : Scores!ByExcess(blk, t) \in Nat \ {0}
  <2> TAKE t \in Nat \ {0}
  <2> DEFINE once == Scores!Times(t, 1, 100)
  <2>1. once \in Nat \ {0}
    BY TimesIs
  <2> HIDE DEF once
  <2>2. Scores!Times(once, 1, 100) \in Nat \ {0}
    BY <2>1, TimesIs
  <2> USE DEF once
  <2> QED BY <2>1, <2>2 DEF Scores!ByExcess
<1>5. \A t \in Nat \ {0} : Scores!ByCaptions(blk, t) \in Nat \ {0}
  BY <1>1, TimesIs, CappedIs DEF Scores!ByCaptions
<1>6. \A t \in Nat \ {0} : Scores!ByShape(blk, t) \in Nat \ {0}
  BY TimesIs DEF Scores!ByShape
<1> QED BY <1>2, <1>3, <1>4, <1>5, <1>6

\* A score changed at one block.
LEMMA OneScore ==
  ASSUME ScoreInv, pass \in Loop, NEW s \in Nat \ {0}, score' = [score EXCEPT ![weighing] = s]
  PROVE  score' \in [1..Len(given) -> Nat \ {0}]
BY DEF ScoreInv, ScoreTyped

LEMMA WeighStep ==
  ASSUME ScoreInv,
         \/ Scores!Length \/ Scores!Forward \/ Scores!ForwardDone
         \/ Scores!Backward \/ Scores!BackwardDone \/ Scores!Evidence
  PROVE  ScoreInv'
<1>1. /\ score \in [1..Len(given) -> Nat \ {0}] /\ weighing \in Nat /\ weighing >= 1 /\ reach \in Nat
      /\ pass \in Loop => weighing <= Len(given) /\ weighing \in 1..Len(given)
      /\ Len(given) \in Nat /\ \A x \in 1..Len(given) : given[x] \in Scores!BlockType
  <2>1. Len(given) \in Nat /\ \A x \in 1..Len(given) : given[x] \in Scores!BlockType
    BY DEF ScoreInv, ScoreTyped, GivenTyped
  <2>2. /\ score \in [1..Len(given) -> Nat \ {0}] /\ weighing \in Nat /\ weighing >= 1 /\ reach \in Nat
        /\ pass \in Loop => weighing <= Len(given)
    BY DEF ScoreInv, ScoreTyped
  <2> QED BY <2>1, <2>2
<1>2. CASE Scores!Length
  <2>1. pass \in Loop /\ pass' = "forward" /\ reach' = 1 /\ UNCHANGED <<given, weighing, marks>>
    BY <1>2 DEF Scores!Length, Scores!data, Loop
  <2>2. score[weighing] \in Nat \ {0}
    BY <1>1, <2>1
  <2>3. /\ Scores!Times(score[weighing], 3, 1) \in Nat \ {0}
        /\ Scores!Capped(Scores!Times(score[weighing], 3, 2)) \in Nat \ {0}
    <3>1. 3 \in Nat /\ 1 \in Nat \ {0} /\ 2 \in Nat \ {0}
      OBVIOUS
    <3>2. Scores!Times(score[weighing], 3, 1) \in Nat \ {0}
      BY <2>2, <3>1, TimesIs
    <3>3. Scores!Times(score[weighing], 3, 2) \in Nat \ {0}
      BY <2>2, <3>1, TimesIs
    <3> QED BY <3>2, <3>3, CappedIs
  <2>4. \E s \in Nat \ {0} : score' = [score EXCEPT ![weighing] = s]
    BY <1>2, <2>2, <2>3 DEF Scores!Length
  <2>5. score' \in [1..Len(given) -> Nat \ {0}]
    BY <2>1, <2>4, OneScore
  <2> QED BY <2>1, <2>5, <1>1, LoopKeeps DEF Loop
<1>3. CASE Scores!Forward
  <2>1. pass \in Loop /\ pass' \in Loop /\ reach' = reach + 1 /\ UNCHANGED <<given, weighing, marks>>
    BY <1>3 DEF Scores!Forward, Scores!data, Loop
  <2>2. weighing \in Int /\ weighing + reach \in Int /\ weighing <= weighing + reach
    BY <1>1
  <2>3. score' \in [1..Len(given) -> Nat \ {0}]
    BY <1>3, <2>2, BoostedKeeps DEF Scores!Forward
  <2> QED BY <2>1, <2>3, <1>1, LoopKeeps
<1>4. CASE Scores!ForwardDone
  <2>1. /\ pass \in Loop /\ pass' \in Loop /\ reach' = 1 /\ UNCHANGED <<given, weighing, marks, score>>
    BY <1>4 DEF Scores!ForwardDone, Scores!data, Loop
  <2> QED BY <2>1, <1>1, LoopKeeps
<1>5. CASE Scores!Backward
  <2>1. pass \in Loop /\ pass' \in Loop /\ reach' = reach + 1 /\ UNCHANGED <<given, weighing, marks>>
    BY <1>5 DEF Scores!Backward, Scores!data, Loop
  <2>2. weighing \in Int /\ weighing - reach \in Int /\ weighing - reach <= weighing
    BY <1>1
  <2>3. score' \in [1..Len(given) -> Nat \ {0}]
    BY <1>5, <2>2, BoostedKeeps DEF Scores!Backward
  <2> QED BY <2>1, <2>3, <1>1, LoopKeeps
<1>6. CASE Scores!BackwardDone
  <2>1. /\ pass \in Loop /\ pass' \in Loop /\ UNCHANGED <<given, weighing, marks, score, reach>>
    BY <1>6 DEF Scores!BackwardDone, Scores!data, Loop
  <2> QED BY <2>1, <1>1, LoopKeeps
<1>7. CASE Scores!Evidence
  <2>1. /\ pass \in Loop /\ UNCHANGED <<given, marks, reach>>
    BY <1>7 DEF Scores!Evidence, Scores!data, Loop
  <2>2. \E s \in Nat \ {0} : score' = [score EXCEPT ![weighing] = s]
    <3>1. score[weighing] \in Nat \ {0} /\ given[weighing] \in Scores!BlockType
      BY <1>1, <2>1
    <3> QED BY <3>1, <1>7, EvidenceIs DEF Scores!Evidence
  <2>3. score' \in [1..Len(given) -> Nat \ {0}]
    BY <2>1, <2>2, OneScore
  <2>4. \/ weighing < Len(given) /\ weighing' = weighing + 1 /\ pass' \in Loop
        \/ weighing' = weighing /\ pass' = "bumpers" /\ weighed' = score'
    BY <1>7 DEF Scores!Evidence, Scores!Count, Loop
  <2>5. weighing' \in Nat /\ weighing' >= 1 /\ (pass' \in Loop => weighing' <= Len(given))
    BY <2>4, <1>1 DEF Loop
  <2> QED BY <2>1, <2>3, <2>4, <2>5, <1>1, LoopKeeps
<1> QED BY <1>2, <1>3, <1>4, <1>5, <1>6, <1>7

-----------------------------------------------------------------------------
(* The rules. *)

\* What a rule has to keep.
LEMMA RuleKeeps ==
  ASSUME ScoreInv, pass \in Early \cup Late, pass' \in Early \cup Late,
         UNCHANGED <<given, reach, weighed>>, weighing' \in Nat, weighing' >= 1,
         score' \in [1..Len(given) -> Nat \ {0}], marks' \in [1..Len(given) -> SUBSET (1..9)],
         pass' \in {"bumpers", "strong"} => \A x \in 1..Len(given) : ~Filled(x)',
         pass' \in {"weak", "dark"} => Supported',
         pass' \in Early => \A x \in 1..Len(given) : LongShow(x)' => score'[x] < 80,
         pass' \in Late => \A x \in 1..Len(given) : LongShow(x)' => score'[x] <= 105
  PROVE  ScoreInv'
<1>1. pass \notin Loop /\ pass' \notin Loop
  BY DEF Early, Late, Loop
<1>2. ScoreTyped'
  BY <1>1 DEF ScoreInv, ScoreTyped, GivenTyped
<1> QED BY <1>1, <1>2 DEF ScoreInv

\* A rule puts one score on a set of blocks.
LEMMA PutIs ==
  ASSUME ScoreInv, NEW set, NEW rule \in 1..9, NEW s \in Nat \ {0}, Scores!Put(set, rule, s)
  PROVE  /\ score' \in [1..Len(given) -> Nat \ {0}] /\ marks' \in [1..Len(given) -> SUBSET (1..9)]
         /\ \A x \in 1..Len(given) :
              /\ score'[x] = IF x \in set THEN s ELSE score[x]
              /\ marks'[x] = IF x \in set THEN marks[x] \cup {rule} ELSE marks[x]
<1>1. /\ DOMAIN given = 1..Len(given)
      /\ score \in [1..Len(given) -> Nat \ {0}] /\ marks \in [1..Len(given) -> SUBSET (1..9)]
  BY DEF ScoreInv, ScoreTyped, GivenTyped
<1>2. /\ score' = [x \in 1..Len(given) |-> IF x \in set THEN s ELSE score[x]]
      /\ marks' = [x \in 1..Len(given) |-> IF x \in set THEN marks[x] \cup {rule} ELSE marks[x]]
  BY <1>1 DEF Scores!Put, Scores!Marked, Scores!Indices
<1> QED BY <1>1, <1>2

\* A rule puts on a set of blocks what it makes of their scores.
LEMMA MarkedIs ==
  ASSUME ScoreInv, NEW set, NEW rule \in 1..9, Scores!Marked(set, rule)
  PROVE  /\ marks' \in [1..Len(given) -> SUBSET (1..9)]
         /\ \A x \in 1..Len(given) : marks'[x] = IF x \in set THEN marks[x] \cup {rule} ELSE marks[x]
<1>1. DOMAIN given = 1..Len(given) /\ marks \in [1..Len(given) -> SUBSET (1..9)]
  BY DEF ScoreInv, ScoreTyped, GivenTyped
<1>2. marks' = [x \in 1..Len(given) |-> IF x \in set THEN marks[x] \cup {rule} ELSE marks[x]]
  BY <1>1 DEF Scores!Marked, Scores!Indices
<1> QED BY <1>1, <1>2

\* Marks only grow: what counts as long show afterwards did before, and has not been marked
\* by the rules for the edges and for silence.
LEMMA LongBefore ==
  ASSUME ScoreInv, UNCHANGED <<given, weighed>>, NEW set, NEW rule \in 1..9,
         \A x \in 1..Len(given) : marks'[x] = IF x \in set THEN marks[x] \cup {rule} ELSE marks[x]
  PROVE  \A x \in 1..Len(given) : LongShow(x)' => LongShow(x) /\ (rule \in {7, 9} => x \notin set)
<1> TAKE x \in 1..Len(given)
<1> SUFFICES ASSUME LongShow(x)' PROVE LongShow(x) /\ (rule \in {7, 9} => x \notin set)
  OBVIOUS
<1>1. weighed[x] < 80 /\ 2 * given[x].len >= MinShow /\ marks'[x] \cap {7, 9} = {}
  BY DEF LongShow
<1>2. CASE x \in set
  BY <1>1, <1>2 DEF LongShow
<1>3. CASE x \notin set
  BY <1>1, <1>3 DEF LongShow
<1> QED BY <1>2, <1>3

\* A gap lies inside, between strong commercials, and each block of it is short.
LEMMA GapIs ==
  ASSUME ScoreInv, NEW strong \in Nat, NEW share,
         share = <<2, 3, 6>> \/ share = <<4, 6, 12>>,
         NEW x \in Scores!Gaps(strong, share)
  PROVE  /\ x \in 2..(Len(given) - 1)
         /\ x - 1 \in Scores!Gaps(strong, share) \/ score[x - 1] > strong
         /\ x + 1 \in Scores!Gaps(strong, share) \/ score[x + 1] > strong
         /\ 2 * given[x].len < MinShow
<1> DEFINE n == Len(given)
           gap(a, b) == Scores!Gap(a, b, strong, share)
<1>1. n \in Nat
  BY DEF ScoreInv, ScoreTyped, GivenTyped
<1>2. \A y : y \in Scores!Gaps(strong, share) <=>
        \E a, b \in 2..(n - 1) : a <= b /\ y \in a..b /\ gap(a, b)
  <2> HIDE DEF gap
  <2>1. Scores!Gaps(strong, share) =
          UNION {run[1]..run[2] : run \in {r \in (2..(n - 1)) \X (2..(n - 1)) : r[1] <= r[2] /\ gap(r[1], r[2])}}
    BY DEF Scores!Gaps, Scores!Count, gap
  <2> DEFINE runs == {r \in (2..(n - 1)) \X (2..(n - 1)) : r[1] <= r[2] /\ gap(r[1], r[2])}
  <2>2. \A y : y \in UNION {run[1]..run[2] : run \in runs} <=> \E run \in runs : y \in run[1]..run[2]
    <3> HIDE DEF runs
    <3> QED OBVIOUS
  <2>3. \A a, b : <<a, b>> \in runs <=> a \in 2..(n - 1) /\ b \in 2..(n - 1) /\ a <= b /\ gap(a, b)
    OBVIOUS
  <2>4. \A r \in runs : \E a, b \in 2..(n - 1) : r = <<a, b>> /\ r[1] = a /\ r[2] = b
    OBVIOUS
  <2>5. \A y : (\E run \in runs : y \in run[1]..run[2]) <=>
               \E a, b \in 2..(n - 1) : a <= b /\ y \in a..b /\ gap(a, b)
    <3> TAKE y
    <3> HIDE DEF runs
    <3>1. ASSUME NEW run \in runs, y \in run[1]..run[2]
          PROVE  \E a, b \in 2..(n - 1) : a <= b /\ y \in a..b /\ gap(a, b)
      <4>1. PICK a \in 2..(n - 1), b \in 2..(n - 1) : run = <<a, b>> /\ run[1] = a /\ run[2] = b
        BY <2>4
      <4>2. a <= b /\ gap(a, b)
        BY <2>3, <4>1
      <4>3. y \in a..b
        BY <3>1, <4>1
      <4> QED BY <4>2, <4>3
    <3>2. ASSUME NEW a \in 2..(n - 1), NEW b \in 2..(n - 1), a <= b, y \in a..b, gap(a, b)
          PROVE  \E run \in runs : y \in run[1]..run[2]
      <4>1. <<a, b>> \in runs
        BY <2>3, <3>2
      <4>2. y \in <<a, b>>[1]..<<a, b>>[2]
        BY <3>2
      <4> QED BY <4>1, <4>2
    <3> QED BY <3>1, <3>2
  <2> HIDE DEF runs
  <2>6. Scores!Gaps(strong, share) = UNION {run[1]..run[2] : run \in runs}
    BY <2>1 DEF runs
  <2> QED BY <2>2, <2>5, <2>6
<1>3. PICK a \in 2..(n - 1), b \in 2..(n - 1) : a <= b /\ x \in a..b /\ gap(a, b)
  BY <1>2
<1>4. score[a - 1] > strong /\ score[b + 1] > strong /\ Scores!Weak(a, b, share)
  BY <1>3 DEF Scores!Gap
<1> HIDE DEF gap
<1>5. x \in 2..(n - 1) /\ x \in a..b /\ a \in 1..n /\ b \in 1..n
  BY <1>1, <1>3
<1>6. x - 1 \in Scores!Gaps(strong, share) \/ score[x - 1] > strong
  <2>1. CASE x = a
    BY <2>1, <1>4
  <2>2. CASE x # a
    <3>1. x - 1 \in a..b
      BY <1>5, <2>2
    <3> QED BY <3>1, <1>2, <1>3
  <2> QED BY <2>1, <2>2
<1>7. x + 1 \in Scores!Gaps(strong, share) \/ score[x + 1] > strong
  <2>1. CASE x = b
    BY <2>1, <1>4
  <2>2. CASE x # b
    <3>1. x + 1 \in a..b
      BY <1>5, <2>2
    <3> QED BY <3>1, <1>2, <1>3
  <2> QED BY <2>1, <2>2
<1>8. 2 * given[x].len < MinShow
  <2> DEFINE total == Scores!Total(a, b)
  <2>1. total \in Int /\ total >= given[x].len
    BY <1>5, TotalCovers DEF ScoreInv, ScoreTyped
  <2>2. given[x].len \in Nat /\ given[x].len > 0
    <3>1. x \in 1..Len(given)
      BY <1>1, <1>5
    <3> QED BY <3>1, FinishIs DEF ScoreInv, ScoreTyped
  <2>3. share[1] * total < MinShow \/ share[2] * total < MinShow
    BY <1>4 DEF Scores!Weak
  <2>4. MinShow \in Nat
    BY ScoringParameters DEF Scores!ParametersOK
  <2> HIDE DEF total
  <2>5. 2 * total < MinShow
    <3>1. CASE share = <<2, 3, 6>>
      <4>1. share[1] = 2 /\ share[2] = 3
        BY <3>1
      <4> QED BY <4>1, <2>1, <2>2, <2>3, <2>4
    <3>2. CASE share = <<4, 6, 12>>
      <4>1. share[1] = 4 /\ share[2] = 6
        BY <3>2
      <4> QED BY <4>1, <2>1, <2>2, <2>3, <2>4
    <3> QED BY <3>1, <3>2
  <2> QED BY <2>1, <2>2, <2>4, <2>5
<1> QED BY <1>5, <1>6, <1>7, <1>8

\* No block of the set is at an edge, and beside it is more of that or a commercial.
Between(set) ==
  \A x \in set : /\ x \in 2..(Len(given) - 1)
                 /\ x - 1 \in set \/ score[x - 1] > 110
                 /\ x + 1 \in set \/ score[x + 1] > 110

\* What rule 1 fills is supported when what it filled before is.
LEMMA FillKeeps ==
  ASSUME ScoreInv, Supported, NEW set, NEW s \in Nat \ {0}, Scores!Put(set, 1, s), UNCHANGED given, Between(set)
  PROVE  Supported'
<1> DEFINE n == Len(given)
<1>1. n \in Nat /\ score \in [1..n -> Nat \ {0}]
  BY DEF ScoreInv, ScoreTyped, GivenTyped
<1>2. 1 \in 1..9
  OBVIOUS
<1>3. \A x \in 1..n : /\ score'[x] = IF x \in set THEN s ELSE score[x]
                      /\ marks'[x] = IF x \in set THEN marks[x] \cup {1} ELSE marks[x]
  BY <1>2, PutIs DEF n
<1> HIDE DEF n
<1>4. \A x \in 1..n : Filled(x)' <=> x \in set \/ Filled(x)
  <2> TAKE x \in 1..n
  <2>1. CASE x \in set
    <3>1. marks'[x] = marks[x] \cup {1}
      BY <1>3, <2>1
    <3>2. 1 \in marks'[x]
      BY <3>1
    <3> QED BY <2>1, <3>2 DEF Filled
  <2>2. CASE x \notin set
    <3>1. marks'[x] = marks[x]
      BY <1>3, <2>2
    <3> QED BY <2>2, <3>1 DEF Filled
  <2> QED BY <2>1, <2>2
<1>5. \A y \in 1..n : y \in set \/ Filled(y) \/ score[y] > 110 => Filled(y)' \/ score'[y] > 110
  <2> TAKE y \in 1..n
  <2>1. CASE y \in set
    BY <1>4, <2>1
  <2>2. CASE y \notin set
    <3>1. score'[y] = score[y] /\ (Filled(y)' <=> Filled(y))
      BY <1>3, <1>4, <2>2
    <3> QED BY <2>2, <3>1
  <2> QED BY <2>1, <2>2
<1>6. \A x \in 1..n : Filled(x)' =>
        /\ 1 < x /\ x < n
        /\ x - 1 \in set \/ Filled(x - 1) \/ score[x - 1] > 110
        /\ x + 1 \in set \/ Filled(x + 1) \/ score[x + 1] > 110
  <2> SUFFICES ASSUME NEW x \in 1..n, Filled(x)'
               PROVE  /\ 1 < x /\ x < n
                      /\ x - 1 \in set \/ Filled(x - 1) \/ score[x - 1] > 110
                      /\ x + 1 \in set \/ Filled(x + 1) \/ score[x + 1] > 110
    OBVIOUS
  <2>1. CASE x \in set
    BY <1>1, <2>1 DEF Between, n
  <2>2. CASE Filled(x)
    BY <2>2 DEF Supported, n
  <2> QED BY <2>1, <2>2, <1>4
<1>7. Supported'
  <2> SUFFICES ASSUME NEW x \in 1..n, Filled(x)'
               PROVE  /\ 1 < x /\ x < n
                      /\ Filled(x - 1)' \/ score'[x - 1] > 110
                      /\ Filled(x + 1)' \/ score'[x + 1] > 110
    BY DEF Supported, Filled, n
  <2>1. /\ 1 < x /\ x < n
        /\ x - 1 \in set \/ Filled(x - 1) \/ score[x - 1] > 110
        /\ x + 1 \in set \/ Filled(x + 1) \/ score[x + 1] > 110
    BY <1>6
  <2>2. x - 1 \in 1..n /\ x + 1 \in 1..n
    BY <2>1, <1>1
  <2> QED BY <2>1, <2>2, <1>5
<1> QED BY <1>7

\* A rule of the first ones that puts a score on some blocks: a low one, or one on blocks
\* that are no long show.
LEMMA PutKeeps ==
  ASSUME ScoreInv, pass \in Early, pass' \in Early, UNCHANGED <<given, reach, weighed, weighing>>,
         NEW set, NEW rule \in 1..9, NEW s \in Nat \ {0}, Scores!Put(set, rule, s),
         \/ s < 80 \/ rule \in {7, 9}
         \/ \A x \in 1..Len(given) : x \in set => 2 * given[x].len < MinShow,
         pass' \in {"bumpers", "strong"} => pass \in {"bumpers", "strong"} /\ rule # 1,
         pass' \in {"weak", "dark"} => Supported'
  PROVE  ScoreInv'
<1>1. /\ score' \in [1..Len(given) -> Nat \ {0}] /\ marks' \in [1..Len(given) -> SUBSET (1..9)]
      /\ \A x \in 1..Len(given) :
           /\ score'[x] = IF x \in set THEN s ELSE score[x]
           /\ marks'[x] = IF x \in set THEN marks[x] \cup {rule} ELSE marks[x]
  BY PutIs
<1>2. \A x \in 1..Len(given) : LongShow(x)' => LongShow(x) /\ (rule \in {7, 9} => x \notin set)
  BY <1>1, LongBefore
<1>3. weighing' \in Nat /\ weighing' >= 1
  BY DEF ScoreInv, ScoreTyped
<1>4. pass' \in {"bumpers", "strong"} => \A x \in 1..Len(given) : ~Filled(x)'
  <2> SUFFICES ASSUME pass' \in {"bumpers", "strong"}, NEW x \in 1..Len(given) PROVE ~Filled(x)'
    OBVIOUS
  <2>1. 1 \notin marks[x] /\ rule # 1
    BY DEF ScoreInv, Filled
  <2>2. marks'[x] = marks[x] \/ marks'[x] = marks[x] \cup {rule}
    BY <1>1
  <2> QED BY <2>1, <2>2 DEF Filled
<1>5. \A x \in 1..Len(given) : LongShow(x)' => score'[x] < 80
  <2> SUFFICES ASSUME NEW x \in 1..Len(given), LongShow(x)' PROVE score'[x] < 80
    OBVIOUS
  <2>1. LongShow(x) /\ score[x] < 80
    BY <1>2 DEF ScoreInv
  <2>2. CASE x \notin set
    BY <1>1, <2>1, <2>2
  <2>3. CASE x \in set
    <3>1. score'[x] = s
      BY <1>1, <2>3
    <3>2. rule \notin {7, 9}
      BY <1>2, <2>3
    <3>3. ~(2 * given[x].len < MinShow)
      <4>1. 2 * given[x].len >= MinShow
        BY <2>1 DEF LongShow
      <4>2. given[x].len \in Nat
        BY FinishIs DEF ScoreInv, ScoreTyped
      <4>3. MinShow \in Nat
        BY ScoringParameters DEF Scores!ParametersOK
      <4> QED BY <4>1, <4>2, <4>3
    <3>4. s < 80
      BY <2>3, <3>2, <3>3
    <3> QED BY <3>1, <3>4
  <2> QED BY <2>2, <2>3
<1>6. pass' \notin Late
  BY DEF Early, Late
<1> QED BY <1>1, <1>3, <1>4, <1>5, <1>6, RuleKeeps

LEMMA BumpersStep ==
  ASSUME ScoreInv, Scores!Bumpers
  PROVE  ScoreInv'
<1>1. pass \in {"bumpers", "strong"} /\ pass \in Early /\ pass' = "strong" /\ UNCHANGED <<given, reach, weighed, weighing>>
  BY DEF Scores!Bumpers, Scores!data, Early
<1>2. PICK set : Scores!Put(set, 2, 50)
  BY DEF Scores!Bumpers
<1>3. 2 \in 1..9 /\ 2 # 1 /\ 50 \in Nat \ {0} /\ 50 < 80
  OBVIOUS
<1>4. pass' \in Early /\ pass' \in {"bumpers", "strong"} /\ pass' \notin {"weak", "dark"}
  BY <1>1 DEF Early
<1> QED BY <1>1, <1>2, <1>3, <1>4, PutKeeps

LEMMA FillStep ==
  ASSUME ScoreInv, Scores!FillStrong \/ Scores!FillWeak
  PROVE  ScoreInv'
<1>1. /\ pass \in {"strong", "weak"} /\ pass \in Early /\ pass' \in {"weak", "dark"} /\ pass' \in Early
      /\ UNCHANGED <<given, reach, weighed, weighing>>
  BY DEF Scores!FillStrong, Scores!FillWeak, Scores!data, Early
<1>2. Supported
  BY <1>1 DEF ScoreInv, Supported
<1>3. \E share, set : \E strong \in Nat, s \in Nat \ {0} :
        /\ strong >= 110 /\ (share = <<2, 3, 6>> \/ share = <<4, 6, 12>>)
        /\ set = {} \/ set = Scores!Gaps(strong, share)
        /\ Scores!Put(set, 1, s)
  <2>1. CASE Scores!FillStrong
    <3>1. PICK s \in Nat \ {0} : s = 9999
      OBVIOUS
    <3>2. PICK strong \in Nat : strong = 140 /\ strong >= 110
      OBVIOUS
    <3>3. PICK share : share = <<2, 3, 6>>
      OBVIOUS
    <3>4. PICK set : (set = {} \/ set = Scores!Gaps(strong, share)) /\ Scores!Put(set, 1, s)
      BY <2>1, <3>1, <3>2, <3>3 DEF Scores!FillStrong
    <3>5. (share = <<2, 3, 6>> \/ share = <<4, 6, 12>>) /\ strong >= 110
      BY <3>2, <3>3
    <3> QED BY <3>1, <3>2, <3>4, <3>5
  <2>2. CASE Scores!FillWeak
    <3>1. PICK s \in Nat \ {0} : s = 9999
      OBVIOUS
    <3>2. PICK strong \in Nat : strong = 110 /\ strong >= 110
      OBVIOUS
    <3>3. PICK share : share = <<4, 6, 12>>
      OBVIOUS
    <3>4. PICK set : (set = {} \/ set = Scores!Gaps(strong, share)) /\ Scores!Put(set, 1, s)
      BY <2>2, <3>1, <3>2, <3>3 DEF Scores!FillWeak
    <3>5. (share = <<2, 3, 6>> \/ share = <<4, 6, 12>>) /\ strong >= 110
      BY <3>2, <3>3
    <3> QED BY <3>1, <3>2, <3>4, <3>5
  <2> QED BY <2>1, <2>2
<1>4. PICK share, set : \E strong \in Nat, s \in Nat \ {0} :
        /\ strong >= 110 /\ (share = <<2, 3, 6>> \/ share = <<4, 6, 12>>)
        /\ set = {} \/ set = Scores!Gaps(strong, share)
        /\ Scores!Put(set, 1, s)
  BY <1>3
<1>5. PICK strong \in Nat, s \in Nat \ {0} :
        /\ strong >= 110 /\ (share = <<2, 3, 6>> \/ share = <<4, 6, 12>>)
        /\ set = {} \/ set = Scores!Gaps(strong, share)
        /\ Scores!Put(set, 1, s)
  BY <1>4
<1>6. \A x \in set : /\ x \in 2..(Len(given) - 1)
                     /\ x - 1 \in set \/ score[x - 1] > strong
                     /\ x + 1 \in set \/ score[x + 1] > strong
                     /\ 2 * given[x].len < MinShow
  <2> SUFFICES ASSUME NEW x \in set
               PROVE  /\ x \in 2..(Len(given) - 1)
                      /\ x - 1 \in set \/ score[x - 1] > strong
                      /\ x + 1 \in set \/ score[x + 1] > strong
                      /\ 2 * given[x].len < MinShow
    OBVIOUS
  <2>1. set = Scores!Gaps(strong, share)
    BY <1>5
  <2> QED BY <2>1, <1>5, GapIs
<1>7. Between(set)
  <2> SUFFICES ASSUME NEW x \in set
               PROVE  /\ x \in 2..(Len(given) - 1)
                      /\ x - 1 \in set \/ score[x - 1] > 110
                      /\ x + 1 \in set \/ score[x + 1] > 110
    BY DEF Between
  <2>1. /\ x \in 2..(Len(given) - 1)
        /\ x - 1 \in set \/ score[x - 1] > strong
        /\ x + 1 \in set \/ score[x + 1] > strong
    BY <1>6
  <2>2. Len(given) \in Nat /\ score \in [1..Len(given) -> Nat \ {0}]
    BY DEF ScoreInv, ScoreTyped, GivenTyped
  <2>3. x - 1 \in 1..Len(given) /\ x + 1 \in 1..Len(given)
    BY <2>1, <2>2
  <2>4. score[x - 1] \in Nat /\ score[x + 1] \in Nat /\ strong \in Nat /\ strong >= 110
    BY <2>2, <2>3, <1>5
  <2> QED BY <2>1, <2>4
<1>8. Supported'
  BY <1>1, <1>2, <1>5, <1>7, FillKeeps
<1>9. \A x \in 1..Len(given) : x \in set => 2 * given[x].len < MinShow
  BY <1>6
<1>10. 1 \in 1..9 /\ pass' \notin {"bumpers", "strong"}
  BY <1>1
<1> QED BY <1>1, <1>5, <1>8, <1>9, <1>10, PutKeeps

LEMMA DropStep ==
  ASSUME ScoreInv, Scores!DarkEnd \/ Scores!DropFirst \/ Scores!DropLast
  PROVE  ScoreInv'
<1>1. /\ pass \in Early /\ pass' \in Early /\ pass' \notin {"bumpers", "strong", "weak", "dark"}
      /\ UNCHANGED <<given, reach, weighed, weighing>>
  BY DEF Scores!DarkEnd, Scores!DropFirst, Scores!DropLast, Scores!data, Early
<1>2. \E set : \E rule \in 1..9, s \in Nat \ {0} : Scores!Put(set, rule, s) /\ (s < 80 \/ rule \in {7, 9})
  <2>1. CASE Scores!DarkEnd
    <3>1. PICK s \in Nat \ {0} : s = 50 /\ s < 80
      OBVIOUS
    <3>2. PICK rule \in 1..9 : rule = 8
      OBVIOUS
    <3>3. PICK set : Scores!Put(set, rule, s)
      BY <3>1, <3>2, <2>1 DEF Scores!DarkEnd
    <3>4. s < 80 \/ rule \in {7, 9}
      BY <3>1, <3>2
    <3> QED BY <3>1, <3>2, <3>3, <3>4
  <2>2. CASE Scores!DropFirst \/ Scores!DropLast
    <3>1. PICK s \in Nat \ {0} : s = 9999
      OBVIOUS
    <3>2. PICK rule \in 1..9 : rule = 7
      OBVIOUS
    <3>3. PICK set : Scores!Put(set, rule, s)
      BY <3>1, <3>2, <2>2 DEF Scores!DropFirst, Scores!DropLast
    <3>4. s < 80 \/ rule \in {7, 9}
      BY <3>1, <3>2
    <3> QED BY <3>1, <3>2, <3>3, <3>4
  <2> QED BY <2>1, <2>2
<1>3. PICK set : \E rule \in 1..9, s \in Nat \ {0} : Scores!Put(set, rule, s) /\ (s < 80 \/ rule \in {7, 9})
  BY <1>2
<1>4. PICK rule \in 1..9, s \in Nat \ {0} : Scores!Put(set, rule, s) /\ (s < 80 \/ rule \in {7, 9})
  BY <1>3
<1> QED BY <1>1, <1>4, PutKeeps

\* A part of a score is no more than the score, and a score of less than 80 raised by
\* three tenths is not raised much.
LEMMA TimesBounds ==
  ASSUME NEW s \in Nat \ {0}
  PROVE  /\ Scores!Times(s, 1, 2) \in Nat \ {0} /\ Scores!Times(s, 1, 10) \in Nat \ {0}
         /\ Scores!Times(s, 13, 10) \in Nat \ {0}
         /\ s <= 105 => Scores!Times(s, 1, 2) <= 105 /\ Scores!Times(s, 1, 10) <= 105
         /\ s < 80 => Scores!Times(s, 13, 10) <= 105
<1>1. /\ 1 \in Nat /\ 13 \in Nat /\ 2 \in Nat \ {0} /\ 10 \in Nat \ {0}
  OBVIOUS
<1>2. Scores!Times(s, 1, 2) \in Nat \ {0}
  BY <1>1, TimesIs
<1>3. Scores!Times(s, 1, 10) \in Nat \ {0}
  BY <1>1, TimesIs
<1>4. Scores!Times(s, 13, 10) \in Nat \ {0}
  BY <1>1, TimesIs
<1>5. s <= 105 => Scores!Times(s, 1, 2) <= 105
  BY DEF Scores!Times
<1>6. s <= 105 => Scores!Times(s, 1, 10) <= 105
  BY DEF Scores!Times
<1>7. s < 80 => Scores!Times(s, 13, 10) <= 105
  BY DEF Scores!Times
<1> QED BY <1>2, <1>3, <1>4, <1>5, <1>6, <1>7

\* What one of the later rules has to keep.
LEMMA LateKeeps ==
  ASSUME ScoreInv, pass \in Early \cup Late, pass' \in Late,
         UNCHANGED <<given, reach, weighed>>, weighing' \in Nat, weighing' >= 1,
         NEW set, NEW rule \in 1..9, Scores!Marked(set, rule),
         score' \in [1..Len(given) -> Nat \ {0}],
         \A x \in 1..Len(given) : LongShow(x) /\ (rule \in {7, 9} => x \notin set) => score'[x] <= 105
  PROVE  ScoreInv'
<1>1. /\ marks' \in [1..Len(given) -> SUBSET (1..9)]
      /\ \A x \in 1..Len(given) : marks'[x] = IF x \in set THEN marks[x] \cup {rule} ELSE marks[x]
  BY MarkedIs
<1>2. \A x \in 1..Len(given) : LongShow(x)' => LongShow(x) /\ (rule \in {7, 9} => x \notin set)
  BY <1>1, LongBefore
<1>3. \A x \in 1..Len(given) : LongShow(x)' => score'[x] <= 105
  BY <1>2
<1>4. pass' \notin Early /\ pass' \notin {"bumpers", "strong", "weak", "dark"} /\ pass' \in Early \cup Late
  BY DEF Early, Late
<1> QED BY <1>1, <1>3, <1>4, RuleKeeps

LEMMA LogolessStep ==
  ASSUME ScoreInv, Scores!Logoless
  PROVE  ScoreInv'
<1>1. /\ pass = "logoless" /\ pass \in Early /\ pass' \in Late
      /\ UNCHANGED <<given, reach, weighed, weighing>>
  BY DEF Scores!Logoless, Scores!data, Early, Late
<1>2. /\ DOMAIN given = 1..Len(given) /\ score \in [1..Len(given) -> Nat \ {0}]
      /\ weighing \in Nat /\ weighing >= 1
  BY DEF ScoreInv, ScoreTyped, GivenTyped
<1>3. PICK hit : /\ score' = [x \in 1..Len(given) |-> IF x \in hit THEN Scores!Times(score[x], 13, 10) ELSE score[x]]
                 /\ Scores!Marked(hit, 3)
  BY <1>2 DEF Scores!Logoless, Scores!Indices
<1>4. \A x \in 1..Len(given) : score[x] \in Nat \ {0}
  BY <1>2
<1>5. score' \in [1..Len(given) -> Nat \ {0}]
  BY <1>3, <1>4, TimesBounds
<1>6. \A x \in 1..Len(given) : LongShow(x) => score'[x] <= 105
  <2> SUFFICES ASSUME NEW x \in 1..Len(given), LongShow(x) PROVE score'[x] <= 105
    OBVIOUS
  <2>1. score[x] < 80 /\ score[x] \in Nat \ {0}
    BY <1>1, <1>4 DEF ScoreInv
  <2>2. Scores!Times(score[x], 13, 10) <= 105
    BY <2>1, TimesBounds
  <2> QED BY <1>3, <2>1, <2>2
<1>7. 3 \in 1..9
  OBVIOUS
<1> QED BY <1>1, <1>2, <1>3, <1>5, <1>6, <1>7, LateKeeps

\* The rules that halve a score, or leave a tenth of it.
LEMMA LowerStep ==
  ASSUME ScoreInv, Scores!Middle \/ Scores!PadBefore \/ Scores!PadAfter
  PROVE  ScoreInv'
<1>1. /\ pass \in Late /\ pass \in Early \cup Late /\ pass' \in Late /\ UNCHANGED <<given, reach, weighed>>
      /\ weighing' \in {2, weighing + 1}
  BY DEF Scores!Middle, Scores!PadBefore, Scores!PadAfter, Scores!data, Late
<1>2. /\ DOMAIN given = 1..Len(given) /\ score \in [1..Len(given) -> Nat \ {0}]
      /\ weighing \in Nat /\ weighing >= 1
  BY DEF ScoreInv, ScoreTyped, GivenTyped
<1>3. PICK set : \E rule \in 1..9 :
        /\ \A x \in 1..Len(given) : score'[x] \in {score[x], Scores!Times(score[x], 1, 2), Scores!Times(score[x], 1, 10)}
        /\ score' = [x \in 1..Len(given) |-> score'[x]]
        /\ Scores!Marked(set, rule)
  <2>1. CASE Scores!Middle
    <3>1. PICK hit :
            /\ score' = [x \in 1..Len(given) |-> IF x \in hit THEN Scores!Times(score[x], 1, 2) ELSE score[x]]
            /\ Scores!Marked(hit, 3)
      BY <1>2, <2>1 DEF Scores!Middle, Scores!Indices
    <3>2. PICK rule \in 1..9 : rule = 3
      OBVIOUS
    <3>3. \A x \in 1..Len(given) : score'[x] = score[x] \/ score'[x] = Scores!Times(score[x], 1, 2)
      BY <3>1
    <3>4. \A x \in 1..Len(given) : score'[x] \in {score[x], Scores!Times(score[x], 1, 2), Scores!Times(score[x], 1, 10)}
      BY <3>3
    <3>5. score' = [x \in 1..Len(given) |-> score'[x]] /\ Scores!Marked(hit, rule)
      BY <3>1, <3>2
    <3> QED BY <3>4, <3>5
  <2>2. CASE Scores!PadBefore \/ Scores!PadAfter
    <3>1. PICK set : Scores!Tenth(set)
      BY <2>2 DEF Scores!PadBefore, Scores!PadAfter
    <3>2. /\ score' = [x \in 1..Len(given) |-> IF x \in set THEN Scores!Times(score[x], 1, 10) ELSE score[x]]
          /\ Scores!Marked(set, 4)
      BY <1>2, <3>1 DEF Scores!Tenth, Scores!Indices
    <3>3. PICK rule \in 1..9 : rule = 4
      OBVIOUS
    <3>4. \A x \in 1..Len(given) : score'[x] = score[x] \/ score'[x] = Scores!Times(score[x], 1, 10)
      BY <3>2
    <3>5. \A x \in 1..Len(given) : score'[x] \in {score[x], Scores!Times(score[x], 1, 2), Scores!Times(score[x], 1, 10)}
      BY <3>4
    <3>6. score' = [x \in 1..Len(given) |-> score'[x]] /\ Scores!Marked(set, rule)
      BY <3>2, <3>3
    <3> QED BY <3>5, <3>6
  <2> QED BY <2>1, <2>2
<1>4. PICK rule \in 1..9 :
        /\ \A x \in 1..Len(given) : score'[x] \in {score[x], Scores!Times(score[x], 1, 2), Scores!Times(score[x], 1, 10)}
        /\ score' = [x \in 1..Len(given) |-> score'[x]]
        /\ Scores!Marked(set, rule)
  BY <1>3
<1>5. \A x \in 1..Len(given) : score[x] \in Nat \ {0}
  BY <1>2
<1>6. score' \in [1..Len(given) -> Nat \ {0}]
  <2>1. \A x \in 1..Len(given) : score'[x] \in Nat \ {0}
    BY <1>4, <1>5, TimesBounds
  <2> QED BY <2>1, <1>4
<1>7. \A x \in 1..Len(given) : LongShow(x) => score'[x] <= 105
  <2> SUFFICES ASSUME NEW x \in 1..Len(given), LongShow(x) PROVE score'[x] <= 105
    OBVIOUS
  <2>1. score[x] <= 105 /\ score[x] \in Nat \ {0}
    BY <1>1, <1>5 DEF ScoreInv
  <2>2. Scores!Times(score[x], 1, 2) <= 105 /\ Scores!Times(score[x], 1, 10) <= 105
    BY <2>1, TimesBounds
  <2> QED BY <1>4, <2>1, <2>2
<1>8. weighing' \in Nat /\ weighing' >= 1
  BY <1>1, <1>2
<1> QED BY <1>1, <1>4, <1>6, <1>7, <1>8, LateKeeps

LEMMA TurnStep ==
  ASSUME ScoreInv, Scores!PadBeforeDone
  PROVE  ScoreInv'
<1>1. /\ pass \in Late /\ pass' \in Late /\ weighing' = 1
      /\ UNCHANGED <<given, reach, weighed, score, marks>>
  BY DEF Scores!PadBeforeDone, Scores!data, Late
<1>2. score \in [1..Len(given) -> Nat \ {0}] /\ marks \in [1..Len(given) -> SUBSET (1..9)]
  BY DEF ScoreInv, ScoreTyped
<1>3. \A x \in 1..Len(given) : LongShow(x)' => score'[x] <= 105
  BY <1>1 DEF ScoreInv, LongShow
<1>4. /\ pass' \notin Early /\ pass' \notin {"bumpers", "strong", "weak", "dark"}
      /\ pass \in Early \cup Late /\ pass' \in Early \cup Late
  BY <1>1 DEF Early, Late
<1> QED BY <1>1, <1>2, <1>3, <1>4, RuleKeeps

LEMMA SilenceStep ==
  ASSUME ScoreInv, Scores!Silence
  PROVE  ScoreInv'
<1>1. /\ pass \in Late /\ pass \in Early \cup Late /\ pass' \in Late /\ UNCHANGED <<given, reach, weighed, weighing>>
  BY DEF Scores!Silence, Scores!data, Late
<1>2. PICK s \in Nat \ {0} : s = 500
  OBVIOUS
<1>3. PICK rule \in 1..9 : rule = 9 /\ rule \in {7, 9}
  OBVIOUS
<1>4. PICK set : Scores!Put(set, rule, s)
  BY <1>2, <1>3 DEF Scores!Silence
<1>5. /\ score' \in [1..Len(given) -> Nat \ {0}] /\ Scores!Marked(set, rule)
      /\ \A x \in 1..Len(given) : score'[x] = IF x \in set THEN s ELSE score[x]
  <2>1. Scores!Marked(set, rule)
    BY <1>4 DEF Scores!Put
  <2> QED BY <2>1, <1>4, PutIs
<1>6. \A x \in 1..Len(given) : LongShow(x) /\ x \notin set => score'[x] <= 105
  BY <1>1, <1>5 DEF ScoreInv
<1>7. weighing' \in Nat /\ weighing' >= 1
  BY <1>1 DEF ScoreInv, ScoreTyped
<1> QED BY <1>1, <1>3, <1>5, <1>6, <1>7, LateKeeps

-----------------------------------------------------------------------------

LEMMA ScoreStep ==
  ASSUME ScoreInv, Scores!Next
  PROVE  ScoreInv'
<1>1. CASE \/ Scores!Length \/ Scores!Forward \/ Scores!ForwardDone
           \/ Scores!Backward \/ Scores!BackwardDone \/ Scores!Evidence
  BY <1>1, WeighStep
<1>2. CASE Scores!Bumpers
  BY <1>2, BumpersStep
<1>3. CASE Scores!FillStrong \/ Scores!FillWeak
  BY <1>3, FillStep
<1>4. CASE Scores!DarkEnd \/ Scores!DropFirst \/ Scores!DropLast
  BY <1>4, DropStep
<1>5. CASE Scores!Logoless
  BY <1>5, LogolessStep
<1>6. CASE Scores!Middle \/ Scores!PadBefore \/ Scores!PadAfter
  BY <1>6, LowerStep
<1>7. CASE Scores!PadBeforeDone
  BY <1>7, TurnStep
<1>8. CASE Scores!Silence
  BY <1>8, SilenceStep
<1>9. CASE Scores!Over
  <2>1. UNCHANGED <<pass, given, weighing, reach, score, marks, weighed>>
    BY <1>9 DEF Scores!Over, Scores!vars
  <2> QED BY <2>1 DEF ScoreInv, ScoreTyped, GivenTyped, Filled, Supported, LongShow
<1> QED BY <1>1, <1>2, <1>3, <1>4, <1>5, <1>6, <1>7, <1>8, <1>9 DEF Scores!Next

\* From support on either side to a commercial on either side: the nearest block that was
\* not filled.
LEMMA BetweenCommercials ==
  ASSUME ScoreInv
  PROVE  Scores!FilledBetween
<1> DEFINE n == Len(given)
<1>1. n \in Nat /\ DOMAIN given = 1..n
  BY DEF ScoreInv, ScoreTyped, GivenTyped
<1> SUFFICES ASSUME pass = "dark", NEW x \in 1..n, Filled(x)
             PROVE  \E a \in 1..(x - 1), b \in (x + 1)..n :
                      /\ \A m \in (a + 1)..(b - 1) : Filled(m)
                      /\ ~Filled(a) /\ score[a] > 110 /\ ~Filled(b) /\ score[b] > 110
  BY <1>1 DEF Scores!FilledBetween, Scores!Indices, Scores!Count, Filled
<1>2. \A k \in 1..n : Filled(k) =>
        /\ 1 < k /\ k < n
        /\ Filled(k - 1) \/ score[k - 1] > 110
        /\ Filled(k + 1) \/ score[k + 1] > 110
  BY DEF ScoreInv, Supported
<1>3. ~Filled(1) /\ ~Filled(n) /\ 1 < x /\ x < n
  BY <1>1, <1>2
<1>4. PICK a \in 1..(x - 1) : ~Filled(a) /\ \A m \in (a + 1)..x : Filled(m)
  <2> DEFINE T == {m \in 1..(x - 1) : ~Filled(m)}
  <2>1. T \in SUBSET Int /\ T # {} /\ x \in Int /\ \A m \in T : m <= x
    <3>1. 1 \in T
      BY <1>1, <1>3
    <3> QED BY <3>1, <1>1
  <2> HIDE DEF T
  <2>2. PICK a \in T : \A k \in T : k <= a
    BY <2>1, GreatestBelow
  <2>3. a \in 1..(x - 1) /\ ~Filled(a)
    BY <2>2 DEF T
  <2>4. \A m \in (a + 1)..x : Filled(m)
    <3> SUFFICES ASSUME NEW m \in (a + 1)..x, ~Filled(m) PROVE FALSE
      OBVIOUS
    <3>1. m # x
      OBVIOUS
    <3>2. m \in 1..(x - 1) /\ ~(m <= a)
      BY <3>1, <2>3, <1>1
    <3>3. m \in T
      BY <3>2 DEF T
    <3> QED BY <3>2, <3>3, <2>2
  <2> QED BY <2>3, <2>4
<1>5. PICK b \in (x + 1)..n : ~Filled(b) /\ \A m \in x..(b - 1) : Filled(m)
  <2> DEFINE T == {m \in (x + 1)..n : ~Filled(m)}
  <2>1. T \in SUBSET Nat /\ T # {}
    <3>1. n \in T
      BY <1>1, <1>3
    <3> QED BY <3>1, <1>1
  <2> HIDE DEF T
  <2>2. PICK b \in T : \A k \in T : b <= k
    BY <2>1, LeastNatural
  <2>3. b \in (x + 1)..n /\ ~Filled(b)
    BY <2>2 DEF T
  <2>4. \A m \in x..(b - 1) : Filled(m)
    <3> SUFFICES ASSUME NEW m \in x..(b - 1), ~Filled(m) PROVE FALSE
      OBVIOUS
    <3>1. m # x
      OBVIOUS
    <3>2. m \in (x + 1)..n /\ ~(b <= m)
      BY <3>1, <2>3, <1>1
    <3>3. m \in T
      BY <3>2 DEF T
    <3> QED BY <3>2, <3>3, <2>2
  <2> QED BY <2>3, <2>4
<1>6. \A m \in (a + 1)..(b - 1) : Filled(m)
  <2> TAKE m \in (a + 1)..(b - 1)
  <2>1. m \in (a + 1)..x \/ m \in x..(b - 1)
    BY <1>1
  <2> QED BY <2>1, <1>4, <1>5
<1>7. score[a] > 110
  <2>1. a + 1 \in 1..n /\ Filled(a + 1) /\ (a + 1) - 1 = a
    BY <1>1, <1>4
  <2> QED BY <2>1, <1>2, <1>4
<1>8. score[b] > 110
  <2>1. b - 1 \in 1..n /\ Filled(b - 1) /\ (b - 1) + 1 = b
    BY <1>1, <1>5
  <2> QED BY <2>1, <1>2, <1>5
<1> QED BY <1>4, <1>5, <1>6, <1>7, <1>8

LEMMA LongShowStays ==
  ASSUME ScoreInv
  PROVE  Scores!LongShowKept
<1>1. DOMAIN given = 1..Len(given)
  BY DEF ScoreInv, ScoreTyped, GivenTyped
<1> QED BY <1>1 DEF Scores!LongShowKept, Scores!Indices, ScoreInv, LongShow, Late

(***************************************************************************)
(* For any list of blocks, any settings and any standard lengths: what     *)
(* rule 1 of WeighBlocks takes for commercials lies, through its like,     *)
(* between two commercials; and a piece that was weighed as show and is    *)
(* half as long as the shortest show or longer ends as show, but for the   *)
(* rules for the ends of a recording and for silence                       *)
(* (detection/scoring.cpp).                                                *)
(***************************************************************************)
THEOREM ScoresJudged == RecordingSpec => []GapsJudged
<1> DEFINE Inv == part = "scoring" => ScoreInv
<1>1. RecordingInit => Inv
  <2> SUFFICES ASSUME RecordingInit, part = "scoring" PROVE ScoreInv
    OBVIOUS
  <2>1. ScoringInit
    BY DEF RecordingInit
  <2> QED BY <2>1, ScoreStart
<1>2. Inv /\ [RecordingNext]_allVars => Inv'
  <2> SUFFICES ASSUME Inv, [RecordingNext]_allVars, part' = "scoring" PROVE ScoreInv'
    OBVIOUS
  <2>1. CASE ScoringStep
    <3>1. ScoreInv /\ Scores!Next
      BY <2>1 DEF ScoringStep
    <3> QED BY <3>1, ScoreStep
  <2>2. CASE RecordingNext /\ ~ScoringStep
    BY <2>2 DEF RecordingNext, BlocksStep, ReadingStep, WritingStep, ComparingStep
  <2>3. CASE UNCHANGED allVars
    <3>1. part' = part /\ UNCHANGED <<pass, given, weighing, reach, score, marks, weighed>>
      BY <2>3 DEF allVars, scoreVars
    <3> QED BY <3>1 DEF ScoreInv, ScoreTyped, GivenTyped, Filled, Supported, LongShow
  <2> QED BY <2>1, <2>2, <2>3
<1>3. Inv => GapsJudged
  BY BetweenCommercials, LongShowStays DEF GapsJudged
<1> QED BY <1>1, <1>2, <1>3, PTL DEF RecordingSpec

-----------------------------------------------------------------------------
(* The window. *)

RangeType == [from : Nat, to : Nat]

\* A list the adapters accept, with the order between any two ranges.
Fits(list) ==
  /\ list \in Seq(RangeType)
  /\ \A k \in 1..Len(list) :
       list[k].from <= list[k].to /\ list[k].from < FrameCount /\ list[k].to <= FrameCount
  /\ \A k, n \in 1..Len(list) : k < n => list[k].to < list[n].from

\* What follows its predecessor follows all that is before it.
LEMMA InOrderAll ==
  ASSUME NEW list, NEW N0 \in Nat,
         \A k \in 1..N0 : list[k].from \in Nat /\ list[k].to \in Nat /\ list[k].from <= list[k].to,
         \A k \in 1..N0 : k > 1 => list[k - 1].to < list[k].from
  PROVE  \A k, n \in 1..N0 : k < n => list[k].to < list[n].from
<1> SUFFICES ASSUME NEW k \in 1..N0 PROVE \A n \in 1..N0 : k < n => list[k].to < list[n].from
  OBVIOUS
<1> DEFINE bad == {n \in 1..N0 : k < n /\ ~(list[k].to < list[n].from)}
<1> SUFFICES ASSUME bad # {} PROVE FALSE
  OBVIOUS
<1>1. PICK n \in bad : \A m \in bad : n <= m
  <2>1. bad \in SUBSET Nat
    OBVIOUS
  <2> HIDE DEF bad
  <2> QED BY <2>1, LeastNatural
<1>2. n \in 1..N0 /\ k < n /\ ~(list[k].to < list[n].from) /\ n - 1 \in 1..N0 /\ ~(n <= n - 1)
  BY <1>1
<1>3. n - 1 \notin bad
  <2> HIDE DEF bad
  <2> QED BY <1>1, <1>2
<1>4. list[n - 1].to < list[n].from
  BY <1>2
<1>5. CASE n - 1 = k
  BY <1>2, <1>4, <1>5
<1>6. CASE k < n - 1
  <2>1. list[k].to < list[n - 1].from
    BY <1>2, <1>3, <1>6
  <2>2. list[k].to \in Nat /\ list[n - 1].from \in Nat /\ list[n - 1].to \in Nat /\ list[n].from \in Nat
        /\ list[n - 1].from <= list[n - 1].to
    BY <1>2
  <2> QED BY <1>2, <1>4, <2>1, <2>2
<1> QED BY <1>2, <1>5, <1>6

LEMMA FitsIs ==
  ASSUME NEW list \in Seq(RangeType)
  PROVE  Writing!Accepted(list) <=> Fits(list)
<1>1. /\ Len(list) \in Nat /\ DOMAIN list = 1..Len(list)
      /\ \A k \in 1..Len(list) : list[k].from \in Nat /\ list[k].to \in Nat
  <2>1. Len(list) \in Nat /\ DOMAIN list = 1..Len(list)
    OBVIOUS
  <2>2. \A k \in 1..Len(list) : list[k] \in RangeType
    BY ElementOfSeq
  <2> QED BY <2>1, <2>2 DEF RangeType
<1>2. Writing!Accepted(list) <=>
        \A k \in 1..Len(list) :
          /\ list[k].from <= list[k].to /\ list[k].from < FrameCount /\ list[k].to <= FrameCount
          /\ k > 1 => list[k - 1].to < list[k].from
  <2>1. ASSUME NEW k \in 1..Len(list)
        PROVE  Writing!Previous(list, k) < list[k].from <=> (k > 1 => list[k - 1].to < list[k].from)
    BY <1>1 DEF Writing!Previous
  <2>2. \A k \in 1..Len(list) : 0 <= list[k].from
    BY <1>1
  <2> QED BY <1>1, <2>1, <2>2 DEF Writing!Accepted
<1>3. ASSUME Writing!Accepted(list) PROVE Fits(list)
  <2>1. \A k, n \in 1..Len(list) : k < n => list[k].to < list[n].from
    BY <1>1, <1>2, <1>3, InOrderAll
  <2> QED BY <2>1, <1>2, <1>3 DEF Fits
<1>4. ASSUME Fits(list) PROVE Writing!Accepted(list)
  <2>1. \A k \in 1..Len(list) : k > 1 => list[k - 1].to < list[k].from
    <3> SUFFICES ASSUME NEW k \in 1..Len(list), k > 1 PROVE list[k - 1].to < list[k].from
      OBVIOUS
    <3>1. k - 1 \in 1..Len(list) /\ k - 1 < k
      BY <1>1
    <3> QED BY <3>1, <1>4 DEF Fits
  <2> QED BY <2>1, <1>2, <1>4 DEF Fits
<1> QED BY <1>3, <1>4

LEMMA FitsElements ==
  ASSUME NEW list, Fits(list)
  PROVE  /\ list \in Seq(RangeType) /\ Len(list) \in Nat /\ DOMAIN list = 1..Len(list)
         /\ \A k \in 1..Len(list) :
              /\ list[k] \in RangeType /\ list[k].from \in Nat /\ list[k].to \in Nat
              /\ list[k].from <= list[k].to /\ list[k].from < FrameCount /\ list[k].to <= FrameCount
         /\ \A k, n \in 1..Len(list) : k < n => list[k].to < list[n].from
<1>1. list \in Seq(RangeType) /\ Len(list) \in Nat /\ DOMAIN list = 1..Len(list)
  BY DEF Fits
<1>2. \A k \in 1..Len(list) : list[k] \in RangeType
  BY <1>1, ElementOfSeq
<1>3. \A k \in 1..Len(list) : list[k].from \in Nat /\ list[k].to \in Nat
  BY <1>2 DEF RangeType
<1> QED BY <1>1, <1>2, <1>3 DEF Fits

LEMMA LastBeforeIs ==
  ASSUME NEW list, Fits(list), NEW frame \in Nat
  PROVE  LET n == Writing!LastBefore(list, frame)
         IN  /\ n \in 0..Len(list) /\ (n > 0 => list[n].from <= frame)
             /\ \A k \in n + 1..Len(list) : frame < list[k].from
<1> DEFINE T == {0} \cup {k \in 1..Len(list) : list[k].from <= frame}
<1>1. Len(list) \in Nat /\ \A k \in 1..Len(list) : list[k].from \in Nat
  BY FitsElements
<1>2. T \in SUBSET Int /\ T # {} /\ \A m \in T : m <= Len(list)
  BY <1>1
<1>3. PICK n \in T : \A k \in T : k <= n
  <2>1. Len(list) \in Int
    BY <1>1
  <2> HIDE DEF T
  <2> QED BY <2>1, <1>2, GreatestBelow
<1>4. n \in 0..Len(list) /\ (n > 0 => list[n].from <= frame)
  BY <1>1, <1>3
<1>5. \A k \in n + 1..Len(list) : frame < list[k].from
  <2> SUFFICES ASSUME NEW k \in n + 1..Len(list), ~(frame < list[k].from) PROVE FALSE
    OBVIOUS
  <2>1. k \in 1..Len(list) /\ ~(k <= n)
    BY <1>1, <1>4
  <2>2. k \in T
    BY <2>1, <1>1
  <2> QED BY <2>1, <2>2, <1>3
<1>6. \E m \in 0..Len(list) :
        (m > 0 => list[m].from <= frame) /\ \A k \in m + 1..Len(list) : frame < list[k].from
  BY <1>4, <1>5
<1> QED BY <1>6 DEF Writing!LastBefore

LEMMA FirstAfterIs ==
  ASSUME NEW list, Fits(list), NEW frame \in Nat
  PROVE  LET n == Writing!FirstAfter(list, frame)
         IN  /\ n \in 1..Len(list) + 1 /\ (n <= Len(list) => frame <= list[n].to)
             /\ \A k \in 1..n - 1 : list[k].to < frame
<1> DEFINE T == {Len(list) + 1} \cup {k \in 1..Len(list) : frame <= list[k].to}
<1>1. Len(list) \in Nat /\ \A k \in 1..Len(list) : list[k].to \in Nat
  BY FitsElements
<1>2. T \in SUBSET Nat /\ T # {}
  BY <1>1
<1>3. PICK n \in T : \A k \in T : n <= k
  <2> HIDE DEF T
  <2> QED BY <1>2, LeastNatural
<1>4. n \in 1..Len(list) + 1 /\ (n <= Len(list) => frame <= list[n].to)
  BY <1>1, <1>3
<1>5. \A k \in 1..n - 1 : list[k].to < frame
  <2> SUFFICES ASSUME NEW k \in 1..n - 1, ~(list[k].to < frame) PROVE FALSE
    OBVIOUS
  <2>1. k \in 1..Len(list) /\ ~(n <= k)
    BY <1>1, <1>4
  <2>2. k \in T
    BY <2>1, <1>1
  <2> QED BY <2>1, <2>2, <1>3
<1>6. \E m \in 1..Len(list) + 1 :
        (m <= Len(list) => frame <= list[m].to) /\ \A k \in 1..m - 1 : list[k].to < frame
  BY <1>4, <1>5
<1> QED BY <1>6 DEF Writing!FirstAfter

\* Key E: the range ends at the cursor, which is before the next.
LEMMA EndMoves ==
  ASSUME NEW list, Fits(list), NEW frame \in 1..FrameCount - 1, Writing!LastBefore(list, frame) > 0
  PROVE  Fits([list EXCEPT ![Writing!LastBefore(list, frame)].to = frame])
<1>1. PICK n : n = Writing!LastBefore(list, frame)
  OBVIOUS
<1>2. FrameCount \in Nat
  BY WritingParameters DEF Writing!ParametersOK
<1>3. frame \in Nat /\ frame < FrameCount
  BY <1>2
<1>4. n \in 1..Len(list) /\ list[n].from <= frame /\ \A k \in n + 1..Len(list) : frame < list[k].from
  <2>1. /\ n \in 0..Len(list) /\ (n > 0 => list[n].from <= frame)
        /\ \A k \in n + 1..Len(list) : frame < list[k].from
    BY <1>1, <1>3, LastBeforeIs
  <2> QED BY <2>1, <1>1
<1>5. /\ list \in Seq(RangeType) /\ Len(list) \in Nat
      /\ \A k \in 1..Len(list) :
           /\ list[k] \in RangeType /\ list[k].from \in Nat /\ list[k].to \in Nat
           /\ list[k].from <= list[k].to /\ list[k].from < FrameCount /\ list[k].to <= FrameCount
      /\ \A k, m \in 1..Len(list) : k < m => list[k].to < list[m].from
  BY FitsElements
<1>6. PICK e : e = [list[n] EXCEPT !.to = frame]
  OBVIOUS
<1>7. e \in RangeType /\ e.from = list[n].from /\ e.to = frame
  <2>1. list[n] \in RangeType
    BY <1>4, <1>5
  <2> QED BY <2>1, <1>3, <1>6 DEF RangeType
<1>8. PICK new : new = [list EXCEPT ![n] = e]
  OBVIOUS
<1>9. /\ new \in Seq(RangeType) /\ Len(new) = Len(list)
      /\ \A k \in 1..Len(list) : new[k] = IF k = n THEN e ELSE list[k]
  BY <1>4, <1>5, <1>7, <1>8, ExceptSeq
<1>10. \A k \in 1..Len(list) :
         new[k].from <= new[k].to /\ new[k].from < FrameCount /\ new[k].to <= FrameCount
  BY <1>2, <1>3, <1>4, <1>5, <1>7, <1>9
<1>11. \A k, m \in 1..Len(list) : k < m => new[k].to < new[m].from
  <2> SUFFICES ASSUME NEW k \in 1..Len(list), NEW m \in 1..Len(list), k < m PROVE new[k].to < new[m].from
    OBVIOUS
  <2>1. new[m].from = list[m].from
    BY <1>7, <1>9
  <2>2. CASE k = n
    <3>1. m \in n + 1..Len(list)
      BY <1>5, <2>2
    <3> QED BY <1>4, <1>7, <1>9, <2>1, <2>2, <3>1
  <2>3. CASE k # n
    BY <1>5, <1>9, <2>1, <2>3
  <2> QED BY <2>2, <2>3
<1>12. Fits(new)
  BY <1>9, <1>10, <1>11 DEF Fits
<1>13. new = [list EXCEPT ![n].to = frame]
  BY <1>6, <1>8
<1> QED BY <1>1, <1>12, <1>13

\* Key B: the range starts at the cursor, which is behind the one before.
LEMMA StartMoves ==
  ASSUME NEW list, Fits(list), NEW frame \in 1..FrameCount - 1, Writing!FirstAfter(list, frame) <= Len(list)
  PROVE  Fits([list EXCEPT ![Writing!FirstAfter(list, frame)].from = frame])
<1>1. PICK n : n = Writing!FirstAfter(list, frame)
  OBVIOUS
<1>2. FrameCount \in Nat
  BY WritingParameters DEF Writing!ParametersOK
<1>3. frame \in Nat /\ frame < FrameCount
  BY <1>2
<1>4. /\ list \in Seq(RangeType) /\ Len(list) \in Nat
      /\ \A k \in 1..Len(list) :
           /\ list[k] \in RangeType /\ list[k].from \in Nat /\ list[k].to \in Nat
           /\ list[k].from <= list[k].to /\ list[k].from < FrameCount /\ list[k].to <= FrameCount
      /\ \A k, m \in 1..Len(list) : k < m => list[k].to < list[m].from
  BY FitsElements
<1>5. n \in 1..Len(list) /\ frame <= list[n].to /\ \A k \in 1..n - 1 : list[k].to < frame
  <2>1. /\ n \in 1..Len(list) + 1 /\ (n <= Len(list) => frame <= list[n].to)
        /\ \A k \in 1..n - 1 : list[k].to < frame
    BY <1>1, <1>3, FirstAfterIs
  <2> QED BY <2>1, <1>1, <1>4
<1>6. PICK e : e = [list[n] EXCEPT !.from = frame]
  OBVIOUS
<1>7. e \in RangeType /\ e.from = frame /\ e.to = list[n].to
  <2>1. list[n] \in RangeType
    BY <1>5, <1>4
  <2> QED BY <2>1, <1>3, <1>6 DEF RangeType
<1>8. PICK new : new = [list EXCEPT ![n] = e]
  OBVIOUS
<1>9. /\ new \in Seq(RangeType) /\ Len(new) = Len(list)
      /\ \A k \in 1..Len(list) : new[k] = IF k = n THEN e ELSE list[k]
  BY <1>5, <1>4, <1>7, <1>8, ExceptSeq
<1>10. \A k \in 1..Len(list) :
         new[k].from <= new[k].to /\ new[k].from < FrameCount /\ new[k].to <= FrameCount
  BY <1>2, <1>3, <1>5, <1>4, <1>7, <1>9
<1>11. \A k, m \in 1..Len(list) : k < m => new[k].to < new[m].from
  <2> SUFFICES ASSUME NEW k \in 1..Len(list), NEW m \in 1..Len(list), k < m PROVE new[k].to < new[m].from
    OBVIOUS
  <2>1. new[k].to = list[k].to
    BY <1>7, <1>9
  <2>2. CASE m = n
    <3>1. k \in 1..n - 1
      BY <1>5, <1>4, <2>2
    <3> QED BY <1>5, <1>7, <1>9, <2>1, <2>2, <3>1
  <2>3. CASE m # n
    BY <1>4, <1>9, <2>1, <2>3
  <2> QED BY <2>2, <2>3
<1>12. Fits(new)
  BY <1>9, <1>10, <1>11 DEF Fits
<1>13. new = [list EXCEPT ![n].from = frame]
  BY <1>6, <1>8
<1> QED BY <1>1, <1>12, <1>13

\* A list without one range.
LEMMA OneRemoved ==
  ASSUME NEW list, Fits(list), NEW n \in 1..Len(list)
  PROVE  Fits(SubSeq(list, 1, n - 1) \o SubSeq(list, n + 1, Len(list)))
<1> DEFINE a == SubSeq(list, 1, n - 1)
           b == SubSeq(list, n + 1, Len(list))
<1>1. /\ list \in Seq(RangeType) /\ Len(list) \in Nat
      /\ \A k \in 1..Len(list) :
           list[k].from <= list[k].to /\ list[k].from < FrameCount /\ list[k].to <= FrameCount
      /\ \A k, m \in 1..Len(list) : k < m => list[k].to < list[m].from
  BY FitsElements
<1>2. n \in Nat /\ n > 0 /\ n <= Len(list)
  BY <1>1
<1>3. a \in Seq(RangeType) /\ Len(a) = n - 1 /\ \A k \in 1..n - 1 : a[k] = list[k]
  BY <1>1, <1>2
<1>4. b \in Seq(RangeType) /\ Len(b) = Len(list) - n /\ \A k \in 1..Len(list) - n : b[k] = list[k + n]
  BY <1>1, <1>2
<1> HIDE DEF a, b
<1>5. PICK new : new = a \o b
  OBVIOUS
<1>6. /\ new \in Seq(RangeType) /\ Len(new) = Len(a) + Len(b)
      /\ \A k \in 1..Len(a) + Len(b) : new[k] = IF k <= Len(a) THEN a[k] ELSE b[k - Len(a)]
  BY <1>3, <1>4, <1>5, ConcatProperties
<1>7. PICK place : place = [k \in 1..Len(list) - 1 |-> IF k < n THEN k ELSE k + 1]
  OBVIOUS
<1>8. /\ \A k \in 1..Len(list) - 1 : place[k] \in 1..Len(list)
      /\ \A k, m \in 1..Len(list) - 1 : k < m => place[k] < place[m]
  BY <1>1, <1>2, <1>7
<1>9. Len(new) = Len(list) - 1
  BY <1>1, <1>2, <1>3, <1>4, <1>6
<1>10. \A k \in 1..Len(new) : new[k] = list[place[k]]
  <2> SUFFICES ASSUME NEW k \in 1..Len(new) PROVE new[k] = list[place[k]]
    OBVIOUS
  <2>1. k \in 1..Len(list) - 1 /\ k \in 1..Len(a) + Len(b)
    BY <1>1, <1>3, <1>4, <1>9, <1>2
  <2>2. CASE k < n
    <3>1. k \in 1..n - 1 /\ k <= Len(a) /\ place[k] = k
      BY <1>2, <1>3, <1>7, <2>1, <2>2
    <3> QED BY <1>3, <1>6, <2>1, <3>1
  <2>3. CASE ~(k < n)
    <3>1. k - (n - 1) \in 1..Len(list) - n /\ ~(k <= Len(a)) /\ k - (n - 1) + n = k + 1 /\ place[k] = k + 1
      BY <1>1, <1>2, <1>3, <1>7, <2>1, <2>3
    <3>2. new[k] = b[k - (n - 1)]
      BY <1>3, <1>6, <2>1, <3>1
    <3> QED BY <1>4, <3>1, <3>2
  <2> QED BY <2>2, <2>3
<1>11. \A k \in 1..Len(new) : new[k].from <= new[k].to /\ new[k].from < FrameCount /\ new[k].to <= FrameCount
  BY <1>1, <1>8, <1>9, <1>10
<1>12. \A k, m \in 1..Len(new) : k < m => new[k].to < new[m].from
  <2> SUFFICES ASSUME NEW k \in 1..Len(new), NEW m \in 1..Len(new), k < m PROVE new[k].to < new[m].from
    OBVIOUS
  <2>1. place[k] \in 1..Len(list) /\ place[m] \in 1..Len(list) /\ place[k] < place[m]
    BY <1>8, <1>9
  <2> QED BY <2>1, <1>1, <1>10
<1>13. Fits(new)
  BY <1>6, <1>11, <1>12 DEF Fits
<1> QED BY <1>5, <1>13 DEF a, b

\* Key I: a new range between those around it (insert_reference).
LEMMA OneInserted ==
  ASSUME NEW list, Fits(list), NEW frame \in 1..FrameCount - 1
  PROVE  Fits(Writing!Inserted(list, frame))
<1>1. PICK n : n = Writing!LastBefore(list, frame)
  OBVIOUS
<1>2. FrameCount \in Nat /\ Reach \in Nat
  BY WritingParameters DEF Writing!ParametersOK
<1>3. frame \in Nat /\ frame > 0 /\ frame < FrameCount
  BY <1>2
<1>4. /\ n \in 0..Len(list) /\ (n > 0 => list[n].from <= frame)
      /\ \A k \in n + 1..Len(list) : frame < list[k].from
  BY <1>1, <1>3, LastBeforeIs
<1>5. /\ list \in Seq(RangeType) /\ Len(list) \in Nat
      /\ \A k \in 1..Len(list) :
           /\ list[k] \in RangeType /\ list[k].from \in Nat /\ list[k].to \in Nat
           /\ list[k].from <= list[k].to /\ list[k].from < FrameCount /\ list[k].to <= FrameCount
      /\ \A k, m \in 1..Len(list) : k < m => list[k].to < list[m].from
  BY FitsElements
<1> DEFINE lower == IF n = 0 THEN 1 ELSE list[n].to + 1
           upper == IF n = Len(list) THEN FrameCount ELSE list[n + 1].from - 1
<1>6. PICK r : r = Writing!Range(Writing!AtLeast(lower, frame - Reach), Writing!AtMost(upper, frame + Reach))
  OBVIOUS
<1>7. CASE n > 0 /\ list[n].to >= frame
  BY <1>1, <1>7 DEF Writing!Inserted
<1>8. CASE ~(n > 0 /\ list[n].to >= frame)
  <2>1. /\ lower \in Int /\ 0 < lower /\ lower <= frame /\ (n > 0 => list[n].to < lower)
        /\ upper \in Int /\ frame <= upper /\ upper <= FrameCount /\ (n < Len(list) => upper < list[n + 1].from)
    <3>1. CASE n = 0
      <4>1. lower = 1
        BY <3>1
      <4>2. /\ upper \in Int /\ frame <= upper /\ upper <= FrameCount
            /\ (n < Len(list) => upper < list[n + 1].from)
        <5>1. CASE n = Len(list)
          BY <1>2, <1>3, <5>1
        <5>2. CASE n # Len(list)
          <6>1. n + 1 \in 1..Len(list) /\ n + 1 \in n + 1..Len(list)
            BY <1>4, <1>5, <5>2
          <6> QED BY <1>2, <1>3, <1>4, <1>5, <5>2, <6>1
        <5> QED BY <5>1, <5>2
      <4> QED BY <1>3, <3>1, <4>1, <4>2
    <3>2. CASE n # 0
      <4>1. n \in 1..Len(list) /\ n > 0
        BY <1>4, <1>5, <3>2
      <4>2. lower = list[n].to + 1 /\ list[n].to \in Nat /\ list[n].to < frame
        BY <1>3, <1>5, <1>8, <3>2, <4>1
      <4>3. /\ upper \in Int /\ frame <= upper /\ upper <= FrameCount
            /\ (n < Len(list) => upper < list[n + 1].from)
        <5>1. CASE n = Len(list)
          BY <1>2, <1>3, <5>1
        <5>2. CASE n # Len(list)
          <6>1. n + 1 \in 1..Len(list) /\ n + 1 \in n + 1..Len(list)
            BY <1>4, <1>5, <5>2
          <6> QED BY <1>2, <1>3, <1>4, <1>5, <5>2, <6>1
        <5> QED BY <5>1, <5>2
      <4> HIDE DEF lower, upper
      <4> QED BY <1>3, <4>1, <4>2, <4>3
    <3> QED BY <3>1, <3>2
  <2> HIDE DEF lower, upper
  <2>2. /\ r \in RangeType /\ r.from <= r.to /\ r.from < FrameCount /\ r.to <= FrameCount
        /\ n > 0 => list[n].to < r.from
        /\ n < Len(list) => r.to < list[n + 1].from
    <3>1. /\ r = [from |-> Writing!AtLeast(lower, frame - Reach), to |-> Writing!AtMost(upper, frame + Reach)]
          /\ r.from = Writing!AtLeast(lower, frame - Reach) /\ r.to = Writing!AtMost(upper, frame + Reach)
      BY <1>6 DEF Writing!Range
    <3>2. /\ r.from \in Nat /\ r.from >= lower /\ r.from <= frame
          /\ r.to \in Nat /\ r.to <= upper /\ r.to >= frame
      BY <1>2, <1>3, <2>1, <3>1 DEF Writing!AtLeast, Writing!AtMost
    <3>3. r \in RangeType
      BY <3>1, <3>2 DEF RangeType
    <3>4. n > 0 => list[n].to \in Nat
      BY <1>4, <1>5
    <3>5. n < Len(list) => list[n + 1].from \in Nat
      BY <1>4, <1>5
    <3> QED BY <1>2, <1>3, <2>1, <3>2, <3>3, <3>4, <3>5
  <2> DEFINE a == SubSeq(list, 1, n)
             b == SubSeq(list, n + 1, Len(list))
  <2>3. Writing!Inserted(list, frame) = a \o <<r>> \o b
    BY <1>1, <1>6, <1>8 DEF Writing!Inserted, lower, upper
  <2>4. n \in Nat /\ n <= Len(list)
    BY <1>4, <1>5
  <2>5. a \in Seq(RangeType) /\ Len(a) = n /\ \A k \in 1..n : a[k] = list[k]
    BY <1>5, <2>4
  <2>6. b \in Seq(RangeType) /\ Len(b) = Len(list) - n /\ \A k \in 1..Len(list) - n : b[k] = list[k + n]
    BY <1>5, <2>4
  <2> HIDE DEF a, b
  <2>7. PICK h : h = a \o <<r>>
    OBVIOUS
  <2>8. h \in Seq(RangeType) /\ Len(h) = n + 1 /\ h[n + 1] = r /\ \A k \in 1..n : h[k] = list[k]
    <3>1. <<r>> \in Seq(RangeType) /\ Len(<<r>>) = 1 /\ <<r>>[1] = r
      BY <2>2
    <3>2. /\ h \in Seq(RangeType) /\ Len(h) = Len(a) + 1
          /\ \A k \in 1..Len(a) + 1 : h[k] = IF k <= Len(a) THEN a[k] ELSE <<r>>[k - Len(a)]
      BY <2>5, <2>7, <3>1, ConcatProperties
    <3>3. h[n + 1] = <<r>>[1]
      <4>1. n + 1 \in 1..Len(a) + 1 /\ ~(n + 1 <= Len(a)) /\ (n + 1) - Len(a) = 1
        BY <2>4, <2>5
      <4> QED BY <3>2, <4>1
    <3>4. \A k \in 1..n : h[k] = list[k]
      BY <2>4, <2>5, <3>2
    <3> QED BY <2>5, <3>1, <3>2, <3>3, <3>4
  <2>9. PICK new : new = h \o b
    OBVIOUS
  <2>10. /\ new \in Seq(RangeType) /\ Len(new) = Len(list) + 1
         /\ \A k \in 1..n : new[k] = list[k]
         /\ new[n + 1] = r
         /\ \A k \in n + 2..Len(list) + 1 : new[k] = list[k - 1]
    <3>1. /\ new \in Seq(RangeType) /\ Len(new) = Len(h) + Len(b)
          /\ \A k \in 1..Len(h) + Len(b) : new[k] = IF k <= Len(h) THEN h[k] ELSE b[k - Len(h)]
      BY <2>6, <2>8, <2>9, ConcatProperties
    <3>2. Len(new) = Len(list) + 1
      BY <1>5, <2>4, <2>6, <2>8, <3>1
    <3>3. Len(h) + Len(b) = Len(list) + 1 /\ Len(h) = n + 1
      BY <1>5, <2>4, <2>6, <2>8
    <3>4. \A k \in 1..Len(list) + 1 : new[k] = IF k <= n + 1 THEN h[k] ELSE b[k - (n + 1)]
      BY <3>1, <3>3
    <3>5. \A k \in 1..n + 1 : new[k] = h[k]
      <4> SUFFICES ASSUME NEW k \in 1..n + 1 PROVE new[k] = h[k]
        OBVIOUS
      <4>1. k \in 1..Len(list) + 1 /\ k <= n + 1
        BY <1>5, <2>4
      <4> QED BY <3>4, <4>1
    <3>6. \A k \in n + 2..Len(list) + 1 : new[k] = list[k - 1]
      <4> SUFFICES ASSUME NEW k \in n + 2..Len(list) + 1 PROVE new[k] = list[k - 1]
        OBVIOUS
      <4>1. /\ k \in 1..Len(list) + 1 /\ ~(k <= n + 1)
            /\ k - (n + 1) \in 1..Len(list) - n /\ (k - (n + 1)) + n = k - 1
        BY <1>5, <2>4
      <4>2. new[k] = b[k - (n + 1)]
        BY <3>4, <4>1
      <4>3. b[k - (n + 1)] = list[(k - (n + 1)) + n]
        BY <2>6, <4>1
      <4> QED BY <4>1, <4>2, <4>3
    <3>7. n + 1 \in 1..n + 1 /\ \A k \in 1..n : k \in 1..n + 1
      BY <2>4
    <3> QED BY <2>8, <3>1, <3>2, <3>5, <3>6, <3>7
  <2>11. \A k \in 1..Len(list) + 1 : new[k].from <= new[k].to /\ new[k].from < FrameCount /\ new[k].to <= FrameCount
    <3> SUFFICES ASSUME NEW k \in 1..Len(list) + 1
                 PROVE  new[k].from <= new[k].to /\ new[k].from < FrameCount /\ new[k].to <= FrameCount
      OBVIOUS
    <3>1. k \in 1..n \/ k = n + 1 \/ (k \in n + 2..Len(list) + 1 /\ k - 1 \in 1..Len(list))
      BY <1>5, <2>4
    <3>2. \A x \in 1..n : x \in 1..Len(list)
      BY <1>5, <2>4
    <3> QED BY <1>5, <2>2, <2>10, <3>1, <3>2
  <2>12. \A k \in 1..n : list[k].to < r.from
    <3> SUFFICES ASSUME NEW k \in 1..n PROVE list[k].to < r.from
      OBVIOUS
    <3>1. k \in 1..Len(list) /\ n \in 1..Len(list) /\ n > 0 /\ (k = n \/ k < n)
      BY <1>5, <2>4
    <3>2. list[n].to < r.from /\ r.from \in Nat
      BY <2>2, <3>1 DEF RangeType
    <3>3. k < n => list[k].to < list[n].from /\ list[n].from <= list[n].to
      BY <1>5, <3>1
    <3>4. list[k].to \in Nat /\ list[n].from \in Nat /\ list[n].to \in Nat
      BY <1>5, <3>1
    <3> QED BY <3>1, <3>2, <3>3, <3>4
  <2>13. \A k \in n + 1..Len(list) : r.to < list[k].from
    <3> SUFFICES ASSUME NEW k \in n + 1..Len(list) PROVE r.to < list[k].from
      OBVIOUS
    <3>1. k \in 1..Len(list) /\ n + 1 \in 1..Len(list) /\ n < Len(list) /\ (k = n + 1 \/ n + 1 < k)
      BY <1>5, <2>4
    <3>2. r.to < list[n + 1].from /\ r.to \in Nat
      BY <2>2, <3>1 DEF RangeType
    <3>3. n + 1 < k => list[n + 1].to < list[k].from /\ list[n + 1].from <= list[n + 1].to
      BY <1>5, <3>1
    <3>4. list[k].from \in Nat /\ list[n + 1].from \in Nat /\ list[n + 1].to \in Nat
      BY <1>5, <3>1
    <3> QED BY <3>1, <3>2, <3>3, <3>4
  <2>14. \A k, m \in 1..Len(list) + 1 : k < m => new[k].to < new[m].from
    <3> SUFFICES ASSUME NEW k \in 1..Len(list) + 1, NEW m \in 1..Len(list) + 1, k < m
                 PROVE  new[k].to < new[m].from
      OBVIOUS
    <3>1. CASE m <= n
      <4>1. k \in 1..n /\ m \in 1..n /\ k \in 1..Len(list) /\ m \in 1..Len(list)
        BY <1>5, <2>4, <3>1
      <4> QED BY <1>5, <2>10, <4>1
    <3>2. CASE m = n + 1
      <4>1. k \in 1..n
        BY <2>4, <3>2
      <4> QED BY <2>10, <2>12, <3>2, <4>1
    <3>3. CASE m > n + 1
      <4>1. m \in n + 2..Len(list) + 1 /\ m - 1 \in n + 1..Len(list) /\ m - 1 \in 1..Len(list) /\ new[m] = list[m - 1]
        BY <1>5, <2>4, <2>10, <3>3
      <4>2. CASE k <= n
        <5>1. k \in 1..n /\ k \in 1..Len(list) /\ k < m - 1
          BY <1>5, <2>4, <3>3, <4>2
        <5> QED BY <1>5, <2>10, <4>1, <5>1
      <4>3. CASE k = n + 1
        BY <2>10, <2>13, <4>1, <4>3
      <4>4. CASE k > n + 1
        <5>1. k \in n + 2..Len(list) + 1 /\ k - 1 \in 1..Len(list) /\ k - 1 < m - 1
          BY <1>5, <2>4, <4>4, <4>1
        <5> QED BY <1>5, <2>10, <4>1, <5>1
      <4> QED BY <2>4, <4>2, <4>3, <4>4
    <3> QED BY <2>4, <3>1, <3>2, <3>3
  <2>15. Fits(new)
    BY <2>10, <2>11, <2>14 DEF Fits
  <2> QED BY <2>3, <2>7, <2>9, <2>15
<1> QED BY <1>7, <1>8

-----------------------------------------------------------------------------
\* Blocks in order, each with a verdict.
VerdictType == [from : Nat, to : Nat, cut : BOOLEAN]
InTurn(list) ==
  /\ list \in Seq(VerdictType)
  /\ \A k \in 1..Len(list) :
       /\ list[k].from <= list[k].to /\ list[k].from < FrameCount /\ list[k].to <= FrameCount
       /\ k > 1 => list[k - 1].to < list[k].from

LEMMA InTurnElements ==
  ASSUME NEW list, InTurn(list)
  PROVE  /\ list \in Seq(VerdictType) /\ Len(list) \in Nat /\ DOMAIN list = 1..Len(list)
         /\ \A k \in 1..Len(list) :
              /\ list[k] \in VerdictType /\ list[k].from \in Nat /\ list[k].to \in Nat /\ list[k].cut \in BOOLEAN
              /\ list[k].from <= list[k].to /\ list[k].from < FrameCount /\ list[k].to <= FrameCount
         /\ \A k, n \in 1..Len(list) : k < n => list[k].to < list[n].from
<1>1. list \in Seq(VerdictType) /\ Len(list) \in Nat /\ DOMAIN list = 1..Len(list)
  BY DEF InTurn
<1>2. \A k \in 1..Len(list) : list[k] \in VerdictType
  BY <1>1, ElementOfSeq
<1>3. \A k \in 1..Len(list) : list[k].from \in Nat /\ list[k].to \in Nat /\ list[k].cut \in BOOLEAN
  BY <1>2 DEF VerdictType
<1>4. \A k \in 1..Len(list) :
        /\ list[k].from <= list[k].to /\ list[k].from < FrameCount /\ list[k].to <= FrameCount
        /\ k > 1 => list[k - 1].to < list[k].from
  BY DEF InTurn
<1>5. \A k, n \in 1..Len(list) : k < n => list[k].to < list[n].from
  BY <1>1, <1>3, <1>4, InOrderAll
<1> QED BY <1>1, <1>2, <1>3, <1>4, <1>5

\* Another verdict on one block.
LEMMA VerdictChanges ==
  ASSUME NEW list, InTurn(list), NEW x, NEW verdict \in BOOLEAN
  PROVE  InTurn([list EXCEPT ![x].cut = verdict])
<1> DEFINE e == [list[x] EXCEPT !.cut = verdict]
<1>1. PICK new : new = [list EXCEPT ![x] = e]
  OBVIOUS
<1>2. /\ list \in Seq(VerdictType) /\ Len(list) \in Nat /\ DOMAIN list = 1..Len(list)
      /\ \A k \in 1..Len(list) :
           /\ list[k] \in VerdictType
           /\ list[k].from <= list[k].to /\ list[k].from < FrameCount /\ list[k].to <= FrameCount
           /\ k > 1 => list[k - 1].to < list[k].from
  BY InTurnElements DEF InTurn
<1>3. CASE x \in 1..Len(list)
  <2>1. e \in VerdictType /\ e.from = list[x].from /\ e.to = list[x].to
    <3>1. list[x] \in VerdictType
      BY <1>2, <1>3
    <3> QED BY <3>1 DEF VerdictType
  <2> HIDE DEF e
  <2>2. /\ new \in Seq(VerdictType) /\ Len(new) = Len(list)
        /\ \A k \in 1..Len(list) : new[k] = IF k = x THEN e ELSE list[k]
    BY <1>1, <1>2, <1>3, <2>1, ExceptSeq
  <2>3. \A k \in 1..Len(list) : new[k].from = list[k].from /\ new[k].to = list[k].to
    BY <2>1, <2>2
  <2>4. \A k \in 1..Len(list) : k > 1 => k - 1 \in 1..Len(list)
    BY <1>2
  <2>5. \A k \in 1..Len(list) :
          /\ new[k].from <= new[k].to /\ new[k].from < FrameCount /\ new[k].to <= FrameCount
          /\ k > 1 => new[k - 1].to < new[k].from
    BY <1>2, <2>3, <2>4
  <2>6. InTurn(new)
    BY <2>2, <2>5 DEF InTurn
  <2> QED BY <1>1, <2>6 DEF e
<1>4. CASE x \notin 1..Len(list)
  <2>1. [list EXCEPT ![x].cut = verdict] = list
    BY <1>2, <1>4
  <2> QED BY <2>1
<1> QED BY <1>3, <1>4

\* One block more of BuildCommercial's walk, and the whole walk.
WalkedOn(list, x, before) ==
  IF x = 0 THEN <<>>
  ELSE IF ~list[x].cut THEN before
  ELSE IF x = 1 \/ ~list[x - 1].cut THEN Append(before, Writing!Range(list[x].from, list[x].to))
  ELSE [before EXCEPT ![Len(before)].to = list[x].to]
WalkedTo(f, list, n) == f = [x \in 0..n |-> WalkedOn(list, x, f[x - 1])]

LEMMA WalkedFirst ==
  ASSUME NEW list, NEW before
  PROVE  WalkedOn(list, 0, before) = <<>>
BY DEF WalkedOn

LEMMA WalkExists ==
  ASSUME NEW list, NEW N0 \in Nat
  PROVE  \E f : WalkedTo(f, list, N0)
<1> DEFINE missing == {k \in Nat : ~\E f : WalkedTo(f, list, k)}
<1> SUFFICES ASSUME missing # {} PROVE FALSE
  OBVIOUS
<1>1. PICK k \in missing : \A n \in missing : k <= n
  <2>1. missing \in SUBSET Nat
    OBVIOUS
  <2> HIDE DEF missing
  <2> QED BY <2>1, LeastNatural
<1>2. k \in Nat
  BY <1>1
<1>3. CASE k = 0
  <2> DEFINE f == [x \in 0..0 |-> <<>>]
  <2>1. \A x \in 0..0 : x = 0
    OBVIOUS
  <2>2. \A x \in 0..0 : WalkedOn(list, x, f[x - 1]) = <<>>
    BY <2>1, WalkedFirst
  <2>3. f = [x \in 0..0 |-> WalkedOn(list, x, f[x - 1])]
    BY <2>2
  <2>4. WalkedTo(f, list, 0)
    BY <2>3 DEF WalkedTo
  <2> QED BY <1>1, <1>3, <2>4
<1>4. CASE k # 0
  <2>1. k - 1 \in Nat /\ k - 1 \notin missing
    <3>1. k - 1 \in Nat /\ ~(k <= k - 1)
      BY <1>2, <1>4
    <3> HIDE DEF missing
    <3> QED BY <1>1, <3>1
  <2>2. PICK g : WalkedTo(g, list, k - 1)
    BY <2>1
  <2> DEFINE h == [x \in 0..k |-> WalkedOn(list, x, g[x - 1])]
  <2>3. \A x \in 0..(k - 1) : h[x] = g[x]
    <3>1. \A x \in 0..(k - 1) : x \in 0..k
      BY <1>2
    <3>2. \A x \in 0..(k - 1) : g[x] = WalkedOn(list, x, g[x - 1])
      BY <2>2 DEF WalkedTo
    <3> QED BY <3>1, <3>2
  <2>4. \A x \in 0..k : x = 0 \/ h[x - 1] = g[x - 1]
    <3>1. \A x \in 0..k : x = 0 \/ x - 1 \in 0..(k - 1)
      BY <1>2
    <3> HIDE DEF h
    <3> QED BY <2>3, <3>1
  <2>5. \A x \in 0..k : WalkedOn(list, x, g[x - 1]) = WalkedOn(list, x, h[x - 1])
    <3> HIDE DEF h
    <3> QED BY <2>4, WalkedFirst
  <2>6. h = [x \in 0..k |-> WalkedOn(list, x, h[x - 1])]
    <3> DEFINE other == [x \in 0..k |-> WalkedOn(list, x, h[x - 1])]
    <3>1. h = other
      BY <2>5
    <3> QED BY <3>1
  <2>7. WalkedTo(h, list, k)
    BY <2>6 DEF WalkedTo
  <2> QED BY <1>1, <2>7
<1> QED BY <1>3, <1>4

\* What the walk has made of the first x blocks: breaks that fit, none behind the last block seen,
\* and the last of them ends with that block if it is one of a commercial.
RunsAt(list, x, made) ==
  /\ Fits(made)
  /\ \A m \in 1..Len(made) : x > 0 /\ made[m].to <= list[x].to
  /\ (x > 0 /\ list[x].cut) => Len(made) > 0 /\ made[Len(made)].to = list[x].to

LEMMA OneWalked ==
  ASSUME NEW list, InTurn(list), NEW x \in 1..Len(list), NEW made, RunsAt(list, x - 1, made)
  PROVE  RunsAt(list, x, WalkedOn(list, x, made))
<1>1. /\ Len(list) \in Nat
      /\ \A k \in 1..Len(list) :
           /\ list[k].from \in Nat /\ list[k].to \in Nat /\ list[k].cut \in BOOLEAN
           /\ list[k].from <= list[k].to /\ list[k].from < FrameCount /\ list[k].to <= FrameCount
      /\ \A k, n \in 1..Len(list) : k < n => list[k].to < list[n].from
  BY InTurnElements
<1>2. /\ made \in Seq(RangeType) /\ Len(made) \in Nat
      /\ \A k \in 1..Len(made) :
           /\ made[k] \in RangeType /\ made[k].from \in Nat /\ made[k].to \in Nat
           /\ made[k].from <= made[k].to /\ made[k].from < FrameCount /\ made[k].to <= FrameCount
      /\ \A k, m \in 1..Len(made) : k < m => made[k].to < made[m].from
  BY FitsElements DEF RunsAt
<1>3. /\ \A m \in 1..Len(made) : x - 1 > 0 /\ made[m].to <= list[x - 1].to
      /\ (x - 1 > 0 /\ list[x - 1].cut) => Len(made) > 0 /\ made[Len(made)].to = list[x - 1].to
  BY DEF RunsAt
<1>4. x \in Nat /\ x > 0 /\ x # 0 /\ FrameCount \in Nat
  BY <1>1, WritingParameters DEF Writing!ParametersOK
<1>5. \A m \in 1..Len(made) : made[m].to < list[x].from /\ made[m].to < list[x].to
  <2> SUFFICES ASSUME NEW m \in 1..Len(made) PROVE made[m].to < list[x].from /\ made[m].to < list[x].to
    OBVIOUS
  <2>1. x - 1 \in 1..Len(list) /\ x - 1 < x /\ made[m].to <= list[x - 1].to
    BY <1>1, <1>3, <1>4
  <2>2. list[x - 1].to < list[x].from /\ list[x].from <= list[x].to
    BY <1>1, <2>1
  <2>3. made[m].to \in Nat
    BY <1>2
  <2>4. list[x - 1].to \in Nat /\ list[x].from \in Nat /\ list[x].to \in Nat
    BY <1>1, <2>1
  <2> QED BY <2>1, <2>2, <2>3, <2>4
<1>6. CASE ~list[x].cut
  <2>1. WalkedOn(list, x, made) = made
    BY <1>4, <1>6 DEF WalkedOn
  <2>2. \A m \in 1..Len(made) : made[m].to <= list[x].to
    BY <1>1, <1>2, <1>5
  <2> QED BY <1>4, <1>6, <2>1, <2>2 DEF RunsAt
<1>7. CASE list[x].cut /\ (x = 1 \/ ~list[x - 1].cut)
  <2>1. PICK r : r = Writing!Range(list[x].from, list[x].to)
    OBVIOUS
  <2>2. r \in RangeType /\ r.from = list[x].from /\ r.to = list[x].to
    BY <1>1, <2>1 DEF RangeType, Writing!Range
  <2>3. PICK new : new = Append(made, r)
    OBVIOUS
  <2>4. WalkedOn(list, x, made) = new
    BY <1>4, <1>7, <2>1, <2>3 DEF WalkedOn
  <2>5. /\ new \in Seq(RangeType) /\ Len(new) = Len(made) + 1 /\ new[Len(made) + 1] = r
        /\ \A k \in 1..Len(made) : new[k] = made[k]
    BY <1>2, <2>2, <2>3
  <2>6. \A k \in 1..Len(new) : k \in 1..Len(made) \/ k = Len(made) + 1
    BY <1>2, <2>5
  <2>7. \A k \in 1..Len(new) : new[k].from <= new[k].to /\ new[k].from < FrameCount /\ new[k].to <= FrameCount
    BY <1>1, <1>2, <2>2, <2>5, <2>6
  <2>8. \A k, m \in 1..Len(new) : k < m => new[k].to < new[m].from
    <3> SUFFICES ASSUME NEW k \in 1..Len(new), NEW m \in 1..Len(new), k < m PROVE new[k].to < new[m].from
      OBVIOUS
    <3>1. k \in 1..Len(made) /\ new[k] = made[k]
      BY <1>2, <2>5
    <3>2. CASE m = Len(made) + 1
      BY <1>5, <2>2, <2>5, <3>1, <3>2
    <3>3. CASE m \in 1..Len(made)
      <4>1. made[k].to < made[m].from /\ new[m] = made[m]
        BY <1>2, <2>5, <3>1, <3>3
      <4> QED BY <3>1, <4>1
    <3> QED BY <2>6, <3>2, <3>3
  <2>9. Fits(new)
    BY <2>5, <2>7, <2>8 DEF Fits
  <2>10. \A m \in 1..Len(new) : new[m].to <= list[x].to
    <3> SUFFICES ASSUME NEW m \in 1..Len(new) PROVE new[m].to <= list[x].to
      OBVIOUS
    <3>1. list[x].to \in Nat
      BY <1>1
    <3>2. CASE m = Len(made) + 1
      BY <2>2, <2>5, <3>1, <3>2
    <3>3. CASE m \in 1..Len(made)
      <4>1. new[m].to = made[m].to /\ made[m].to \in Nat /\ made[m].to < list[x].to
        BY <1>2, <1>5, <2>5, <3>3
      <4> QED BY <3>1, <4>1
    <3> QED BY <2>6, <3>2, <3>3
  <2>11. Len(new) > 0 /\ new[Len(new)].to = list[x].to
    BY <1>2, <2>2, <2>5
  <2> QED BY <1>4, <2>4, <2>9, <2>10, <2>11 DEF RunsAt
<1>8. CASE list[x].cut /\ x # 1 /\ list[x - 1].cut
  <2>1. x - 1 > 0 /\ x - 1 \in 1..Len(list)
    BY <1>1, <1>4, <1>8
  <2>2. PICK n : n = Len(made)
    OBVIOUS
  <2>3. n \in 1..Len(made) /\ n \in Nat
    BY <1>2, <1>3, <1>8, <2>1, <2>2
  <2>4. PICK e : e = [made[n] EXCEPT !.to = list[x].to]
    OBVIOUS
  <2>5. e \in RangeType /\ e.from = made[n].from /\ e.to = list[x].to
    <3>1. made[n] \in RangeType /\ list[x].to \in Nat
      BY <1>1, <1>2, <2>3
    <3> QED BY <2>4, <3>1 DEF RangeType
  <2>6. PICK new : new = [made EXCEPT ![n] = e]
    OBVIOUS
  <2>7. WalkedOn(list, x, made) = new
    BY <1>4, <1>8, <2>2, <2>4, <2>6 DEF WalkedOn
  <2>8. /\ new \in Seq(RangeType) /\ Len(new) = Len(made)
        /\ \A k \in 1..Len(made) : new[k] = IF k = n THEN e ELSE made[k]
    BY <1>2, <2>3, <2>5, <2>6, ExceptSeq
  <2>9. made[n].from <= list[x].to
    <3>1. made[n].from <= made[n].to /\ made[n].to < list[x].to /\ made[n].from \in Nat /\ made[n].to \in Nat
      BY <1>2, <1>5, <2>3
    <3>2. list[x].to \in Nat
      BY <1>1
    <3> QED BY <3>1, <3>2
  <2>10. \A k \in 1..Len(new) : new[k].from <= new[k].to /\ new[k].from < FrameCount /\ new[k].to <= FrameCount
    BY <1>1, <1>2, <2>3, <2>5, <2>8, <2>9
  <2>11. \A k, m \in 1..Len(new) : k < m => new[k].to < new[m].from
    <3> SUFFICES ASSUME NEW k \in 1..Len(new), NEW m \in 1..Len(new), k < m PROVE new[k].to < new[m].from
      OBVIOUS
    <3>1. k # n /\ k \in 1..Len(made) /\ m \in 1..Len(made)
      BY <1>2, <2>2, <2>8
    <3>2. new[k] = made[k] /\ new[m].from = made[m].from
      BY <2>5, <2>8, <3>1
    <3> QED BY <1>2, <3>1, <3>2
  <2>12. Fits(new)
    BY <2>8, <2>10, <2>11 DEF Fits
  <2>13. \A m \in 1..Len(new) : new[m].to <= list[x].to
    <3> SUFFICES ASSUME NEW m \in 1..Len(new) PROVE new[m].to <= list[x].to
      OBVIOUS
    <3>1. m \in 1..Len(made) /\ new[m].to = (IF m = n THEN list[x].to ELSE made[m].to)
      BY <2>5, <2>8
    <3>2. made[m].to < list[x].to /\ made[m].to \in Nat /\ list[x].to \in Nat
      BY <1>1, <1>2, <1>5, <3>1
    <3> QED BY <3>1, <3>2
  <2>14. Len(new) > 0 /\ new[Len(new)].to = list[x].to
    BY <2>2, <2>3, <2>5, <2>8
  <2> QED BY <1>4, <2>7, <2>12, <2>13, <2>14 DEF RunsAt
<1> QED BY <1>6, <1>7, <1>8

\* BuildCommercial makes a list that the adapters accept of any verdicts on blocks in order.
LEMMA RebuiltFits ==
  ASSUME NEW list, InTurn(list)
  PROVE  Fits(Writing!Rebuilt(list))
<1> DEFINE n == Len(list)
           F == CHOOSE f : f = [x \in 0..n |->
                  IF x = 0 THEN <<>>
                  ELSE IF ~list[x].cut THEN f[x - 1]
                  ELSE IF x = 1 \/ ~list[x - 1].cut THEN Append(f[x - 1], Writing!Range(list[x].from, list[x].to))
                  ELSE [f[x - 1] EXCEPT ![Len(f[x - 1])].to = list[x].to]]
<1>1. n \in Nat
  BY InTurnElements
<1>2. Writing!Rebuilt(list) = F[n]
  BY DEF Writing!Rebuilt
<1>3. F = CHOOSE f : f = [x \in 0..n |-> WalkedOn(list, x, f[x - 1])]
  BY DEF WalkedOn
<1> HIDE DEF F
<1>4. \E f : f = [x \in 0..n |-> WalkedOn(list, x, f[x - 1])]
  BY <1>1, WalkExists DEF WalkedTo
<1>5. F = [x \in 0..n |-> WalkedOn(list, x, F[x - 1])]
  BY <1>3, <1>4
<1>6. \A x \in 0..n : F[x] = WalkedOn(list, x, F[x - 1])
  BY <1>5
<1> DEFINE bad == {x \in 0..n : ~RunsAt(list, x, F[x])}
<1>7. bad = {}
  <2> SUFFICES ASSUME bad # {} PROVE FALSE
    OBVIOUS
  <2>1. PICK x \in bad : \A m \in bad : x <= m
    <3>1. bad \in SUBSET Nat
      BY <1>1
    <3> HIDE DEF bad
    <3> QED BY <3>1, LeastNatural
  <2>2. CASE x = 0
    <3>1. F[0] = <<>>
      BY <1>1, <1>6, WalkedFirst
    <3>2. <<>> \in Seq(RangeType) /\ Len(<<>>) = 0
      OBVIOUS
    <3>3. RunsAt(list, 0, <<>>)
      BY <3>2 DEF RunsAt, Fits
    <3> QED BY <2>1, <2>2, <3>1, <3>3
  <2>3. CASE x # 0
    <3>1. x \in 1..n /\ x - 1 \in 0..n /\ ~(x <= x - 1)
      BY <1>1, <2>1, <2>3
    <3>2. x - 1 \notin bad
      <4> HIDE DEF bad
      <4> QED BY <2>1, <3>1
    <3>3. RunsAt(list, x - 1, F[x - 1])
      BY <3>1, <3>2
    <3>4. RunsAt(list, x, F[x])
      BY <1>6, <2>1, <3>1, <3>3, OneWalked
    <3> QED BY <2>1, <3>4
  <2> QED BY <2>2, <2>3
<1>8. RunsAt(list, n, F[n])
  <2>1. n \in 0..n
    BY <1>1
  <2> QED BY <1>7, <2>1
<1> QED BY <1>2, <1>8 DEF RunsAt

-----------------------------------------------------------------------------
\* The list on display fits, unless it is one that padding made; a refusal ends the program, over a
\* list that does not fit.
ReviewInv ==
  /\ ~table => Fits(ranges)
  /\ table => InTurn(judged) /\ (Fits(ranges) \/ \E made \in Judgements : ranges = made.breaks)
  /\ why = "list" => writer = "failed" /\ ~Fits(ranges)

\* The blocks of an analysis, and its breaks.
LEMMA JudgementTyped ==
  ASSUME NEW made \in Judgements
  PROVE  /\ InTurn(made.blocks)
         /\ made.breaks \in Seq(RangeType) /\ Len(made.breaks) \in Nat
         /\ \A k \in 1..Len(made.breaks) :
              made.breaks[k].from < made.breaks[k].to /\ made.breaks[k].to <= FrameCount
<1>1. /\ made.blocks \in Seq(VerdictType)
      /\ \A k \in DOMAIN made.blocks :
           /\ made.blocks[k].from <= made.blocks[k].to
           /\ made.blocks[k].from < FrameCount /\ made.blocks[k].to <= FrameCount
           /\ k > 1 => made.blocks[k - 1].to < made.blocks[k].from
      /\ made.breaks \in Seq(RangeType)
      /\ \A k \in DOMAIN made.breaks :
           made.breaks[k].from < made.breaks[k].to /\ made.breaks[k].to <= FrameCount
  BY WritingParameters DEF Writing!ParametersOK, VerdictType, RangeType
<1>2. DOMAIN made.blocks = 1..Len(made.blocks) /\ DOMAIN made.breaks = 1..Len(made.breaks) /\ Len(made.breaks) \in Nat
  BY <1>1
<1> QED BY <1>1, <1>2 DEF InTurn

LEMMA LoadedFits ==
  ASSUME NEW list \in Lists0
  PROVE  Fits(list)
<1>1. list \in Seq(RangeType) /\ Writing!Accepted(list)
  BY WritingParameters DEF Writing!ParametersOK, RangeType
<1> QED BY <1>1, FitsIs

\* Breaks of an analysis that do not fit have two that touch.
LEMMA UnfitTouch ==
  ASSUME NEW made \in Judgements, ~Fits(made.breaks)
  PROVE  \E k \in 2..Len(made.breaks) : made.breaks[k].from <= made.breaks[k - 1].to
<1>1. PICK list : list = made.breaks
  OBVIOUS
<1>2. /\ list \in Seq(RangeType) /\ Len(list) \in Nat
      /\ \A k \in 1..Len(list) : list[k].from < list[k].to /\ list[k].to <= FrameCount
  BY <1>1, JudgementTyped
<1>3. FrameCount \in Nat
  BY WritingParameters DEF Writing!ParametersOK
<1>4. \A k \in 1..Len(list) : list[k].from \in Nat /\ list[k].to \in Nat
  <2>1. \A k \in 1..Len(list) : list[k] \in RangeType
    BY <1>2, ElementOfSeq
  <2> QED BY <2>1 DEF RangeType
<1>5. \A k \in 1..Len(list) : list[k].from <= list[k].to /\ list[k].from < FrameCount
  BY <1>2, <1>3, <1>4
<1>6. SUFFICES ASSUME \A k \in 2..Len(list) : ~(list[k].from <= list[k - 1].to)
               PROVE  FALSE
  BY <1>1
<1>7. \A k \in 1..Len(list) : k > 1 => list[k - 1].to < list[k].from
  <2> SUFFICES ASSUME NEW k \in 1..Len(list), k > 1 PROVE list[k - 1].to < list[k].from
    OBVIOUS
  <2>1. k \in 2..Len(list) /\ k - 1 \in 1..Len(list)
    BY <1>2
  <2> QED BY <1>4, <1>6, <2>1
<1>8. \A k, n \in 1..Len(list) : k < n => list[k].to < list[n].from
  BY <1>2, <1>4, <1>5, <1>7, InOrderAll
<1>9. Fits(list)
  BY <1>2, <1>5, <1>8 DEF Fits
<1> QED BY <1>1, <1>9

LEMMA ReviewTouching ==
  ASSUME ReviewInv
  PROVE  Writing!OnlyTouchingFails
<1> SUFFICES ASSUME why = "list"
             PROVE  /\ table /\ \E made \in Judgements : ranges = made.breaks
                    /\ \E k \in 2..Len(ranges) : ranges[k].from <= ranges[k - 1].to
  BY DEF Writing!OnlyTouchingFails
<1>1. table /\ ~Fits(ranges)
  BY DEF ReviewInv
<1>2. PICK made \in Judgements : ranges = made.breaks
  BY <1>1 DEF ReviewInv
<1>3. \E k \in 2..Len(ranges) : ranges[k].from <= ranges[k - 1].to
  BY <1>1, <1>2, UnfitTouch
<1> QED BY <1>1, <1>2, <1>3

LEMMA ReviewStart ==
  ASSUME Writing!ReviewInit
  PROVE  ReviewInv
<1>1. why = "none"
  BY DEF Writing!ReviewInit
<1>2. CASE table
  <2>1. PICK made \in Judgements : judged = made.blocks /\ ranges = made.breaks
    BY <1>2 DEF Writing!ReviewInit
  <2>2. InTurn(judged)
    BY <2>1, JudgementTyped
  <2> QED BY <1>1, <1>2, <2>1, <2>2 DEF ReviewInv
<1>3. CASE ~table
  <2>1. ranges \in Lists0
    BY <1>3 DEF Writing!ReviewInit
  <2> QED BY <1>1, <1>3, <2>1, LoadedFits DEF ReviewInv
<1> QED BY <1>2, <1>3

\* What leaves the list alone, and is done before a failure, keeps the invariant unless it is a
\* refusal of the list.
LEMMA ListKept ==
  ASSUME ReviewInv, UNCHANGED <<table, judged, ranges>>, writer # "failed",
         why' # why => (why' = "io" \/ (why' = "list" /\ writer' = "failed" /\ ~Fits(ranges)))
  PROVE  ReviewInv'
BY DEF ReviewInv, Fits, InTurn

LEMMA ReviewTyped ==
  ASSUME ReviewInv
  PROVE  ranges \in Seq(RangeType)
BY JudgementTyped DEF ReviewInv, Fits

LEMMA ReviewStep ==
  ASSUME ReviewInv, Writing!ReviewNext
  PROVE  ReviewInv'
<1> USE DEF Writing!shown, Writing!Failed
<1>1. CASE Writing!OpenFiles
  <2>1. UNCHANGED <<table, judged, ranges>> /\ writer = "open" /\ (why' = why \/ why' = "io")
    BY <1>1 DEF Writing!OpenFiles
  <2> QED BY <2>1, ListKept
<1>2. CASE Writing!Record
  <2>1. UNCHANGED <<table, judged, ranges>> /\ writer = "records" /\ (why' = why \/ why' = "io")
    BY <1>2 DEF Writing!Record
  <2> QED BY <2>1, ListKept
<1>3. CASE Writing!RecordsDone
  <2>1. UNCHANGED <<table, judged, ranges>> /\ writer = "records" /\ why' = why
    BY <1>3 DEF Writing!RecordsDone
  <2> QED BY <2>1, ListKept
<1>4. ASSUME NEW n \in DOMAIN Writing!Groups, Writing!Write(Writing!Groups[n])
      PROVE  ReviewInv'
  <2>1. PICK adapters : adapters = Writing!Groups[n]
    OBVIOUS
  <2>2. adapters # "failed"
    BY <2>1 DEF Writing!Groups
  <2>3. writer = adapters /\ UNCHANGED <<table, judged, ranges>>
    BY <1>4, <2>1 DEF Writing!Write
  <2>4. why' = why \/ why' = "io" \/ (why' = "list" /\ writer' = "failed" /\ ~Writing!Accepted(ranges))
    BY <1>4, <2>1 DEF Writing!Write
  <2>5. ~Writing!Accepted(ranges) => ~Fits(ranges)
    BY ReviewTyped, FitsIs
  <2> QED BY <2>2, <2>3, <2>4, <2>5, ListKept
<1>5. CASE Writing!Written
  <2>1. UNCHANGED <<table, judged, ranges>> /\ writer = "written" /\ why' = why
    BY <1>5 DEF Writing!Written
  <2> QED BY <2>1, ListKept
<1>6. CASE Writing!WriteAgain
  <2>1. UNCHANGED <<table, judged, ranges>> /\ writer = "review" /\ why' = why
    BY <1>6 DEF Writing!WriteAgain, Writing!Key
  <2> QED BY <2>1, ListKept
<1>7. CASE Writing!Recalculate
  <2>1. table /\ table' = table /\ writer = "review" /\ why' = why
    BY <1>7 DEF Writing!Recalculate, Writing!Key
  <2>2. PICK made \in Judgements : judged' = made.blocks /\ ranges' = made.breaks
    BY <1>7 DEF Writing!Recalculate
  <2>3. InTurn(judged')
    BY <2>2, JudgementTyped
  <2>4. why # "list"
    BY <2>1 DEF ReviewInv
  <2> QED BY <2>1, <2>2, <2>3, <2>4 DEF ReviewInv, InTurn
<1>8. CASE Writing!Leave
  <2>1. UNCHANGED <<table, judged, ranges>> /\ writer = "review" /\ why' = why
    BY <1>8 DEF Writing!Leave
  <2> QED BY <2>1, ListKept
<1>9. CASE Writing!Over
  BY <1>9 DEF Writing!Over, Writing!vars, ReviewInv, Fits, InTurn
<1>10. ASSUME NEW frame \in 1..FrameCount - 1, NEW verdicts \in SUBSET BOOLEAN, Writing!Judge(frame, verdicts),
              table' = table, why' = why
       PROVE  ReviewInv'
  <2>1. table /\ writer = "review" /\ why # "list"
    BY <1>10 DEF Writing!Judge, Writing!Key, ReviewInv
  <2>2. PICK cut \in BOOLEAN : judged' = [judged EXCEPT ![Writing!BlockAt(frame)].cut = cut]
    BY <1>10 DEF Writing!Judge
  <2>3. InTurn(judged)
    BY <2>1 DEF ReviewInv
  <2>4. InTurn([judged EXCEPT ![Writing!BlockAt(frame)].cut = cut])
    BY <2>3, VerdictChanges
  <2>5. PICK after : after = judged' /\ InTurn(after)
    BY <2>2, <2>4
  <2>6. ranges' = Writing!Rebuilt(judged')
    BY <1>10 DEF Writing!Judge
  <2>7. Fits(ranges')
    <3>1. ranges' = Writing!Rebuilt(after)
      BY <2>5, <2>6
    <3>2. Fits(Writing!Rebuilt(after))
      BY <2>5, RebuiltFits
    <3> QED BY <3>1, <3>2
  <2> QED BY <1>10, <2>1, <2>5, <2>7 DEF ReviewInv, Fits, InTurn
<1>11. ASSUME NEW list, Writing!Edited(list), Fits(list)
       PROVE  ReviewInv'
  <2>1. ~table /\ table' = table /\ writer = "review" /\ why' = why /\ ranges' = list
    BY <1>11 DEF Writing!Edited, Writing!Key
  <2>2. why # "list"
    BY <2>1 DEF ReviewInv
  <2> QED BY <1>11, <2>1, <2>2 DEF ReviewInv, Fits
<1>12. ASSUME NEW frame \in 1..FrameCount - 1,
              \/ Writing!JudgeBlock(frame) \/ Writing!ToggleBlock(frame) \/ Writing!SetEnd(frame)
              \/ Writing!SetStart(frame) \/ Writing!Delete(frame) \/ Writing!Insert(frame)
       PROVE  ReviewInv'
  <2>1. CASE Writing!JudgeBlock(frame)
    <3>1. Writing!Judge(frame, BOOLEAN) /\ table' = table /\ why' = why
      BY <2>1 DEF Writing!JudgeBlock
    <3> QED BY <1>10, <3>1
  <2>2. CASE Writing!ToggleBlock(frame)
    <3>1. PICK verdicts : verdicts = Writing!Toggled(judged[Writing!BlockAt(frame)])
      OBVIOUS
    <3>2. verdicts \in SUBSET BOOLEAN
      BY <3>1 DEF Writing!Toggled
    <3>3. Writing!Judge(frame, verdicts) /\ table' = table /\ why' = why
      BY <2>2, <3>1 DEF Writing!ToggleBlock
    <3> QED BY <1>10, <3>2, <3>3
  <2>3. ASSUME NEW list, Writing!Edited(list)
        PROVE  Fits(ranges)
    BY <2>3 DEF Writing!Edited, ReviewInv
  <2>4. CASE Writing!SetEnd(frame)
    <3>1. PICK list : list = [ranges EXCEPT ![Writing!LastBefore(ranges, frame)].to = frame]
      OBVIOUS
    <3>2. Writing!Edited(list) /\ Writing!LastBefore(ranges, frame) > 0
      BY <2>4, <3>1 DEF Writing!SetEnd
    <3>3. Fits(ranges)
      BY <2>3, <3>2
    <3>4. Fits([ranges EXCEPT ![Writing!LastBefore(ranges, frame)].to = frame])
      BY <3>2, <3>3, EndMoves
    <3> QED BY <1>11, <3>1, <3>2, <3>4
  <2>5. CASE Writing!SetStart(frame)
    <3>1. PICK list : list = [ranges EXCEPT ![Writing!FirstAfter(ranges, frame)].from = frame]
      OBVIOUS
    <3>2. Writing!Edited(list) /\ Writing!FirstAfter(ranges, frame) <= Len(ranges)
      BY <2>5, <3>1 DEF Writing!SetStart
    <3>3. Fits(ranges)
      BY <2>3, <3>2
    <3>4. Fits([ranges EXCEPT ![Writing!FirstAfter(ranges, frame)].from = frame])
      BY <3>2, <3>3, StartMoves
    <3> QED BY <1>11, <3>1, <3>2, <3>4
  <2>6. CASE Writing!Delete(frame)
    <3>1. PICK n : n = Writing!LastBefore(ranges, frame)
      OBVIOUS
    <3>2. PICK list : list = SubSeq(ranges, 1, n - 1) \o SubSeq(ranges, n + 1, Len(ranges))
      OBVIOUS
    <3>3. n > 0 /\ Writing!Edited(list)
      BY <2>6, <3>1, <3>2 DEF Writing!Delete
    <3>4. Fits(ranges)
      BY <2>3, <3>3
    <3>5. n \in 0..Len(ranges) /\ Len(ranges) \in Nat
      <4>1. frame \in Nat
        BY WritingParameters DEF Writing!ParametersOK
      <4> QED BY <3>1, <3>4, <4>1, LastBeforeIs, FitsElements
    <3>6. n \in 1..Len(ranges)
      BY <3>3, <3>5
    <3>7. Fits(list)
      BY <3>2, <3>4, <3>6, OneRemoved
    <3> QED BY <1>11, <3>3, <3>7
  <2>7. CASE Writing!Insert(frame)
    <3>1. PICK list : list = Writing!Inserted(ranges, frame)
      OBVIOUS
    <3>2. Writing!Edited(list)
      BY <2>7, <3>1 DEF Writing!Insert
    <3>3. Fits(ranges)
      BY <2>3, <3>2
    <3>4. Fits(list)
      BY <3>1, <3>3, OneInserted
    <3> QED BY <1>11, <3>2, <3>4
  <2> QED BY <1>12, <2>1, <2>2, <2>4, <2>5, <2>6, <2>7
<1> QED BY <1>1, <1>2, <1>3, <1>4, <1>5, <1>6, <1>7, <1>8, <1>9, <1>12 DEF Writing!ReviewNext

(***************************************************************************)
(* A list of breaks that the keys of the review window made, of blocks or  *)
(* of ranges, is one that every adapter accepts: only breaks of an         *)
(* analysis can be refused, and only where padding made two of them touch  *)
(* (ui/review.cpp, output/*_adapter.cpp).                                  *)
(***************************************************************************)
THEOREM KeysMakeGoodLists == RecordingSpec => []OnlyTouchingFails
<1> DEFINE Inv == part = "writing" => ReviewInv
<1>1. RecordingInit => Inv
  <2> SUFFICES ASSUME RecordingInit, part = "writing" PROVE ReviewInv
    OBVIOUS
  <2>1. Writing!ReviewInit
    BY DEF RecordingInit
  <2> QED BY <2>1, ReviewStart
<1>2. Inv /\ [RecordingNext]_allVars => Inv'
  <2> SUFFICES ASSUME Inv, [RecordingNext]_allVars, part' = "writing" PROVE ReviewInv'
    OBVIOUS
  <2>1. CASE WritingStep
    <3>1. ReviewInv /\ Writing!ReviewNext
      BY <2>1 DEF WritingStep
    <3> QED BY <3>1, ReviewStep
  <2>2. CASE RecordingNext /\ ~WritingStep
    BY <2>2 DEF RecordingNext, BlocksStep, ReadingStep, ScoringStep, ComparingStep
  <2>3. CASE UNCHANGED allVars
    <3>1. part' = part /\ UNCHANGED <<table, judged, ranges, writer, why>>
      BY <2>3 DEF allVars, reviewVars
    <3> QED BY <3>1 DEF ReviewInv, Fits, InTurn
  <2> QED BY <2>1, <2>2, <2>3
<1>3. Inv => OnlyTouchingFails
  BY ReviewTouching DEF OnlyTouchingFails
<1> QED BY <1>1, <1>2, <1>3, PTL DEF RecordingSpec
=============================================================================
