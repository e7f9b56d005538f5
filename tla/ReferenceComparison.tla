------------------------ MODULE ReferenceComparison ------------------------
(***************************************************************************)
(* How comskip scores its own work: compare_reference_intervals            *)
(* (detection/reference_comparison.cpp) walks two lists of breaks, the     *)
(* reference and the detected one, and reports what is only in one; then   *)
(* InputReffer (output/diagnostics.cpp) pairs the breaks of the lists for  *)
(* the .dif file.  Both tolerate edges that differ by a few frames.        *)
(*                                                                         *)
(* Ranges are [from, to), in order, may touch and may be empty.  The turns *)
(* of the two loops are the steps.                                         *)
(***************************************************************************)
EXTENDS Integers, Sequences, FiniteSets

CONSTANTS
  References, Detections,  \* bound: the lists
  Tolerances               \* bound: how far apart edges may be, 40 in the code

VARIABLES
  reference, detected, tolerance,
  walk,      \* what the walk is in, or the loop that runs
  position,  \* of the walk
  i, j,      \* reference_index and detected_index
  events,    \* <<kind, from, to>>
  rows,      \* of the .dif file: pairs of indexes, 0 for none
  turns      \* of the loops

compareVars == <<reference, detected, tolerance, walk, position, i, j, events, rows, turns>>
lists == <<reference, detected, tolerance>>

CompareInit ==
  /\ reference \in References /\ detected \in Detections /\ tolerance \in Tolerances
  /\ walk = IF reference = <<>> /\ detected = <<>> THEN "rows" ELSE "show"
  /\ position = 0 /\ i = 1 /\ j = 1 /\ events = {} /\ rows = {} /\ turns = 0

Expected == i <= Len(reference)
Found == j <= Len(detected)
From(list, k) == list[k].from
To(list, k) == list[k].to
Nearby(a, b) == a - b < tolerance /\ b - a < tolerance
Horizon == IF detected = <<>> THEN reference[Len(reference)].to ELSE detected[Len(detected)].to
Walking == position < Horizon /\ (Expected \/ Found)

\* Mutant: starts before.
StartsFirst == Expected /\ (Found => From(reference, i) < From(detected, j))
\* One list's range ends before the other's next begins.
ReferenceFirst == Expected /\ (Found => To(reference, i) < From(detected, j))
DetectedFirst == Found /\ (Expected => To(detected, j) < From(reference, i))

Go(next, to) == walk' = next /\ position' = to
Report(kind) == events' = events \cup {<<kind, position, position'>>}
Step == turns' = turns + 1 /\ UNCHANGED <<lists, rows>>

BothShow ==
  /\ walk = "show" /\ Walking
  /\ IF Expected /\ Found /\ Nearby(From(reference, i), From(detected, j)) THEN Go("both", From(detected, j))
     ELSE IF Found /\ (~Expected \/ From(detected, j) < From(reference, i)) THEN Go("detected", From(detected, j))
     ELSE Go("reference", From(reference, i))
  /\ Step /\ UNCHANGED <<i, j, events>>

BothCommercial ==
  /\ walk = "both" /\ Walking
  /\ IF Expected /\ Found /\ Nearby(To(reference, i), To(detected, j))
     THEN Go("show", To(detected, j)) /\ i' = i + 1 /\ j' = j + 1
     ELSE IF Found /\ (~Expected \/ To(detected, j) < To(reference, i))
     THEN Go("reference", To(detected, j)) /\ i' = i /\ j' = j + 1
     ELSE Go("detected", To(reference, i)) /\ i' = i + 1 /\ j' = j
  /\ Step /\ UNCHANGED events

OnlyReference ==
  /\ walk = "reference" /\ Walking
  /\ \/ /\ ReferenceFirst
        /\ Go("show", To(reference, i)) /\ i' = i + 1
     \/ /\ Found /\ ~ReferenceFirst
        /\ Go("both", From(detected, j)) /\ i' = i
  /\ Report("missed") /\ Step /\ UNCHANGED j

OnlyDetected ==
  /\ walk = "detected" /\ Walking
  /\ \/ /\ DetectedFirst
        /\ Go("show", To(detected, j)) /\ j' = j + 1
     \/ /\ Expected /\ ~DetectedFirst
        /\ Go("both", From(reference, i)) /\ j' = j
  /\ Report("false") /\ Step /\ UNCHANGED i

Walked ==
  /\ walk \in {"show", "both", "reference", "detected"} /\ ~Walking
  /\ walk' = "rows" /\ i' = 1 /\ j' = 1
  /\ UNCHANGED <<lists, position, events, rows, turns>>

\* The .dif file: a range before the other list's next one has a row of its own; two that
\* meet share a row, which is left out when both edges are near.
OutOfReach(a, b) == a - b > tolerance \/ b - a > tolerance
Row ==
  /\ walk = "rows" /\ (Expected \/ Found)
  /\ \/ /\ DetectedFirst
        /\ rows' = rows \cup {<<0, j>>} /\ j' = j + 1 /\ i' = i
     \/ /\ ReferenceFirst
        /\ rows' = rows \cup {<<i, 0>>} /\ i' = i + 1 /\ j' = j
     \/ /\ Expected /\ Found /\ ~ReferenceFirst /\ ~DetectedFirst
        /\ rows' = IF OutOfReach(From(reference, i), From(detected, j)) \/ OutOfReach(To(reference, i), To(detected, j))
                   THEN rows \cup {<<i, j>>} ELSE rows
        /\ i' = i + 1 /\ j' = j + 1
  /\ UNCHANGED <<lists, walk, position, events, turns>>

RowsDone ==
  /\ walk = "rows" /\ ~Expected /\ ~Found /\ walk' = "compared"
  /\ UNCHANGED <<lists, position, i, j, events, rows, turns>>
Compared == walk = "compared" /\ UNCHANGED compareVars

CompareNext ==
  BothShow \/ BothCommercial \/ OnlyReference \/ OnlyDetected \/ Walked \/ Row \/ RowsDone \/ Compared
CompareSpec == CompareInit /\ [][CompareNext]_compareVars

-----------------------------------------------------------------------------
(* Properties. *)

FramesOf(ranges) == UNION {r.from..r.to - 1 : r \in ranges}
Ranges(list) == {list[k] : k \in DOMAIN list}
Reported(kind) == FramesOf({[from |-> e[2], to |-> e[3]] : e \in {x \in events : x[1] = kind}})
\* Frames closer than the tolerance to an edge may be counted either way.
Blurred ==
  UNION {{x \in e - tolerance..e + tolerance - 1 : tolerance > 0} :
           e \in {r.from : r \in Ranges(reference) \cup Ranges(detected)} \cup {r.to : r \in Ranges(reference) \cup Ranges(detected)}}

Alone(range, list) == \A r \in Ranges(list) : r.to < range.from \/ range.to < r.from

\* The report of the walk is the difference of the lists: up to the end of what was detected, what
\* the reference has alone is missed and what it has not is false, and nothing else is either; the
\* walk never loses its place, whatever order the edges come in and however often ranges touch.  In
\* the .dif file a range that meets none of the other list has a row of its own, and none has two.
DifferencesExact ==
  walk \in {"rows", "compared"} =>
    LET before == IF reference = <<>> /\ detected = <<>> THEN {} ELSE 0..Horizon - 1
        expected == FramesOf(Ranges(reference)) \cap before
        found == FramesOf(Ranges(detected)) \cap before
    IN /\ (Reported("missed") \ Blurred) = (expected \ found) \ Blurred
       /\ (Reported("false") \ Blurred) = (found \ expected) \ Blurred
       /\ turns <= 2 * (Len(reference) + Len(detected))
       /\ walk = "compared" =>
            /\ \A k \in DOMAIN reference : Alone(reference[k], detected) => <<k, 0>> \in rows
            /\ \A k \in DOMAIN detected : Alone(detected[k], reference) => <<0, k>> \in rows
            /\ \A a, b \in rows : a # b => (a[1] = b[1] => a[1] = 0) /\ (a[2] = b[2] => a[2] = 0)
=============================================================================
