------------------------------ MODULE MCBlocks ------------------------------
(***************************************************************************)
(* The candidates, stretches with the logo and settings that the lists of  *)
(* breaks (module Blocks) are checked on.                                  *)
(***************************************************************************)
EXTENDS Blocks

\* Up to three candidates of all kinds anywhere, and dense runs of black and silence.
SomeKinds == {{}, {"black"}, {"silence"}, {"ratio"}, {"black", "silence"}}
CandidatesIn(list) == {f \in 1..N : list[f] # {}}
FewOf(frames) ==
  {[f \in 1..N |-> IF f \in DOMAIN some THEN some[f] ELSE {}] :
    some \in UNION {[set -> SomeKinds \ {{}}] : set \in {s \in SUBSET frames : Cardinality(s) <= 3}}}
Dense ==
  {[f \in 1..N |-> IF f \in 4..10 THEN some[f] ELSE {}] : some \in [4..10 -> {{}, {"black"}, {"silence"}}]}
MCLists == FewOf(1..N) \cup Dense

MCLogos == {{}, 3..8}

NoRules ==
  [after |-> 0, show |-> 0, min |-> 0, max |-> N, edge |-> 0, afterLast |-> 0, beforeFirst |-> 0,
   keepFirst |-> 0, keepLast |-> 0, padStart |-> 0, padEnd |-> 0]
\* The rules that are on by default, and those that are off; padding that widens breaks.
MCSettings ==
  {[NoRules EXCEPT !.min = 3, !.max = 4, !.show = 6, !.edge = 1],
   [NoRules EXCEPT !.min = 2, !.after = 3, !.show = 4],
   [NoRules EXCEPT !.afterLast = 7, !.beforeFirst = 6, !.keepFirst = 3, !.keepLast = 2, !.padStart = 1],
   [NoRules EXCEPT !.padStart = -2, !.padEnd = -3]}
=============================================================================
