--------------------------- MODULE Detector_proofs ---------------------------
(***************************************************************************)
(* For any finite set of workers and any number of runs: the caller and    *)
(* the workers never touch a frame at the same time, every task is done    *)
(* exactly once per run, and ScanWorkers implements ScanBarrier.           *)
(*                                                                         *)
(* For every recording, length of a sampling interval, buffer and setting: *)
(* LogoSound, of what the logo leaves of the frames.                       *)
(***************************************************************************)
EXTENDS MCDetector, FiniteSetTheorems, SequenceTheorems, TLAPS

(* The scan threads. *)

\* Tasks of the current run still to be done.
Todo == {w \in Workers : done[w] # generation}

\* A worker has done the frames it has seen, all but the one it scans.
InStep ==
  \A w \in Workers :
    /\ at[w] = "scanning" => seen[w] = generation /\ done[w] + 1 = generation
    /\ at[w] # "scanning" => seen[w] = done[w]
    /\ done[w] = generation \/ done[w] + 1 = generation

\* A worker lags behind only while the caller waits for it.
OnlyInside == caller # "inside" => Todo = {}

IInv == TypeOK /\ InStep /\ OnlyInside /\ RemainingExact /\ FailureOfThisRun

-----------------------------------------------------------------------------

LEMMA TodoFinite == IsFiniteSet(Todo) /\ Todo \subseteq Workers
<1>1. Todo \subseteq Workers
  BY DEF Todo
<1> QED BY <1>1, WorkersAssumption, FS_Subset

LEMMA TodoEmpty == Cardinality(Todo) = 0 <=> Todo = {}
BY TodoFinite, FS_EmptySet

LEMMA InitIInv == Init => IInv
<1> SUFFICES ASSUME Init PROVE IInv
  OBVIOUS
<1> USE DEF Init
<1>1. TypeOK
  BY WorkersAssumption DEF TypeOK
<1>2. InStep
  BY DEF InStep
<1>3. Todo = {}
  BY DEF Todo
<1>4. RemainingExact
  BY <1>3, FS_EmptySet DEF RemainingExact, Todo
<1>5. FailureOfThisRun
  BY WorkersAssumption DEF FailureOfThisRun
<1> QED BY <1>1, <1>2, <1>3, <1>4, <1>5 DEF IInv, OnlyInside

LEMMA BeginIInv ==
  ASSUME IInv, Begin
  PROVE  IInv'
<1> USE DEF Begin, IInv, TypeOK
<1>1. Todo = {}
  BY DEF OnlyInside
<1>2. \A w \in Workers : done[w] = generation /\ at[w] # "scanning"
  BY <1>1 DEF Todo, InStep
<1>3. Todo' = Workers
  BY <1>2 DEF Todo
<1>4. TypeOK'
  <2>1. Cardinality(Workers) \in Nat
    BY WorkersAssumption, FS_CardinalityType
  <2> QED BY <2>1 DEF FailureAtStart
<1>5. InStep'
  BY <1>2 DEF InStep
<1>6. RemainingExact'
  BY <1>3 DEF RemainingExact, Todo
<1>7. FailureOfThisRun'
  BY WorkersAssumption DEF FailureOfThisRun, FailureAtStart
<1> QED BY <1>4, <1>5, <1>6, <1>7 DEF OnlyInside

LEMMA ReturnIInv ==
  ASSUME IInv, Return
  PROVE  IInv'
<1> USE DEF Return, IInv
<1>1. Todo = {}
  BY TodoEmpty DEF AllDone, RemainingExact, Todo
<1>2. TypeOK' /\ InStep' /\ RemainingExact'
  BY DEF TypeOK, InStep, RemainingExact
<1>3. OnlyInside'
  BY <1>1 DEF OnlyInside, Todo
<1>4. FailureOfThisRun'
  BY DEF FailureOfThisRun
<1> QED BY <1>2, <1>3, <1>4

LEMMA DestroyIInv ==
  ASSUME IInv, NEW w \in Workers, Destroy(w)
  PROVE  IInv'
<1> USE DEF Destroy, IInv
<1>1. TypeOK' /\ InStep' /\ RemainingExact'
  BY DEF TypeOK, InStep, RemainingExact
<1>2. OnlyInside' /\ FailureOfThisRun'
  BY DEF OnlyInside, Todo, FailureOfThisRun, TypeOK
<1> QED BY <1>1, <1>2

LEMMA TakeIInv ==
  ASSUME IInv, NEW w \in Workers, Take(w)
  PROVE  IInv'
<1> USE DEF Take, IInv, TypeOK
<1>1. done[w] + 1 = generation
  BY DEF InStep
<1>2. TypeOK'
  OBVIOUS
<1>3. InStep'
  BY <1>1 DEF InStep
<1>4. RemainingExact' /\ OnlyInside' /\ FailureOfThisRun'
  BY DEF RemainingExact, OnlyInside, Todo, FailureOfThisRun
<1> QED BY <1>2, <1>3, <1>4

LEMMA DoneTodo ==
  ASSUME IInv, NEW w \in Workers, NEW fails \in BOOLEAN, Done(w, fails)
  PROVE  w \in Todo /\ Todo' = Todo \ {w} /\ caller = "inside"
<1> USE DEF Done, Left, IInv, TypeOK
<1>1. done[w] + 1 = generation /\ done[w] \in Nat
  BY DEF InStep
<1>2. done'[w] = generation /\ generation' = generation
  BY <1>1
<1>3. \A v \in Workers \ {w} : done'[v] = done[v]
  OBVIOUS
<1>4. w \in Todo
  BY <1>1 DEF Todo
<1>5. caller = "inside"
  BY <1>4 DEF OnlyInside
<1> QED BY <1>2, <1>3, <1>4, <1>5 DEF Todo

LEMMA DoneIInv ==
  ASSUME IInv, NEW w \in Workers, NEW fails \in BOOLEAN, Done(w, fails)
  PROVE  IInv'
<1>1. w \in Todo /\ Todo' = Todo \ {w} /\ caller = "inside"
  BY DoneTodo
<1> USE DEF Done, Left, IInv
<1>2. Cardinality(Todo \ {w}) = Cardinality(Todo) - 1 /\ Cardinality(Todo) \in Nat
  BY <1>1, TodoFinite, FS_RemoveElement, FS_CardinalityType
<1>3. Cardinality(Todo \ {w}) \in Nat
  BY TodoFinite, FS_RemoveElement, FS_CardinalityType
<1>4. remaining' = Cardinality(Todo') /\ remaining' \in Nat
  BY <1>1, <1>2, <1>3 DEF RemainingExact, Todo
<1>5. RemainingExact'
  BY <1>4 DEF RemainingExact, Todo
<1>6. TypeOK'
  BY <1>4 DEF TypeOK
<1>7. InStep'
  BY DEF InStep, TypeOK
<1>8. OnlyInside'
  BY <1>1 DEF OnlyInside
<1>9. FailureOfThisRun'
  BY <1>1, WorkersAssumption DEF FailureOfThisRun, TypeOK
<1> QED BY <1>5, <1>6, <1>7, <1>8, <1>9

LEMMA LeaveIInv ==
  ASSUME IInv, NEW w \in Workers, Leave(w)
  PROVE  IInv'
<1> USE DEF Leave, IInv, TypeOK
<1>1. TypeOK' /\ InStep'
  BY DEF InStep
<1>2. RemainingExact' /\ OnlyInside' /\ FailureOfThisRun'
  BY DEF RemainingExact, OnlyInside, Todo, FailureOfThisRun
<1> QED BY <1>1, <1>2

LEMMA StepIInv == IInv /\ [Next]_vars => IInv'
<1> SUFFICES ASSUME IInv, [Next]_vars PROVE IInv'
  OBVIOUS
<1>1. CASE Begin
  BY <1>1, BeginIInv
<1>2. CASE Return
  BY <1>2, ReturnIInv
<1>3. ASSUME NEW w \in Workers, Destroy(w) PROVE IInv'
  BY <1>3, DestroyIInv
<1>4. ASSUME NEW w \in Workers, Take(w) PROVE IInv'
  BY <1>4, TakeIInv
<1>5. ASSUME NEW w \in Workers, Leave(w) PROVE IInv'
  BY <1>5, LeaveIInv
<1>6. ASSUME NEW w \in Workers, NEW fails \in BOOLEAN, Done(w, fails) PROVE IInv'
  BY <1>6, DoneIInv
<1>7. CASE UNCHANGED vars
  BY <1>7 DEF vars, IInv, TypeOK, InStep, OnlyInside, Todo, RemainingExact, FailureOfThisRun
<1> QED BY <1>1, <1>2, <1>3, <1>4, <1>5, <1>6, <1>7 DEF Next

THEOREM Invariance == Spec => []IInv
BY InitIInv, StepIInv, PTL DEF Spec

\* Type correctness, for any finite set of workers.
THEOREM TypeCorrect == Spec => []TypeOK
<1>1. IInv => TypeOK
  BY DEF IInv
<1> QED BY <1>1, Invariance, PTL

\* No worker ever scans while the caller is outside run().
THEOREM FrameIsStable == Spec => []FrameStable
<1>1. IInv => FrameStable
  <2> SUFFICES ASSUME IInv, NEW w \in Workers, at[w] = "scanning" PROVE caller = "inside"
    BY DEF FrameStable
  <2>1. done[w] + 1 = generation /\ done[w] \in Nat
    BY DEF IInv, InStep, TypeOK
  <2>2. w \in Todo
    BY <2>1 DEF Todo
  <2> QED BY <2>2 DEF IInv, OnlyInside
<1> QED BY <1>1, Invariance, PTL

\* Outside run() every task has been done exactly once per frame.
THEOREM FramesOnce == Spec => []EveryFrameOnce
<1>1. IInv => EveryFrameOnce
  BY DEF IInv, OnlyInside, Todo, EveryFrameOnce
<1> QED BY <1>1, Invariance, PTL

\* The exception a run throws is one of its own tasks'.
THEOREM FailuresOwn == Spec => []FailureOfThisRun
<1>1. IInv => FailureOfThisRun
  BY DEF IInv
<1> QED BY <1>1, Invariance, PTL

-----------------------------------------------------------------------------
(* ScanWorkers implements ScanBarrier. *)

LEMMA InitRefines == Init => Barrier!BarrierInit
BY DEF Init, Barrier!BarrierInit

LEMMA StepRefines == IInv /\ [Next]_vars => [Barrier!BarrierNext]_Barrier!barrierVars
<1> SUFFICES ASSUME IInv, [Next]_vars PROVE [Barrier!BarrierNext]_Barrier!barrierVars
  OBVIOUS
<1> USE DEF Barrier!BarrierNext, Barrier!barrierVars
<1>1. CASE Begin
  <2>1. \A w \in Workers : done[w] = generation /\ done[w] \in Nat
    BY <1>1 DEF Begin, IInv, OnlyInside, Todo, TypeOK
  <2>2. {w \in Workers : done[w] # generation}' = Workers
    BY <1>1, <2>1 DEF Begin
  <2> QED BY <1>1, <2>2 DEF Begin, Barrier!Begin
<1>2. CASE Return
  <2>1. {w \in Workers : done[w] # generation} = {}
    BY <1>2, TodoEmpty DEF Return, AllDone, IInv, RemainingExact, Todo
  <2>2. thrown' = (failed # {})
    BY <1>2 DEF Return, IInv, FailureOfThisRun
  <2> QED BY <1>2, <2>1, <2>2 DEF Return, Barrier!Finish
<1>3. ASSUME NEW w \in Workers, Destroy(w) PROVE UNCHANGED Barrier!barrierVars
  BY <1>3 DEF Destroy
<1>4. ASSUME NEW w \in Workers, Take(w) PROVE UNCHANGED Barrier!barrierVars
  BY <1>4 DEF Take
<1>5. ASSUME NEW w \in Workers, Leave(w) PROVE UNCHANGED Barrier!barrierVars
  BY <1>5 DEF Leave
<1>6. ASSUME NEW w \in Workers, NEW fails \in BOOLEAN, Done(w, fails) PROVE Barrier!Do(w)
  BY <1>6, DoneTodo DEF Todo, Done, Barrier!Do
<1>7. CASE UNCHANGED vars
  BY <1>7 DEF vars
<1> QED BY <1>1, <1>2, <1>3, <1>4, <1>5, <1>6, <1>7 DEF Next

\* Every behaviour of the workers is a behaviour of the barrier they promise.
THEOREM Refinement == Spec => ImplementsBarrier
<1>1. Spec => []IInv
  BY Invariance
<1> QED BY <1>1, InitRefines, StepRefines, PTL DEF Spec, ImplementsBarrier, Barrier!BarrierSpec

-----------------------------------------------------------------------------
(* The logo: frames and the samples they belong to. *)

\* The frame of the last test at or before a frame.
Base(f) == f - (f % Sample)

LEMMA SampleIs == Sample \in Nat \ {0}
BY LogoParameters DEF Logo!ParametersOK

LEMMA Division ==
  ASSUME NEW f \in Nat
  PROVE  /\ f % Sample \in 0..Sample - 1 /\ f \div Sample \in Nat
         /\ f = (f \div Sample) * Sample + (f % Sample)
BY SampleIs, SMTT(20)

LEMMA BaseIs ==
  ASSUME NEW f \in Nat
  PROVE  Base(f) \in Int /\ Base(f) <= f /\ f < Base(f) + Sample
<1>1. f % Sample \in 0..Sample - 1 /\ Sample \in Nat
  BY Division, SampleIs
<1> QED BY <1>1 DEF Base

LEMMA DivisionIs ==
  ASSUME NEW q \in Nat, NEW r \in 0..Sample - 1
  PROVE  (q * Sample + r) \div Sample = q /\ (q * Sample + r) % Sample = r
BY SampleIs, SMTT(20)

\* Between two tests the sample a frame belongs to does not change.
LEMMA BetweenTests ==
  ASSUME NEW f \in Nat, (f + 1) % Sample # 0
  PROVE  Logo!Sampled(f + 1) = Logo!Sampled(f) /\ Base(f + 1) = Base(f)
<1> DEFINE q == f \div Sample
           r == f % Sample
           product == q * Sample
<1>1. Sample \in Nat \ {0}
  BY SampleIs
<1>2. q \in Nat /\ r \in 0..Sample - 1 /\ f = product + r /\ product \in Nat
  BY Division, <1>1
<1>3. r + 1 # Sample
  <2>1. SUFFICES ASSUME r + 1 = Sample PROVE FALSE
    OBVIOUS
  <2>2. f + 1 = (q + 1) * Sample + 0
    BY <1>1, <1>2, <2>1
  <2>3. q + 1 \in Nat /\ 0 \in 0..Sample - 1
    BY <1>1, <1>2
  <2>4. ((q + 1) * Sample + 0) % Sample = 0
    BY <2>3, DivisionIs
  <2> QED BY <2>2, <2>4
<1>4. f + 1 = product + (r + 1) /\ r + 1 \in 0..Sample - 1
  BY <1>1, <1>2, <1>3
<1>5. (f + 1) \div Sample = q /\ (f + 1) % Sample = r + 1
  BY <1>4, <1>2, DivisionIs
<1>6. f + 1 < Sample <=> f < Sample
  <2>1. CASE q = 0
    <3>1. product = 0
      BY <2>1, <1>1
    <3> QED BY <3>1, <1>2, <1>4, <1>1
  <2>2. CASE q # 0
    <3>1. product >= Sample
      BY <2>2, <1>1, <1>2
    <3> HIDE DEF product, q, r
    <3> QED BY <3>1, <1>2, <1>4, <1>1
  <2> QED BY <2>1, <2>2
<1>7. Base(f + 1) = Base(f)
  BY <1>5, <1>2 DEF Base
<1> QED BY <1>5, <1>6, <1>7 DEF Logo!Sampled

\* A frame that is tested belongs to its own sample, with the frames behind it.
LEMMA AtTest ==
  ASSUME NEW f \in Nat, (f + 1) % Sample = 0
  PROVE  /\ f + 1 >= Sample /\ Base(f + 1) = f + 1 /\ Base(f) = f + 1 - Sample
         /\ \A x \in f + 1 .. f + Sample : Logo!Sampled(x) = Logo!Picture(f + 1).logo
<1> DEFINE q == (f + 1) \div Sample
           product == q * Sample
<1>1. Sample \in Nat \ {0}
  BY SampleIs
<1>2. q \in Nat /\ f + 1 = product /\ product \in Nat
  BY Division, <1>1
<1>3. f + 1 >= Sample
  BY <1>1, <1>2
<1>4. q >= 1 /\ f = (q - 1) * Sample + (Sample - 1)
  BY <1>1, <1>2
<1>5. f % Sample = Sample - 1
  <2>1. q - 1 \in Nat /\ Sample - 1 \in 0..Sample - 1
    BY <1>1, <1>2, <1>4
  <2> QED BY <2>1, <1>4, DivisionIs
<1>6. ASSUME NEW x \in f + 1 .. f + Sample
      PROVE  Logo!Sampled(x) = Logo!Picture(f + 1).logo
  <2>1. x = product + (x - (f + 1)) /\ x - (f + 1) \in 0..Sample - 1 /\ x \in Nat
    BY <1>1, <1>2
  <2>2. x \div Sample = q
    BY <2>1, <1>2, DivisionIs
  <2>3. x >= Sample
    BY <1>1, <1>3
  <2>4. (x \div Sample) * Sample = f + 1
    BY <2>2, <1>2
  <2> QED BY <2>1, <2>3, <2>4, <1>1 DEF Logo!Sampled
<1>7. Base(f + 1) = f + 1 /\ Base(f) = f + 1 - Sample
  BY <1>1, <1>5 DEF Base
<1> QED BY <1>3, <1>6, <1>7

-----------------------------------------------------------------------------

\* A sequence, of whatever elements.
IsSeq(q) == \E S : q \in Seq(S)

Fields == {"enabled", "mask", "second", "buffer", "hits", "limit", "present", "trend", "start",
           "blocks", "flags", "count"}

\* What a frame works on has the fields of the state, and these are of their types.
Complete(s) == s = [f \in Fields |-> s[f]]
Shape(s) ==
  /\ Complete(s)
  /\ s.enabled \in BOOLEAN /\ s.present \in BOOLEAN /\ s.trend \in Nat /\ s.second \in BOOLEAN
  /\ IsSeq(s.buffer) /\ s.flags \in Seq(BOOLEAN)

Times(n) == n * Sample

\* Flags of frames up to n are there and grounded.
Grounded(s, n) ==
  /\ Len(s.flags) >= n
  /\ \A x \in 1..n : s.flags[x] => Logo!Sampled(x) # 0

\* A picture that is kept and shows a logo is the one its frame was tested with.
KeptIs(kept) ==
  /\ kept.frame \in Nat
  /\ kept.logo # 0 => /\ kept.frame >= Sample /\ kept.frame % Sample = 0
                      /\ Logo!Picture(kept.frame).logo = kept.logo
KeptAre(s) == \A i \in DOMAIN s.buffer : KeptIs(s.buffer[i])

\* The last test at or before frame f and as many before it as the trend counts saw the logo.
Watched(s, f) ==
  /\ s.present => s.mask # 0 /\ s.enabled /\ Logo!Sampled(f) = s.mask
  /\ s.enabled /\ s.mask # 0 /\ ~s.present =>
       /\ Times(s.trend) <= Base(f)
       /\ \A x \in Base(f) + Sample - Times(s.trend) .. f : Logo!Sampled(x) = s.mask

\* The logo blocks at frame f.
BlocksBehind(s, f) ==
  /\ s.blocks \in Seq([from : Nat, to : Nat])
  /\ \A i \in DOMAIN s.blocks : s.blocks[i].from < s.blocks[i].to /\ s.blocks[i].from > 0
  /\ \A i, j \in DOMAIN s.blocks : i < j => s.blocks[i].to < s.blocks[j].from
  /\ \A i \in DOMAIN s.blocks : s.blocks[i].to + Sample <= f
  /\ \A i \in DOMAIN s.blocks : \A x \in s.blocks[i].from .. s.blocks[i].to - 1 : s.flags[x]

\* The stretch that is open, flagged up to frame n, and the blocks before it; or how far behind
\* the trend the blocks are.
StretchAhead(s, f, n) ==
  /\ s.present =>
       /\ s.start \in Nat /\ s.start > 0 /\ s.start <= f
       /\ \A i \in DOMAIN s.blocks : s.blocks[i].to < s.start
       /\ \A x \in s.start..f : Logo!Sampled(x) = s.mask
       /\ \A x \in s.start..n : s.flags[x]
  /\ s.enabled /\ s.mask # 0 /\ ~s.present =>
       \A i \in DOMAIN s.blocks : s.blocks[i].to + Sample + Times(s.trend) <= Base(f)

\* In two passes a logo is searched for only without a mask, in pictures behind the blocks.
SearchedBehind(s) ==
  /\ s.mask # 0 => s.buffer = <<>>
  /\ \A i \in DOMAIN s.blocks : \A j \in DOMAIN s.buffer : s.blocks[i].to < s.buffer[j].frame

LEMMA EmptyIsSeq == IsSeq(<<>>) /\ DOMAIN <<>> = {}
<1>1. <<>> \in Seq({}) /\ DOMAIN <<>> = {}
  OBVIOUS
<1> QED BY <1>1 DEF IsSeq

LEMMA TimesIs ==
  /\ Times(0) = 0
  /\ \A n \in Nat : Times(n) \in Nat /\ Times(n + 1) = Times(n) + Sample
BY SampleIs, SMTT(20) DEF Times

LEMMA HistoryIs == MinHits \in Nat \ {0} /\ Logo!History = Times(MinHits - 1)
BY LogoParameters DEF Logo!ParametersOK, Logo!History, Times

\* Flags that differ from others in a range of frames, where they are v.
FlagsSet(new, old, a, b, v) ==
  /\ Len(new) = Len(old)
  /\ \A x \in 1..Len(old) : x \in a..b => new[x] = v
  /\ \A x \in 1..Len(old) : x \notin a..b => new[x] = old[x]

\* Setting the flags of a range of frames.
LEMMA FlaggedIs ==
  ASSUME NEW s, Shape(s), NEW a \in Int, NEW b \in Int, NEW v \in BOOLEAN
  PROVE  LET r == Logo!Flagged(s, a, b, v)
         IN  /\ Shape(r)
             /\ FlagsSet(r.flags, s.flags, a, b, v)
             /\ r.enabled = s.enabled /\ r.mask = s.mask /\ r.buffer = s.buffer
             /\ r.present = s.present /\ r.trend = s.trend /\ r.start = s.start
             /\ r.blocks = s.blocks /\ r.second = s.second
<1> DEFINE r == Logo!Flagged(s, a, b, v)
           g == [f \in DOMAIN s.flags |-> IF f \in a..b THEN v ELSE s.flags[f]]
<1>1. s = [f \in Fields |-> s[f]]
  BY DEF Shape, Complete
<1>2. r = [s EXCEPT !.flags = g]
  BY DEF Logo!Flagged
<1>3. r = [f \in Fields |-> IF f = "flags" THEN g ELSE s[f]]
  BY <1>1, <1>2 DEF Fields
<1> HIDE DEF r
<1>4. /\ r.flags = g /\ r.enabled = s.enabled /\ r.mask = s.mask /\ r.buffer = s.buffer
      /\ r.present = s.present /\ r.trend = s.trend /\ r.start = s.start
      /\ r.blocks = s.blocks /\ r.second = s.second
  BY <1>3 DEF Fields
<1>5. s.flags \in Seq(BOOLEAN)
  BY DEF Shape
<1>6. DOMAIN s.flags = 1..Len(s.flags) /\ Len(s.flags) \in Nat
  BY <1>5
<1>7. \A x \in 1..Len(s.flags) : s.flags[x] \in BOOLEAN
  BY <1>5
<1>8. g \in [1..Len(s.flags) -> BOOLEAN]
  BY <1>6, <1>7
<1>9. g \in Seq(BOOLEAN) /\ Len(g) = Len(s.flags)
  BY <1>8, <1>6
<1>10. Complete(r)
  BY <1>3 DEF Complete
<1>11. Shape(r)
  BY <1>10, <1>4, <1>9 DEF Shape
<1>12. FlagsSet(r.flags, s.flags, a, b, v)
  BY <1>4, <1>6, <1>9 DEF FlagsSet
<1> QED BY <1>4, <1>9, <1>11, <1>12 DEF r

LEMMA OpenedIs ==
  ASSUME NEW s, Shape(s), NEW f \in Nat, Logo!History < f
  PROVE  LET r == Logo!Opened(s, f)
             from == f - Logo!History
         IN  /\ Shape(r) /\ from \in Nat
             /\ FlagsSet(r.flags, s.flags, from, f - 1, TRUE)
             /\ r.present = TRUE /\ r.trend = 0 /\ r.start = from
             /\ r.enabled = s.enabled /\ r.mask = s.mask /\ r.buffer = s.buffer
             /\ r.blocks = s.blocks /\ r.second = s.second
<1> DEFINE r == Logo!Opened(s, f)
           from == f - Logo!History
           t == Logo!Flagged(s, from, f - 1, TRUE)
<1>1. Logo!History \in Nat
  BY HistoryIs, TimesIs
<1>2. from \in Nat /\ Logo!OpenedAt(f) = from /\ f - 1 \in Int
  BY <1>1 DEF Logo!OpenedAt
<1>3. r = [t EXCEPT !.present = TRUE, !.trend = 0, !.start = from, !.count = @ + Logo!History]
  BY <1>2 DEF Logo!Opened
<1> HIDE DEF r, from, t
<1>4. /\ Shape(t)
      /\ FlagsSet(t.flags, s.flags, from, f - 1, TRUE)
      /\ t.enabled = s.enabled /\ t.mask = s.mask /\ t.buffer = s.buffer
      /\ t.blocks = s.blocks /\ t.second = s.second
  <2>0. TRUE \in BOOLEAN /\ from \in Int
    BY <1>2
  <2> DEFINE always == TRUE
  <2>1. always \in BOOLEAN /\ t = Logo!Flagged(s, from, f - 1, always)
    BY DEF t
  <2> HIDE DEF always
  <2>2. Shape(t)
    BY <1>2, <2>0, <2>1, FlaggedIs
  <2>3. FlagsSet(t.flags, s.flags, from, f - 1, always)
    BY <1>2, <2>0, <2>1, FlaggedIs
  <2>4. /\ t.enabled = s.enabled /\ t.mask = s.mask /\ t.buffer = s.buffer
        /\ t.blocks = s.blocks /\ t.second = s.second
    BY <1>2, <2>0, <2>1, FlaggedIs
  <2> QED BY <2>2, <2>3, <2>4 DEF always
<1>5. t = [x \in Fields |-> t[x]]
  BY <1>4 DEF Shape, Complete
<1>6. r = [x \in Fields |-> IF x = "present" THEN TRUE ELSE IF x = "trend" THEN 0
                            ELSE IF x = "start" THEN from
                            ELSE IF x = "count" THEN t.count + Logo!History ELSE t[x]]
  BY <1>3, <1>5 DEF Fields
<1>7. /\ r.present /\ r.trend = 0 /\ r.start = from /\ r.flags = t.flags
      /\ r.enabled = t.enabled /\ r.mask = t.mask /\ r.buffer = t.buffer
      /\ r.blocks = t.blocks /\ r.second = t.second /\ r.present = TRUE
  BY <1>6 DEF Fields
<1>8. Complete(r)
  BY <1>6 DEF Complete
<1>9. Shape(r)
  BY <1>4, <1>7, <1>8 DEF Shape
<1> QED BY <1>2, <1>4, <1>7, <1>9 DEF r, from

\* A stretch ends: it is kept as a block and what was cut off is unflagged, or it is forgotten.
LEMMA ClosedIs ==
  ASSUME NEW s, Shape(s), NEW f \in Nat
  PROVE  LET r == Logo!Closed(s, f)
             to == f - Sample - ShrinkHead - ShrinkTail
         IN  /\ Shape(r)
             /\ r.present = FALSE /\ r.trend = 0 /\ to \in Int
             /\ r.enabled = s.enabled /\ r.mask = s.mask /\ r.buffer = s.buffer
             /\ r.second = s.second
             /\ \/ r.blocks = s.blocks /\ r.flags = s.flags
                \/ /\ f - Sample - s.start > 2 * ShrinkHead + ShrinkTail
                   /\ r.blocks = Append(s.blocks, [from |-> s.start + ShrinkHead, to |-> to])
                   /\ FlagsSet(r.flags, s.flags, to, f - 1, FALSE)
<1> DEFINE r == Logo!Closed(s, f)
           to == f - Sample - ShrinkHead - ShrinkTail
           gone == [s EXCEPT !.present = FALSE, !.trend = 0]
           t == Logo!Flagged(gone, to, f - 1, FALSE)
           blocks1 == Append(s.blocks, [from |-> s.start + ShrinkHead, to |-> to])
<1>1. ShrinkHead \in Nat /\ ShrinkTail \in Nat /\ Sample \in Nat
  BY LogoParameters DEF Logo!ParametersOK
<1>2. to \in Int /\ f - 1 \in Int
  BY <1>1
<1>3. s = [x \in Fields |-> s[x]]
  BY DEF Shape, Complete
<1>4. gone = [x \in Fields |-> IF x = "present" THEN FALSE ELSE IF x = "trend" THEN 0 ELSE s[x]]
  BY <1>3 DEF Fields
<1>5. /\ ~gone.present /\ gone.trend = 0 /\ gone.flags = s.flags /\ gone.present = FALSE
      /\ gone.enabled = s.enabled /\ gone.mask = s.mask /\ gone.buffer = s.buffer
      /\ gone.blocks = s.blocks /\ gone.second = s.second /\ gone.start = s.start
  <2> HIDE DEF gone
  <2> QED BY <1>4 DEF Fields
<1>6. Complete(gone)
  BY <1>4 DEF Complete
<1>7. Shape(gone)
  <2> HIDE DEF gone
  <2>1. gone.enabled \in BOOLEAN /\ gone.present \in BOOLEAN /\ gone.second \in BOOLEAN
    BY <1>5 DEF Shape
  <2>2. gone.trend \in Nat /\ IsSeq(gone.buffer) /\ gone.flags \in Seq(BOOLEAN)
    BY <1>5 DEF Shape
  <2> QED BY <1>6, <2>1, <2>2 DEF Shape
<1>8. CASE ~Logo!Kept(s.start, Logo!ClosedAt(f))
  <2>1. r = gone
    BY <1>8 DEF Logo!Closed
  <2> HIDE DEF r, gone
  <2>2. r.blocks = s.blocks /\ r.flags = s.flags
    BY <2>1, <1>5
  <2>3. Shape(r) /\ r.present = FALSE /\ r.trend = 0
    BY <2>1, <1>5, <1>7
  <2>4. r.enabled = s.enabled /\ r.mask = s.mask /\ r.buffer = s.buffer /\ r.second = s.second
    BY <2>1, <1>5
  <2> QED BY <2>2, <2>3, <2>4, <1>2 DEF r, to
<1>9. CASE Logo!Kept(s.start, Logo!ClosedAt(f))
  <2>1. f - Sample - s.start > 2 * ShrinkHead + ShrinkTail
    BY <1>9 DEF Logo!Kept, Logo!ClosedAt
  <2>2. r = [t EXCEPT !.blocks = Append(@, [from |-> s.start + ShrinkHead, to |-> to]),
                      !.count = @ - (2 * Sample + 2 * ShrinkHead + ShrinkTail)]
    BY <1>9 DEF Logo!Closed, Logo!ClosedAt
  <2> HIDE DEF gone
  <2>3. /\ Shape(t)
        /\ FlagsSet(t.flags, s.flags, to, f - 1, FALSE)
        /\ t.enabled = s.enabled /\ t.mask = s.mask /\ t.buffer = s.buffer /\ t.present = FALSE
        /\ t.blocks = s.blocks /\ t.second = s.second /\ t.trend = 0
    <3>1. FALSE \in BOOLEAN
      OBVIOUS
    <3>2. Shape(t)
      BY <1>2, <1>7, <3>1, FlaggedIs
    <3>3. FlagsSet(t.flags, gone.flags, to, f - 1, FALSE)
      BY <1>2, <1>7, <3>1, FlaggedIs
    <3>4. /\ t.enabled = gone.enabled /\ t.mask = gone.mask /\ t.buffer = gone.buffer
          /\ t.present = gone.present /\ t.blocks = gone.blocks /\ t.second = gone.second
          /\ t.trend = gone.trend
      BY <1>2, <1>7, <3>1, FlaggedIs
    <3> HIDE DEF t
    <3> QED BY <3>2, <3>3, <3>4, <1>5
  <2> HIDE DEF t, r, to
  <2>4. t = [x \in Fields |-> t[x]]
    BY <2>3 DEF Shape, Complete
  <2>5. r = [x \in Fields |-> IF x = "blocks" THEN blocks1
                              ELSE IF x = "count"
                              THEN t.count - (2 * Sample + 2 * ShrinkHead + ShrinkTail)
                              ELSE t[x]]
    BY <2>2, <2>3, <2>4 DEF Fields
  <2> HIDE DEF blocks1
  <2>6. /\ r.blocks = blocks1 /\ r.flags = t.flags /\ r.present = t.present /\ r.trend = t.trend
        /\ r.enabled = t.enabled /\ r.mask = t.mask /\ r.buffer = t.buffer /\ r.second = t.second
    BY <2>5 DEF Fields
  <2>7. Complete(r)
    BY <2>5 DEF Complete
  <2>8. Shape(r)
    BY <2>3, <2>6, <2>7 DEF Shape
  <2>9. r.present = FALSE /\ r.trend = 0 /\ r.enabled = s.enabled /\ r.mask = s.mask
        /\ r.buffer = s.buffer /\ r.second = s.second
    BY <2>3, <2>6
  <2>10. r.blocks = blocks1 /\ FlagsSet(r.flags, s.flags, to, f - 1, FALSE)
    BY <2>3, <2>6
  <2>11. to \in Int
    BY <1>2 DEF to
  <2> QED BY <2>1, <2>8, <2>9, <2>10, <2>11 DEF blocks1, r, to
<1> QED BY <1>8, <1>9

-----------------------------------------------------------------------------
(* A test. *)

LEMMA Untrended ==
  ASSUME NEW s, Shape(s)
  PROVE  LET r == [s EXCEPT !.trend = 0]
         IN  /\ Shape(r) /\ r.trend = 0 /\ r.present = s.present /\ r.flags = s.flags
             /\ r.enabled = s.enabled /\ r.mask = s.mask /\ r.buffer = s.buffer
             /\ r.start = s.start /\ r.blocks = s.blocks /\ r.second = s.second
<1> DEFINE r == [s EXCEPT !.trend = 0]
<1>1. s = [x \in Fields |-> s[x]]
  BY DEF Shape, Complete
<1>2. r = [x \in Fields |-> IF x = "trend" THEN 0 ELSE s[x]]
  BY <1>1 DEF Fields
<1> HIDE DEF r
<1>3. /\ r.trend = 0 /\ r.present = s.present /\ r.flags = s.flags
      /\ r.enabled = s.enabled /\ r.mask = s.mask /\ r.buffer = s.buffer
      /\ r.start = s.start /\ r.blocks = s.blocks /\ r.second = s.second
  BY <1>2 DEF Fields
<1>4. Complete(r)
  BY <1>2 DEF Complete
<1>5. r.enabled \in BOOLEAN /\ r.present \in BOOLEAN /\ r.trend \in Nat /\ r.second \in BOOLEAN
  BY <1>3 DEF Shape
<1>6. IsSeq(r.buffer) /\ r.flags \in Seq(BOOLEAN)
  BY <1>3 DEF Shape
<1>7. Shape(r)
  BY <1>4, <1>5, <1>6 DEF Shape
<1> QED BY <1>3, <1>7 DEF r

LEMMA Trended ==
  ASSUME NEW s, Shape(s)
  PROVE  LET r == [s EXCEPT !.trend = @ + 1]
         IN  /\ Shape(r) /\ r.trend = s.trend + 1 /\ r.present = s.present /\ r.flags = s.flags
             /\ r.enabled = s.enabled /\ r.mask = s.mask /\ r.buffer = s.buffer
             /\ r.start = s.start /\ r.blocks = s.blocks /\ r.second = s.second
<1> DEFINE r == [s EXCEPT !.trend = @ + 1]
<1>1. s = [x \in Fields |-> s[x]]
  BY DEF Shape, Complete
<1>2. r = [x \in Fields |-> IF x = "trend" THEN s.trend + 1 ELSE s[x]]
  BY <1>1 DEF Fields
<1> HIDE DEF r
<1>3. /\ r.trend = s.trend + 1 /\ r.present = s.present /\ r.flags = s.flags
      /\ r.enabled = s.enabled /\ r.mask = s.mask /\ r.buffer = s.buffer
      /\ r.start = s.start /\ r.blocks = s.blocks /\ r.second = s.second
  BY <1>2 DEF Fields
<1>4. Complete(r)
  BY <1>2 DEF Complete
<1>5. r.enabled \in BOOLEAN /\ r.present \in BOOLEAN /\ r.second \in BOOLEAN
  BY <1>3 DEF Shape
<1>6. IsSeq(r.buffer) /\ r.flags \in Seq(BOOLEAN)
  BY <1>3 DEF Shape
<1>7. r.trend \in Nat
  BY <1>3 DEF Shape
<1>8. Shape(r)
  BY <1>4, <1>5, <1>6, <1>7 DEF Shape
<1> QED BY <1>3, <1>8 DEF r

\* While the logo is away the test at frame g + 1 knows what the tests before it saw.
TrendKnown(s, g) == ~s.present => Watched(s, g)

LEMMA TestedIs ==
  ASSUME NEW s, NEW f, NEW hit \in BOOLEAN, s.present \in BOOLEAN
  PROVE  /\ hit = s.present => Logo!Tested(s, f, hit) = [s EXCEPT !.trend = 0]
         /\ s.present /\ ~hit => Logo!Tested(s, f, hit) = Logo!Closed(s, f)
         /\ ~s.present /\ hit /\ s.trend + 1 = MinHits =>
              Logo!Tested(s, f, hit) = Logo!Opened(s, f)
         /\ ~s.present /\ hit /\ s.trend + 1 # MinHits =>
              Logo!Tested(s, f, hit) = [s EXCEPT !.trend = @ + 1]
<1>1. CASE s.present = TRUE /\ hit = TRUE
  BY <1>1 DEF Logo!Tested
<1>2. CASE s.present = TRUE /\ hit = FALSE
  BY <1>2 DEF Logo!Tested
<1>3. CASE s.present = FALSE /\ hit = TRUE
  BY <1>3 DEF Logo!Tested
<1>4. CASE s.present = FALSE /\ hit = FALSE
  BY <1>4 DEF Logo!Tested
<1> QED BY <1>1, <1>2, <1>3, <1>4

\* What ends a stretch leaves flags grounded.
LEMMA UnflaggedGrounded ==
  ASSUME NEW s, NEW r, NEW n \in Nat, s.flags \in Seq(BOOLEAN), Grounded(s, n),
         NEW a \in Int, NEW b \in Int, FlagsSet(r.flags, s.flags, a, b, FALSE)
  PROVE  Grounded(r, n)
<1>1. Len(r.flags) = Len(s.flags) /\ Len(s.flags) >= n /\ Len(s.flags) \in Nat
  BY DEF FlagsSet, Grounded
<1>2. ASSUME NEW x \in 1..n, r.flags[x] PROVE Logo!Sampled(x) # 0
  <2>1. x \in 1..Len(s.flags)
    BY <1>1
  <2>2. x \notin a..b
    <3> SUFFICES ASSUME x \in a..b PROVE FALSE
      OBVIOUS
    <3>1. r.flags[x] = FALSE
      BY <2>1 DEF FlagsSet
    <3> QED BY <3>1, <1>2
  <2>3. s.flags[x]
    BY <2>1, <2>2, <1>2 DEF FlagsSet
  <2> QED BY <2>3 DEF Grounded
<1> QED BY <1>1, <1>2 DEF Grounded

LEMMA TestedWatched ==
  ASSUME NEW s, Shape(s), NEW g \in Nat, (g + 1) % Sample = 0, s.enabled, s.mask # 0,
         TrendKnown(s, g), Grounded(s, g + 1)
  PROVE  LET r == Logo!Tested(s, g + 1, Logo!Picture(g + 1).logo = s.mask)
         IN  /\ Shape(r) /\ Watched(r, g + 1) /\ Grounded(r, g + 1)
             /\ r.mask = s.mask /\ r.buffer = s.buffer /\ r.enabled = s.enabled
             /\ r.second = s.second
<1> DEFINE f == g + 1
           hit == Logo!Picture(f).logo = s.mask
           r == Logo!Tested(s, f, hit)
<1>1. /\ f \in Nat /\ f >= Sample /\ Base(f) = f /\ Base(g) = f - Sample
      /\ Logo!Sampled(f) = Logo!Picture(f).logo /\ Sample \in Nat /\ Sample > 0
  <2>1. \A x \in g + 1 .. g + Sample : Logo!Sampled(x) = Logo!Picture(g + 1).logo
    BY AtTest
  <2>2. g + 1 \in g + 1 .. g + Sample
    BY SampleIs
  <2> QED BY <2>1, <2>2, AtTest, SampleIs
<1>2. s.present \in BOOLEAN /\ hit \in BOOLEAN /\ s.trend \in Nat /\ s.flags \in Seq(BOOLEAN)
      /\ Len(s.flags) \in Nat
  BY DEF Shape
<1>3. Times(0) = 0 /\ Times(s.trend) \in Nat /\ Times(s.trend + 1) = Times(s.trend) + Sample
  BY <1>2, TimesIs
<1> HIDE DEF f
<1>4. CASE hit = s.present
  <2>1. r = [s EXCEPT !.trend = 0]
    BY <1>2, <1>4, TestedIs
  <2> HIDE DEF r
  <2>2. /\ Shape(r) /\ r.trend = 0 /\ r.present = s.present /\ r.flags = s.flags
        /\ r.enabled = s.enabled /\ r.mask = s.mask /\ r.buffer = s.buffer /\ r.second = s.second
    BY <2>1, Untrended
  <2>3. r.present => Logo!Sampled(f) = r.mask
    BY <2>2, <1>4, <1>1
  <2>4. Watched(r, f)
    BY <2>2, <2>3, <1>1, <1>3 DEF Watched
  <2>5. Grounded(r, f)
    BY <2>2 DEF Grounded, f
  <2> QED BY <2>2, <2>4, <2>5 DEF f, r
<1>5. CASE s.present /\ ~hit
  <2>1. r = Logo!Closed(s, f)
    BY <1>2, <1>5, TestedIs
  <2> HIDE DEF r
  <2>2. /\ Shape(r) /\ r.trend = 0 /\ r.present = FALSE
        /\ r.enabled = s.enabled /\ r.mask = s.mask /\ r.buffer = s.buffer /\ r.second = s.second
    BY <2>1, <1>1, ClosedIs
  <2>3. r.flags = s.flags \/ \E a \in Int : FlagsSet(r.flags, s.flags, a, f - 1, FALSE)
    BY <2>1, <1>1, ClosedIs
  <2>4. Watched(r, f)
    BY <2>2, <1>1, <1>3 DEF Watched
  <2>5. Grounded(r, f)
    <3>1. f - 1 \in Int
      BY <1>1
    <3>2. CASE r.flags = s.flags
      BY <3>2 DEF Grounded, f
    <3> QED BY <2>3, <1>1, <1>2, <3>1, <3>2, UnflaggedGrounded DEF f
  <2> QED BY <2>2, <2>4, <2>5 DEF f, r
<1>6. CASE ~s.present /\ hit
  <2>1. /\ Times(s.trend) <= Base(g)
        /\ \A x \in Base(g) + Sample - Times(s.trend) .. g : Logo!Sampled(x) = s.mask
    BY <1>6 DEF TrendKnown, Watched
  <2>2. CASE s.trend + 1 = MinHits
    <3>1. r = Logo!Opened(s, f)
      <4> HIDE DEF hit
      <4> QED BY <1>2, <1>6, <2>2, TestedIs
    <3>2. Logo!History = Times(s.trend) /\ Logo!History < f
      BY <2>1, <2>2, <1>1, <1>2, <1>3, HistoryIs
    <3> HIDE DEF r
    <3>3. /\ Shape(r) /\ r.present = TRUE /\ r.trend = 0
          /\ FlagsSet(r.flags, s.flags, f - Logo!History, f - 1, TRUE)
          /\ r.enabled = s.enabled /\ r.mask = s.mask /\ r.buffer = s.buffer
          /\ r.second = s.second
      BY <3>1, <3>2, <1>1, OpenedIs
    <3>4. Watched(r, f)
      BY <3>3, <1>1, <1>6 DEF Watched
    <3>5. \A x \in f - Logo!History .. f - 1 : Logo!Sampled(x) # 0
      BY <3>2, <2>1, <1>1, <1>3 DEF f
    <3>6. Grounded(r, f)
      BY <3>3, <3>5, <1>1, <1>2, <1>3, <3>2 DEF Grounded, f, FlagsSet
    <3> QED BY <3>3, <3>4, <3>6 DEF f, r
  <2>3. CASE s.trend + 1 # MinHits
    <3>1. r = [s EXCEPT !.trend = @ + 1]
      BY <1>2, <1>6, <2>3, TestedIs
    <3> HIDE DEF r
    <3>2. /\ Shape(r) /\ r.trend = s.trend + 1 /\ r.present = s.present /\ r.flags = s.flags
          /\ r.enabled = s.enabled /\ r.mask = s.mask /\ r.buffer = s.buffer
          /\ r.second = s.second
      BY <3>1, Trended
    <3>3. Times(r.trend) <= Base(f)
      BY <3>2, <2>1, <1>1, <1>3
    <3>4. \A x \in Base(f) + Sample - Times(r.trend) .. f : Logo!Sampled(x) = r.mask
      <4> SUFFICES ASSUME NEW x \in Base(f) + Sample - Times(r.trend) .. f
                   PROVE  Logo!Sampled(x) = s.mask
        BY <3>2
      <4>1. CASE x = f
        BY <4>1, <1>1, <1>6
      <4>2. CASE x # f
        <5>1. x \in Base(g) + Sample - Times(s.trend) .. g
          BY <4>2, <3>2, <1>1, <1>3 DEF f
        <5> QED BY <5>1, <2>1
      <4> QED BY <4>1, <4>2
    <3>5. Watched(r, f)
      BY <3>2, <3>3, <3>4, <1>6 DEF Watched
    <3>6. Grounded(r, f)
      BY <3>2 DEF Grounded, f
    <3> QED BY <3>2, <3>5, <3>6 DEF f, r
  <2> QED BY <2>2, <2>3
<1> QED BY <1>2, <1>4, <1>5, <1>6

LEMMA BlocksTyped ==
  ASSUME NEW b, b \in Seq([from : Nat, to : Nat])
  PROVE  /\ DOMAIN b = 1..Len(b) /\ Len(b) \in Nat
         /\ \A i \in DOMAIN b : b[i].from \in Nat /\ b[i].to \in Nat
<1>1. \A i \in DOMAIN b : b[i] \in [from : Nat, to : Nat]
  <2> DEFINE S == [from : Nat, to : Nat]
  <2> HIDE DEF S
  <2> SUFFICES \A i \in DOMAIN b : b[i] \in S
    BY DEF S
  <2>1. b \in Seq(S)
    BY DEF S
  <2> QED BY <2>1
<1>2. \A e \in [from : Nat, to : Nat] : e.from \in Nat /\ e.to \in Nat
  OBVIOUS
<1> QED BY <1>1, <1>2

LEMMA KeptBlock ==
  ASSUME NEW f \in Nat, NEW m \in Nat, NEW h \in Nat, NEW t \in Nat, NEW b \in Nat, b > 0,
         f - m - b > 2 * h + t
  PROVE  LET from == b + h
             to == f - m - h - t
         IN  from \in Nat /\ to \in Nat /\ from < to /\ from > 0 /\ b <= from /\ to + m <= f
OBVIOUS

\* Two frames of a logo block are those of one stretch.
LEMMA ClosedApart ==
  ASSUME NEW s, Shape(s), NEW f \in Nat, NEW e \in Nat, e <= f, BlocksBehind(s, e),
         s.start \in Nat, s.start > 0, \A i \in DOMAIN s.blocks : s.blocks[i].to < s.start,
         Len(s.flags) >= f - 1, \A x \in s.start .. f - 1 : s.flags[x]
  PROVE  BlocksBehind(Logo!Closed(s, f), f)
<1> DEFINE r == Logo!Closed(s, f)
           to == f - Sample - ShrinkHead - ShrinkTail
           from == s.start + ShrinkHead
           new == [from |-> from, to |-> to]
           old == s.blocks
           n == Len(old)
<1>1. ShrinkHead \in Nat /\ ShrinkTail \in Nat /\ Sample \in Nat /\ Sample > 0
  BY LogoParameters DEF Logo!ParametersOK
<1>2. Len(s.flags) \in Nat
  BY DEF Shape
<1>3. /\ old \in Seq([from : Nat, to : Nat])
      /\ \A i \in DOMAIN old : old[i].from < old[i].to /\ old[i].from > 0
      /\ \A i, j \in DOMAIN old : i < j => old[i].to < old[j].from
      /\ \A i \in DOMAIN old : old[i].to + Sample <= e
      /\ \A i \in DOMAIN old : \A x \in old[i].from .. old[i].to - 1 : s.flags[x]
  BY DEF BlocksBehind
<1>4. /\ DOMAIN old = 1..n /\ n \in Nat
      /\ \A i \in 1..n : old[i].from \in Nat /\ old[i].to \in Nat
  <2> HIDE DEF old
  <2> QED BY <1>3, BlocksTyped
<1>5. \/ r.blocks = old /\ r.flags = s.flags
      \/ /\ f - Sample - s.start > 2 * ShrinkHead + ShrinkTail
         /\ r.blocks = Append(old, new) /\ FlagsSet(r.flags, s.flags, to, f - 1, FALSE)
  BY ClosedIs
<1> HIDE DEF r, n, old
<1>6. CASE r.blocks = old /\ r.flags = s.flags
  <2>1. \A i \in DOMAIN old : old[i].to + Sample <= f
    BY <1>1, <1>3, <1>4
  <2> QED BY <1>6, <1>3, <2>1 DEF BlocksBehind, r
<1>7. CASE /\ f - Sample - s.start > 2 * ShrinkHead + ShrinkTail
           /\ r.blocks = Append(old, new) /\ FlagsSet(r.flags, s.flags, to, f - 1, FALSE)
  <2>1. /\ from \in Nat /\ to \in Nat /\ from < to /\ from > 0 /\ s.start <= from
        /\ to + Sample <= f
    <3>1. f - Sample - s.start > 2 * ShrinkHead + ShrinkTail
      BY <1>7
    <3> QED BY <3>1, <1>1, KeptBlock
  <2>2. new \in [from : Nat, to : Nat] /\ new.from = from /\ new.to = to
    BY <2>1
  <2> HIDE DEF new, from, to
  <2>3. /\ r.blocks \in Seq([from : Nat, to : Nat]) /\ DOMAIN r.blocks = 1..n + 1
        /\ r.blocks[n + 1] = new /\ \A i \in 1..n : r.blocks[i] = old[i]
    BY <1>3, <1>4, <1>7, <2>2 DEF n
  <2>4. \A i \in 1..n + 1 : i = n + 1 \/ i \in 1..n
    BY <1>4
  <2>5. \A i \in 1..n + 1 : r.blocks[i].from < r.blocks[i].to /\ r.blocks[i].from > 0
    BY <2>1, <2>2, <2>3, <2>4, <1>3, <1>4
  <2>6. ASSUME NEW i \in 1..n + 1, NEW j \in 1..n + 1, i < j
        PROVE  r.blocks[i].to < r.blocks[j].from
    <3>1. i \in 1..n
      BY <2>6, <1>4
    <3>2. CASE j \in 1..n
      BY <3>1, <3>2, <2>6, <2>3, <1>3, <1>4
    <3>3. CASE j = n + 1
      <4>1. r.blocks[i].to < s.start
        BY <3>1, <2>3, <1>4 DEF old
      <4>2. r.blocks[i].to \in Nat /\ r.blocks[j].from = from
        BY <3>1, <3>3, <2>2, <2>3, <1>4
      <4> QED BY <4>1, <4>2, <2>1
    <3> QED BY <3>2, <3>3, <2>4
  <2>7. \A i \in 1..n + 1 : r.blocks[i].to + Sample <= f
    <3>1. \A i \in 1..n : old[i].to + Sample <= f
      BY <1>1, <1>3, <1>4, SMTT(20)
    <3>2. r.blocks[n + 1].to + Sample <= f
      BY <2>1, <2>2, <2>3
    <3> QED BY <3>1, <3>2, <2>3, <2>4
  <2>8. ASSUME NEW i \in 1..n + 1, NEW x \in r.blocks[i].from .. r.blocks[i].to - 1
        PROVE  r.flags[x]
    <3>1. x \in Nat /\ x > 0 /\ x < r.blocks[i].to
      <4>1. r.blocks[i].from \in Nat /\ r.blocks[i].to \in Nat /\ r.blocks[i].from > 0
        <5>1. CASE i = n + 1
          BY <5>1, <2>1, <2>2, <2>3
        <5>2. CASE i \in 1..n
          BY <5>2, <2>3, <1>3, <1>4
        <5> QED BY <5>1, <5>2, <2>4
      <4> QED BY <4>1
    <3>2. x < to
      <4>1. CASE i = n + 1
        BY <4>1, <3>1, <2>2, <2>3
      <4>2. CASE i \in 1..n
        <5>1. r.blocks[i].to < s.start
          BY <4>2, <2>3, <1>4 DEF old
        <5>2. r.blocks[i].to \in Nat
          BY <4>2, <2>3, <1>4
        <5> QED BY <5>1, <5>2, <3>1, <2>1
      <4> QED BY <4>1, <4>2, <2>4
    <3>3. x \in 1..Len(s.flags) /\ x \notin to..f - 1
      BY <3>1, <3>2, <2>1, <1>1, <1>2
    <3>4. r.flags[x] = s.flags[x]
      BY <3>3, <1>7 DEF FlagsSet
    <3>5. s.flags[x]
      <4>1. CASE i \in 1..n
        BY <4>1, <2>3, <1>3, <1>4
      <4>2. CASE i = n + 1
        <5>1. x \in s.start .. f - 1
          BY <4>2, <3>1, <3>2, <2>1, <2>2, <2>3, <1>1
        <5> QED BY <5>1
      <4> QED BY <4>1, <4>2, <2>4
    <3> QED BY <3>4, <3>5
  <2> QED BY <2>3, <2>5, <2>6, <2>7, <2>8 DEF BlocksBehind, r
<1> QED BY <1>5, <1>6, <1>7

LEMMA TestedApart ==
  ASSUME NEW s, Shape(s), NEW g \in Nat, (g + 1) % Sample = 0, s.enabled, s.mask # 0,
         Watched(s, g), BlocksBehind(s, g), StretchAhead(s, g, g), Len(s.flags) >= g + 1
  PROVE  LET r == Logo!Tested(s, g + 1, Logo!Picture(g + 1).logo = s.mask)
         IN  BlocksBehind(r, g + 1) /\ StretchAhead(r, g + 1, g)
<1> DEFINE f == g + 1
           hit == Logo!Picture(f).logo = s.mask
           r == Logo!Tested(s, f, hit)
           old == s.blocks
<1>1. /\ f \in Nat /\ f >= Sample /\ Base(f) = f /\ Base(g) = f - Sample
      /\ \A x \in f .. g + Sample : Logo!Sampled(x) = Logo!Picture(f).logo
      /\ Sample \in Nat /\ Sample > 0
  BY AtTest, SampleIs
<1>2. Logo!Sampled(f) = Logo!Picture(f).logo
  <2>1. f \in f .. g + Sample
    BY <1>1
  <2> QED BY <2>1, <1>1
<1>3. s.present \in BOOLEAN /\ hit \in BOOLEAN /\ s.trend \in Nat /\ s.flags \in Seq(BOOLEAN)
      /\ Len(s.flags) \in Nat
  BY DEF Shape
<1>4. Times(0) = 0 /\ Times(s.trend) \in Nat /\ Times(s.trend + 1) = Times(s.trend) + Sample
  BY <1>3, TimesIs
<1>5. /\ \A i \in DOMAIN old : old[i].to \in Nat /\ old[i].to + Sample <= g
      /\ \A i \in DOMAIN old : old[i].from \in Nat
  <2>1. old \in Seq([from : Nat, to : Nat]) /\ \A i \in DOMAIN old : old[i].to + Sample <= g
    BY DEF BlocksBehind
  <2> HIDE DEF old
  <2> QED BY <2>1, BlocksTyped
<1>6. ASSUME NEW t, t.blocks = s.blocks, t.flags = s.flags PROVE BlocksBehind(t, f)
  <2>1. \A i \in DOMAIN old : old[i].to + Sample <= f
    BY <1>5, <1>1
  <2> QED BY <1>6, <2>1 DEF BlocksBehind
<1>7. CASE hit = s.present
  <2>1. r = [s EXCEPT !.trend = 0]
    BY <1>3, <1>7, TestedIs
  <2> HIDE DEF r
  <2>2. /\ r.trend = 0 /\ r.present = s.present /\ r.flags = s.flags /\ r.start = s.start
        /\ r.enabled = s.enabled /\ r.mask = s.mask /\ r.blocks = s.blocks
    BY <2>1, Untrended
  <2>3. BlocksBehind(r, f)
    BY <2>2, <1>6
  <2>4. CASE s.present
    <3>1. /\ s.start \in Nat /\ s.start > 0 /\ s.start <= g
          /\ \A i \in DOMAIN s.blocks : s.blocks[i].to < s.start
          /\ \A x \in s.start..g : Logo!Sampled(x) = s.mask
          /\ \A x \in s.start..g : s.flags[x]
      BY <2>4 DEF StretchAhead
    <3>2. \A x \in s.start..f : x = f \/ x \in s.start..g
      BY <3>1
    <3>3. Logo!Sampled(f) = s.mask
      BY <2>4, <1>2, <1>7
    <3>4. s.start <= f /\ \A x \in s.start..f : Logo!Sampled(x) = s.mask
      BY <3>1, <3>2, <3>3
    <3>5. r.present = TRUE
      BY <2>2, <2>4, <1>3
    <3>6. StretchAhead(r, f, g)
      BY <3>1, <3>4, <3>5, <2>2 DEF StretchAhead
    <3> QED BY <2>3, <3>6 DEF f, r
  <2>5. CASE ~s.present
    <3>1. \A i \in DOMAIN s.blocks : s.blocks[i].to + Sample + 0 <= f
      BY <1>1, <1>5
    <3>2. r.present = FALSE
      BY <2>2, <2>5, <1>3
    <3>3. StretchAhead(r, f, g)
      BY <3>1, <3>2, <2>2, <1>1, <1>4 DEF StretchAhead
    <3> QED BY <2>3, <3>3 DEF f, r
  <2> QED BY <2>4, <2>5
<1>8. CASE s.present /\ ~hit
  <2>1. r = Logo!Closed(s, f)
    BY <1>3, <1>8, TestedIs
  <2>2. /\ s.start \in Nat /\ s.start > 0
        /\ \A i \in DOMAIN s.blocks : s.blocks[i].to < s.start
        /\ \A x \in s.start..g : s.flags[x]
    BY <1>8 DEF StretchAhead
  <2>3. g = f - 1 /\ g <= f /\ Len(s.flags) >= f - 1
    BY <1>1, <1>3
  <2> HIDE DEF f, r
  <2>4. BlocksBehind(r, f)
    BY <2>1, <2>2, <2>3, <1>1, ClosedApart
  <2>5. r.present = FALSE /\ r.trend = 0
    BY <2>1, <1>1, ClosedIs
  <2>6. \A i \in DOMAIN r.blocks : r.blocks[i].to + Sample + 0 <= f
    <3>1. /\ r.blocks \in Seq([from : Nat, to : Nat])
          /\ \A i \in DOMAIN r.blocks : r.blocks[i].to + Sample <= f
      BY <2>4 DEF BlocksBehind
    <3> QED BY <3>1, <1>1, BlocksTyped
  <2>7. StretchAhead(r, f, g)
    BY <2>5, <2>6, <1>1, <1>4 DEF StretchAhead
  <2> QED BY <2>4, <2>7 DEF f, r
<1>9. CASE ~s.present /\ hit
  <2>1. /\ Times(s.trend) <= Base(g)
        /\ \A x \in Base(g) + Sample - Times(s.trend) .. g : Logo!Sampled(x) = s.mask
    BY <1>9 DEF Watched
  <2>2. \A i \in DOMAIN old : old[i].to + Sample + Times(s.trend) <= Base(g)
    BY <1>9 DEF StretchAhead
  <2>3. CASE s.trend + 1 = MinHits
    <3>1. r = Logo!Opened(s, f)
      <4> HIDE DEF hit
      <4> QED BY <1>3, <1>9, <2>3, TestedIs
    <3>2. Logo!History = Times(s.trend) /\ Logo!History < f
      BY <2>1, <2>3, <1>1, <1>3, <1>4, HistoryIs
    <3> DEFINE from == f - Logo!History
    <3> HIDE DEF r, f, old
    <3>3. /\ Shape(r) /\ r.present = TRUE /\ r.trend = 0 /\ r.start = from /\ from \in Nat
          /\ FlagsSet(r.flags, s.flags, from, f - 1, TRUE)
          /\ r.blocks = s.blocks /\ r.mask = s.mask
      BY <3>1, <3>2, <1>1, OpenedIs
    <3>4. from > 0 /\ from <= f
      BY <3>2, <1>1, <1>4
    <3>5. \A i \in DOMAIN old : old[i].to < from
      BY <2>2, <3>2, <1>1, <1>4, <1>5
    <3>6. \A x \in from..f : Logo!Sampled(x) = s.mask
      <4> SUFFICES ASSUME NEW x \in from..f PROVE Logo!Sampled(x) = s.mask
        OBVIOUS
      <4>1. CASE x = f
        BY <4>1, <1>2, <1>9
      <4>2. CASE x # f
        <5>1. x \in Base(g) + Sample - Times(s.trend) .. g
          BY <4>2, <3>2, <1>1, <1>4 DEF f
        <5> QED BY <5>1, <2>1
      <4> QED BY <4>1, <4>2
    <3>7. \A x \in from..g : r.flags[x]
      <4> SUFFICES ASSUME NEW x \in from..g PROVE r.flags[x]
        OBVIOUS
      <4>1. x \in 1..Len(s.flags) /\ x \in from..f - 1
        BY <3>4, <3>3, <1>1, <1>3 DEF f
      <4> QED BY <4>1, <3>3 DEF FlagsSet
    <3>8. ASSUME NEW i \in DOMAIN old, NEW x \in old[i].from .. old[i].to - 1
          PROVE  r.flags[x]
      <4>1. old[i].from > 0 /\ s.flags[x]
        BY DEF BlocksBehind, old
      <4>2. x \in 1..Len(s.flags) /\ x \notin from..f - 1
        BY <4>1, <3>3, <3>5, <1>1, <1>3, <1>5 DEF f
      <4> QED BY <4>1, <4>2, <3>3 DEF FlagsSet
    <3>9. \A i \in DOMAIN old : old[i].to + Sample <= f
      BY <1>5, <1>1 DEF f
    <3>10. BlocksBehind(r, f)
      BY <3>3, <3>8, <3>9 DEF BlocksBehind, old
    <3>11. StretchAhead(r, f, g)
      BY <3>3, <3>4, <3>5, <3>6, <3>7 DEF StretchAhead, old
    <3> QED BY <3>10, <3>11 DEF f, r
  <2>4. CASE s.trend + 1 # MinHits
    <3>1. r = [s EXCEPT !.trend = @ + 1]
      <4> HIDE DEF hit
      <4> QED BY <1>3, <1>9, <2>4, TestedIs
    <3> HIDE DEF r
    <3>2. /\ r.trend = s.trend + 1 /\ r.present = s.present /\ r.flags = s.flags
          /\ r.blocks = s.blocks
      BY <3>1, Trended
    <3>3. BlocksBehind(r, f)
      BY <3>2, <1>6
    <3>4. \A i \in DOMAIN old : old[i].to + Sample + (Times(s.trend) + Sample) <= f
      <4> HIDE DEF f, old
      <4> QED BY <2>2, <1>1, <1>4, <1>5
    <3>5. StretchAhead(r, f, g)
      BY <3>2, <3>4, <1>1, <1>4, <1>9 DEF StretchAhead
    <3> QED BY <3>3, <3>5 DEF f, r
  <2> QED BY <2>3, <2>4
<1> QED BY <1>3, <1>7, <1>8, <1>9

-----------------------------------------------------------------------------
(* The search. *)

\* The buffer after a picture at frame f: it comes last, and no other is new.
Fresh(f) == [frame |-> f, logo |-> Logo!Picture(f).logo]
NewerBy(new, old, f) ==
  /\ IsSeq(new) /\ Len(new) > 0 /\ new[Len(new)] = Fresh(f)
  /\ \A i \in DOMAIN new : new[i] = Fresh(f) \/ \E j \in DOMAIN old : new[i] = old[j]

LEMMA FilledIs ==
  ASSUME NEW buf, IsSeq(buf), NEW f
  PROVE  NewerBy(Logo!Filled(buf, f), buf, f)
<1> DEFINE e == Fresh(f)
<1>1. Buffers \in Nat /\ Buffers > 0
  BY LogoParameters DEF Logo!ParametersOK
<1>0. PICK T : buf \in Seq(T)
  BY DEF IsSeq
<1> DEFINE S == T \union {e}
<1>2. buf \in Seq(S) /\ e \in S
  <2>1. \A i \in 1..Len(buf) : buf[i] \in S
    BY <1>0
  <2> HIDE DEF S
  <2> QED BY <1>0, <2>1 DEF S
<1>3. Logo!Filled(buf, f) = Append(IF Logo!Full(buf) THEN SubSeq(buf, 2, Buffers) ELSE buf, e)
  BY DEF Logo!Filled, Fresh
<1> HIDE DEF S, e
<1>4. ASSUME NEW rest \in Seq(S),
             \A i \in DOMAIN rest : \E j \in DOMAIN buf : rest[i] = buf[j]
      PROVE  NewerBy(Append(rest, e), buf, f)
  <2> DEFINE new == Append(rest, e)
  <2>1. /\ new \in Seq(S) /\ Len(new) = Len(rest) + 1 /\ new[Len(rest) + 1] = e
        /\ Len(rest) \in Nat /\ DOMAIN rest = 1..Len(rest) /\ DOMAIN new = 1..Len(rest) + 1
        /\ \A i \in 1..Len(rest) : new[i] = rest[i]
    BY <1>2
  <2>2. \A i \in 1..Len(rest) + 1 : i = Len(rest) + 1 \/ i \in 1..Len(rest)
    BY <2>1
  <2> HIDE DEF new
  <2>3. \A i \in DOMAIN new : new[i] = e \/ \E j \in DOMAIN buf : new[i] = buf[j]
    BY <2>1, <2>2, <1>4
  <2>4. Len(new) > 0 /\ new[Len(new)] = e
    BY <2>1
  <2>5. IsSeq(new)
    BY <2>1 DEF IsSeq
  <2> QED BY <2>3, <2>4, <2>5 DEF NewerBy, new, e
<1>5. CASE ~Logo!Full(buf)
  BY <1>2, <1>3, <1>4, <1>5
<1>6. CASE Logo!Full(buf)
  <2> DEFINE rest == SubSeq(buf, 2, Buffers)
  <2>1. Len(buf) = Buffers /\ DOMAIN buf = 1..Buffers
    BY <1>2, <1>6 DEF Logo!Full
  <2>2. rest \in Seq(S) /\ Len(rest) = Buffers - 1 /\ DOMAIN rest = 1..Buffers - 1
    BY <2>1, <1>1, <1>2
  <2>3. \A i \in 1..Buffers - 1 : rest[i] = buf[i + 1] /\ i + 1 \in 1..Buffers
    BY <2>1, <1>1, <1>2
  <2> HIDE DEF rest
  <2>4. \A i \in DOMAIN rest : \E j \in DOMAIN buf : rest[i] = buf[j]
    BY <2>1, <2>2, <2>3
  <2>5. Logo!Filled(buf, f) = Append(rest, e)
    BY <1>3, <1>6 DEF rest
  <2> QED BY <1>4, <2>2, <2>4, <2>5
<1> QED BY <1>5, <1>6

\* Only what a state is made of: the fields that most of the search leaves alone.
SameBut(r, s) ==
  /\ r.present = s.present /\ r.trend = s.trend /\ r.start = s.start /\ r.blocks = s.blocks
  /\ r.second = s.second

\* Flags outside of the intervals of the frames kept are as they were.
FlagsOutside(r, s) ==
  /\ Len(r.flags) = Len(s.flags)
  /\ \A x \in 1..Len(s.flags) :
       x \notin Logo!Intervals(Logo!Kepts(r.buffer)) => r.flags[x] = s.flags[x]

BufferTo(s, buf) == [s EXCEPT !.buffer = buf]

LEMMA MoreIs ==
  ASSUME NEW s, Shape(s), NEW buf, IsSeq(buf)
  PROVE  LET r == BufferTo(s, buf)
         IN  /\ Shape(r) /\ SameBut(r, s) /\ r.buffer = buf /\ r.flags = s.flags
             /\ r.mask = s.mask /\ r.enabled = s.enabled
<1> DEFINE r == BufferTo(s, buf)
<1>1. s = [x \in Fields |-> s[x]]
  BY DEF Shape, Complete
<1>2. r = [x \in Fields |-> IF x = "buffer" THEN buf ELSE s[x]]
  BY <1>1 DEF Fields, BufferTo
<1> HIDE DEF r
<1>3. /\ r.buffer = buf /\ r.flags = s.flags /\ r.mask = s.mask /\ r.enabled = s.enabled
      /\ r.present = s.present /\ r.trend = s.trend /\ r.start = s.start /\ r.blocks = s.blocks
      /\ r.second = s.second
  BY <1>2 DEF Fields
<1>4. Complete(r)
  BY <1>2 DEF Complete
<1>5. r.enabled \in BOOLEAN /\ r.present \in BOOLEAN /\ r.second \in BOOLEAN /\ r.trend \in Nat
  BY <1>3 DEF Shape
<1>6. IsSeq(r.buffer) /\ r.flags \in Seq(BOOLEAN)
  BY <1>3 DEF Shape
<1>7. Shape(r)
  BY <1>4, <1>5, <1>6 DEF Shape
<1> QED BY <1>3, <1>7 DEF r, SameBut

LEMMA DoubleCheckedIs ==
  ASSUME NEW s, Shape(s), NEW logo, logo # 0, NEW n \in Nat, Grounded(s, n), KeptAre(s)
  PROVE  LET r == Logo!DoubleChecked(s, logo)
         IN  /\ Shape(r) /\ SameBut(r, s) /\ r.buffer = s.buffer /\ FlagsOutside(r, s)
             /\ r.mask = s.mask /\ r.enabled = s.enabled /\ Grounded(r, n)
<1> DEFINE hit == Logo!Intervals(Logo!Shows(s.buffer, logo))
           all == Logo!Intervals(Logo!Kepts(s.buffer))
           g == [f \in DOMAIN s.flags |-> IF f \in all THEN f \in hit ELSE s.flags[f]]
           r == Logo!DoubleChecked(s, logo)
<1>1. s = [x \in Fields |-> s[x]]
  BY DEF Shape, Complete
<1>2. r = [s EXCEPT !.flags = g]
  BY DEF Logo!DoubleChecked
<1> HIDE DEF r, g
<1>3. r = [x \in Fields |-> IF x = "flags" THEN g ELSE s[x]]
  BY <1>1, <1>2 DEF Fields
<1>4. /\ r.buffer = s.buffer /\ r.flags = g /\ r.mask = s.mask /\ r.enabled = s.enabled
      /\ r.present = s.present /\ r.trend = s.trend /\ r.start = s.start /\ r.blocks = s.blocks
      /\ r.second = s.second
  BY <1>3 DEF Fields
<1>5. Complete(r)
  BY <1>3 DEF Complete
<1>6. s.flags \in Seq(BOOLEAN) /\ DOMAIN s.flags = 1..Len(s.flags) /\ Len(s.flags) \in Nat
  BY DEF Shape
<1> HIDE DEF all, hit
<1>7. /\ DOMAIN g = 1..Len(s.flags)
      /\ \A x \in 1..Len(s.flags) : x \in all => g[x] = (x \in hit)
      /\ \A x \in 1..Len(s.flags) : x \notin all => g[x] = s.flags[x]
  BY <1>6 DEF g
<1>8. g \in [1..Len(s.flags) -> BOOLEAN]
  <2>1. \A x \in 1..Len(s.flags) : s.flags[x] \in BOOLEAN
    BY <1>6
  <2>2. \A x \in 1..Len(s.flags) : (x \in hit) \in BOOLEAN
    OBVIOUS
  <2>3. ASSUME NEW x \in 1..Len(s.flags) PROVE g[x] \in BOOLEAN
    <3>1. CASE x \in all
      BY <3>1, <2>2, <1>7
    <3>2. CASE x \notin all
      BY <3>2, <2>1, <1>7
    <3> QED BY <3>1, <3>2
  <2>4. g = [x \in 1..Len(s.flags) |-> g[x]]
    BY <1>6 DEF g
  <2> HIDE DEF g
  <2> QED BY <2>3, <2>4
<1>9. g \in Seq(BOOLEAN) /\ Len(g) = Len(s.flags)
  BY <1>8, <1>6
<1>10. r.enabled \in BOOLEAN /\ r.present \in BOOLEAN /\ r.second \in BOOLEAN /\ r.trend \in Nat
  BY <1>4 DEF Shape
<1>11. IsSeq(r.buffer) /\ r.flags \in Seq(BOOLEAN)
  BY <1>4, <1>9 DEF Shape
<1>12. Shape(r)
  BY <1>5, <1>10, <1>11 DEF Shape
<1>13. FlagsOutside(r, s)
  BY <1>4, <1>7, <1>9 DEF FlagsOutside, all
<1>14. ASSUME NEW x \in hit PROVE Logo!Sampled(x) # 0
  <2>1. PICK kept \in Logo!Shows(s.buffer, logo) :
          x \in kept.frame .. kept.frame + Sample - 1
    BY <1>14 DEF hit, Logo!Intervals
  <2>2. PICK i \in DOMAIN s.buffer : kept = s.buffer[i]
    BY DEF Logo!Shows, Logo!Kepts
  <2> DEFINE k == kept.frame
  <2>3. /\ k \in Nat /\ k >= Sample /\ k % Sample = 0
        /\ Logo!Picture(k).logo = logo
    BY <2>2 DEF Logo!Shows, KeptAre, KeptIs
  <2>4. k - 1 \in Nat /\ (k - 1) + 1 = k /\ x \in (k - 1) + 1 .. (k - 1) + Sample
    BY <2>1, <2>3, SampleIs
  <2>5. Logo!Sampled(x) = Logo!Picture((k - 1) + 1).logo
    BY <2>3, <2>4, AtTest
  <2> QED BY <2>3, <2>4, <2>5
<1>15. Grounded(r, n)
  <2>1. Len(r.flags) >= n
    BY <1>4, <1>9 DEF Grounded
  <2>2. ASSUME NEW x \in 1..n, r.flags[x] PROVE Logo!Sampled(x) # 0
    <3>1. x \in 1..Len(s.flags) /\ g[x]
      BY <2>1, <2>2, <1>4, <1>6, <1>9
    <3>2. CASE x \in all
      <4>1. x \in hit
        BY <3>1, <3>2, <1>7
      <4> QED BY <4>1, <1>14
    <3>3. CASE x \notin all
      <4>1. s.flags[x]
        BY <3>1, <3>3, <1>7
      <4> QED BY <4>1 DEF Grounded
    <3> QED BY <3>2, <3>3
  <2> QED BY <2>1, <2>2 DEF Grounded
<1> QED BY <1>4, <1>12, <1>13, <1>15 DEF r, SameBut

LEMMA AcceptedIs ==
  ASSUME NEW s, Shape(s), NEW logo
  PROVE  LET r == Logo!Accepted(s, logo)
         IN  /\ Shape(r) /\ r.buffer = s.buffer /\ r.flags = s.flags /\ r.mask = logo
             /\ r.present = TRUE /\ r.enabled = s.enabled /\ r.second = s.second
<1> DEFINE r == Logo!Accepted(s, logo)
           from == Logo!LastWithout(s.buffer, logo) + 1
<1>1. s = [x \in Fields |-> s[x]]
  BY DEF Shape, Complete
<1>2. r = [s EXCEPT !.mask = logo, !.present = TRUE, !.trend = Buffers, !.start = from]
  BY DEF Logo!Accepted
<1> HIDE DEF r, from
<1>3. r = [x \in Fields |-> IF x = "mask" THEN logo ELSE IF x = "present" THEN TRUE
                            ELSE IF x = "trend" THEN Buffers ELSE IF x = "start" THEN from
                            ELSE s[x]]
  BY <1>1, <1>2 DEF Fields
<1>4. /\ r.buffer = s.buffer /\ r.flags = s.flags /\ r.mask = logo /\ r.present = TRUE
      /\ r.enabled = s.enabled /\ r.second = s.second /\ r.trend = Buffers
  BY <1>3 DEF Fields
<1>5. Complete(r)
  BY <1>3 DEF Complete
<1>6. r.enabled \in BOOLEAN /\ r.present \in BOOLEAN /\ r.second \in BOOLEAN
  BY <1>4 DEF Shape
<1>7. r.trend \in Nat
  BY <1>4, LogoParameters DEF Logo!ParametersOK
<1>8. IsSeq(r.buffer) /\ r.flags \in Seq(BOOLEAN)
  BY <1>4 DEF Shape
<1>9. Shape(r)
  BY <1>5, <1>6, <1>7, <1>8 DEF Shape
<1> QED BY <1>4, <1>9 DEF r

JudgedTo(s, h, on, later) == [s EXCEPT !.hits = h, !.enabled = on, !.limit = later]

LEMMA JudgedIs ==
  ASSUME NEW s, Shape(s), NEW h, NEW on \in BOOLEAN, NEW later
  PROVE  LET r == JudgedTo(s, h, on, later)
         IN  /\ Shape(r) /\ SameBut(r, s) /\ r.buffer = s.buffer /\ r.flags = s.flags
             /\ r.mask = s.mask /\ r.enabled = on
<1> DEFINE r == JudgedTo(s, h, on, later)
<1>1. s = [x \in Fields |-> s[x]]
  BY DEF Shape, Complete
<1>2. r = [x \in Fields |-> IF x = "hits" THEN h ELSE IF x = "enabled" THEN on
                            ELSE IF x = "limit" THEN later ELSE s[x]]
  BY <1>1 DEF Fields, JudgedTo
<1> HIDE DEF r
<1>3. /\ r.buffer = s.buffer /\ r.flags = s.flags /\ r.mask = s.mask /\ r.enabled = on
      /\ r.present = s.present /\ r.trend = s.trend /\ r.start = s.start /\ r.blocks = s.blocks
      /\ r.second = s.second
  BY <1>2 DEF Fields
<1>4. Complete(r)
  BY <1>2 DEF Complete
<1>5. r.enabled \in BOOLEAN /\ r.present \in BOOLEAN /\ r.second \in BOOLEAN /\ r.trend \in Nat
  BY <1>3 DEF Shape
<1>6. IsSeq(r.buffer) /\ r.flags \in Seq(BOOLEAN)
  BY <1>3 DEF Shape
<1>7. Shape(r)
  BY <1>4, <1>5, <1>6 DEF Shape
<1> QED BY <1>3, <1>7 DEF r, SameBut

\* What a search at frame f leaves.
Found(r, f) == r.mask # 0 /\ r.present /\ r.enabled /\ Logo!Sampled(f) = r.mask
NotFound(r, s) ==
  /\ SameBut(r, s) /\ r.mask = s.mask /\ FlagsOutside(r, s)
  /\ r.enabled = s.enabled \/ (r.enabled = FALSE /\ r.mask = 0)

LEMMA SearchedIs ==
  ASSUME NEW s, Shape(s), NEW g \in Nat, (g + 1) % Sample = 0, s.enabled,
         Grounded(s, g + 1), KeptAre(s), Logo!Full(s.buffer),
         s.buffer[Len(s.buffer)] = Fresh(g + 1)
  PROVE  LET r == Logo!Searched(s, g + 1)
         IN  /\ Shape(r) /\ Grounded(r, g + 1) /\ r.buffer = s.buffer /\ r.second = s.second
             /\ Found(r, g + 1) \/ NotFound(r, s)
<1> DEFINE f == g + 1
           r == Logo!Searched(s, f)
           found == Logo!Candidates(s.buffer)
           logo == Logo!Candidate(s.buffer)
           tried == Logo!Tried(s)
           accepts == Logo!MostShow(s.buffer)
           checked == Logo!Checked(s)
           h == Logo!Attempts(s)
           on == ~(checked.mask = 0 /\ twoPass /\ f > checked.limit)
<1> DEFINE later == checked.limit + Added
<1>1. r = JudgedTo(checked, h, on, later)
  BY DEF Logo!Searched, JudgedTo
<1> HIDE DEF r, f, h
<1>3. FlagsOutside(s, s) /\ SameBut(s, s) /\ f \in Nat
  BY DEF FlagsOutside, SameBut, f
<1>14. \/ checked = s
       \/ found # {} /\ ~accepts /\ checked = tried
       \/ found # {} /\ accepts /\ checked = Logo!Accepted(tried, logo)
  BY DEF Logo!Checked, Logo!Attempts
<1> HIDE DEF found, checked
<1>4. ASSUME found # {}
      PROVE  logo # 0 /\ Logo!Sampled(f) = logo
  <2>1. logo \in found
    BY <1>4 DEF found, Logo!Candidate
  <2> HIDE DEF logo
  <2>2. Len(s.buffer) = Buffers /\ Buffers \in Buffers - Persist + 1 .. Buffers
    BY LogoParameters DEF Logo!Full, Logo!ParametersOK
  <2>3. logo # 0 /\ s.buffer[Buffers].logo = logo
    BY <2>1, <2>2 DEF found, Logo!Candidates
  <2>4. Logo!Picture(f).logo = logo
    BY <2>2, <2>3 DEF f, Fresh
  <2>5. f \in g + 1 .. g + Sample
    BY SampleIs DEF f
  <2> QED BY <2>3, <2>4, <2>5, AtTest DEF f
<1>15. tried = Logo!DoubleChecked(s, logo)
  BY DEF Logo!Tried
<1> HIDE DEF logo, tried
<1>5. ASSUME found # {}
      PROVE  /\ Shape(tried) /\ SameBut(tried, s) /\ tried.buffer = s.buffer
             /\ FlagsOutside(tried, s) /\ tried.mask = s.mask /\ tried.enabled = s.enabled
             /\ Grounded(tried, f)
  <2>1. Grounded(s, f) /\ KeptAre(s)
    BY DEF f
  <2> QED BY <2>1, <1>3, <1>4, <1>5, <1>15, DoubleCheckedIs
<1> HIDE DEF accepts
<1>6. \/ /\ Shape(checked) /\ Grounded(checked, f) /\ checked.buffer = s.buffer
         /\ checked.second = s.second /\ checked.enabled = s.enabled
         /\ checked.mask # 0 /\ checked.present = TRUE /\ Logo!Sampled(f) = checked.mask
      \/ /\ Shape(checked) /\ Grounded(checked, f) /\ checked.buffer = s.buffer
         /\ SameBut(checked, s) /\ checked.mask = s.mask /\ FlagsOutside(checked, s)
         /\ checked.enabled = s.enabled
  <2>1. CASE checked = s
    BY <2>1, <1>3 DEF f
  <2>2. CASE found # {} /\ ~accepts /\ checked = tried
    BY <2>2, <1>5
  <2>3. CASE found # {} /\ accepts /\ checked = Logo!Accepted(tried, logo)
    <3>1. checked = Logo!Accepted(tried, logo)
      BY <2>3
    <3>2. /\ Shape(checked) /\ checked.buffer = tried.buffer /\ checked.flags = tried.flags
          /\ checked.mask = logo /\ checked.present = TRUE
          /\ checked.enabled = tried.enabled /\ checked.second = tried.second
      <4>1. Shape(tried)
        BY <1>5, <2>3
      <4> QED BY <3>1, <4>1, AcceptedIs
    <3>3. Grounded(checked, f)
      BY <3>2, <1>5, <2>3 DEF Grounded
    <3> QED BY <3>2, <3>3, <1>4, <1>5, <2>3 DEF SameBut
  <2> QED BY <2>1, <2>2, <2>3, <1>14
<1> HIDE DEF later
<1>7. on \in BOOLEAN /\ (on \/ checked.mask = 0)
  OBVIOUS
<1> HIDE DEF on
<1>8. Shape(checked)
  BY <1>6
<1>9. /\ Shape(r) /\ SameBut(r, checked) /\ r.buffer = checked.buffer
      /\ r.flags = checked.flags /\ r.mask = checked.mask /\ r.enabled = on
  BY <1>1, <1>7, <1>8, JudgedIs
<1>10. Grounded(r, f)
  BY <1>6, <1>9 DEF Grounded
<1>11. Found(r, f) \/ NotFound(r, s)
  <2>1. CASE /\ checked.mask # 0 /\ checked.present = TRUE /\ Logo!Sampled(f) = checked.mask
    BY <2>1, <1>7, <1>9 DEF Found, SameBut
  <2>2. CASE /\ SameBut(checked, s) /\ checked.mask = s.mask /\ FlagsOutside(checked, s)
             /\ checked.buffer = s.buffer
    <3>1. SameBut(r, s) /\ r.mask = s.mask
      BY <2>2, <1>9 DEF SameBut
    <3>2. FlagsOutside(r, s)
      BY <2>2, <1>9 DEF FlagsOutside
    <3>3. on = TRUE \/ on = FALSE
      BY <1>7
    <3>4. s.enabled = TRUE
      BY DEF Shape
    <3>5. r.enabled = s.enabled \/ (r.enabled = FALSE /\ r.mask = 0)
      BY <3>3, <3>4, <1>7, <1>9
    <3> QED BY <3>1, <3>2, <3>5 DEF NotFound
  <2> QED BY <1>6, <2>1, <2>2
<1>12. r.buffer = s.buffer /\ r.second = s.second
  BY <1>6, <1>9 DEF SameBut
<1> QED BY <1>9, <1>10, <1>11, <1>12 DEF r, f

LEMMA LookedIs ==
  ASSUME NEW s, Shape(s), NEW g \in Nat, (g + 1) % Sample = 0, s.enabled,
         Grounded(s, g + 1), KeptAre(s)
  PROVE  LET r == Logo!Looked(s, g + 1)
         IN  /\ Shape(r) /\ Grounded(r, g + 1) /\ KeptAre(r) /\ r.second = s.second
             /\ \/ ~Logo!Searching(s) /\ r = s
                \/ /\ Logo!Searching(s) /\ NewerBy(r.buffer, s.buffer, g + 1)
                   /\ Found(r, g + 1) \/ NotFound(r, s)
<1> DEFINE f == g + 1
           r == Logo!Looked(s, f)
           buf == Logo!Filled(s.buffer, f)
           more == BufferTo(s, buf)
<1>1. IsSeq(s.buffer) /\ f \in Nat /\ f >= Sample /\ f % Sample = 0
  <2>1. IsSeq(s.buffer)
    BY DEF Shape
  <2>2. f \in Nat /\ f >= Sample
    BY AtTest
  <2> QED BY <2>1, <2>2
<1>2. \/ ~Logo!Searching(s) /\ r = s
      \/ Logo!Searching(s) /\ Logo!Full(more.buffer) /\ r = Logo!Searched(more, f)
      \/ Logo!Searching(s) /\ r = more
  BY DEF Logo!Looked, BufferTo
<1> HIDE DEF r, more, buf
<1>3. NewerBy(buf, s.buffer, f)
  BY <1>1, FilledIs DEF buf
<1>4. IsSeq(buf) /\ buf[Len(buf)] = Fresh(f)
  BY <1>3 DEF NewerBy
<1>5. /\ Shape(more) /\ SameBut(more, s) /\ more.buffer = buf /\ more.flags = s.flags
      /\ more.mask = s.mask /\ more.enabled = s.enabled
  BY <1>4, MoreIs DEF more
<1>6. KeptAre(more)
  <2> SUFFICES ASSUME NEW i \in DOMAIN buf PROVE KeptIs(buf[i])
    BY <1>5 DEF KeptAre
  <2>1. CASE buf[i] = Fresh(f)
    BY <2>1, <1>1 DEF Fresh, KeptIs
  <2>2. CASE \E j \in DOMAIN s.buffer : buf[i] = s.buffer[j]
    BY <2>2 DEF KeptAre
  <2> QED BY <2>1, <2>2, <1>3 DEF NewerBy
<1>8. Grounded(more, f)
  BY <1>5 DEF Grounded
<1>9. CASE ~Logo!Searching(s) /\ r = s
  BY <1>9 DEF r
<1>10. CASE Logo!Searching(s) /\ r = more
  <2>1. NotFound(r, s)
    BY <1>10, <1>5 DEF NotFound, FlagsOutside
  <2> QED BY <2>1, <1>10, <1>3, <1>5, <1>6, <1>8 DEF r, SameBut
<1>11. CASE Logo!Searching(s) /\ Logo!Full(more.buffer) /\ r = Logo!Searched(more, f)
  <2>1. /\ Shape(r) /\ Grounded(r, f) /\ r.buffer = more.buffer /\ r.second = more.second
        /\ Found(r, f) \/ NotFound(r, more)
    BY <1>11, <1>4, <1>5, <1>6, <1>8, SearchedIs
  <2>2. KeptAre(r)
    BY <2>1, <1>6 DEF KeptAre
  <2>3. NotFound(r, more) => NotFound(r, s)
    BY <1>5, <2>1 DEF NotFound, SameBut, FlagsOutside
  <2>4. r.second = s.second /\ NewerBy(r.buffer, s.buffer, f)
    BY <2>1, <1>3, <1>5 DEF SameBut
  <2> QED BY <2>1, <2>2, <2>3, <2>4, <1>11 DEF r
<1> QED BY <1>2, <1>9, <1>10, <1>11

\* A search that finds nothing leaves what the tests know.
LEMMA LookedWatched ==
  ASSUME NEW s, Shape(s), NEW r, NEW g \in Nat, Watched(s, g), NotFound(r, s)
  PROVE  Watched(r, g)
<1>1. /\ r.present = s.present /\ r.trend = s.trend /\ r.mask = s.mask
      /\ r.enabled = s.enabled \/ (r.enabled = FALSE /\ r.mask = 0)
  BY DEF NotFound, SameBut
<1>2. CASE r.enabled = s.enabled
  BY <1>1, <1>2 DEF Watched
<1>3. CASE r.enabled = FALSE /\ r.mask = 0
  BY <1>1, <1>3 DEF Watched
<1> QED BY <1>1, <1>2, <1>3

\* In two passes it searches in pictures behind the blocks, and leaves the blocks flagged.
LEMMA LookedApart ==
  ASSUME NEW s, Shape(s), NEW r, Shape(r), NEW g \in Nat, Watched(s, g), NotFound(r, s), s.mask = 0,
         BlocksBehind(s, g), SearchedBehind(s), NewerBy(r.buffer, s.buffer, g + 1),
         Len(s.flags) >= g, KeptAre(r)
  PROVE  BlocksBehind(r, g) /\ StretchAhead(r, g, g) /\ SearchedBehind(r)
<1> DEFINE old == s.blocks
<1>1. r.present = s.present /\ r.mask = 0 /\ r.blocks = old /\ FlagsOutside(r, s)
  BY DEF NotFound, SameBut
<1>2. r.present = FALSE
  BY <1>1 DEF Watched, Shape
<1>3. StretchAhead(r, g, g)
  BY <1>1, <1>2 DEF StretchAhead
<1>4. /\ old \in Seq([from : Nat, to : Nat])
      /\ \A i \in DOMAIN old : old[i].from < old[i].to /\ old[i].from > 0
      /\ \A i, j \in DOMAIN old : i < j => old[i].to < old[j].from
      /\ \A i \in DOMAIN old : old[i].to + Sample <= g
      /\ \A i \in DOMAIN old : \A x \in old[i].from .. old[i].to - 1 : s.flags[x]
  BY DEF BlocksBehind
<1> HIDE DEF old
<1>5. \A i \in DOMAIN old : old[i].from \in Nat /\ old[i].to \in Nat
  BY <1>4, BlocksTyped
<1>6. ASSUME NEW i \in DOMAIN old, NEW j \in DOMAIN r.buffer
      PROVE  old[i].to < r.buffer[j].frame
  <2>1. CASE r.buffer[j] = Fresh(g + 1)
    <3>1. old[i].to \in Nat /\ old[i].to + Sample <= g /\ r.buffer[j].frame = g + 1
      BY <1>4, <1>5, <2>1 DEF Fresh
    <3> QED BY <3>1, SampleIs
  <2>2. CASE \E k \in DOMAIN s.buffer : r.buffer[j] = s.buffer[k]
    BY <2>2 DEF SearchedBehind, old
  <2> QED BY <2>1, <2>2 DEF NewerBy
<1>7. SearchedBehind(r)
  BY <1>1, <1>6 DEF SearchedBehind
<1>8. ASSUME NEW i \in DOMAIN old, NEW x \in old[i].from .. old[i].to - 1
      PROVE  r.flags[x]
  <2>1. Len(s.flags) \in Nat
    BY DEF Shape
  <2>2. x \in 1..Len(s.flags) /\ x < old[i].to
    <3>1. old[i].from \in Nat /\ old[i].to \in Nat /\ old[i].to + Sample <= g /\ old[i].from > 0
      BY <1>4, <1>5
    <3> QED BY <2>1, <3>1, SampleIs
  <2>3. x \notin Logo!Intervals(Logo!Kepts(r.buffer))
    <3> SUFFICES ASSUME x \in Logo!Intervals(Logo!Kepts(r.buffer)) PROVE FALSE
      OBVIOUS
    <3>1. PICK j \in DOMAIN r.buffer :
            x \in r.buffer[j].frame .. r.buffer[j].frame + Sample - 1
      BY DEF Logo!Intervals, Logo!Kepts
    <3>2. r.buffer[j].frame \in Nat
      BY DEF KeptAre, KeptIs
    <3> QED BY <3>1, <3>2, <2>2, <1>5, <1>6
  <2>4. r.flags[x] = s.flags[x]
    BY <2>2, <2>3, <1>1 DEF FlagsOutside
  <2> QED BY <2>4, <1>4
<1>9. BlocksBehind(r, g)
  BY <1>1, <1>4, <1>8 DEF BlocksBehind
<1> QED BY <1>3, <1>7, <1>9

-----------------------------------------------------------------------------
(* A frame. *)

\* A mask that is dropped: the logo is not there, and its pictures are gone.
Dropped(s, buf) == [s EXCEPT !.mask = 0, !.present = FALSE, !.trend = 0, !.buffer = buf]

LEMMA DroppedIs ==
  ASSUME NEW s, Shape(s), NEW buf, IsSeq(buf)
  PROVE  LET r == Dropped(s, buf)
         IN  /\ Shape(r) /\ r.mask = 0 /\ r.present = FALSE /\ r.trend = 0 /\ r.buffer = buf
             /\ r.flags = s.flags /\ r.blocks = s.blocks /\ r.enabled = s.enabled
<1> DEFINE r == Dropped(s, buf)
<1>1. s = [x \in Fields |-> s[x]]
  BY DEF Shape, Complete
<1>2. r = [x \in Fields |-> IF x = "mask" THEN 0 ELSE IF x = "present" THEN FALSE
                            ELSE IF x = "trend" THEN 0 ELSE IF x = "buffer" THEN buf ELSE s[x]]
  BY <1>1 DEF Fields, Dropped
<1> HIDE DEF r
<1>3. /\ r.mask = 0 /\ r.present = FALSE /\ r.trend = 0 /\ r.buffer = buf
      /\ r.flags = s.flags /\ r.blocks = s.blocks /\ r.enabled = s.enabled
      /\ r.second = s.second
  BY <1>2 DEF Fields
<1>4. Complete(r)
  BY <1>2 DEF Complete
<1>5. r.enabled \in BOOLEAN /\ r.present \in BOOLEAN /\ r.second \in BOOLEAN
  BY <1>3 DEF Shape
<1>6. IsSeq(r.buffer) /\ r.flags \in Seq(BOOLEAN)
  BY <1>3 DEF Shape
<1>8. r.trend \in Nat
  BY <1>3
<1>7. Shape(r)
  BY <1>4, <1>5, <1>6, <1>8 DEF Shape
<1> QED BY <1>3, <1>7 DEF r

\* What holds of the state after frame f.
Common(s, f) == Shape(s) /\ Grounded(s, f) /\ KeptAre(s) /\ Watched(s, f)
InTwoPasses(s, f) == BlocksBehind(s, f) /\ StretchAhead(s, f, f) /\ SearchedBehind(s)
GoodAfter(s, f) == Common(s, f) /\ (twoPass => InTwoPasses(s, f))

LEMMA ResizedIs ==
  ASSUME NEW s, NEW g \in Nat, GoodAfter(s, g), NEW new
  PROVE  LET r == Logo!Resized(s, g + 1, new)
         IN  /\ GoodAfter(r, g) /\ r.flags = s.flags /\ r.enabled = s.enabled
<1> DEFINE r == Logo!Resized(s, g + 1, new)
           bare == <<Logo!Bare(g + 1)>>
<1>1. r = s \/ r = Dropped(s, <<>>) \/ r = Dropped(s, bare)
  BY DEF Logo!Resized, Dropped
<1> HIDE DEF r
<1>2. CASE r = s
  BY <1>2 DEF r
<1>3. ASSUME NEW buf, IsSeq(buf), r = Dropped(s, buf),
             \A j \in DOMAIN buf : buf[j].frame = g + 1 /\ buf[j].logo = 0
      PROVE  GoodAfter(r, g) /\ r.flags = s.flags /\ r.enabled = s.enabled
  <2>1. /\ Shape(r) /\ r.mask = 0 /\ r.present = FALSE /\ r.trend = 0 /\ r.buffer = buf
        /\ r.flags = s.flags /\ r.blocks = s.blocks /\ r.enabled = s.enabled
    <3>1. Shape(s) /\ IsSeq(buf)
      BY <1>3 DEF GoodAfter, Common
    <3> DEFINE d == Dropped(s, buf)
    <3>2. /\ Shape(d) /\ d.mask = 0 /\ d.present = FALSE /\ d.trend = 0 /\ d.buffer = buf
          /\ d.flags = s.flags /\ d.blocks = s.blocks /\ d.enabled = s.enabled
      BY <3>1, DroppedIs
    <3>3. r = d
      BY <1>3
    <3> HIDE DEF d
    <3> QED BY <3>2, <3>3
  <2>2. Grounded(r, g)
    BY <2>1 DEF GoodAfter, Common, Grounded
  <2>3. KeptAre(r)
    <3>1. g + 1 \in Nat
      OBVIOUS
    <3> QED BY <3>1, <2>1, <1>3 DEF KeptAre, KeptIs
  <2>4. Watched(r, g)
    BY <2>1 DEF Watched
  <2>5. ASSUME twoPass PROVE InTwoPasses(r, g)
    <3>1. BlocksBehind(s, g)
      BY <2>5 DEF GoodAfter, InTwoPasses
    <3>2. BlocksBehind(r, g)
      BY <2>1, <3>1 DEF BlocksBehind
    <3>3. StretchAhead(r, g, g)
      BY <2>1 DEF StretchAhead
    <3>4. /\ s.blocks \in Seq([from : Nat, to : Nat])
          /\ \A i \in DOMAIN s.blocks : s.blocks[i].to + Sample <= g
      BY <3>1 DEF BlocksBehind
    <3>5. \A i \in DOMAIN s.blocks : s.blocks[i].to < g + 1
      BY <3>4, BlocksTyped, SampleIs
    <3>6. SearchedBehind(r)
      BY <2>1, <3>5, <1>3 DEF SearchedBehind
    <3> QED BY <3>2, <3>3, <3>6 DEF InTwoPasses
  <2> QED BY <2>1, <2>2, <2>3, <2>4, <2>5 DEF GoodAfter, Common
<1>4. CASE r = Dropped(s, <<>>)
  <2>1. IsSeq(<<>>) /\ DOMAIN <<>> = {}
    BY EmptyIsSeq
  <2> DEFINE none == <<>>
  <2>2. IsSeq(none) /\ r = Dropped(s, none) /\ DOMAIN none = {}
    BY <1>4, <2>1
  <2> HIDE DEF none
  <2> QED BY <2>2, <1>3 DEF r
<1>5. CASE r = Dropped(s, bare)
  <2>1. bare \in Seq({Logo!Bare(g + 1)}) /\ DOMAIN bare = {1} /\ bare[1] = Logo!Bare(g + 1)
    <3> DEFINE b == Logo!Bare(g + 1)
    <3> HIDE DEF b
    <3>1. <<b>> \in Seq({b}) /\ DOMAIN <<b>> = {1} /\ <<b>>[1] = b
      OBVIOUS
    <3> QED BY <3>1 DEF b
  <2>2. IsSeq(bare)
    BY <2>1 DEF IsSeq
  <2> HIDE DEF bare
  <2>3. \A j \in DOMAIN bare : bare[j].frame = g + 1 /\ bare[j].logo = 0
    BY <2>1 DEF Logo!Bare
  <2> QED BY <2>2, <2>3, <1>3, <1>5 DEF r
<1> QED BY <1>1, <1>2, <1>4, <1>5 DEF r

\* A frame that is kept is flagged while the logo is there.
ShownAfter(s, f) ==
  /\ Shape(s) /\ Grounded(s, f) /\ KeptAre(s) /\ Watched(s, f)
  /\ twoPass => BlocksBehind(s, f) /\ StretchAhead(s, f, f - 1) /\ SearchedBehind(s)

CountTo(s, n) == [s EXCEPT !.count = n]

LEMMA CountIs ==
  ASSUME NEW s, Shape(s), NEW n
  PROVE  LET r == CountTo(s, n)
         IN  /\ Shape(r) /\ SameBut(r, s) /\ r.buffer = s.buffer /\ r.flags = s.flags
             /\ r.mask = s.mask /\ r.enabled = s.enabled
<1> DEFINE r == CountTo(s, n)
<1>1. s = [x \in Fields |-> s[x]]
  BY DEF Shape, Complete
<1>2. r = [x \in Fields |-> IF x = "count" THEN n ELSE s[x]]
  BY <1>1 DEF Fields, CountTo
<1> HIDE DEF r
<1>3. /\ r.buffer = s.buffer /\ r.flags = s.flags /\ r.mask = s.mask /\ r.enabled = s.enabled
      /\ r.present = s.present /\ r.trend = s.trend /\ r.start = s.start /\ r.blocks = s.blocks
      /\ r.second = s.second
  BY <1>2 DEF Fields
<1>4. Complete(r)
  BY <1>2 DEF Complete
<1>5. r.enabled \in BOOLEAN /\ r.present \in BOOLEAN /\ r.second \in BOOLEAN /\ r.trend \in Nat
  BY <1>3 DEF Shape
<1>6. IsSeq(r.buffer) /\ r.flags \in Seq(BOOLEAN)
  BY <1>3 DEF Shape
<1>7. Shape(r)
  BY <1>4, <1>5, <1>6 DEF Shape
<1> QED BY <1>3, <1>7 DEF r, SameBut

LEMMA ShownIs ==
  ASSUME NEW s, NEW f \in Nat, f > 0, ShownAfter(s, f)
  PROVE  LET r == Logo!Shown(s, f) IN GoodAfter(r, f) /\ Len(r.flags) = Len(s.flags)
<1> DEFINE r == Logo!Shown(s, f)
           v == s.mask # 0 /\ s.present
           t == Logo!Flagged(s, f, f, v)
           n == t.count + (IF s.present THEN 1 ELSE 0)
<1>1. Shape(s) /\ Grounded(s, f) /\ KeptAre(s) /\ Watched(s, f)
  BY DEF ShownAfter
<1>2. s.present \in BOOLEAN /\ Len(s.flags) \in Nat /\ Len(s.flags) >= f
  BY <1>1 DEF Shape, Grounded
<1>3. v \in BOOLEAN
  OBVIOUS
<1>4. r = CountTo(t, n)
  BY DEF Logo!Shown, CountTo
<1> HIDE DEF v, r, n
<1>5. /\ Shape(t) /\ FlagsSet(t.flags, s.flags, f, f, v)
      /\ t.enabled = s.enabled /\ t.mask = s.mask /\ t.buffer = s.buffer
      /\ t.present = s.present /\ t.trend = s.trend /\ t.start = s.start
      /\ t.blocks = s.blocks
  <2>1. Shape(t)
    BY <1>1, <1>3, FlaggedIs
  <2>2. FlagsSet(t.flags, s.flags, f, f, v)
    BY <1>1, <1>3, FlaggedIs
  <2>3. /\ t.enabled = s.enabled /\ t.mask = s.mask /\ t.buffer = s.buffer
        /\ t.present = s.present /\ t.trend = s.trend /\ t.start = s.start
        /\ t.blocks = s.blocks
    BY <1>1, <1>3, FlaggedIs
  <2> QED BY <2>1, <2>2, <2>3
<1> HIDE DEF t
<1>6. /\ Shape(r) /\ FlagsSet(r.flags, s.flags, f, f, v)
      /\ r.enabled = s.enabled /\ r.mask = s.mask /\ r.buffer = s.buffer
      /\ r.present = s.present /\ r.trend = s.trend /\ r.start = s.start
      /\ r.blocks = s.blocks
  <2>1. /\ Shape(r) /\ SameBut(r, t) /\ r.buffer = t.buffer /\ r.flags = t.flags
        /\ r.mask = t.mask /\ r.enabled = t.enabled
    BY <1>4, <1>5, CountIs
  <2> QED BY <2>1, <1>5 DEF SameBut
<1>7. f \in f..f /\ f \in 1..Len(s.flags) /\ r.flags[f] = v /\ Len(r.flags) = Len(s.flags)
      /\ \A x \in 1..Len(s.flags) : x # f => r.flags[x] = s.flags[x]
  BY <1>2, <1>6 DEF FlagsSet
<1>8. Grounded(r, f)
  <2> SUFFICES ASSUME NEW x \in 1..f, r.flags[x] PROVE Logo!Sampled(x) # 0
    BY <1>2, <1>7 DEF Grounded
  <2>1. CASE x = f
    <3>1. s.mask # 0 /\ s.present
      BY <2>1, <1>7 DEF v
    <3> QED BY <2>1, <3>1, <1>1 DEF Watched
  <2>2. CASE x # f
    <3>1. s.flags[x]
      BY <2>2, <1>2, <1>7
    <3> QED BY <3>1, <1>1 DEF Grounded
  <2> QED BY <2>1, <2>2
<1>9. KeptAre(r)
  BY <1>1, <1>6 DEF KeptAre
<1>10. Watched(r, f)
  BY <1>1, <1>6 DEF Watched
<1>11. ASSUME twoPass PROVE InTwoPasses(r, f)
  <2> DEFINE old == s.blocks
  <2>1. BlocksBehind(s, f) /\ StretchAhead(s, f, f - 1) /\ SearchedBehind(s)
    BY <1>11 DEF ShownAfter
  <2>2. /\ old \in Seq([from : Nat, to : Nat])
        /\ \A i \in DOMAIN old : old[i].from < old[i].to /\ old[i].from > 0
        /\ \A i, j \in DOMAIN old : i < j => old[i].to < old[j].from
        /\ \A i \in DOMAIN old : old[i].to + Sample <= f
        /\ \A i \in DOMAIN old : \A x \in old[i].from .. old[i].to - 1 : s.flags[x]
    BY <2>1 DEF BlocksBehind
  <2> HIDE DEF old
  <2>3. \A i \in DOMAIN old : old[i].from \in Nat /\ old[i].to \in Nat
    BY <2>2, BlocksTyped
  <2>4. ASSUME NEW i \in DOMAIN old, NEW x \in old[i].from .. old[i].to - 1
        PROVE  r.flags[x]
    <3>1. old[i].from \in Nat /\ old[i].to \in Nat /\ old[i].to + Sample <= f /\ old[i].from > 0
      BY <2>2, <2>3
    <3>2. x \in 1..Len(s.flags) /\ x # f
      BY <3>1, <1>2, SampleIs
    <3>3. r.flags[x] = s.flags[x]
      BY <3>2, <1>7
    <3> QED BY <3>3, <2>2
  <2>5. BlocksBehind(r, f)
    BY <1>6, <2>2, <2>4 DEF BlocksBehind, old
  <2>6. SearchedBehind(r)
    BY <1>6, <2>1 DEF SearchedBehind
  <2>7. CASE s.present
    <3>1. /\ s.start \in Nat /\ s.start > 0 /\ s.start <= f
          /\ \A i \in DOMAIN s.blocks : s.blocks[i].to < s.start
          /\ \A x \in s.start..f : Logo!Sampled(x) = s.mask
          /\ \A x \in s.start..f - 1 : s.flags[x]
      BY <2>1, <2>7 DEF StretchAhead
    <3>2. ASSUME NEW x \in s.start..f PROVE r.flags[x]
      <4>1. CASE x = f
        BY <4>1, <2>7, <1>1, <1>7 DEF Watched, v
      <4>2. CASE x # f
        <5>1. x \in 1..Len(s.flags) /\ x \in s.start..f - 1
          BY <4>2, <3>1, <1>2
        <5>2. r.flags[x] = s.flags[x]
          BY <5>1, <4>2, <1>7
        <5> QED BY <5>1, <5>2, <3>1
      <4> QED BY <4>1, <4>2
    <3>3. r.present = TRUE
      BY <2>7, <1>2, <1>6
    <3>4. StretchAhead(r, f, f)
      BY <3>1, <3>2, <3>3, <1>6 DEF StretchAhead
    <3> QED BY <3>4, <2>5, <2>6 DEF InTwoPasses
  <2>8. CASE ~s.present
    <3>1. r.present = FALSE
      BY <2>8, <1>2, <1>6
    <3>2. StretchAhead(r, f, f)
      BY <3>1, <2>1, <2>8, <1>6 DEF StretchAhead
    <3> QED BY <3>2, <2>5, <2>6 DEF InTwoPasses
  <2> QED BY <2>7, <2>8
<1> QED BY <1>6, <1>7, <1>8, <1>9, <1>10, <1>11 DEF r, GoodAfter, Common

\* A mask that is given up for a second search.
GivenUp(s) == [s EXCEPT !.mask = 0, !.second = TRUE, !.buffer = <<>>]

LEMMA GivenUpIs ==
  ASSUME NEW s, Shape(s)
  PROVE  LET r == GivenUp(s)
         IN  /\ Shape(r) /\ r.mask = 0 /\ r.buffer = <<>> /\ r.flags = s.flags
             /\ r.present = s.present /\ r.blocks = s.blocks /\ r.enabled = s.enabled
<1> DEFINE r == GivenUp(s)
<1>1. s = [x \in Fields |-> s[x]]
  BY DEF Shape, Complete
<1>2. r = [x \in Fields |-> IF x = "mask" THEN 0 ELSE IF x = "second" THEN TRUE
                            ELSE IF x = "buffer" THEN <<>> ELSE s[x]]
  BY <1>1 DEF Fields, GivenUp
<1> HIDE DEF r
<1>3. /\ r.mask = 0 /\ r.present = s.present /\ r.trend = s.trend /\ r.buffer = <<>>
      /\ r.flags = s.flags /\ r.blocks = s.blocks /\ r.enabled = s.enabled
      /\ r.second = TRUE
  BY <1>2 DEF Fields
<1>4. Complete(r)
  BY <1>2 DEF Complete
<1>5. r.enabled \in BOOLEAN /\ r.present \in BOOLEAN /\ r.second \in BOOLEAN
  BY <1>3 DEF Shape
<1>6. r.trend \in Nat
  BY <1>3 DEF Shape
<1>7. IsSeq(r.buffer) /\ r.flags \in Seq(BOOLEAN)
  BY <1>3, EmptyIsSeq DEF Shape
<1>8. Shape(r)
  BY <1>4, <1>5, <1>6, <1>7 DEF Shape
<1> QED BY <1>3, <1>8 DEF r

LEMMA LostIs ==
  ASSUME NEW s, Shape(s)
  PROVE  LET r == Logo!Emptied(s)
         IN  /\ Shape(r) /\ SameBut(r, s) /\ r.flags = s.flags
             /\ r.mask = s.mask /\ r.enabled = s.enabled
             /\ r.buffer = s.buffer \/ (~twoPass /\ r.buffer = <<>>)
<1> DEFINE r == Logo!Emptied(s)
<1>1. r = s \/ (~twoPass /\ r = BufferTo(s, <<>>))
  BY DEF Logo!Emptied, BufferTo
<1> HIDE DEF r
<1>2. CASE r = s
  BY <1>2 DEF r, SameBut
<1>3. CASE ~twoPass /\ r = BufferTo(s, <<>>)
  <2>1. IsSeq(<<>>)
    BY EmptyIsSeq
  <2> DEFINE none == <<>>
  <2>2. IsSeq(none) /\ r = BufferTo(s, none)
    BY <1>3, <2>1
  <2> HIDE DEF none
  <2>3. /\ Shape(r) /\ SameBut(r, s) /\ r.buffer = none /\ r.flags = s.flags
        /\ r.mask = s.mask /\ r.enabled = s.enabled
    BY <2>2, MoreIs
  <2> QED BY <1>3, <2>3 DEF r, none
<1> QED BY <1>1, <1>2, <1>3

\* What holds of the state after the search at frame g + 1, before the test.
ReadyToTest(s, g) ==
  /\ Shape(s) /\ Grounded(s, g + 1) /\ KeptAre(s)
  /\ s.mask = 0 => ~s.present
  /\ s.mask # 0 => s.enabled /\ TrendKnown(s, g)
  /\ twoPass => /\ BlocksBehind(s, g) /\ StretchAhead(s, g, g) /\ SearchedBehind(s)
                /\ Watched(s, g)

LEMMA FollowedIs ==
  ASSUME NEW s, NEW g \in Nat, (g + 1) % Sample = 0, ReadyToTest(s, g)
  PROVE  LET r == Logo!Followed(s, g + 1)
         IN  ShownAfter(r, g + 1)
<1> DEFINE f == g + 1
           hit == Logo!Picture(f).logo = s.mask
           t == Logo!Tested(s, f, hit)
           l == Logo!Emptied(t)
           r == Logo!Followed(s, f)
<1>1. /\ Shape(s) /\ Grounded(s, f) /\ KeptAre(s)
      /\ s.mask = 0 => ~s.present
      /\ s.mask # 0 => s.enabled /\ TrendKnown(s, g)
  BY DEF ReadyToTest
<1>2. /\ f \in Nat /\ f - 1 = g /\ f > 0 /\ Base(f) = f /\ Base(g) = f - Sample
      /\ Sample \in Nat /\ Sample > 0
  BY AtTest, SampleIs
<1>3. s.mask = 0 => r = s
  BY DEF Logo!Followed
<1>4. s.mask # 0 => \/ r = l
                    \/ Logo!MaySearchAgain(l, f) /\ r = GivenUp(l)
  BY DEF Logo!Followed, GivenUp
<1> HIDE DEF r, l, t
<1>5. CASE s.mask = 0
  <2>1. r = s /\ s.present = FALSE
    BY <1>1, <1>3, <1>5 DEF Shape
  <2>2. Watched(r, f)
    BY <2>1, <1>5 DEF Watched
  <2>3. ASSUME twoPass PROVE BlocksBehind(r, f) /\ StretchAhead(r, f, f - 1) /\ SearchedBehind(r)
    <3>1. BlocksBehind(s, g) /\ SearchedBehind(s)
      BY <2>3 DEF ReadyToTest
    <3>2. /\ s.blocks \in Seq([from : Nat, to : Nat])
          /\ \A i \in DOMAIN s.blocks : s.blocks[i].to + Sample <= g
      BY <3>1 DEF BlocksBehind
    <3>3. \A i \in DOMAIN s.blocks : s.blocks[i].to + Sample <= f
      BY <3>2, <1>2, BlocksTyped, SMTT(20)
    <3>4. BlocksBehind(r, f)
      BY <3>1, <3>3, <2>1 DEF BlocksBehind
    <3>5. StretchAhead(r, f, f - 1)
      BY <2>1, <1>5 DEF StretchAhead
    <3> QED BY <3>1, <3>4, <3>5, <2>1
  <2> QED BY <2>1, <2>2, <2>3, <1>1 DEF ShownAfter, r
<1>6. CASE s.mask # 0
  <2>1. /\ Shape(t) /\ Watched(t, f) /\ Grounded(t, f) /\ t.mask = s.mask
        /\ t.buffer = s.buffer /\ t.enabled = s.enabled
    BY <1>1, <1>6, TestedWatched DEF t
  <2>2. /\ Shape(l) /\ SameBut(l, t) /\ l.flags = t.flags /\ l.mask = t.mask
        /\ l.enabled = t.enabled /\ (l.buffer = t.buffer \/ (~twoPass /\ l.buffer = <<>>))
    BY <2>1, LostIs DEF l
  <2>3. Watched(l, f) /\ Grounded(l, f)
    BY <2>1, <2>2 DEF Watched, Grounded, SameBut
  <2>4. KeptAre(l)
    <3>1. l.buffer = s.buffer \/ l.buffer = <<>>
      BY <2>1, <2>2
    <3> QED BY <3>1, <1>1 DEF KeptAre
  <2>5. ASSUME twoPass PROVE BlocksBehind(l, f) /\ StretchAhead(l, f, g) /\ SearchedBehind(l)
    <3>1. BlocksBehind(s, g) /\ StretchAhead(s, g, g) /\ SearchedBehind(s) /\ Watched(s, g)
      BY <2>5 DEF ReadyToTest
    <3>2. Len(s.flags) >= g + 1
      BY <1>1 DEF Grounded
    <3>3. BlocksBehind(t, f) /\ StretchAhead(t, f, g)
      BY <3>1, <3>2, <1>1, <1>6, TestedApart DEF t
    <3>4. l.buffer = s.buffer /\ l.mask = s.mask
      BY <2>1, <2>2, <2>5
    <3>5. l.buffer = <<>>
      BY <3>1, <3>4, <1>6 DEF SearchedBehind
    <3>6. SearchedBehind(l)
      BY <3>5 DEF SearchedBehind
    <3>7. BlocksBehind(l, f)
      BY <3>3, <2>2 DEF BlocksBehind, SameBut
    <3>8. StretchAhead(l, f, g)
      BY <3>3, <2>2 DEF StretchAhead, SameBut
    <3> QED BY <3>6, <3>7, <3>8
  <2>6. CASE r = l
    BY <2>2, <2>3, <2>4, <2>5, <2>6, <1>2 DEF ShownAfter, r
  <2>7. CASE Logo!MaySearchAgain(l, f) /\ r = GivenUp(l)
    <3>1. ~l.present
      BY <2>7 DEF Logo!MaySearchAgain
    <3>2. /\ Shape(r) /\ r.mask = 0 /\ r.buffer = <<>> /\ r.flags = l.flags
          /\ r.present = l.present /\ r.blocks = l.blocks /\ r.enabled = l.enabled
      BY <2>7, <2>2, GivenUpIs
    <3>3. Grounded(r, f)
      BY <3>2, <2>3 DEF Grounded
    <3>4. KeptAre(r)
      BY <3>2 DEF KeptAre
    <3>5. Watched(r, f)
      BY <3>1, <3>2 DEF Watched
    <3>6. ASSUME twoPass PROVE BlocksBehind(r, f) /\ StretchAhead(r, f, g) /\ SearchedBehind(r)
      <4>1. BlocksBehind(l, f)
        BY <3>6, <2>5
      <4>2. BlocksBehind(r, f)
        BY <4>1, <3>2 DEF BlocksBehind
      <4>3. StretchAhead(r, f, g)
        BY <3>1, <3>2 DEF StretchAhead
      <4>4. SearchedBehind(r)
        BY <3>2 DEF SearchedBehind
      <4> QED BY <4>2, <4>3, <4>4
    <3> QED BY <3>2, <3>3, <3>4, <3>5, <3>6, <1>2 DEF ShownAfter, r
  <2> QED BY <2>6, <2>7, <1>4, <1>6
<1> QED BY <1>5, <1>6

-----------------------------------------------------------------------------
(* A frame. *)

LEMMA OneMore ==
  ASSUME NEW S, NEW q \in Seq(S), NEW e \in S
  PROVE  /\ Append(q, e) \in Seq(S) /\ Len(Append(q, e)) = Len(q) + 1
         /\ Append(q, e)[Len(q) + 1] = e
         /\ \A x \in 1..Len(q) : Append(q, e)[x] = q[x]
OBVIOUS

\* The state with room for the flag of the frame after frame g.
Extended(s, g) == [s EXCEPT !.flags = Append(SubSeq(@, 1, g), FALSE)]

LEMMA ExtendedIs ==
  ASSUME NEW s, NEW g \in Nat, GoodAfter(s, g)
  PROVE  LET r == Extended(s, g)
         IN  GoodAfter(r, g) /\ Len(r.flags) = g + 1 /\ ~r.flags[g + 1]
<1> DEFINE r == Extended(s, g)
           room == Append(SubSeq(s.flags, 1, g), FALSE)
<1>1. s = [x \in Fields |-> s[x]] /\ Shape(s)
  BY DEF GoodAfter, Common, Shape, Complete
<1>2. r = [x \in Fields |-> IF x = "flags" THEN room ELSE s[x]]
  BY <1>1 DEF Fields, Extended
<1>3. s.flags \in Seq(BOOLEAN) /\ Len(s.flags) >= g /\ Len(s.flags) \in Nat
  BY DEF GoodAfter, Common, Shape, Grounded
<1>4. /\ room \in Seq(BOOLEAN) /\ Len(room) = g + 1 /\ room[g + 1] = FALSE
      /\ \A x \in 1..g : room[x] = s.flags[x]
  <2> DEFINE head == SubSeq(s.flags, 1, g)
             none == FALSE
  <2>1. head \in Seq(BOOLEAN) /\ Len(head) = g /\ \A x \in 1..g : head[x] = s.flags[x]
    BY <1>3
  <2>2. room = Append(head, none) /\ none \in BOOLEAN
    OBVIOUS
  <2> HIDE DEF head, none
  <2>3. /\ Append(head, none) \in Seq(BOOLEAN) /\ Len(Append(head, none)) = Len(head) + 1
        /\ Append(head, none)[Len(head) + 1] = none
        /\ \A x \in 1..Len(head) : Append(head, none)[x] = head[x]
    BY <2>1, <2>2, OneMore
  <2> HIDE DEF room
  <2> QED BY <2>1, <2>2, <2>3 DEF none
<1> HIDE DEF r, room
<1>5. /\ r.flags = room /\ r.mask = s.mask /\ r.enabled = s.enabled /\ r.buffer = s.buffer
      /\ r.present = s.present /\ r.trend = s.trend /\ r.start = s.start /\ r.blocks = s.blocks
      /\ r.second = s.second
  BY <1>2 DEF Fields
<1>6. Complete(r)
  BY <1>2 DEF Complete
<1>7. r.enabled \in BOOLEAN /\ r.present \in BOOLEAN /\ r.second \in BOOLEAN /\ r.trend \in Nat
  BY <1>1, <1>5 DEF Shape
<1>8. IsSeq(r.buffer) /\ r.flags \in Seq(BOOLEAN)
  BY <1>1, <1>4, <1>5 DEF Shape
<1>9. Shape(r)
  BY <1>6, <1>7, <1>8 DEF Shape
<1>10. Grounded(r, g)
  BY <1>4, <1>5 DEF GoodAfter, Common, Grounded
<1>11. KeptAre(r) /\ Watched(r, g)
  BY <1>5 DEF GoodAfter, Common, KeptAre, Watched
<1>12. ASSUME twoPass PROVE InTwoPasses(r, g)
  <2>1. BlocksBehind(s, g) /\ StretchAhead(s, g, g) /\ SearchedBehind(s)
    BY <1>12 DEF GoodAfter, InTwoPasses
  <2>2. SearchedBehind(r)
    BY <2>1, <1>5 DEF SearchedBehind
  <2> DEFINE old == s.blocks
  <2>3. /\ old \in Seq([from : Nat, to : Nat])
        /\ \A i \in DOMAIN old : old[i].from < old[i].to /\ old[i].from > 0
        /\ \A i, j \in DOMAIN old : i < j => old[i].to < old[j].from
        /\ \A i \in DOMAIN old : old[i].to + Sample <= g
        /\ \A i \in DOMAIN old : \A x \in old[i].from .. old[i].to - 1 : s.flags[x]
    BY <2>1 DEF BlocksBehind
  <2> HIDE DEF old
  <2>4. ASSUME NEW i \in DOMAIN old, NEW x \in old[i].from .. old[i].to - 1
        PROVE  r.flags[x]
    <3>1. old[i].from \in Nat /\ old[i].to \in Nat /\ old[i].to + Sample <= g /\ old[i].from > 0
      BY <2>3, BlocksTyped
    <3>2. x \in 1..g
      BY <3>1, SampleIs
    <3> QED BY <3>2, <2>3, <1>4, <1>5
  <2>5. BlocksBehind(r, g)
    BY <1>5, <2>3, <2>4 DEF BlocksBehind, old
  <2>6. ASSUME s.present PROVE \A x \in s.start..g : r.flags[x]
    <3>1. s.start \in Nat /\ s.start > 0 /\ \A x \in s.start..g : s.flags[x]
      BY <2>1, <2>6 DEF StretchAhead
    <3>2. \A x \in s.start..g : x \in 1..g
      BY <3>1
    <3> QED BY <3>1, <3>2, <1>4, <1>5
  <2>7. StretchAhead(r, g, g)
    BY <2>1, <2>6, <1>5 DEF StretchAhead
  <2> QED BY <2>2, <2>5, <2>7 DEF InTwoPasses
<1> QED BY <1>4, <1>5, <1>9, <1>10, <1>11, <1>12 DEF r, GoodAfter, Common

\* A frame that is not tested.
LEMMA UntestedIs ==
  ASSUME NEW s, NEW g \in Nat, GoodAfter(s, g), Grounded(s, g + 1), ~Logo!Sampling(s, g + 1)
  PROVE  ShownAfter(s, g + 1)
<1>1. Shape(s) /\ KeptAre(s) /\ Watched(s, g) /\ s.present \in BOOLEAN
  BY DEF GoodAfter, Common, Shape
<1>3. \/ Logo!Sampled(g + 1) = Logo!Sampled(g) /\ Base(g + 1) = Base(g)
      \/ ~s.enabled /\ ~s.present
  BY <1>1, BetweenTests DEF Watched, Logo!Sampling
<1>4. /\ g + 1 \in Nat /\ (g + 1) - 1 = g
      /\ \A n \in Int : \A x \in n..g + 1 : x \in n..g \/ x = g + 1
  OBVIOUS
<1>6. Base(g) \in Int /\ Base(g) <= g /\ g + 1 < Base(g + 1) + Sample /\ s.trend \in Nat
  BY <1>1, BaseIs DEF Shape
<1>5. Watched(s, g + 1)
  <2>1. CASE ~s.enabled /\ ~s.present
    BY <2>1 DEF Watched
  <2>2. CASE Logo!Sampled(g + 1) = Logo!Sampled(g) /\ Base(g + 1) = Base(g)
    <3>1. s.present => s.mask # 0 /\ s.enabled /\ Logo!Sampled(g + 1) = s.mask
      BY <2>2, <1>1 DEF Watched
    <3>2. ASSUME s.enabled, s.mask # 0, ~s.present
          PROVE  /\ Times(s.trend) <= Base(g + 1)
                 /\ \A x \in Base(g + 1) + Sample - Times(s.trend) .. g + 1 :
                      Logo!Sampled(x) = s.mask
      <4>1. /\ Times(s.trend) <= Base(g)
            /\ \A x \in Base(g) + Sample - Times(s.trend) .. g : Logo!Sampled(x) = s.mask
        BY <1>1, <3>2 DEF Watched
      <4>2. Base(g) \in Int /\ Times(s.trend) \in Nat /\ Sample \in Nat /\ Sample > 0
        BY <1>6, TimesIs, SampleIs
      <4>3. Base(g) + Sample - Times(s.trend) \in Int
        BY <4>2
      <4>4. ASSUME g + 1 \in Base(g) + Sample - Times(s.trend) .. g + 1
            PROVE  Logo!Sampled(g + 1) = s.mask
        <5>1. Base(g) <= g /\ g + 1 < Base(g) + Sample
          BY <1>6, <2>2
        <5>2. Times(s.trend) >= Sample
          <6>1. s.trend # 0
            <7> SUFFICES ASSUME s.trend = 0 PROVE FALSE
              OBVIOUS
            <7>1. Times(s.trend) = 0
              BY TimesIs
            <7> QED BY <7>1, <5>1, <4>2, <4>4
          <6>2. s.trend - 1 \in Nat /\ s.trend = (s.trend - 1) + 1
            BY <6>1, <1>6
          <6>3. Times(s.trend - 1) \in Nat /\ Times(s.trend) = Times(s.trend - 1) + Sample
            BY <6>2, TimesIs
          <6> QED BY <6>3, <4>2
        <5>3. g \in Base(g) + Sample - Times(s.trend) .. g
          BY <5>1, <5>2, <4>2
        <5> QED BY <5>3, <4>1, <2>2
      <4> QED BY <4>1, <4>3, <4>4, <1>4, <2>2
    <3> QED BY <3>1, <3>2 DEF Watched
  <2> QED BY <1>3, <2>1, <2>2
<1>7. ASSUME twoPass
      PROVE  BlocksBehind(s, g + 1) /\ StretchAhead(s, g + 1, g) /\ SearchedBehind(s)
  <2>1. BlocksBehind(s, g) /\ StretchAhead(s, g, g) /\ SearchedBehind(s)
    BY <1>7 DEF GoodAfter, InTwoPasses
  <2>2. s.blocks \in Seq([from : Nat, to : Nat])
        /\ \A i \in DOMAIN s.blocks : s.blocks[i].to + Sample <= g
    BY <2>1 DEF BlocksBehind
  <2>3. \A i \in DOMAIN s.blocks : s.blocks[i].to + Sample <= g + 1
    BY <2>2, BlocksTyped, SampleIs
  <2>4. BlocksBehind(s, g + 1)
    BY <2>1, <2>3 DEF BlocksBehind
  <2>5. CASE ~s.enabled /\ ~s.present
    <3>1. StretchAhead(s, g + 1, g)
      BY <2>5 DEF StretchAhead
    <3> QED BY <2>1, <2>4, <3>1
  <2>6. CASE Logo!Sampled(g + 1) = Logo!Sampled(g) /\ Base(g + 1) = Base(g)
    <3>1. ASSUME s.present
          PROVE  /\ s.start \in Nat /\ s.start > 0 /\ s.start <= g + 1
                 /\ \A x \in s.start .. g + 1 : Logo!Sampled(x) = s.mask
      <4>1. s.start \in Nat /\ s.start > 0 /\ s.start <= g
            /\ \A x \in s.start..g : Logo!Sampled(x) = s.mask
        BY <2>1, <3>1 DEF StretchAhead
      <4>2. s.start <= g + 1 /\ g \in s.start..g /\ s.start \in Int
        BY <4>1
      <4>3. Logo!Sampled(g + 1) = s.mask
        BY <4>1, <4>2, <2>6
      <4> QED BY <4>1, <4>2, <4>3, <1>4
    <3>2. StretchAhead(s, g + 1, g)
      BY <3>1, <2>1, <2>6 DEF StretchAhead
    <3> QED BY <2>1, <2>4, <3>2
  <2> QED BY <1>3, <2>5, <2>6
<1> QED BY <1>1, <1>4, <1>5, <1>7 DEF ShownAfter

\* A frame that is tested: what the search before the test leaves, if the analysis goes on.
LEMMA LookedReady ==
  ASSUME NEW s, NEW g \in Nat, (g + 1) % Sample = 0, GoodAfter(s, g), s.enabled,
         Grounded(s, g + 1), ~(twoPass /\ s.mask = 0 /\ Logo!Looked(s, g + 1).mask # 0)
  PROVE  ReadyToTest(Logo!Looked(s, g + 1), g)
<1> DEFINE r == Logo!Looked(s, g + 1)
<1>1. Shape(s) /\ KeptAre(s) /\ Watched(s, g) /\ s.present \in BOOLEAN /\ s.enabled = TRUE
  BY DEF GoodAfter, Common, Shape
<1>2. /\ Shape(r) /\ Grounded(r, g + 1) /\ KeptAre(r)
      /\ \/ ~Logo!Searching(s) /\ r = s
         \/ /\ Logo!Searching(s) /\ NewerBy(r.buffer, s.buffer, g + 1)
            /\ Found(r, g + 1) \/ NotFound(r, s)
  BY <1>1, LookedIs
<1>3. ~(twoPass /\ s.mask = 0 /\ r.mask # 0)
  OBVIOUS
<1> HIDE DEF r
<1>4. Logo!Searching(s) <=> s.mask = 0 \/ (~s.present /\ ~twoPass)
  BY DEF Logo!Searching
<1>5. CASE ~Logo!Searching(s) /\ r = s
  <2>1. s.mask # 0
    BY <1>4, <1>5
  <2>2. twoPass => BlocksBehind(s, g) /\ StretchAhead(s, g, g) /\ SearchedBehind(s)
    BY DEF GoodAfter, InTwoPasses
  <2>3. TrendKnown(r, g) /\ Watched(r, g) /\ r.mask # 0 /\ r.enabled
    BY <1>1, <1>5, <2>1 DEF TrendKnown
  <2>4. twoPass => BlocksBehind(r, g) /\ StretchAhead(r, g, g) /\ SearchedBehind(r)
    BY <1>5, <2>2
  <2> QED BY <1>2, <2>3, <2>4 DEF ReadyToTest, r
<1>6. CASE Logo!Searching(s) /\ NewerBy(r.buffer, s.buffer, g + 1) /\ Found(r, g + 1)
  <2>1. r.mask # 0 /\ r.present /\ r.enabled
    BY <1>6 DEF Found
  <2>2. ~twoPass
    BY <1>3, <1>4, <1>6, <2>1
  <2>3. TrendKnown(r, g)
    BY <2>1 DEF TrendKnown
  <2> QED BY <1>2, <2>1, <2>2, <2>3 DEF ReadyToTest, r
<1>7. CASE Logo!Searching(s) /\ NewerBy(r.buffer, s.buffer, g + 1) /\ NotFound(r, s)
  <2>1. Watched(r, g)
    BY <1>1, <1>7, LookedWatched
  <2>2. r.mask = s.mask /\ (r.enabled = TRUE \/ r.mask = 0)
    BY <1>1, <1>7 DEF NotFound
  <2>3. r.mask = 0 => ~r.present
    BY <2>1 DEF Watched
  <2>4. ASSUME twoPass
        PROVE  BlocksBehind(r, g) /\ StretchAhead(r, g, g) /\ SearchedBehind(r)
    <3>1. BlocksBehind(s, g) /\ SearchedBehind(s) /\ s.mask = 0
      BY <2>4, <1>4, <1>7 DEF GoodAfter, InTwoPasses
    <3>2. Len(s.flags) >= g
      BY DEF GoodAfter, Common, Grounded
    <3> QED BY <3>1, <3>2, <1>1, <1>2, <1>7, LookedApart
  <2>5. TrendKnown(r, g)
    BY <2>1 DEF TrendKnown
  <2>6. r.mask # 0 => r.enabled
    BY <2>2
  <2> QED BY <1>2, <2>1, <2>3, <2>4, <2>5, <2>6 DEF ReadyToTest, r
<1> QED BY <1>2, <1>5, <1>6, <1>7 DEF r

\* Before the first frame.
LEMMA NothingYet ==
  ASSUME NEW s, Shape(s), s.buffer = <<>>, s.present = FALSE, s.trend = 0, s.blocks = <<>>
  PROVE  GoodAfter(s, 0)
<1>1. Len(s.flags) \in Nat /\ Len(s.flags) >= 0
  BY DEF Shape
<1>2. Grounded(s, 0)
  BY <1>1 DEF Grounded
<1>3. KeptAre(s) /\ SearchedBehind(s)
  BY DEF KeptAre, SearchedBehind
<1>4. Base(0) = 0 /\ Times(0) = 0 /\ Sample \in Nat /\ Sample > 0
  <2>1. 0 \in Nat /\ 0 \in 0..Sample - 1 /\ 0 * Sample + 0 = 0
    BY SampleIs
  <2>2. 0 % Sample = 0
    BY <2>1, DivisionIs
  <2> QED BY <2>2, TimesIs, SampleIs DEF Base
<1>5. Watched(s, 0)
  <2>1. 0 + Sample - 0 .. 0 = {}
    BY <1>4
  <2> QED BY <2>1, <1>4 DEF Watched
<1>6. BlocksBehind(s, 0)
  <2>1. <<>> \in Seq([from : Nat, to : Nat]) /\ DOMAIN <<>> = {}
    OBVIOUS
  <2> QED BY <2>1 DEF BlocksBehind
<1>7. StretchAhead(s, 0, 0)
  BY DEF StretchAhead
<1> QED BY <1>2, <1>3, <1>5, <1>6, <1>7 DEF GoodAfter, Common, InTwoPasses

\* A pass that starts over has nothing behind it but the flags.
LEMMA ClearedIs ==
  ASSUME NEW s, Shape(s)
  PROVE  GoodAfter(Logo!Cleared(s), 0)
<1> DEFINE r == Logo!Cleared(s)
<1>1. s = [x \in Fields |-> s[x]]
  BY DEF Shape, Complete
<1>2. r = [x \in Fields |-> IF x = "buffer" THEN <<>> ELSE IF x = "present" THEN FALSE
                            ELSE IF x = "trend" THEN 0 ELSE IF x = "blocks" THEN <<>>
                            ELSE IF x = "count" THEN 0 ELSE s[x]]
  BY <1>1 DEF Fields, Logo!Cleared
<1> HIDE DEF r
<1>3. /\ r.buffer = <<>> /\ r.present = FALSE /\ r.trend = 0 /\ r.blocks = <<>>
      /\ r.flags = s.flags /\ r.mask = s.mask /\ r.enabled = s.enabled /\ r.second = s.second
  BY <1>2 DEF Fields
<1>4. Complete(r)
  BY <1>2 DEF Complete
<1>5. r.enabled \in BOOLEAN /\ r.present \in BOOLEAN /\ r.second \in BOOLEAN
  BY <1>3 DEF Shape
<1>6. IsSeq(r.buffer) /\ r.flags \in Seq(BOOLEAN)
  BY <1>3, EmptyIsSeq DEF Shape
<1>7. r.trend \in Nat
  BY <1>3
<1>8. Shape(r)
  BY <1>4, <1>5, <1>6, <1>7 DEF Shape
<1> QED BY <1>3, <1>8, NothingYet DEF r

-----------------------------------------------------------------------------
(* The analysis. *)

LEMMA BecomeIs ==
  ASSUME NEW s, Complete(s), Logo!Become(s)
  PROVE  (Logo!State)' = s
<1>1. s = [x \in Fields |-> s[x]]
  BY DEF Complete
<1>2. (Logo!State)' = [x \in Fields |-> s[x]]
  BY DEF Logo!Become, Logo!State, Fields
<1> QED BY <1>1, <1>2

LEMMA SampledSame ==
  ASSUME UNCHANGED <<recording, twoPass>>
  PROVE  \A x : (Logo!Sampled(x))' = Logo!Sampled(x)
BY DEF Logo!Sampled, Logo!Picture

LEMMA GoodNext ==
  ASSUME NEW s, NEW n, GoodAfter(s, n), Logo!Become(s), frame' = n,
         UNCHANGED <<recording, twoPass>>
  PROVE  GoodAfter(Logo!State, frame)'
<1>1. (Logo!State)' = s
  BY BecomeIs DEF GoodAfter, Common, Shape
<1>2. /\ Shape(s) /\ Grounded(s, n) /\ KeptAre(s) /\ Watched(s, n)
      /\ twoPass => BlocksBehind(s, n) /\ StretchAhead(s, n, n) /\ SearchedBehind(s)
  BY DEF GoodAfter, Common, InTwoPasses
<1>3. Shape(Logo!State)' /\ KeptAre(Logo!State)'
  <2>1. Shape(Logo!State)'
    BY <1>1, <1>2 DEF Shape, Complete, Fields, IsSeq
  <2>2. KeptAre(Logo!State)'
    BY <1>1, <1>2 DEF KeptAre, KeptIs, Logo!Picture
  <2> QED BY <2>1, <2>2
<1>4. Grounded(Logo!State, frame)'
  BY <1>1, <1>2, SampledSame DEF Grounded
<1>5. Watched(Logo!State, frame)'
  BY <1>1, <1>2, SampledSame DEF Watched, Base, Times
<1>6. twoPass' => BlocksBehind(Logo!State, frame)'
  BY <1>1, <1>2 DEF BlocksBehind
<1>7. twoPass' => StretchAhead(Logo!State, frame, frame)'
  BY <1>1, <1>2, SampledSame DEF StretchAhead, Base, Times
<1>8. twoPass' => SearchedBehind(Logo!State)'
  BY <1>1, <1>2 DEF SearchedBehind
<1> QED BY <1>3, <1>4, <1>5, <1>6, <1>7, <1>8 DEF GoodAfter, Common, InTwoPasses

LEMMA DecodeGood ==
  ASSUME frame \in Nat, GoodAfter(Logo!State, frame), Logo!Decode
  PROVE  frame' \in Nat /\ GoodAfter(Logo!State, frame)'
<1> DEFINE f == frame + 1
           more == Extended(Logo!State, frame)
           sized == Logo!Resized(more, f, Logo!Picture(f).size)
           looked == IF Logo!Sampling(sized, f) THEN Logo!Looked(sized, f) ELSE sized
           tested == IF Logo!Sampling(sized, f) THEN Logo!Followed(looked, f) ELSE looked
           restarts == twoPass /\ sized.mask = 0 /\ looked.mask # 0
<1>1. UNCHANGED <<recording, twoPass>>
  BY DEF Logo!Decode
<1>2. \/ restarts /\ frame' = 0 /\ Logo!Become(Logo!Cleared(looked))
      \/ ~restarts /\ frame' = f /\ Logo!Become(Logo!Shown(tested, f))
  BY DEF Logo!Decode, Extended
<1> HIDE DEF restarts, tested, looked, sized, more
<1>3. GoodAfter(more, frame) /\ Len(more.flags) = frame + 1 /\ ~more.flags[frame + 1]
  BY ExtendedIs DEF more
<1>4. GoodAfter(sized, frame) /\ sized.flags = more.flags
  BY <1>3, ResizedIs DEF sized
<1>5. Grounded(sized, f)
  <2>1. \A x \in 1..f : x = frame + 1 \/ x \in 1..frame
    OBVIOUS
  <2>2. Len(sized.flags) >= f
    BY <1>3, <1>4
  <2> QED BY <2>1, <2>2, <1>3, <1>4 DEF GoodAfter, Common, Grounded
<1>6. Shape(looked)
  <2>1. Shape(sized) /\ KeptAre(sized)
    BY <1>4 DEF GoodAfter, Common
  <2>2. CASE Logo!Sampling(sized, f)
    <3>1. sized.enabled /\ (frame + 1) % Sample = 0 /\ looked = Logo!Looked(sized, f)
      BY <2>2 DEF looked, Logo!Sampling
    <3> QED BY <3>1, <2>1, <1>5, LookedIs
  <2>3. CASE ~Logo!Sampling(sized, f)
    BY <2>1, <2>3 DEF looked
  <2> QED BY <2>2, <2>3
<1>7. CASE restarts /\ frame' = 0 /\ Logo!Become(Logo!Cleared(looked))
  <2>1. GoodAfter(Logo!Cleared(looked), 0)
    BY <1>6, ClearedIs
  <2> QED BY <2>1, <1>1, <1>7, GoodNext
<1>8. CASE ~restarts /\ frame' = f /\ Logo!Become(Logo!Shown(tested, f))
  <2>1. ShownAfter(tested, f)
    <3>1. CASE Logo!Sampling(sized, f)
      <4>1. /\ sized.enabled /\ (frame + 1) % Sample = 0
            /\ looked = Logo!Looked(sized, f) /\ tested = Logo!Followed(looked, f)
        BY <3>1 DEF looked, tested, Logo!Sampling
      <4>2. ReadyToTest(looked, frame)
        BY <4>1, <1>4, <1>5, <1>8, LookedReady DEF restarts
      <4> QED BY <4>1, <4>2, FollowedIs
    <3>2. CASE ~Logo!Sampling(sized, f)
      <4>1. tested = sized
        BY <3>2 DEF looked, tested
      <4> QED BY <4>1, <3>2, <1>4, <1>5, UntestedIs
    <3> QED BY <3>1, <3>2
  <2>2. f \in Nat /\ f > 0
    OBVIOUS
  <2>3. GoodAfter(Logo!Shown(tested, f), f)
    BY <2>1, <2>2, ShownIs
  <2>4. frame' = f /\ Logo!Become(Logo!Shown(tested, f))
    BY <1>8
  <2> HIDE DEF f
  <2> QED BY <2>2, <2>3, <2>4, <1>1, GoodNext
<1> QED BY <1>2, <1>7, <1>8

LEMMA FinishedIs ==
  ASSUME NEW s, NEW f \in Nat, GoodAfter(s, f)
  PROVE  LET r == IF s.enabled THEN Logo!Tested(s, f, FALSE) ELSE s
         IN  /\ Complete(r) /\ r.present = FALSE /\ Grounded(r, f)
             /\ twoPass => BlocksBehind(r, f)
<1> DEFINE r == IF s.enabled THEN Logo!Tested(s, f, FALSE) ELSE s
<1>1. /\ Shape(s) /\ Grounded(s, f) /\ Watched(s, f) /\ s.present \in BOOLEAN
      /\ Complete(s) /\ s.flags \in Seq(BOOLEAN)
  BY DEF GoodAfter, Common, Shape
<1>2. CASE ~s.enabled
  <2>1. r = s
    BY <1>2
  <2> HIDE DEF r
  <2>2. r.present = FALSE
    BY <2>1, <1>1, <1>2 DEF Watched
  <2> QED BY <2>1, <2>2, <1>1 DEF r, GoodAfter, InTwoPasses
<1>3. CASE s.enabled /\ ~s.present
  <2> DEFINE hit == FALSE
  <2>1. hit \in BOOLEAN /\ hit = s.present /\ r = Logo!Tested(s, f, hit)
    BY <1>1, <1>3
  <2> HIDE DEF hit, r
  <2>2. r = [s EXCEPT !.trend = 0]
    BY <2>1, <1>1, TestedIs
  <2>3. Shape(r) /\ r.present = s.present /\ r.flags = s.flags /\ r.blocks = s.blocks
    BY <2>2, <1>1, Untrended
  <2>4. Complete(r) /\ r.present = FALSE
    BY <2>3, <1>1, <1>3 DEF Shape
  <2>5. Grounded(r, f)
    BY <2>3, <1>1 DEF Grounded
  <2>6. twoPass => BlocksBehind(r, f)
    BY <2>3 DEF GoodAfter, InTwoPasses, BlocksBehind
  <2> QED BY <2>4, <2>5, <2>6 DEF r
<1>4. CASE s.enabled /\ s.present
  <2> DEFINE hit == FALSE
  <2>1. hit \in BOOLEAN /\ ~hit /\ r = Logo!Tested(s, f, hit)
    BY <1>4
  <2> HIDE DEF hit, r
  <2>2. r = Logo!Closed(s, f)
    BY <2>1, <1>1, <1>4, TestedIs
  <2> DEFINE to == f - Sample - ShrinkHead - ShrinkTail
  <2>3. /\ Shape(r) /\ r.present = FALSE /\ to \in Int
        /\ \/ r.flags = s.flags
           \/ FlagsSet(r.flags, s.flags, to, f - 1, FALSE)
    BY <2>2, <1>1, ClosedIs
  <2> HIDE DEF to
  <2>4. Grounded(r, f)
    <3>1. CASE r.flags = s.flags
      BY <3>1, <1>1 DEF Grounded
    <3>2. CASE FlagsSet(r.flags, s.flags, to, f - 1, FALSE)
      <4>1. f - 1 \in Int
        OBVIOUS
      <4> QED BY <4>1, <3>2, <2>3, <1>1, UnflaggedGrounded
    <3> QED BY <3>1, <3>2, <2>3
  <2>5. ASSUME twoPass PROVE BlocksBehind(r, f)
    <3>1. BlocksBehind(s, f) /\ StretchAhead(s, f, f)
      BY <2>5 DEF GoodAfter, InTwoPasses
    <3>2. /\ s.start \in Nat /\ s.start > 0
          /\ \A i \in DOMAIN s.blocks : s.blocks[i].to < s.start
          /\ \A x \in s.start..f : s.flags[x]
      BY <3>1, <1>4 DEF StretchAhead
    <3>3. \A x \in s.start .. f - 1 : s.flags[x]
      BY <3>2
    <3>4. Len(s.flags) >= f - 1 /\ f <= f
      BY <1>1 DEF Grounded
    <3> QED BY <3>1, <3>2, <3>3, <3>4, <2>2, <1>1, ClosedApart
  <2> QED BY <2>3, <2>4, <2>5 DEF r, Shape
<1> QED BY <1>2, <1>3, <1>4

\* A sequence without one of its elements.
LEMMA RemovedIs ==
  ASSUME NEW S, NEW q \in Seq(S), NEW k \in 1..Len(q)
  PROVE  LET r == SubSeq(q, 1, k - 1) \o SubSeq(q, k + 1, Len(q))
         IN  /\ r \in Seq(S) /\ Len(r) = Len(q) - 1 /\ DOMAIN r = 1..Len(q) - 1
             /\ \A i \in 1..Len(q) - 1 : r[i] = q[IF i < k THEN i ELSE i + 1]
<1> DEFINE a == SubSeq(q, 1, k - 1)
           b == SubSeq(q, k + 1, Len(q))
<1>1. Len(q) \in Nat /\ k \in Nat /\ k > 0 /\ k <= Len(q)
  OBVIOUS
<1>2. a \in Seq(S) /\ Len(a) = k - 1 /\ \A i \in 1..k - 1 : a[i] = q[i]
  BY <1>1
<1>3. b \in Seq(S) /\ Len(b) = Len(q) - k /\ \A i \in 1..Len(q) - k : b[i] = q[i + k]
  BY <1>1
<1> HIDE DEF a, b
<1> DEFINE r == a \o b
<1>4. /\ r \in Seq(S) /\ Len(r) = Len(a) + Len(b)
      /\ \A i \in 1..Len(a) + Len(b) : r[i] = IF i <= Len(a) THEN a[i] ELSE b[i - Len(a)]
  BY <1>2, <1>3, ConcatProperties
<1> HIDE DEF r
<1>5. Len(r) = Len(q) - 1 /\ DOMAIN r = 1..Len(r)
  BY <1>1, <1>2, <1>3, <1>4
<1>6. ASSUME NEW i \in 1..Len(q) - 1
      PROVE  r[i] = q[IF i < k THEN i ELSE i + 1]
  <2>1. CASE i < k
    <3>1. i \in 1..k - 1 /\ i <= Len(a) /\ i \in 1..Len(r)
      BY <2>1, <1>1, <1>2, <1>5
    <3> QED BY <3>1, <2>1, <1>2, <1>3, <1>4
  <2>2. CASE ~(i < k)
    <3>1. i - (k - 1) \in 1..Len(q) - k /\ ~(i <= Len(a)) /\ i \in 1..Len(r)
          /\ (i - (k - 1)) + k = i + 1
      BY <2>2, <1>1, <1>2, <1>5
    <3>2. r[i] = b[i - (k - 1)]
      BY <3>1, <1>2, <1>3, <1>4
    <3> QED BY <3>1, <3>2, <2>2, <1>3
  <2> QED BY <2>1, <2>2
<1> QED BY <1>4, <1>5, <1>6 DEF r, a, b

\* What holds throughout: the state after each frame, and what the end leaves of it.
LogoInv ==
  /\ frame \in Nat
  /\ ~ended => GoodAfter(Logo!State, frame) /\ turn = 0
  /\ ended => /\ present = FALSE /\ Grounded(Logo!State, frame)
              /\ twoPass => BlocksBehind(Logo!State, frame) /\ turn \in 0..Len(blocks)

LEMMA TidyGood ==
  ASSUME LogoInv, Logo!Tidy, ended, twoPass
  PROVE  BlocksBehind(Logo!State, frame)' /\ turn' \in 0..Len(blocks')
<1> DEFINE removed == SubSeq(blocks, 1, turn - 1) \o SubSeq(blocks, turn + 1, Len(blocks))
           S == [from : Nat, to : Nat]
<1>1. /\ blocks \in Seq(S)
      /\ \A i \in DOMAIN blocks : blocks[i].from < blocks[i].to /\ blocks[i].from > 0
      /\ \A i, j \in DOMAIN blocks : i < j => blocks[i].to < blocks[j].from
      /\ \A i \in DOMAIN blocks : blocks[i].to + Sample <= frame
      /\ \A i \in DOMAIN blocks : \A x \in blocks[i].from .. blocks[i].to - 1 : flags[x]
  BY DEF LogoInv, BlocksBehind, Logo!State
<1>2. turn \in 1..Len(blocks) /\ Len(blocks) \in Nat /\ DOMAIN blocks = 1..Len(blocks)
  <2> HIDE DEF S
  <2>1. Len(blocks) \in Nat /\ DOMAIN blocks = 1..Len(blocks)
    BY <1>1
  <2> QED BY <2>1 DEF LogoInv, Logo!Tidy
<1>3. (Logo!State.blocks)' = blocks' /\ (Logo!State.flags)' = flags /\ frame' = frame
  BY DEF Logo!Tidy, Logo!State
<1>4. turn' = turn - 1 /\ (blocks' = blocks \/ blocks' = removed)
  BY DEF Logo!Tidy
<1>5. CASE blocks' = blocks
  <2>1. BlocksBehind(Logo!State, frame)'
    BY <1>1, <1>3, <1>5 DEF BlocksBehind
  <2> QED BY <2>1, <1>2, <1>4, <1>5
<1>6. CASE blocks' = removed
  <2> DEFINE new == blocks'
             at0(i) == IF i < turn THEN i ELSE i + 1
  <2>1. /\ new \in Seq(S) /\ Len(new) = Len(blocks) - 1 /\ DOMAIN new = 1..Len(blocks) - 1
        /\ \A i \in 1..Len(blocks) - 1 : new[i] = blocks[at0(i)]
    <3> HIDE DEF S
    <3>1. blocks \in Seq(S) /\ turn \in 1..Len(blocks)
      BY <1>1, <1>2
    <3>2. \A r : r = removed =>
            /\ r \in Seq(S) /\ Len(r) = Len(blocks) - 1 /\ DOMAIN r = 1..Len(blocks) - 1
            /\ \A i \in 1..Len(blocks) - 1 : r[i] = blocks[at0(i)]
      <4> HIDE DEF at0
      <4>1. /\ removed \in Seq(S) /\ Len(removed) = Len(blocks) - 1 /\ DOMAIN removed = 1..Len(blocks) - 1
            /\ \A i \in 1..Len(blocks) - 1 : removed[i] = blocks[IF i < turn THEN i ELSE i + 1]
        BY <3>1, RemovedIs, Zenon
      <4>2. \A i \in 1..Len(blocks) - 1 : removed[i] = blocks[at0(i)]
        BY <4>1, Zenon DEF at0
      <4> HIDE DEF removed
      <4> QED BY <4>1, <4>2
    <3> HIDE DEF removed, at0
    <3> QED BY <3>2, <1>6
  <2>2. /\ \A i \in 1..Len(blocks) - 1 : at0(i) \in DOMAIN blocks
        /\ \A i, j \in 1..Len(blocks) - 1 : i < j => at0(i) < at0(j)
    BY <1>2
  <2> HIDE DEF new, at0
  <2>3. /\ \A i \in DOMAIN new : new[i].from < new[i].to /\ new[i].from > 0
        /\ \A i, j \in DOMAIN new : i < j => new[i].to < new[j].from
        /\ \A i \in DOMAIN new : new[i].to + Sample <= frame
        /\ \A i \in DOMAIN new : \A x \in new[i].from .. new[i].to - 1 : flags[x]
    BY <1>1, <2>1, <2>2
  <2>4. BlocksBehind(Logo!State, frame)'
    BY <1>3, <2>1, <2>3 DEF BlocksBehind, new
  <2>5. turn' \in 0..Len(blocks')
    <3>1. Len(new) = Len(blocks) - 1
      BY <2>1
    <3> QED BY <3>1, <1>2, <1>4 DEF new
  <2> QED BY <2>4, <2>5
<1> QED BY <1>4, <1>5, <1>6

LEMMA LogoInvInit == DetectorInit => LogoInv
<1> SUFFICES ASSUME DetectorInit PROVE LogoInv
  OBVIOUS
<1>1. Logo!Init
  BY DEF DetectorInit
<1>2. /\ frame = 0 /\ enabled = TRUE /\ mask = 0 /\ second = FALSE /\ pictures = <<>>
      /\ present = FALSE /\ trend = 0 /\ blocks = <<>> /\ flags = <<>> /\ ended = FALSE
      /\ turn = 0
  BY <1>1 DEF Logo!Init
<1>3. Complete(Logo!State)
  BY DEF Complete, Logo!State, Fields
<1>4. Shape(Logo!State)
  <2>1. IsSeq(<<>>) /\ <<>> \in Seq(BOOLEAN)
    BY EmptyIsSeq
  <2> QED BY <1>2, <1>3, <2>1 DEF Shape, Logo!State
<1>5. GoodAfter(Logo!State, 0)
  BY <1>2, <1>4, NothingYet DEF Logo!State
<1> QED BY <1>2, <1>5 DEF LogoInv

LEMMA LogoInvNext == LogoInv /\ [DetectorNext]_allVars => LogoInv'
<1> SUFFICES ASSUME LogoInv, [DetectorNext]_allVars PROVE LogoInv'
  OBVIOUS
<1>1. CASE UNCHANGED logoVars
  <2>1. /\ (Logo!State)' = Logo!State
        /\ UNCHANGED <<recording, twoPass, frame, ended, turn, present, blocks>>
    BY <1>1 DEF logoVars, Logo!State
  <2>2. Grounded(Logo!State, frame) => Grounded(Logo!State, frame)'
    BY <2>1, SampledSame DEF Grounded
  <2>3. BlocksBehind(Logo!State, frame) => BlocksBehind(Logo!State, frame)'
    BY <2>1 DEF BlocksBehind
  <2>4. GoodAfter(Logo!State, frame) => GoodAfter(Logo!State, frame)'
    <3>1. Logo!Become(Logo!State)
      BY <1>1 DEF logoVars, Logo!Become, Logo!State
    <3> QED BY <3>1, <2>1, GoodNext
  <2> QED BY <2>1, <2>2, <2>3, <2>4 DEF LogoInv
<1>2. CASE Logo!Decode
  BY <1>2, DecodeGood DEF LogoInv, Logo!Decode
<1>3. CASE Logo!Finish
  <2>1. GoodAfter(Logo!State, frame) /\ frame \in Nat /\ ended' = TRUE /\ frame' = frame
        /\ UNCHANGED <<recording, twoPass>>
    BY <1>3 DEF LogoInv, Logo!Finish
  <2> DEFINE s == IF enabled THEN Logo!Tested(Logo!State, frame, FALSE) ELSE Logo!State
  <2>2. Logo!Become(s) /\ turn' = IF enabled THEN Len(s.blocks) ELSE 0
    BY <1>3 DEF Logo!Finish
  <2>3. Logo!State.enabled = enabled
    BY DEF Logo!State
  <2>4. /\ Complete(s) /\ s.present = FALSE /\ Grounded(s, frame)
        /\ twoPass => BlocksBehind(s, frame)
    BY <2>1, <2>3, FinishedIs
  <2> HIDE DEF s
  <2>5. (Logo!State)' = s /\ present' = s.present /\ blocks' = s.blocks
    BY <2>2, <2>4, BecomeIs DEF Logo!Become
  <2>6. Grounded(Logo!State, frame)'
    BY <2>1, <2>4, <2>5, SampledSame DEF Grounded
  <2>7. ASSUME twoPass PROVE BlocksBehind(Logo!State, frame)' /\ turn' \in 0..Len(blocks')
    <3>1. BlocksBehind(s, frame)
      BY <2>7, <2>4
    <3>2. BlocksBehind(Logo!State, frame)'
      BY <3>1, <2>1, <2>5 DEF BlocksBehind
    <3>3. Len(s.blocks) \in Nat
      BY <3>1 DEF BlocksBehind
    <3> QED BY <3>2, <3>3, <2>2, <2>5
  <2> QED BY <2>1, <2>4, <2>5, <2>6, <2>7 DEF LogoInv
<1>4. CASE Logo!Tidy
  <2>1. ended
    BY <1>4 DEF LogoInv, Logo!Tidy
  <2>2. UNCHANGED <<recording, twoPass, frame, present, flags, ended>>
    BY <1>4 DEF Logo!Tidy
  <2>3. Grounded(Logo!State, frame)'
    BY <2>1, <2>2, SampledSame DEF LogoInv, Grounded, Logo!State
  <2>4. twoPass => BlocksBehind(Logo!State, frame)' /\ turn' \in 0..Len(blocks')
    BY <1>4, <2>1, TidyGood
  <2> QED BY <2>1, <2>2, <2>3, <2>4 DEF LogoInv
<1> QED BY <1>1, <1>2, <1>3, <1>4
        DEF DetectorNext, WorkersStep, LogoStep, Logo!Next, allVars

LEMMA LogoInvSound == LogoInv => LogoSound
<1> SUFFICES ASSUME LogoInv PROVE LogoSound
  OBVIOUS
<1>1. Logo!FlagsGrounded
  <2>1. Grounded(Logo!State, frame)
    BY DEF LogoInv, GoodAfter, Common
  <2> QED BY <2>1 DEF Grounded, Logo!State, Logo!FlagsGrounded
<1>2. ASSUME twoPass PROVE Logo!BlocksApart /\ Logo!BlocksFlagged /\ Logo!NoneMissed
  <2>1. BlocksBehind(Logo!State, frame)
    BY <1>2 DEF LogoInv, GoodAfter, InTwoPasses
  <2>2. present => StretchAhead(Logo!State, frame, frame)
    BY <1>2 DEF LogoInv, GoodAfter, InTwoPasses
  <2>3. Logo!BlocksApart
    BY <2>1, <2>2 DEF BlocksBehind, StretchAhead, Logo!State, Logo!BlocksApart
  <2>4. Logo!BlocksFlagged
    BY <2>1 DEF BlocksBehind, Logo!State, Logo!BlocksFlagged
  <2>5. Logo!NoneMissed
    BY <2>2 DEF StretchAhead, Logo!State, Logo!NoneMissed
  <2> QED BY <2>3, <2>4, <2>5
<1> QED BY <1>1, <1>2 DEF LogoSound

\* However the logo comes and goes, a frame is flagged only in a sample that showed a logo; and
\* when the analysis takes two passes the logo blocks are not empty, in order, behind the open
\* stretch and flagged throughout, and no sample of the open one missed the logo.
THEOREM LogoIsSound == DetectorSpec => []LogoSound
<1>1. DetectorSpec => []LogoInv
  BY LogoInvInit, LogoInvNext, PTL DEF DetectorSpec
<1> QED BY <1>1, LogoInvSound, PTL
=============================================================================
