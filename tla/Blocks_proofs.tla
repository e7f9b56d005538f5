--------------------------- MODULE Blocks_proofs ----------------------------
(***************************************************************************)
(* For any recording and any candidates: the blocks cover the recording    *)
(* without gap or overlap from the moment all candidates are grouped, and  *)
(* once the logo is looked at no cut is left with the logo on both sides.  *)
(***************************************************************************)
EXTENDS Blocks, SequenceTheorems, WellFoundedInduction, TLAPS

GroupType ==
  [start : Nat, end : Nat, cause : SUBSET Causes, silent : Nat, picture : Nat, first : Nat, last : Nat]
BlockType == [start : Int, end : Int, head : Int, tail : Int, cause : SUBSET Causes]

Typed ==
  /\ cands \in [1..N -> SUBSET Causes] /\ group \in GroupType /\ prev \in [start : Int, head : Int]
  /\ blocks \in Seq(BlockType) /\ at \in Int

\* The first frame that no block has.
FirstFree == prev.start - prev.head

\* The blocks made so far reach up to it.
Reached == IF blocks = <<>> THEN FirstFree = 1 ELSE Cover(FirstFree - 1)

\* The end of the recording waits among the candidates.
EndWaits == "black" \in cands[N]

\* The pictures of the group lie in it, and silence is no more than its frames.
GroupOK ==
  /\ group.cause # {} /\ group.start <= group.end /\ group.silent <= group.end - group.start + 1
  /\ group.cause = {"ratio"} => group.silent = 0 /\ group.picture = 0
  /\ group.picture = 0 => group.first = 0
  /\ group.picture > 0 => group.start <= group.first /\ group.first <= group.last /\ group.last <= group.end

\* The group that took the end reaches it, and keeps it when it is narrowed.
EndTaken ==
  /\ cands[N] = {} /\ group.end = N
  /\ IF group.picture > 0 THEN group.last = N ELSE group.silent = 0

Starting == pc = "validate" => blocks = <<>> /\ FirstFree = 1
Opening ==
  pc = "open" => Reached /\ EndWaits /\ (blocks # <<>> => \A f \in Ahead : FirstFree < f)
Pulling ==
  pc = "pull" => /\ Reached /\ GroupOK /\ (EndWaits \/ EndTaken)
                 /\ \A f \in Ahead : group.end < f
                 /\ blocks # <<>> => FirstFree < group.start
Index ==
  /\ pc \in {"combine", "logos"} => at <= Len(blocks)
  /\ pc = "glitches" => at >= 1

IInv == Typed /\ Starting /\ Opening /\ Pulling /\ Index /\ BlocksTile

-----------------------------------------------------------------------------
(* Groups. *)

\* The core of a group lies in it, and has the end of the recording if the group took it.
LEMMA CoreBounds ==
  ASSUME Typed, GroupOK
  PROVE  /\ Core.from \in Int /\ Core.to \in Int
         /\ group.start <= Core.from /\ Core.from <= Core.to /\ Core.to <= group.end
         /\ EndTaken => Core.to = N
<1> USE DEF Typed, GroupType, GroupOK
<1>1. CASE group.picture > 0 /\ 2 * group.silent > 3 * group.picture
  BY <1>1 DEF Core, EndTaken
<1>2. CASE group.picture = 0 /\ group.silent > Many
  <2> DEFINE half == group.silent \div 2
  <2>1. half \in Nat /\ 2 * half <= group.silent /\ half >= 1
    BY <1>2, BlocksAssumption
  <2>2. Core = [from |-> group.start - 1 + half, to |-> group.end + 1 - half]
    BY <1>2 DEF Core
  <2>3. Many \in Nat \ {0}
    BY BlocksAssumption
  <2> HIDE DEF half
  <2> QED BY <1>2, <2>1, <2>2, <2>3 DEF EndTaken
<1>3. CASE ~(group.picture > 0 /\ 2 * group.silent > 3 * group.picture)
           /\ ~(group.picture = 0 /\ group.silent > Many)
  BY <1>3 DEF Core, EndTaken
<1> QED BY <1>1, <1>2, <1>3

\* A cut has its frames on its two sides.
LEMMA EndedBounds ==
  ASSUME Typed, GroupOK
  PROVE  /\ Half \in Int /\ Core.from <= Core.from + Half /\ Core.from + Half <= Core.to
         /\ Ended \in BlockType /\ Ended.start = FirstFree
         /\ Core.to = N => Ended.end = N
         /\ Core.to # N => Ended.end = Core.from + Half - 1
<1> DEFINE width == Core.to - Core.from + 1
<1>1. width \in Int /\ width >= 1
  BY CoreBounds
<1>2. width \div 2 \in Int /\ 0 <= width \div 2 /\ width \div 2 <= width - 1
  BY <1>1
<1>3. Half = width \div 2
  BY DEF Half
<1>4. N \in Int /\ prev.start \in Int /\ prev.head \in Int /\ group.cause \in SUBSET Causes
  BY BlocksAssumption DEF Typed, GroupType
<1> HIDE DEF width
<1>5. Core.from <= Core.from + Half /\ Core.from + Half <= Core.to
  BY <1>1, <1>2, <1>3, CoreBounds DEF width
<1> QED BY <1>2, <1>3, <1>4, <1>5, CoreBounds DEF Ended, BlockType, FirstFree

LEMMA WithGroup ==
  ASSUME Typed, GroupOK, NEW f \in 1..N, f > group.end, cands[f] # {}
  PROVE  /\ With(f, cands[f]) \in GroupType
         /\ GroupOK' \/ group' # With(f, cands[f])
<1> DEFINE c == cands[f]
<1>1. c \in SUBSET Causes /\ f \in Nat
  BY BlocksAssumption DEF Typed
<1>2. With(f, c) \in GroupType
  BY <1>1 DEF With, GroupType, Typed
<1>3. ASSUME group' = With(f, c) PROVE GroupOK'
  <2> USE DEF Typed, GroupType
  <2>1. CASE c = {"ratio"}
    BY <1>1, <1>3, <2>1 DEF With, GroupOK, Picture
  <2>2. CASE c # {"ratio"} /\ group.cause = {"ratio"}
    BY <1>1, <1>3, <2>2 DEF With, GroupOK, Picture
  <2>3. CASE c # {"ratio"} /\ group.cause # {"ratio"}
    <3>1. /\ group'.start = group.start /\ group'.end = f /\ group'.cause = group.cause \cup c
          /\ group'.silent \in {group.silent, group.silent + 1}
      BY <1>3, <2>3 DEF With
    <3>2. group'.cause # {} /\ group'.cause # {"ratio"}
      BY <3>1, <2>3 DEF GroupOK
    <3>3. /\ group.silent \in Int /\ group.picture \in Nat /\ group.first \in Int /\ group.last \in Int
          /\ group.start \in Int /\ group.end \in Int /\ f \in Int
      BY <1>1
    <3>4. group'.start <= group'.end /\ group'.silent <= group'.end - group'.start + 1
      BY <3>1, <3>3 DEF GroupOK
    <3>5. CASE c \cap Picture = {}
      <4>1. group'.picture = group.picture /\ group'.first = group.first /\ group'.last = group.last
        BY <1>3, <3>3, <3>5 DEF With
      <4> QED BY <3>1, <3>2, <3>3, <3>4, <4>1 DEF GroupOK
    <3>6. CASE c \cap Picture # {}
      <4>1. /\ group'.picture = group.picture + 1 /\ group'.last = f
            /\ group'.first = IF group.first = 0 THEN f ELSE group.first
        BY <1>3, <3>6 DEF With
      <4> QED BY <3>1, <3>2, <3>3, <3>4, <4>1 DEF GroupOK
    <3> QED BY <3>5, <3>6
  <2> QED BY <2>1, <2>2, <2>3
<1> QED BY <1>2, <1>3

-----------------------------------------------------------------------------
(* Sequences of blocks. *)

\* What Joined makes: the blocks before as they are, one that reaches over the joined, and
\* the blocks after, moved down.
LEMMA JoinedShape ==
  ASSUME blocks \in Seq(BlockType), NEW n \in {1, 2}, NEW i \in Nat, i >= 1, i + n <= Len(blocks),
         NEW cause \in SUBSET Causes, blocks' = Joined(i, n, cause)
  PROVE  /\ blocks' \in Seq(BlockType) /\ Len(blocks') = Len(blocks) - n
         /\ blocks'[i].start = blocks[i].start /\ blocks'[i].end = blocks[i + n].end
         /\ \A k \in 1..(Len(blocks) - n) : k < i => blocks'[k] = blocks[k]
         /\ \A k \in 1..(Len(blocks) - n) : k > i => blocks'[k] = blocks[k + n]
<1> DEFINE old == Len(blocks)
           new == old - n
           joined == [blocks[i] EXCEPT !.end = blocks[i + n].end, !.tail = blocks[i + n].tail, !.cause = cause]
<1>1. old \in Nat /\ new \in Nat /\ new >= i /\ \A k \in 1..old : blocks[k] \in BlockType
  BY ElementOfSeq
<1>2. joined \in BlockType /\ joined.start = blocks[i].start /\ joined.end = blocks[i + n].end
  <2>1. blocks[i] \in BlockType /\ blocks[i + n] \in BlockType
    BY <1>1
  <2> QED BY <2>1 DEF BlockType
<1>3. blocks' = [k \in 1..new |-> IF k < i THEN blocks[k] ELSE IF k = i THEN joined ELSE blocks[k + n]]
  BY DEF Joined
<1> HIDE DEF joined
<1>4. /\ \A k \in 1..new : k < i => blocks'[k] = blocks[k]
      /\ i \in 1..new /\ blocks'[i] = joined
      /\ \A k \in 1..new : k > i => blocks'[k] = blocks[k + n]
  BY <1>1, <1>3
<1>5. \A k \in 1..new : k + n \in 1..old /\ k \in 1..old
  BY <1>1
<1>6. \A k \in 1..new : blocks'[k] \in BlockType
  BY <1>1, <1>2, <1>3, <1>5
<1>7. blocks' \in Seq(BlockType) /\ Len(blocks') = new
  BY <1>1, <1>3, <1>6
<1> QED BY <1>2, <1>4, <1>7

\* Joining a block with the next or the next two leaves the same frames covered.
LEMMA JoinedCover ==
  ASSUME blocks \in Seq(BlockType), NEW to, Cover(to), NEW n \in {1, 2}, NEW i \in Nat, i >= 1,
         i + n <= Len(blocks), NEW cause \in SUBSET Causes, blocks' = Joined(i, n, cause)
  PROVE  blocks' \in Seq(BlockType) /\ Len(blocks') = Len(blocks) - n /\ Cover(to)'
<1> DEFINE old == Len(blocks)
           new == old - n
<1>1. old \in Nat /\ new \in Nat /\ new >= i /\ \A k \in 1..old : blocks[k] \in BlockType
  BY ElementOfSeq
<1>2. /\ blocks'[i].start = blocks[i].start /\ blocks'[i].end = blocks[i + n].end
      /\ blocks' \in Seq(BlockType) /\ Len(blocks') = new
  BY JoinedShape
<1>4. /\ \A k \in 1..new : k < i => blocks'[k] = blocks[k]
      /\ \A k \in 1..new : k > i => blocks'[k] = blocks[k + n]
  BY JoinedShape
<1> HIDE DEF old, new
<1>5. /\ \A k \in 1..new : k + n \in 1..old /\ k \in 1..old
      /\ i \in 1..new /\ i + n \in 1..old /\ i + 1 \in 1..old /\ new + n = old
  BY <1>1 DEF new, old
<1>8. \A k \in 1..old : blocks[k].start \in Int /\ blocks[k].end \in Int /\ blocks[k].start <= blocks[k].end
  BY <1>1 DEF BlockType, Cover, old
<1>9. \A k \in 1..(old - 1) : blocks[k + 1].start = blocks[k].end + 1
  BY DEF Cover, old
<1>10. blocks[i].start <= blocks[i + n].end
  <2>1. CASE n = 1
    BY <2>1, <1>1, <1>5, <1>8, <1>9
  <2>2. CASE n = 2
    <3>1. i \in 1..old - 1 /\ i + 1 \in 1..old - 1 /\ i + 2 \in 1..old
      BY <2>2, <1>1, <1>5
    <3>2. blocks[i + 1].start = blocks[i].end + 1
      BY <3>1, <1>9
    <3>3. blocks[i + 1 + 1].start = blocks[i + 1].end + 1
      BY <3>1, <1>9
    <3>4. i + 1 + 1 = i + 2
      OBVIOUS
    <3>5. /\ blocks[i].start <= blocks[i].end /\ blocks[i + 1].start <= blocks[i + 1].end
          /\ blocks[i + 2].start <= blocks[i + 2].end
      BY <3>1, <1>5, <1>8
    <3>6. /\ blocks[i].start \in Int /\ blocks[i].end \in Int /\ blocks[i + 1].start \in Int
          /\ blocks[i + 1].end \in Int /\ blocks[i + 2].start \in Int /\ blocks[i + 2].end \in Int
      BY <3>1, <1>5, <1>8
    <3> QED BY <2>2, <3>2, <3>3, <3>4, <3>5, <3>6
  <2> QED BY <2>1, <2>2
<1>11. blocks' # <<>> /\ blocks'[1].start = 1
  BY <1>1, <1>2, <1>4, <1>5, <1>2 DEF Cover
<1>12. blocks'[new].end = to
  <2>1. blocks[old].end = to
    BY DEF Cover, old
  <2>2. CASE new = i
    BY <2>1, <2>2, <1>2, <1>4, <1>5
  <2>3. CASE new # i
    <3>1. new > i /\ new \in 1..new
      BY <2>3, <1>1, <1>5
    <3> QED BY <3>1, <2>1, <1>4, <1>5
  <2> QED BY <2>2, <2>3
<1>13. ASSUME NEW k \in 1..new PROVE blocks'[k].start <= blocks'[k].end
  <2>1. CASE k < i
    BY <2>1, <1>4, <1>5, <1>8
  <2>2. CASE k = i
    BY <2>2, <1>2, <1>4, <1>10
  <2>3. CASE k > i
    BY <2>3, <1>4, <1>5, <1>8
  <2> QED BY <2>1, <2>2, <2>3
<1>14. ASSUME NEW k \in 1..(new - 1) PROVE blocks'[k + 1].start = blocks'[k].end + 1
  <2>1. k \in 1..new /\ k + 1 \in 1..new /\ k \in 1..(old - 1) /\ k + n \in 1..(old - 1) /\ (k + n) + 1 = (k + 1) + n
    BY <1>1 DEF new
  <2>6. blocks[k + 1].start = blocks[k].end + 1 /\ blocks[(k + n) + 1].start = blocks[k + n].end + 1
    BY <2>1, <1>9
  <2>2. CASE k + 1 < i
    <3>1. k < i
      BY <2>1, <2>2
    <3>2. blocks'[k] = blocks[k] /\ blocks'[k + 1] = blocks[k + 1]
      BY <3>1, <2>1, <2>2, <1>4
    <3> QED BY <3>2, <2>6
  <2>3. CASE k + 1 = i
    <3>1. k < i
      BY <2>1, <2>3
    <3>2. blocks'[k] = blocks[k] /\ blocks'[k + 1].start = blocks[k + 1].start
      BY <3>1, <2>1, <2>3, <1>2, <1>4
    <3> QED BY <3>2, <2>6
  <2>4. CASE k = i
    <3>1. k + 1 > i
      BY <2>1, <2>4
    <3>2. blocks'[k].end = blocks[k + n].end /\ blocks'[k + 1] = blocks[(k + n) + 1]
      BY <3>1, <2>1, <2>4, <1>2, <1>4
    <3> QED BY <3>2, <2>6
  <2>5. CASE k > i
    <3>1. k + 1 > i
      BY <2>5, <2>1
    <3>2. blocks'[k] = blocks[k + n] /\ blocks'[k + 1] = blocks[(k + n) + 1]
      BY <3>1, <2>1, <2>5, <1>4
    <3> QED BY <3>2, <2>1, <1>9
  <2> QED BY <2>1, <2>2, <2>3, <2>4, <2>5, <1>1
<1> QED BY <1>2, <1>11, <1>12, <1>13, <1>14 DEF Cover, new, old

\* A block put after the others extends what they cover.
LEMMA AppendCover ==
  ASSUME Typed, Reached, NEW b \in BlockType, b.start = FirstFree, b.start <= b.end, blocks' = Append(blocks, b)
  PROVE  blocks' \in Seq(BlockType) /\ blocks' # <<>> /\ Len(blocks') = Len(blocks) + 1 /\ Cover(b.end)'
<1>1. /\ blocks \in Seq(BlockType) /\ blocks' \in Seq(BlockType) /\ Len(blocks') = Len(blocks) + 1
      /\ \A k \in 1..Len(blocks) : blocks'[k] = blocks[k]
      /\ blocks'[Len(blocks) + 1] = b /\ Len(blocks) \in Nat
  BY AppendProperties DEF Typed
<1>2. blocks' # <<>>
  BY <1>1
<1>3. CASE blocks = <<>>
  BY <1>1, <1>2, <1>3 DEF Reached, Cover
<1>4. CASE blocks # <<>>
  <2> DEFINE n == Len(blocks)
  <2>1. n \in Nat /\ n >= 1 /\ Cover(FirstFree - 1)
    BY <1>1, <1>4, EmptySeq DEF Reached
  <2>2. \A k \in 1..n : blocks'[k] = blocks[k]
    BY <1>1
  <2>3. blocks'[1].start = 1 /\ blocks'[n].end = FirstFree - 1
    BY <2>1, <2>2 DEF Cover
  <2>4. \A k \in 1..(n + 1) : blocks'[k].start <= blocks'[k].end
    BY <1>1, <2>1, <2>2 DEF Cover
  <2>5. \A k \in 1..n : blocks'[k + 1].start = blocks'[k].end + 1
    <3>1. \A k \in 1..(n - 1) : blocks'[k + 1].start = blocks'[k].end + 1
      BY <2>1, <2>2 DEF Cover
    <3>2. blocks'[n + 1].start = blocks'[n].end + 1
      BY <1>1, <2>1, <2>3 DEF FirstFree, Typed
    <3> QED BY <3>1, <3>2, <2>1
  <2> QED BY <1>1, <1>2, <2>1, <2>3, <2>4, <2>5 DEF Cover
<1> QED BY <1>3, <1>4

-----------------------------------------------------------------------------
(* Every step keeps the invariant. *)

LEMMA InitIInv == Init => IInv
<1> SUFFICES ASSUME Init PROVE IInv
  OBVIOUS
<1>1. NoGroup \in GroupType
  BY DEF NoGroup, GroupType
<1> QED BY <1>1, BlocksAssumption
        DEF Init, IInv, Typed, Starting, Opening, Pulling, Index, BlocksTile, FirstFree

LEMMA ValidateIInv == IInv /\ Validate => IInv'
<1> SUFFICES ASSUME IInv, Validate PROVE IInv'
  OBVIOUS
<1> USE DEF Validate, IInv
<1>1. PICK doubtful \in SUBSET {"flat", "scene", "silence"} :
        cands' = [f \in 1..N |-> (cands[f] \ doubtful) \cup (IF f = N THEN {"black"} ELSE {})]
  OBVIOUS
<1>2. N \in 1..N /\ cands' \in [1..N -> SUBSET Causes] /\ "black" \in cands'[N]
  BY <1>1, BlocksAssumption DEF Typed, Causes, Picture
<1>3. Typed'
  BY <1>2 DEF Typed, building
<1>4. Opening'
  BY <1>2 DEF Opening, Reached, EndWaits, Starting, FirstFree
<1> QED BY <1>3, <1>4 DEF Starting, Pulling, Index, BlocksTile

LEMMA OpenGroupIInv == IInv /\ OpenGroup => IInv'
<1> SUFFICES ASSUME IInv, OpenGroup PROVE IInv'
  OBVIOUS
<1> USE DEF OpenGroup, IInv
<1>1. PICK f \in 1..N :
        /\ Coming(f)
        /\ group' = [NoGroup EXCEPT !.start = f, !.end = f, !.cause = cands[f]]
        /\ cands' = [cands EXCEPT ![f] = {}]
  OBVIOUS
<1>2. f \in Nat /\ N \in 1..N /\ cands[f] \in SUBSET Causes /\ cands[f] # {} /\ f \in Ahead
  BY <1>1, BlocksAssumption DEF Typed, Coming, Ahead
<1>3. group' = [start |-> f, end |-> f, cause |-> cands[f], silent |-> 0, picture |-> 0, first |-> 0, last |-> 0]
  BY <1>1 DEF NoGroup
<1>11. /\ group'.start = f /\ group'.end = f /\ group'.cause = cands[f]
      /\ group'.silent = 0 /\ group'.picture = 0 /\ group'.first = 0
  BY <1>3
<1>4. Typed'
  BY <1>1, <1>2, <1>3 DEF Typed, GroupType
<1>5. GroupOK'
  BY <1>2, <1>11 DEF GroupOK
<1>6. (EndWaits \/ EndTaken)'
  <2>1. CASE f = N
    <3>1. cands'[N] = {}
      BY <2>1, <1>1, <1>2 DEF Typed
    <3> QED BY <2>1, <3>1, <1>2, <1>11 DEF EndTaken
  <2>2. CASE f # N
    BY <2>2, <1>1, <1>2 DEF EndWaits, Typed, Opening
  <2> QED BY <2>1, <2>2
<1>7. \A g \in Ahead' : group'.end < g
  BY <1>1, <1>2, <1>3 DEF Ahead, Coming, Typed
<1>8. blocks' # <<>> => FirstFree' < group'.start
  BY <1>2, <1>3 DEF Opening, FirstFree
<1>9. Reached'
  BY DEF Opening, Reached, FirstFree, Cover
<1> QED BY <1>4, <1>5, <1>6, <1>7, <1>8, <1>9 DEF Starting, Opening, Pulling, Index, BlocksTile

LEMMA PullIInv == IInv /\ Pull => IInv'
<1> SUFFICES ASSUME IInv, Pull PROVE IInv'
  OBVIOUS
<1> USE DEF Pull, IInv
<1>1. PICK f \in 1..N : Near(f) /\ group' = With(f, cands[f]) /\ cands' = [cands EXCEPT ![f] = {}]
  OBVIOUS
<1>2. /\ f \in Nat /\ N \in 1..N /\ N \in Nat /\ cands[f] \in SUBSET Causes /\ cands[f] # {} /\ f \in Ahead
      /\ \A g \in Ahead : f <= g
  BY <1>1, BlocksAssumption DEF Typed, Near, Coming, Ahead
<1>3. GroupOK /\ f > group.end /\ group \in GroupType
  BY <1>2 DEF Pulling, Typed, GroupType
<1>4. group' \in GroupType /\ GroupOK'
  BY <1>1, <1>2, <1>3, WithGroup
<1>5. Typed'
  BY <1>1, <1>2, <1>4 DEF Typed
<1>6. EndWaits
  BY <1>2, <1>3 DEF Pulling, EndTaken, GroupType
<1>7. (EndWaits \/ EndTaken)'
  <2>1. CASE f = N
    <3>1. "black" \in cands[f] /\ cands[f] \cap Picture # {} /\ cands[f] # {"ratio"} /\ cands'[N] = {}
      BY <2>1, <1>1, <1>2, <1>6 DEF EndWaits, Picture, Typed
    <3>2. group'.end = N /\ group'.last = N /\ group'.picture = group.picture + 1
      BY <2>1, <3>1, <1>1 DEF With
    <3> QED BY <3>1, <3>2, <1>3 DEF EndTaken, GroupType
  <2>2. CASE f # N
    BY <2>2, <1>1, <1>2, <1>6 DEF EndWaits, Typed
  <2> QED BY <2>1, <2>2
<1>8. \A g \in Ahead' : group'.end < g
  <2>1. \A g \in Ahead' : g \in Nat /\ f < g
    BY <1>1, <1>2, BlocksAssumption DEF Ahead, Typed
  <2>2. group'.end <= f /\ group'.end \in Nat
    BY <1>1, <1>2, <1>3, <1>4 DEF With, GroupType
  <2> QED BY <2>1, <2>2, <1>2
<1>9. blocks' # <<>> => FirstFree' < group'.start
  <2>1. group'.start >= group.start
    BY <1>1, <1>2, <1>3 DEF With, GroupType, GroupOK
  <2>2. FirstFree \in Int /\ FirstFree' = FirstFree
    BY DEF FirstFree, Typed
  <2> QED BY <2>1, <2>2, <1>3, <1>4 DEF Pulling, GroupType
<1>10. Reached'
  BY DEF Pulling, Reached, FirstFree, Cover
<1> QED BY <1>4, <1>5, <1>7, <1>8, <1>9, <1>10 DEF Starting, Opening, Pulling, Index, BlocksTile

LEMMA CloseGroupIInv == IInv /\ CloseGroup => IInv'
<1> SUFFICES ASSUME IInv, CloseGroup PROVE IInv'
  OBVIOUS
<1> USE DEF IInv
<1> DEFINE core == Core.from + Half
<1>1. /\ Reached /\ GroupOK /\ (EndWaits \/ EndTaken) /\ (blocks # <<>> => FirstFree < group.start)
      /\ \A f \in Ahead : group.end < f
  BY DEF Pulling, CloseGroup
<1>2. /\ Core.from \in Int /\ Core.to \in Int /\ Half \in Int
      /\ core \in Int /\ group.start <= Core.from /\ Core.from <= core /\ core <= Core.to
      /\ Core.to <= group.end
      /\ EndTaken => Core.to = N
  BY <1>1, CoreBounds, EndedBounds
<1>3. /\ Ended \in BlockType /\ Ended.start = FirstFree
      /\ Core.to = N => Ended.end = N
      /\ Core.to # N => Ended.end = core - 1
  <2>1. Ended \in BlockType /\ Ended.start = FirstFree /\ (Core.to = N => Ended.end = N)
    BY <1>1, EndedBounds
  <2>2. Core.to # N => Ended.end = Core.from + Half - 1
    BY <1>1, EndedBounds
  <2> QED BY <2>1, <2>2, <1>2
<1>4. group.start \in Nat /\ group.end \in Nat /\ N \in Nat /\ N >= 1 /\ Second \in Nat /\ FirstFree \in Int /\ N \in 1..N
  BY BlocksAssumption DEF Typed, GroupType, FirstFree
<1>5. group' \in GroupType
  BY DEF NoGroup, GroupType, CloseGroup
<1>6. cands' = cands /\ Ahead' = Ahead
  BY DEF Ahead, CloseGroup
<1> HIDE DEF core
<1>7. Ahead = {} <=> EndTaken
  <2>1. ASSUME EndTaken PROVE Ahead = {}
    BY <2>1, <1>1, <1>4 DEF EndTaken, Ahead
  <2>2. ASSUME EndWaits PROVE N \in Ahead
    BY <2>2, <1>4 DEF EndWaits, Ahead
  <2> QED BY <2>1, <2>2, <1>1
<1>8. CASE Kept
  <2>1. PICK b \in BlockType : b = Ended
    BY <1>3
  <2>2. blocks' = Append(blocks, b) /\ prev' = [start |-> Core.to + 1, head |-> Core.to - Core.from - Half + 1]
    BY <1>8, <2>1 DEF CloseGroup
  <2>3. b.start <= b.end
    <3>1. CASE blocks # <<>>
      <4>1. FirstFree < group.start
        BY <3>1, <1>1
      <4>2. (Core.to = N => b.end = N) /\ (Core.to # N => b.end = core - 1)
        BY <2>1, <1>3
      <4> QED BY <4>1, <4>2, <2>1, <1>2, <1>3, <1>4
    <3>2. CASE blocks = <<>>
      <4>1. FirstFree = 1 /\ (b.end - b.start > Second \/ b.end = N)
        BY <3>2, <2>1, <1>1, <1>8 DEF Kept, Reached
      <4> QED BY <4>1, <2>1, <1>3, <1>4 DEF BlockType
    <3> QED BY <3>1, <3>2
  <2>4. blocks' \in Seq(BlockType) /\ blocks' # <<>> /\ Cover(b.end)'
    BY <2>1, <2>2, <2>3, <1>1, <1>3, AppendCover
  <2>5. prev' \in [start : Int, head : Int] /\ FirstFree' = core
    BY <2>2, <1>2 DEF FirstFree, core
  <2>6. CASE Ahead # {}
    <3>1. EndWaits /\ N \in Ahead
      BY <2>6, <1>1, <1>4, <1>7 DEF EndWaits, Ahead
    <3>2. b.end = FirstFree' - 1
      BY <3>1, <2>1, <2>5, <1>1, <1>2, <1>3, <1>4
    <3>3. Reached'
      BY <3>2, <2>4 DEF Reached
    <3>4. \A f \in Ahead : FirstFree' < f
      <4> SUFFICES ASSUME NEW f \in Ahead PROVE core < f
        BY <2>5
      <4>1. group.end < f /\ f \in Int
        BY <1>1 DEF Ahead
      <4> QED BY <4>1, <1>2, <1>4
    <3>5. Opening'
      BY <3>1, <3>3, <3>4, <1>6 DEF Opening, EndWaits
    <3>6. Typed'
      BY <2>4, <2>5, <2>6, <1>5 DEF CloseGroup, Typed
    <3> QED BY <2>6, <3>5, <3>6 DEF CloseGroup, Starting, Pulling, Index, BlocksTile
  <2>7. CASE Ahead = {}
    <3>1. b.end = N
      BY <2>7, <2>1, <1>2, <1>3, <1>7
    <3>2. BlocksTile'
      BY <3>1, <2>4 DEF BlocksTile
    <3>3. Len(blocks') \in Nat
      BY <2>4
    <3>4. Typed' /\ Index'
      BY <2>4, <2>5, <2>7, <3>3, <1>5 DEF CloseGroup, Typed, Index
    <3> QED BY <2>7, <3>2, <3>4 DEF CloseGroup, Starting, Opening, Pulling
  <2> QED BY <2>6, <2>7
<1>9. CASE ~Kept
  <2>1. blocks = <<>> /\ UNCHANGED <<blocks, prev>> /\ Ended.end # N
    BY <1>9 DEF CloseGroup, Kept
  <2>2. Ahead # {}
    BY <2>1, <1>2, <1>3, <1>7
  <2>3. Typed' /\ Reached'
    BY <2>1, <2>2, <1>1, <1>5 DEF CloseGroup, Typed, Reached, FirstFree
  <2>4. EndWaits
    BY <2>2, <1>1, <1>7
  <2> QED BY <2>1, <2>2, <2>3, <2>4, <1>6 DEF CloseGroup, Starting, Opening, Pulling, Index, BlocksTile, EndWaits
<1> QED BY <1>8, <1>9

LEMMA CombineIInv == IInv /\ Combine => IInv'
<1> SUFFICES ASSUME IInv, Combine PROVE IInv'
  OBVIOUS
<1> USE DEF IInv
<1>1. Cover(N) /\ blocks \in Seq(BlockType) /\ at \in Int /\ at > 1 /\ at <= Len(blocks) /\ Len(blocks) \in Nat
  BY DEF Combine, BlocksTile, Typed, Index
<1>2. CASE blocks' = blocks
  BY <1>1, <1>2 DEF Combine, Typed, Starting, Opening, Pulling, Index, BlocksTile, Cover, building
<1>3. CASE blocks' = Joined(at - 1, 1, blocks[at].cause)
  <2>0. blocks[at] \in BlockType
    BY <1>1, ElementOfSeq
  <2>1. at - 1 \in Nat /\ blocks[at].cause \in SUBSET Causes
    <3>1. at - 1 \in Nat
      BY <1>1
    <3>2. blocks[at].cause \in SUBSET Causes
      BY <2>0 DEF BlockType
    <3> QED BY <3>1, <3>2
  <2>2. PICK i \in Nat, cause \in SUBSET Causes : i = at - 1 /\ cause = blocks[at].cause
    BY <2>1
  <2>3. blocks' \in Seq(BlockType) /\ Len(blocks') = Len(blocks) - 1 /\ Cover(N)'
    BY <2>2, <1>1, <1>3, JoinedCover
  <2> QED BY <2>3, <1>1 DEF Combine, Typed, Starting, Opening, Pulling, Index, BlocksTile, building
<1> QED BY <1>2, <1>3 DEF Combine

LEMMA JoinGlitchIInv == IInv /\ JoinGlitch => IInv'
<1> SUFFICES ASSUME IInv, JoinGlitch PROVE IInv'
  OBVIOUS
<1> USE DEF IInv
<1>1. /\ Cover(N) /\ blocks \in Seq(BlockType) /\ at \in Int /\ at >= 1 /\ at <= Len(blocks) - 2
      /\ Len(blocks) \in Nat
  BY DEF JoinGlitch, BlocksTile, Typed, Index
<1>2. CASE blocks' = blocks
  BY <1>1, <1>2 DEF JoinGlitch, Typed, Starting, Opening, Pulling, Index, BlocksTile, Cover, building
<1>3. CASE blocks' = Joined(at, 2, blocks[at].cause)
  <2>0. blocks[at] \in BlockType
    BY <1>1, ElementOfSeq
  <2>1. at \in Nat /\ blocks[at].cause \in SUBSET Causes
    <3>1. at \in Nat
      BY <1>1
    <3>2. blocks[at].cause \in SUBSET Causes
      BY <2>0 DEF BlockType
    <3> QED BY <3>1, <3>2
  <2>2. PICK i \in Nat, cause \in SUBSET Causes : i = at /\ cause = blocks[at].cause
    BY <2>1
  <2>3. blocks' \in Seq(BlockType) /\ Len(blocks') = Len(blocks) - 2 /\ Cover(N)'
    BY <2>2, <1>1, <1>3, JoinedCover
  <2> QED BY <2>3, <1>1 DEF JoinGlitch, Typed, Starting, Opening, Pulling, Index, BlocksTile, building
<1> QED BY <1>2, <1>3 DEF JoinGlitch

LEMMA JoinLogoIInv == IInv /\ JoinLogo => IInv'
<1> SUFFICES ASSUME IInv, JoinLogo PROVE IInv'
  OBVIOUS
<1> USE DEF IInv
<1>1. Cover(N) /\ blocks \in Seq(BlockType) /\ at \in Int /\ at > 1 /\ at <= Len(blocks) /\ Len(blocks) \in Nat
  BY DEF JoinLogo, BlocksTile, Typed, Index
<1>2. CASE blocks' = blocks
  BY <1>1, <1>2 DEF JoinLogo, Typed, Starting, Opening, Pulling, Index, BlocksTile, Cover, building
<1>3. CASE blocks' = Joined(at - 1, 1, blocks[at].cause)
  <2>0. blocks[at] \in BlockType
    BY <1>1, ElementOfSeq
  <2>1. at - 1 \in Nat /\ blocks[at].cause \in SUBSET Causes
    <3>1. at - 1 \in Nat
      BY <1>1
    <3>2. blocks[at].cause \in SUBSET Causes
      BY <2>0 DEF BlockType
    <3> QED BY <3>1, <3>2
  <2>2. PICK i \in Nat, cause \in SUBSET Causes : i = at - 1 /\ cause = blocks[at].cause
    BY <2>1
  <2>3. blocks' \in Seq(BlockType) /\ Len(blocks') = Len(blocks) - 1 /\ Cover(N)'
    BY <2>2, <1>1, <1>3, JoinedCover
  <2> QED BY <2>3, <1>1 DEF JoinLogo, Typed, Starting, Opening, Pulling, Index, BlocksTile, building
<1> QED BY <1>2, <1>3 DEF JoinLogo

\* From the verdict on the list changes and the blocks do not.
ListPhases ==
  {"extendAfter", "extendLast", "extendFirst", "length", "afterLast", "beforeFirst", "keepFirst",
   "keepLast", "pad", "written"}

LEMMA ListSteps ==
  ASSUME Next, ~Validate, ~OpenGroup, ~Pull, ~CloseGroup, ~Combine, ~JoinGlitch, ~JoinLogo
  PROVE  /\ UNCHANGED <<cands, group, prev, blocks>>
         /\ \/ pc = "combine" /\ pc' = "glitches" /\ at' = 1
            \/ pc = "glitches" /\ pc' = "logos" /\ at' = Len(blocks)
            \/ pc = "logos" /\ pc' = "extendAfter" /\ UNCHANGED <<at, logo>>
            \/ pc \in ListPhases /\ pc' \in ListPhases /\ UNCHANGED <<at, logo>>
BY DEF Next, CombineDone, GlitchesDone, Decide, ExtendAfter, ExtendLast, ExtendFirst, DeleteByLength,
       LengthDone, DeleteAfterLast, DeleteBeforeFirst, KeepFirst, KeepLast, Pad, Over, vars, listing,
       building, ListPhases

LEMMA NextIInv == IInv /\ [Next]_vars => IInv'
<1> SUFFICES ASSUME IInv, [Next]_vars PROVE IInv'
  OBVIOUS
<1>1. CASE UNCHANGED vars
  BY <1>1 DEF vars, building, listing, IInv, Typed, Starting, Opening, Pulling, Index, BlocksTile, Reached, FirstFree,
              EndWaits, EndTaken, GroupOK, Ahead, Cover
<1>2. CASE Next /\ ~Validate /\ ~OpenGroup /\ ~Pull /\ ~CloseGroup /\ ~Combine /\ ~JoinGlitch /\ ~JoinLogo
  <2>1. blocks \in Seq(BlockType) /\ Len(blocks) \in Nat
    BY DEF IInv, Typed
  <2>2. UNCHANGED <<cands, group, prev, blocks>> /\ (Cover(N) => Cover(N)')
    BY <1>2, ListSteps DEF Cover
  <2> QED BY <1>2, <2>1, <2>2, ListSteps
          DEF IInv, Typed, Starting, Opening, Pulling, Index, BlocksTile, ListPhases
<1> QED BY <1>1, <1>2, ValidateIInv, OpenGroupIInv, PullIInv, CloseGroupIInv, CombineIInv, JoinGlitchIInv,
           JoinLogoIInv

LEMMA Inductive == Spec => []IInv
<1> QED BY InitIInv, NextIInv, PTL DEF Spec

\* The blocks cover the recording, whatever the candidates (BuildBlocks, CleanLogoBlocks and
\* the clean-up in WeighBlocks).
THEOREM Tiles == Spec => []BlocksTile
<1>1. IInv => BlocksTile
  BY DEF IInv
<1> QED BY <1>1, Inductive, PTL

-----------------------------------------------------------------------------
(* One sweep over the blocks joins all that show the logo across their cut. *)

\* The sweep has left nothing behind it.
SweptClean == pc = "logos" => \A i \in 2..Len(blocks) : i > at => ~LogoAcross(i)

LEMMA SweepStep == IInv /\ SweptClean /\ JoinLogo => SweptClean'
<1> SUFFICES ASSUME IInv, SweptClean, JoinLogo, NEW i \in 2..Len(blocks'), i > at'
             PROVE  ~LogoAcross(i)'
  BY DEF SweptClean
<1>1. /\ blocks \in Seq(BlockType) /\ Len(blocks) \in Nat /\ at \in Int /\ at > 1 /\ at <= Len(blocks)
      /\ at' = at - 1 /\ logo' = logo /\ i \in Nat /\ i >= at
  BY DEF JoinLogo, IInv, Typed, Index
<1>2. \A k \in 2..Len(blocks) : k > at => ~LogoAcross(k)
  BY DEF SweptClean, JoinLogo
<1>3. CASE LogoAcross(at)
  <2>1. blocks' = Joined(at - 1, 1, blocks[at].cause)
    BY <1>3 DEF JoinLogo
  <2>2. at - 1 \in Nat /\ blocks[at].cause \in SUBSET Causes
    <3>1. blocks[at] \in BlockType
      BY <1>1, ElementOfSeq
    <3>2. blocks[at].cause \in SUBSET Causes
      BY <3>1 DEF BlockType
    <3> QED BY <1>1, <3>2
  <2>3. PICK j \in Nat, cause \in SUBSET Causes : j = at - 1 /\ cause = blocks[at].cause
    BY <2>2
  <2>4. j >= 1 /\ j + 1 <= Len(blocks) /\ j + 1 = at /\ blocks' = Joined(j, 1, cause)
    BY <2>1, <2>3, <1>1
  <2>5. /\ Len(blocks') = Len(blocks) - 1 /\ blocks'[j].end = blocks[j + 1].end
        /\ \A k \in 1..(Len(blocks) - 1) : k > j => blocks'[k] = blocks[k + 1]
    BY <2>4, <1>1, JoinedShape
  <2>6. i \in 1..(Len(blocks) - 1) /\ i > j /\ i + 1 \in 2..Len(blocks) /\ i + 1 > at /\ (i + 1) - 1 = i
    BY <2>4, <2>5, <1>1
  <2>7. blocks'[i] = blocks[i + 1]
    BY <2>5, <2>6
  <2>8. blocks'[i - 1].end = blocks[i].end
    <3>1. CASE i - 1 = j
      BY <3>1, <2>4, <2>5, <1>1
    <3>2. CASE i - 1 # j
      <4>1. i - 1 \in 1..(Len(blocks) - 1) /\ i - 1 > j /\ (i - 1) + 1 = i
        BY <3>2, <2>4, <2>6, <1>1
      <4> QED BY <4>1, <2>5
    <3> QED BY <3>1, <3>2
  <2>9. ~LogoAcross(i + 1)
    BY <2>6, <1>2
  <2> QED BY <2>6, <2>7, <2>8, <2>9, <1>1 DEF LogoAcross
<1>4. CASE ~LogoAcross(at)
  <2>1. blocks' = blocks
    BY <1>4 DEF JoinLogo
  <2> QED BY <2>1, <1>1, <1>2, <1>4 DEF LogoAcross
<1> QED BY <1>3, <1>4

LEMMA SweepIInv == IInv /\ SweptClean /\ NoLogoSeam /\ [Next]_vars => (SweptClean /\ NoLogoSeam)'
<1> SUFFICES ASSUME IInv, SweptClean, NoLogoSeam, [Next]_vars PROVE (SweptClean /\ NoLogoSeam)'
  OBVIOUS
<1>1. CASE UNCHANGED vars
  BY <1>1 DEF vars, SweptClean, NoLogoSeam, LogoAcross, listed
<1>2. CASE Validate \/ OpenGroup \/ Pull \/ CloseGroup \/ Combine \/ JoinGlitch
  <2>1. pc' \notin ListPhases \cup {"logos"} /\ ~listed'
    BY <1>2 DEF Validate, OpenGroup, Pull, CloseGroup, Combine, JoinGlitch, ListPhases, listed
  <2> QED BY <2>1 DEF SweptClean, NoLogoSeam
<1>3. CASE JoinLogo
  <2>1. SweptClean'
    BY <1>3, SweepStep
  <2>2. ~listed'
    BY <1>3 DEF JoinLogo, listed
  <2> QED BY <2>1, <2>2 DEF NoLogoSeam
<1>4. CASE Next /\ ~Validate /\ ~OpenGroup /\ ~Pull /\ ~CloseGroup /\ ~Combine /\ ~JoinGlitch /\ ~JoinLogo
  <2>1. blocks' = blocks /\ Len(blocks) \in Nat
    BY <1>4, ListSteps DEF IInv, Typed
  <2>2. CASE pc = "combine" /\ pc' = "glitches"
    BY <2>2 DEF SweptClean, NoLogoSeam, listed
  <2>3. CASE pc = "glitches" /\ pc' = "logos" /\ at' = Len(blocks)
    BY <2>1, <2>3 DEF SweptClean, NoLogoSeam, listed
  <2>4. CASE pc = "logos" /\ pc' = "extendAfter" /\ UNCHANGED <<at, logo>>
    <3>1. Decide
      BY <1>4, <2>4 DEF Next, CombineDone, GlitchesDone, ExtendAfter, ExtendLast, ExtendFirst, DeleteByLength,
                        LengthDone, DeleteAfterLast, DeleteBeforeFirst, KeepFirst, KeepLast, Pad, Over
    <3>2. at \in Int /\ at <= 1
      BY <3>1 DEF Decide, IInv, Typed
    <3>3. \A i \in 2..Len(blocks) : ~LogoAcross(i)
      BY <3>2, <2>1, <2>4 DEF SweptClean
    <3> QED BY <3>3, <2>1, <2>4 DEF SweptClean, NoLogoSeam, LogoAcross
  <2>5. CASE pc \in ListPhases /\ pc' \in ListPhases /\ UNCHANGED <<at, logo>>
    BY <2>1, <2>5 DEF SweptClean, NoLogoSeam, LogoAcross, ListPhases, listed
  <2> QED BY <1>4, <2>2, <2>3, <2>4, <2>5, ListSteps
<1> QED BY <1>1, <1>2, <1>3, <1>4

\* CleanLogoBlocks leaves no cut with the logo on both sides, wherever logo and cuts are.
THEOREM LogoJoins == Spec => []NoLogoSeam
<1>1. Init => SweptClean /\ NoLogoSeam
  BY DEF Init, SweptClean, NoLogoSeam, listed
<1>2. IInv /\ SweptClean /\ NoLogoSeam /\ [Next]_vars => (SweptClean /\ NoLogoSeam)'
  BY SweepIInv
<1> QED BY <1>1, <1>2, Inductive, PTL DEF Spec

-----------------------------------------------------------------------------
(* The list of breaks. *)

\* A set of natural numbers has a least element: induction for the provers.
LEMMA LeastNatural ==
  ASSUME NEW T \in SUBSET Nat, T # {}
  PROVE  \E m \in T : \A n \in T : m <= n
<1> DEFINE R == OpToRel(<, Nat)
<1>1. IsWellFoundedOn(R, Nat)
  BY NatLessThanWellFounded
<1>2. \A x, y \in Nat : <<y, x>> \in R <=> y < x
  BY DEF OpToRel
<1> HIDE DEF R
<1>3. PICK m \in T : \A n \in T : ~(<<n, m>> \in R)
  BY <1>1, WFMin
<1>4. \A n \in T : m \in Nat /\ n \in Nat /\ ~(n < m)
  BY <1>2, <1>3
<1> QED BY <1>4

\* Blocks that cover the recording are in its order, and in it.
LEMMA BlocksInOrder ==
  ASSUME blocks \in Seq(BlockType), Cover(N)
  PROVE  /\ \A i \in 1..Len(blocks) : \A j \in 1..Len(blocks) : i < j => blocks[i].end < blocks[j].start
         /\ \A i \in 1..Len(blocks) : 1 <= blocks[i].start /\ blocks[i].end <= N
<1> DEFINE L == Len(blocks)
<1>1. /\ L \in Nat /\ L >= 1 /\ N \in Nat
      /\ \A i \in 1..L : blocks[i].start \in Int /\ blocks[i].end \in Int /\ blocks[i].start <= blocks[i].end
      /\ \A i \in 1..(L - 1) : blocks[i + 1].start = blocks[i].end + 1
      /\ blocks[1].start = 1 /\ blocks[L].end = N
  <2>1. \A i \in 1..L : blocks[i] \in BlockType
    OBVIOUS
  <2> QED BY <2>1, BlocksAssumption DEF Cover, BlockType
<1> HIDE DEF L
<1>2. ASSUME NEW i \in 1..L PROVE \A j \in 1..L : i < j => blocks[i].end < blocks[j].start
  <2> DEFINE wrong == {j \in 1..L : i < j /\ ~(blocks[i].end < blocks[j].start)}
  <2> SUFFICES ASSUME wrong # {} PROVE FALSE
    OBVIOUS
  <2>1. wrong \in SUBSET Nat
    BY <1>1
  <2>2. PICK m \in wrong : \A n \in wrong : m <= n
    BY <2>1, LeastNatural
  <2>3. m \in 1..L /\ i < m /\ ~(blocks[i].end < blocks[m].start)
    BY <2>2
  <2>4. m - 1 \in 1..(L - 1) /\ m - 1 \in 1..L /\ (m - 1) + 1 = m
    BY <1>1, <2>3
  <2>5. blocks[m].start = blocks[m - 1].end + 1 /\ blocks[m - 1].start <= blocks[m - 1].end
    BY <1>1, <2>4
  <2>6. CASE m - 1 = i
    BY <1>1, <2>3, <2>5, <2>6
  <2>7. CASE m - 1 # i
    <3>1. m - 1 \notin wrong
      <4> SUFFICES ASSUME m - 1 \in wrong PROVE FALSE
        OBVIOUS
      <4>1. m <= m - 1 /\ m \in Int
        BY <1>1, <2>2, <2>3
      <4> QED BY <4>1
    <3>2. i < m - 1
      BY <1>1, <2>3, <2>7
    <3>3. blocks[i].end < blocks[m - 1].start
      BY <2>4, <3>1, <3>2
    <3>4. blocks[i].end \in Int /\ blocks[m - 1].start \in Int /\ blocks[m - 1].end \in Int
      BY <1>1, <2>4
    <3> QED BY <2>3, <2>5, <3>3, <3>4
  <2> QED BY <2>6, <2>7
<1>3. ASSUME NEW i \in 1..L PROVE 1 <= blocks[i].start /\ blocks[i].end <= N
  <2>1. CASE i = 1
    <3>1. i < L => blocks[i].end < blocks[L].start
      BY <1>1, <1>2
    <3>2. L \in 1..L
      BY <1>1
    <3> QED BY <1>1, <2>1, <3>1, <3>2
  <2>2. CASE i # 1
    <3>1. 1 \in 1..L /\ L \in 1..L /\ 1 < i /\ (i < L \/ i = L)
      BY <1>1, <2>2
    <3>2. blocks[1].end < blocks[i].start /\ (i < L => blocks[i].end < blocks[L].start)
      BY <1>2, <3>1
    <3>3. /\ blocks[1].start = 1 /\ blocks[L].end = N /\ N \in Int
          /\ \A n \in {1, i, L} : /\ blocks[n].start \in Int /\ blocks[n].end \in Int
                                 /\ blocks[n].start <= blocks[n].end
      BY <1>1, <3>1
    <3>4. 1 <= blocks[i].start
      BY <3>2, <3>3
    <3>5. blocks[i].end <= N
      BY <3>1, <3>2, <3>3
    <3> QED BY <3>4, <3>5
  <2> QED BY <2>1, <2>2
<1> QED BY <1>2, <1>3 DEF L

BreakType == [start : Int, end : Int, first : Nat, last : Nat]

\* A break of whole blocks, and one that was shortened since.
InRange(b) == b.first \in 1..Count /\ b.last \in 1..Count /\ b.first <= b.last
IsWhole(b) == InRange(b) /\ b = Break(b.first, b.last)
IsInside(b) ==
  /\ b \in BreakType /\ InRange(b)
  /\ blocks[b.first].start <= b.start /\ b.end <= blocks[b.last].end

\* No block is in two breaks.
Apart == \A b, o \in breaks : b # o => b.last < o.first \/ o.last < b.first

WholePhases == ListPhases \ {"keepLast", "pad", "written"}

ListInv ==
  /\ pc \in ListPhases => settings \in SettingsType /\ Apart
  /\ pc \in WholePhases => \A b \in breaks : IsWhole(b)
  /\ pc = "extendAfter" => \A b \in breaks : b.first \in ads
  /\ pc \in {"keepLast", "pad"} => \A b \in breaks : IsInside(b) /\ settings.keepFirst <= b.start
  /\ pc = "pad" => \A b \in breaks : b.end <= N - settings.keepLast
  /\ BreaksSound

\* What the list relies on of the blocks.
Ready == blocks \in Seq(BlockType) /\ Cover(N) /\ Count \in Nat /\ Count >= 1

LEMMA ReadyToList == IInv /\ pc \notin {"validate", "open", "pull"} => Ready
BY DEF IInv, Typed, BlocksTile, Cover, Ready, Count

LEMMA WholeBreak ==
  ASSUME Ready, NEW i \in 1..Count, NEW j \in 1..Count, i <= j
  PROVE  /\ Break(i, j).first = i /\ Break(i, j).last = j /\ Break(i, j) \in BreakType
         /\ IsWhole(Break(i, j))
         /\ Break(i, j).start = blocks[i].start /\ Break(i, j).end = blocks[j].end
<1>1. blocks[i] \in BlockType /\ blocks[j] \in BlockType
  BY DEF Ready, Count
<1> QED BY <1>1, SMTT(30) DEF Break, BreakType, BlockType, IsWhole, InRange, Ready

\* Two maximal runs are the same or have no number in common.
LEMMA RunsApart ==
  ASSUME NEW set \in SUBSET Int, NEW r \in Runs(set), NEW s \in Runs(set)
  PROVE  /\ r[1] \in set /\ r[2] \in set /\ r[1] <= r[2]
         /\ r[2] < s[1] \/ s[2] < r[1] \/ (r[1] = s[1] /\ r[2] = s[2])
<1>1. ASSUME NEW x \in Runs(set)
      PROVE  /\ x[1] \in set /\ x[2] \in set /\ x[1] \in Int /\ x[2] \in Int /\ x[1] <= x[2]
             /\ x[1] - 1 \notin set /\ x[2] + 1 \notin set
             /\ \A k \in Int : x[1] <= k /\ k <= x[2] => k \in set
  <2>1. /\ x[1] \in set /\ x[2] \in set /\ x[1] <= x[2] /\ x[1]..x[2] \subseteq set
        /\ x[1] - 1 \notin set /\ x[2] + 1 \notin set
    BY <1>1 DEF Runs
  <2>2. x[1] \in Int /\ x[2] \in Int
    BY <2>1
  <2>3. \A k \in Int : x[1] <= k /\ k <= x[2] => k \in x[1]..x[2]
    BY <2>2
  <2> QED BY <2>1, <2>2, <2>3
<1>2. ASSUME s[1] <= r[2], r[1] <= s[2] PROVE r[1] = s[1] /\ r[2] = s[2]
  <2>1. ~(r[1] < s[1])
    <3> SUFFICES ASSUME r[1] < s[1] PROVE FALSE
      OBVIOUS
    <3>1. s[1] - 1 \in Int /\ r[1] <= s[1] - 1 /\ s[1] - 1 <= r[2]
      BY <1>1, <1>2
    <3> QED BY <1>1, <3>1
  <2>2. ~(s[1] < r[1])
    <3> SUFFICES ASSUME s[1] < r[1] PROVE FALSE
      OBVIOUS
    <3>1. r[1] - 1 \in Int /\ s[1] <= r[1] - 1 /\ r[1] - 1 <= s[2]
      BY <1>1, <1>2
    <3> QED BY <1>1, <3>1
  <2>3. ~(r[2] < s[2])
    <3> SUFFICES ASSUME r[2] < s[2] PROVE FALSE
      OBVIOUS
    <3>1. r[2] + 1 \in Int /\ s[1] <= r[2] + 1 /\ r[2] + 1 <= s[2]
      BY <1>1, <1>2
    <3> QED BY <1>1, <3>1
  <2>4. ~(s[2] < r[2])
    <3> SUFFICES ASSUME s[2] < r[2] PROVE FALSE
      OBVIOUS
    <3>1. s[2] + 1 \in Int /\ r[1] <= s[2] + 1 /\ s[2] + 1 <= r[2]
      BY <1>1, <1>2
    <3> QED BY <1>1, <3>1
  <2> QED BY <1>1, <2>1, <2>2, <2>3, <2>4
<1> QED BY <1>1, <1>2

\* The choices of the last and of the first break are breaks.
LEMMA FinalIsLast ==
  ASSUME Ready, breaks # {}, \A b \in breaks : InRange(b)
  PROVE  Final(breaks) \in breaks /\ \A o \in breaks : o.last <= Final(breaks).last
<1> DEFINE T == {Count - b.last : b \in breaks}
<1>1. T \in SUBSET Nat /\ T # {}
  BY DEF InRange, Ready
<1>2. PICK m \in T : \A n \in T : m <= n
  BY <1>1, LeastNatural
<1>3. PICK b \in breaks : m = Count - b.last
  BY <1>2
<1>4. \A o \in breaks : o.last <= b.last
  <2> SUFFICES ASSUME NEW o \in breaks PROVE o.last <= b.last
    OBVIOUS
  <2>1. m <= Count - o.last /\ o.last \in Int /\ b.last \in Int /\ Count \in Int
    BY <1>2 DEF InRange, Ready
  <2> QED BY <1>3, <2>1
<1> QED BY <1>3, <1>4 DEF Final

LEMMA LeadingIsFirst ==
  ASSUME Ready, breaks # {}, \A b \in breaks : InRange(b)
  PROVE  Leading(breaks) \in breaks /\ \A o \in breaks : Leading(breaks).first <= o.first
<1> DEFINE T == {b.first : b \in breaks}
<1>1. T \in SUBSET Nat /\ T # {}
  BY DEF InRange, Ready
<1>2. PICK m \in T : \A n \in T : m <= n
  BY <1>1, LeastNatural
<1>3. PICK b \in breaks : m = b.first
  BY <1>2
<1>4. \A o \in breaks : b.first <= o.first
  BY <1>2, <1>3
<1> QED BY <1>3, <1>4 DEF Leading

-----------------------------------------------------------------------------
(* The passes over the list. *)

\* Passes over whole breaks keep breaks whole, and the extension of one that has no other
\* in its way keeps them apart.
Listing == IInv /\ ListInv /\ Ready

LEMMA DecideStep == IInv /\ Ready /\ Decide => ListInv'
<1> SUFFICES ASSUME IInv, Ready, Decide PROVE ListInv'
  OBVIOUS
<1>1. PICK verdict \in SUBSET (1..Count) :
        ads' = verdict /\ breaks' = {Break(run[1], run[2]) : run \in Runs(verdict)}
  BY DEF Decide, Count
<1>2. /\ pc' = "extendAfter" /\ settings' \in Settings /\ UNCHANGED <<blocks, at, logo>>
  BY DEF Decide, building
<1>3. verdict \in SUBSET Int /\ Ready' /\ Count' = Count
  BY <1>2 DEF Ready, Count, Cover
<1>4. ASSUME NEW r \in Runs(verdict)
      PROVE  /\ r[1] \in 1..Count /\ r[2] \in 1..Count /\ r[1] <= r[2] /\ r[1] \in verdict
             /\ Break(r[1], r[2]).first = r[1] /\ Break(r[1], r[2]).last = r[2] /\ IsWhole(Break(r[1], r[2]))
  <2>1. r[1] \in 1..Count /\ r[2] \in 1..Count /\ r[1] <= r[2] /\ r[1] \in verdict
    BY <1>1, <1>3, RunsApart
  <2> QED BY <2>1, WholeBreak
<1>5. \A b \in breaks' : IsWhole(b)' /\ b.first \in ads'
  <2> SUFFICES ASSUME NEW b \in breaks' PROVE IsWhole(b)' /\ b.first \in ads'
    OBVIOUS
  <2>1. PICK r \in Runs(verdict) : b = Break(r[1], r[2])
    BY <1>1
  <2> QED BY <1>1, <1>2, <1>3, <1>4, <2>1 DEF IsWhole, InRange, Break
<1>6. Apart'
  <2> SUFFICES ASSUME NEW b \in breaks', NEW o \in breaks', b # o PROVE b.last < o.first \/ o.last < b.first
    BY DEF Apart
  <2>1. PICK r \in Runs(verdict) : b = Break(r[1], r[2])
    BY <1>1
  <2>2. PICK s \in Runs(verdict) : o = Break(s[1], s[2])
    BY <1>1
  <2>3. r[2] < s[1] \/ s[2] < r[1] \/ (r[1] = s[1] /\ r[2] = s[2])
    BY <1>3, RunsApart
  <2>4. ~(r[1] = s[1] /\ r[2] = s[2])
    BY <2>1, <2>2
  <2> QED BY <1>4, <2>1, <2>2, <2>3, <2>4
<1> QED BY <1>2, <1>5, <1>6, BlocksAssumption DEF ListInv, BreaksSound, Apart, IsWhole, InRange, ListPhases, WholePhases, listed

\* In the phases of whole breaks the invariant comes down to this.
LEMMA WholeSuffices ==
  ASSUME Ready, pc' \in WholePhases \ {"extendAfter"}, UNCHANGED <<blocks, settings>>, settings \in SettingsType,
         Apart', \A b \in breaks' : IsWhole(b)
  PROVE  ListInv'
<1>1. \A b \in breaks' : IsWhole(b)'
  BY DEF IsWhole, InRange, Break, Count
<1> QED BY <1>1 DEF ListInv, BreaksSound, Apart, IsWhole, InRange, ListPhases, WholePhases, listed

\* Breaks that stay, and one that grows where no other is, are apart.
LEMMA ApartOfSubset ==
  ASSUME Apart, breaks' \subseteq breaks
  PROVE  Apart'
BY DEF Apart

LEMMA ApartOfGrown ==
  ASSUME Ready, Apart, \A b \in breaks : IsWhole(b), NEW b \in breaks, NEW i \in 1..Count, NEW j \in 1..Count,
         i <= b.first, b.last <= j, breaks' = (breaks \ {b}) \cup {Break(i, j)},
         \A o \in breaks : o # b => o.last < i \/ j < o.first
  PROVE  Apart' /\ \A o \in breaks' : IsWhole(o)
<1>1. b.first \in Int /\ b.last \in Int /\ b.first <= b.last
  BY DEF IsWhole, InRange
<1>2. i <= j
  BY <1>1
<1>3. Break(i, j).first = i /\ Break(i, j).last = j /\ IsWhole(Break(i, j))
  BY <1>2, WholeBreak
<1> QED BY <1>3 DEF Apart

LEMMA ExtendAfterStep == Listing /\ ExtendAfter => ListInv'
<1> SUFFICES ASSUME Listing, ExtendAfter PROVE ListInv'
  OBVIOUS
<1>0. PICK below \in SUBSET ((1..Count) \ ads) :
        breaks' = {IF FollowedByShort(b, below) THEN Break(b.first, b.last + 1) ELSE b : b \in breaks}
  BY DEF ExtendAfter
<1> DEFINE Now(b) == IF FollowedByShort(b, below) THEN Break(b.first, b.last + 1) ELSE b
<1>1. /\ pc = "extendAfter" /\ pc' = "extendLast" /\ breaks' = {Now(b) : b \in breaks}
      /\ UNCHANGED <<blocks, settings>>
  BY <1>0 DEF ExtendAfter, building
<1>2. /\ Ready /\ settings \in SettingsType /\ Apart
      /\ \A b \in breaks : IsWhole(b) /\ b.first \in ads
  BY <1>1 DEF Listing, ListInv, ListPhases, WholePhases
<1>3. ASSUME NEW b \in breaks
      PROVE  /\ b.first \in 1..Count /\ b.last \in 1..Count /\ b.first <= b.last /\ IsWhole(Now(b))
             /\ Now(b).first = b.first
             /\ Now(b).last = b.last \/ (Now(b).last = b.last + 1 /\ b.last + 1 \notin ads)
  <2>1. b.first \in 1..Count /\ b.last \in 1..Count /\ b.first <= b.last /\ IsWhole(b)
    BY <1>2 DEF IsWhole, InRange
  <2>2. CASE FollowedByShort(b, below)
    <3>1. b.last + 1 \in 1..Count /\ b.first <= b.last + 1 /\ b.last + 1 \notin ads
      BY <1>2, <2>1, <2>2 DEF FollowedByShort, Ready
    <3>2. /\ IsWhole(Break(b.first, b.last + 1)) /\ Break(b.first, b.last + 1).first = b.first
          /\ Break(b.first, b.last + 1).last = b.last + 1
      BY <1>2, <2>1, <3>1, WholeBreak
    <3> QED BY <2>1, <2>2, <3>1, <3>2
  <2>3. CASE ~FollowedByShort(b, below)
    BY <2>1, <2>3
  <2> QED BY <2>2, <2>3
<1> HIDE DEF Now
<1>4. Apart'
  <2> SUFFICES ASSUME NEW p \in breaks', NEW q \in breaks', p # q PROVE p.last < q.first \/ q.last < p.first
    BY DEF Apart
  <2>1. PICK b \in breaks : p = Now(b)
    BY <1>1
  <2>2. PICK o \in breaks : q = Now(o)
    BY <1>1
  <2>3. b.last < o.first \/ o.last < b.first
    BY <1>2, <2>1, <2>2 DEF Apart
  <2>4. b.first \in ads /\ o.first \in ads
    BY <1>2
  <2>5. ~(Now(b).last = o.first /\ o.first # b.last) /\ ~(Now(o).last = b.first /\ b.first # o.last)
    BY <1>3, <2>4
  <2>6. /\ b.first \in Int /\ b.last \in Int /\ o.first \in Int /\ o.last \in Int
        /\ Now(b).first = b.first /\ Now(o).first = o.first
        /\ Now(b).last \in {b.last, b.last + 1} /\ Now(o).last \in {o.last, o.last + 1}
    BY <1>3
  <2>7. Now(b).last < Now(o).first \/ Now(o).last < Now(b).first
    BY <2>3, <2>5, <2>6
  <2> QED BY <2>1, <2>2, <2>7
<1>5. \A p \in breaks' : IsWhole(p)
  BY <1>1, <1>3
<1> QED BY <1>1, <1>2, <1>4, <1>5, WholeSuffices DEF WholePhases, ListPhases

\* Of the other steps between whole breaks each takes breaks away or lets one grow over
\* the blocks at an edge of the recording, where no other break is.
LEMMA GrowToEnd ==
  ASSUME Ready, Apart, \A b \in breaks : IsWhole(b), breaks # {},
         breaks' = (breaks \ {Final(breaks)}) \cup {Break(Final(breaks).first, Count)}
  PROVE  Apart' /\ \A o \in breaks' : IsWhole(o)
<1> DEFINE b == Final(breaks)
<1>1. b \in breaks /\ \A o \in breaks : o.last <= b.last
  BY FinalIsLast DEF IsWhole
<1>2. \A o \in breaks : /\ o.first \in 1..Count /\ o.last \in 1..Count /\ o.first <= o.last
  BY DEF IsWhole, InRange
<1> HIDE DEF b
<1>3. ASSUME NEW o \in breaks, o # b PROVE o.last < b.first
  <2>1. o.last < b.first \/ b.last < o.first
    BY <1>1, <1>3 DEF Apart
  <2> QED BY <1>1, <1>2, <2>1
<1>4. Count \in 1..Count /\ b.first \in 1..Count /\ b.first <= b.first /\ b.last <= Count
  BY <1>1, <1>2 DEF Ready
<1> QED BY <1>1, <1>3, <1>4, ApartOfGrown DEF b

LEMMA GrowToStart ==
  ASSUME Ready, Apart, \A b \in breaks : IsWhole(b), breaks # {}, Leading(breaks).first = 2,
         breaks' = (breaks \ {Leading(breaks)}) \cup {Break(1, Leading(breaks).last)}
  PROVE  Apart' /\ \A o \in breaks' : IsWhole(o)
<1> DEFINE b == Leading(breaks)
<1>1. b \in breaks /\ \A o \in breaks : b.first <= o.first
  BY LeadingIsFirst DEF IsWhole
<1>2. \A o \in breaks : /\ o.first \in 1..Count /\ o.last \in 1..Count /\ o.first <= o.last
  BY DEF IsWhole, InRange
<1> HIDE DEF b
<1>3. ASSUME NEW o \in breaks, o # b PROVE b.last < o.first
  <2>1. o.last < b.first \/ b.last < o.first
    BY <1>1, <1>3 DEF Apart
  <2> QED BY <1>1, <1>2, <2>1
<1>4. 1 \in 1..Count /\ b.last \in 1..Count /\ 1 <= b.first /\ b.last <= b.last
  BY <1>1, <1>2 DEF Ready
<1> QED BY <1>1, <1>3, <1>4, ApartOfGrown DEF b

\* A break moved to an edge of the recording is the break of the blocks up to there.
LEMMA LastMoved ==
  \A b, i, j, k : b = Break(i, j) => [b EXCEPT !.end = blocks[k].end, !.last = k] = Break(i, k)
<1> SUFFICES ASSUME NEW b, NEW i, NEW j, NEW k, b = Break(i, j)
             PROVE  [b EXCEPT !.end = blocks[k].end, !.last = k] = Break(i, k)
  OBVIOUS
<1>1. b = [start |-> blocks[i].start, end |-> blocks[j].end, first |-> i, last |-> j]
  BY DEF Break
<1>2. PICK q : q = [b EXCEPT !.end = blocks[k].end]
  OBVIOUS
<1>3. q = [start |-> blocks[i].start, end |-> blocks[k].end, first |-> i, last |-> j]
  BY <1>1, <1>2
<1>4. [q EXCEPT !.last = k] = [start |-> blocks[i].start, end |-> blocks[k].end, first |-> i, last |-> k]
  BY <1>3
<1>5. [b EXCEPT !.end = blocks[k].end, !.last = k] = [[b EXCEPT !.end = blocks[k].end] EXCEPT !.last = k]
  OBVIOUS
<1> QED BY <1>2, <1>4, <1>5, Zenon DEF Break

LEMMA FirstMoved ==
  \A b, i, j, k : b = Break(i, j) => [b EXCEPT !.start = blocks[k].start, !.first = k] = Break(k, j)
<1> SUFFICES ASSUME NEW b, NEW i, NEW j, NEW k, b = Break(i, j)
             PROVE  [b EXCEPT !.start = blocks[k].start, !.first = k] = Break(k, j)
  OBVIOUS
<1>1. b = [start |-> blocks[i].start, end |-> blocks[j].end, first |-> i, last |-> j]
  BY DEF Break
<1>2. PICK q : q = [b EXCEPT !.start = blocks[k].start]
  OBVIOUS
<1>3. q = [start |-> blocks[k].start, end |-> blocks[j].end, first |-> i, last |-> j]
  BY <1>1, <1>2
<1>4. [q EXCEPT !.first = k] = [start |-> blocks[k].start, end |-> blocks[j].end, first |-> k, last |-> j]
  BY <1>3
<1>5. [b EXCEPT !.start = blocks[k].start, !.first = k] = [[b EXCEPT !.start = blocks[k].start] EXCEPT !.first = k]
  OBVIOUS
<1> QED BY <1>2, <1>4, <1>5, Zenon DEF Break

LEMMA WholeStep ==
  Listing /\ (ExtendLast \/ ExtendFirst \/ DeleteByLength \/ LengthDone \/ DeleteAfterLast \/ DeleteBeforeFirst)
  => ListInv'
<1> SUFFICES ASSUME Listing, ExtendLast \/ ExtendFirst \/ DeleteByLength \/ LengthDone \/ DeleteAfterLast
                             \/ DeleteBeforeFirst
             PROVE  ListInv'
  OBVIOUS
<1>1. /\ pc \in WholePhases /\ pc' \in WholePhases \ {"extendAfter"} /\ UNCHANGED <<blocks, settings>>
  BY DEF ExtendLast, ExtendFirst, DeleteByLength, LengthDone, DeleteAfterLast, DeleteBeforeFirst, WholePhases, ListPhases,
         building, listing
<1>2. Ready /\ settings \in SettingsType /\ Apart /\ \A b \in breaks : IsWhole(b)
  BY <1>1 DEF Listing, ListInv, ListPhases, WholePhases
<1>3. \A b \in breaks : b \in BreakType /\ b = Break(b.first, b.last)
  BY <1>2, WholeBreak DEF IsWhole, InRange
<1>4. SUFFICES breaks' \subseteq breaks \/ (Apart' /\ \A b \in breaks' : IsWhole(b))
  BY <1>1, <1>2, ApartOfSubset, WholeSuffices
<1>5. CASE ExtendLast
  BY <1>2, <1>5, GrowToEnd DEF ExtendLast
<1>6. CASE ExtendFirst
  BY <1>2, <1>6, GrowToStart DEF ExtendFirst
<1>7. CASE DeleteByLength
  BY <1>7 DEF DeleteByLength
<1>8. CASE LengthDone
  BY <1>8 DEF LengthDone, listing
<1>9. CASE DeleteAfterLast /\ breaks' # breaks
  <2> DEFINE b == Final(breaks)
  <2>1. breaks # {} /\ breaks' = (breaks \ {b}) \cup {[b EXCEPT !.end = blocks[Count].end, !.last = Count]}
    BY <1>9 DEF DeleteAfterLast
  <2>2. b \in breaks
    BY <1>2, <2>1, FinalIsLast DEF IsWhole
  <2>3. [b EXCEPT !.end = blocks[Count].end, !.last = Count] = Break(b.first, Count)
    <3>1. b = Break(b.first, b.last)
      BY <1>3, <2>2
    <3> HIDE DEF b
    <3>2. \A i, j, k : b = Break(i, j) => [b EXCEPT !.end = blocks[k].end, !.last = k] = Break(i, k)
      BY LastMoved
    <3>3. \A k : [b EXCEPT !.end = blocks[k].end, !.last = k] = Break(b.first, k)
      BY <3>1, <3>2
    <3> QED BY <3>3
  <2> QED BY <1>2, <2>1, <2>3, GrowToEnd
<1>10. CASE DeleteBeforeFirst /\ breaks' # breaks
  <2> DEFINE b == Leading(breaks)
  <2>1. /\ breaks # {} /\ b.first = 2
        /\ breaks' = (breaks \ {b}) \cup {[b EXCEPT !.start = blocks[1].start, !.first = 1]}
    BY <1>10 DEF DeleteBeforeFirst
  <2>2. b \in breaks
    BY <1>2, <2>1, LeadingIsFirst DEF IsWhole
  <2>3. [b EXCEPT !.start = blocks[1].start, !.first = 1] = Break(1, b.last)
    <3>1. b = Break(b.first, b.last)
      BY <1>3, <2>2
    <3> HIDE DEF b
    <3>2. \A i, j, k : b = Break(i, j) => [b EXCEPT !.start = blocks[k].start, !.first = k] = Break(k, j)
      BY FirstMoved
    <3>3. \A k : [b EXCEPT !.start = blocks[k].start, !.first = k] = Break(k, b.last)
      BY <3>1, <3>2
    <3> QED BY <3>3
  <2> QED BY <1>2, <2>1, <2>3, GrowToStart
<1> QED BY <1>5, <1>6, <1>7, <1>8, <1>9, <1>10

\* The passes that shorten breaks leave them in the blocks they are of.
LEMMA KeepFirstStep == Listing /\ KeepFirst => ListInv'
<1> SUFFICES ASSUME Listing, KeepFirst PROVE ListInv'
  OBVIOUS
<1> DEFINE Now(b) == IF b.start < settings.keepFirst THEN [b EXCEPT !.start = settings.keepFirst] ELSE b
<1>1. /\ pc = "keepFirst" /\ pc' = "keepLast" /\ UNCHANGED <<blocks, settings>>
      /\ \A p \in breaks' : \E b \in breaks : p = Now(b)
  BY DEF KeepFirst, building
<1>2. Ready /\ settings \in SettingsType /\ settings.keepFirst \in Nat /\ Apart /\ \A b \in breaks : IsWhole(b)
  BY <1>1 DEF Listing, ListInv, ListPhases, WholePhases, SettingsType
<1>3. ASSUME NEW b \in breaks
      PROVE  /\ Now(b) \in BreakType /\ Now(b).first = b.first /\ Now(b).last = b.last
             /\ IsInside(Now(b)) /\ settings.keepFirst <= Now(b).start
  <2>1. /\ b.first \in 1..Count /\ b.last \in 1..Count /\ b.first <= b.last /\ b = Break(b.first, b.last)
    BY <1>2 DEF IsWhole, InRange
  <2>2. b \in BreakType /\ b.start = blocks[b.first].start /\ b.end = blocks[b.last].end
    BY <1>2, <2>1, WholeBreak
  <2>3. Now(b) \in BreakType /\ Now(b).first = b.first /\ Now(b).last = b.last /\ Now(b).end = b.end
    BY <1>2, <2>2 DEF BreakType
  <2>4. b.start <= Now(b).start /\ settings.keepFirst <= Now(b).start /\ b.start \in Int /\ b.end \in Int
    BY <1>2, <2>2 DEF BreakType
  <2> HIDE DEF Now
  <2> QED BY <2>1, <2>2, <2>3, <2>4 DEF IsInside, InRange
<1> HIDE DEF Now
<1>4. \A p \in breaks' : IsInside(p)' /\ settings.keepFirst <= p.start
  <2>1. \A p \in breaks' : IsInside(p) /\ settings.keepFirst <= p.start
    BY <1>1, <1>3
  <2> QED BY <1>1, <2>1 DEF IsInside, InRange, Count
<1>5. Apart'
  <2> SUFFICES ASSUME NEW p \in breaks', NEW q \in breaks', p # q PROVE p.last < q.first \/ q.last < p.first
    BY DEF Apart
  <2>1. PICK b \in breaks : p = Now(b)
    BY <1>1
  <2>2. PICK o \in breaks : q = Now(o)
    BY <1>1
  <2> QED BY <1>2, <1>3, <2>1, <2>2 DEF Apart
<1> QED BY <1>1, <1>2, <1>4, <1>5 DEF ListInv, BreaksSound, Apart, ListPhases, WholePhases, listed

LEMMA KeepLastStep == Listing /\ KeepLast => ListInv'
<1> SUFFICES ASSUME Listing, KeepLast PROVE ListInv'
  OBVIOUS
<1> DEFINE limit == blocks[Count].end - settings.keepLast
           Now(b) == IF b.end > limit THEN [b EXCEPT !.end = limit] ELSE b
<1>1. /\ pc = "keepLast" /\ pc' = "pad" /\ UNCHANGED <<blocks, settings>>
      /\ \A p \in breaks' : \E b \in breaks : p = Now(b)
  BY DEF KeepLast, building
<1>2. /\ Ready /\ settings \in SettingsType /\ Apart
      /\ \A b \in breaks : IsInside(b) /\ settings.keepFirst <= b.start
  BY <1>1 DEF Listing, ListInv, ListPhases
<1>3. limit = N - settings.keepLast /\ limit \in Int
  BY <1>2, BlocksAssumption DEF Ready, Cover, Count, SettingsType
<1> HIDE DEF limit
<1>4. ASSUME NEW b \in breaks
      PROVE  /\ Now(b).first = b.first /\ Now(b).last = b.last /\ Now(b).end <= limit
             /\ IsInside(Now(b)) /\ settings.keepFirst <= Now(b).start
  <2>1. b \in BreakType /\ InRange(b) /\ blocks[b.first].start <= b.start /\ b.end <= blocks[b.last].end
    BY <1>2 DEF IsInside
  <2>2. blocks[b.last] \in BlockType
    BY <1>2, <2>1 DEF Ready, InRange, Count
  <2>3. blocks[b.last].end \in Int /\ b.end \in Int
    BY <2>1, <2>2 DEF BlockType, BreakType
  <2>4. /\ Now(b) \in BreakType /\ Now(b).first = b.first /\ Now(b).last = b.last /\ Now(b).start = b.start
        /\ Now(b).end = IF b.end > limit THEN limit ELSE b.end
    BY <1>3, <2>1 DEF BreakType
  <2> HIDE DEF Now
  <2> QED BY <1>2, <1>3, <2>1, <2>3, <2>4 DEF IsInside, InRange
<1> HIDE DEF Now
<1>5. \A p \in breaks' : IsInside(p)' /\ settings.keepFirst <= p.start /\ p.end <= limit
  <2>1. \A p \in breaks' : IsInside(p) /\ settings.keepFirst <= p.start /\ p.end <= limit
    BY <1>1, <1>4
  <2> QED BY <1>1, <2>1 DEF IsInside, InRange, Count
<1>6. Apart'
  <2> SUFFICES ASSUME NEW p \in breaks', NEW q \in breaks', p # q PROVE p.last < q.first \/ q.last < p.first
    BY DEF Apart
  <2>1. PICK b \in breaks : p = Now(b)
    BY <1>1
  <2>2. PICK o \in breaks : q = Now(o)
    BY <1>1
  <2> QED BY <1>2, <1>4, <2>1, <2>2 DEF Apart
<1> QED BY <1>1, <1>2, <1>3, <1>5, <1>6 DEF ListInv, BreaksSound, Apart, ListPhases, WholePhases, listed

LEMMA PadStep == Listing /\ Pad => ListInv'
<1> SUFFICES ASSUME Listing, Pad PROVE ListInv'
  OBVIOUS
<1>1. /\ pc = "pad" /\ pc' = "written" /\ UNCHANGED <<blocks, settings>>
      /\ \A p \in breaks' : p.end > p.start /\ \E b \in breaks : p = Padded(b)
  BY DEF Pad, building
<1>2. /\ Ready /\ settings \in SettingsType /\ Apart
      /\ \A b \in breaks : IsInside(b) /\ settings.keepFirst <= b.start /\ b.end <= N - settings.keepLast
  BY <1>1 DEF Listing, ListInv, ListPhases
<1>3. /\ settings.padStart \in Int /\ settings.padEnd \in Int /\ settings.keepFirst \in Nat /\ settings.keepLast \in Nat
      /\ N \in Nat
  BY <1>2, BlocksAssumption DEF SettingsType
<1>4. ASSUME NEW b \in breaks
      PROVE  /\ Padded(b).first = b.first /\ Padded(b).last = b.last
             /\ Padded(b).start \in Int /\ Padded(b).end \in Int /\ b.start \in Int /\ b.end \in Int
             /\ settings.padStart >= 0 => b.start <= Padded(b).start
             /\ settings.padEnd >= 0 => Padded(b).end <= b.end
  <2>1. b \in BreakType
    BY <1>2 DEF IsInside
  <2>2. /\ b.start \in Int /\ b.end \in Int /\ Padded(b).first = b.first /\ Padded(b).last = b.last
        /\ Padded(b).start = IF b.start + settings.padStart < 0 THEN 0 ELSE b.start + settings.padStart
        /\ Padded(b).end = IF b.end - settings.padEnd > N THEN N ELSE b.end - settings.padEnd
    BY <2>1 DEF Padded, BreakType
  <2> QED BY <1>3, <2>2
<1>5. ASSUME NEW b \in breaks
      PROVE  /\ b.first \in 1..Count /\ b.last \in 1..Count /\ b.first <= b.last
             /\ blocks[b.first].start \in Int /\ blocks[b.last].end \in Int
             /\ 1 <= b.start /\ blocks[b.first].start <= b.start /\ b.end <= blocks[b.last].end
  <2>1. b \in BreakType /\ InRange(b) /\ blocks[b.first].start <= b.start /\ b.end <= blocks[b.last].end
    BY <1>2 DEF IsInside
  <2>2. blocks[b.first] \in BlockType /\ blocks[b.last] \in BlockType /\ 1 <= blocks[b.first].start
    BY <1>2, <2>1, BlocksInOrder DEF Ready, InRange, Count
  <2>3. blocks[b.first].start \in Int /\ blocks[b.last].end \in Int /\ b.start \in Int
    BY <2>1, <2>2 DEF BlockType, BreakType
  <2> QED BY <2>1, <2>2, <2>3 DEF InRange
<1>6. ASSUME NEW b \in breaks, NEW o \in breaks, b.last < o.first, settings.padStart >= 0, settings.padEnd >= 0
      PROVE  Padded(b).end < Padded(o).start
  <2>1. blocks[b.last].end < blocks[o.first].start
    BY <1>2, <1>5, <1>6, BlocksInOrder DEF Ready, Count
  <2>2. blocks[b.last].end \in Int /\ blocks[o.first].start \in Int /\ b.end <= blocks[b.last].end /\ blocks[o.first].start <= o.start
    BY <1>5
  <2>3. Padded(b).end <= b.end /\ o.start <= Padded(o).start
    BY <1>4, <1>6
  <2>4. Padded(b).end \in Int /\ Padded(o).start \in Int /\ b.end \in Int /\ o.start \in Int
    BY <1>4
  <2> QED BY <2>1, <2>2, <2>3, <2>4
<1>7. Apart'
  <2> SUFFICES ASSUME NEW p \in breaks', NEW q \in breaks', p # q PROVE p.last < q.first \/ q.last < p.first
    BY DEF Apart
  <2>1. PICK b \in breaks : p = Padded(b)
    BY <1>1
  <2>2. PICK o \in breaks : q = Padded(o)
    BY <1>1
  <2> QED BY <1>2, <1>4, <2>1, <2>2 DEF Apart
<1>8. ASSUME settings.padStart >= 0, settings.padEnd >= 0, NEW p \in breaks'
      PROVE  /\ settings.keepFirst <= p.start /\ 0 <= p.start /\ p.start < p.end /\ p.end <= N - settings.keepLast
             /\ \A q \in breaks' : p # q => p.end < q.start \/ q.end < p.start
  <2>1. PICK b \in breaks : p = Padded(b)
    BY <1>1
  <2>2. /\ b.start \in Int /\ b.end \in Int /\ p.start \in Int /\ p.end \in Int /\ b.start <= p.start /\ p.end <= b.end
        /\ p.end > p.start
    BY <1>1, <1>4, <1>8, <2>1
  <2>3. settings.keepFirst <= b.start /\ b.end <= N - settings.keepLast
    BY <1>2
  <2>4. ASSUME NEW q \in breaks', p # q PROVE p.end < q.start \/ q.end < p.start
    <3>1. PICK o \in breaks : q = Padded(o)
      BY <1>1
    <3>2. b.last < o.first \/ o.last < b.first
      BY <1>2, <2>1, <2>4, <3>1 DEF Apart
    <3> QED BY <1>6, <1>8, <2>1, <3>1, <3>2
  <2> QED BY <1>3, <2>2, <2>3, <2>4
<1> QED BY <1>1, <1>2, <1>7, <1>8 DEF ListInv, BreaksSound, Apart, ListPhases, WholePhases, listed

LEMMA ListIInv == IInv /\ ListInv /\ [Next]_vars => ListInv'
<1> SUFFICES ASSUME IInv, ListInv, [Next]_vars PROVE ListInv'
  OBVIOUS
<1>1. CASE UNCHANGED vars \/ Over
  <2>1. UNCHANGED <<pc, blocks, settings, ads, breaks>>
    BY <1>1 DEF vars, Over, listing
  <2> QED BY <2>1 DEF ListInv, BreaksSound, Apart, IsWhole, IsInside, InRange, Break, Count, listed
<1>2. CASE Validate \/ OpenGroup \/ Pull \/ CloseGroup \/ Combine \/ CombineDone \/ JoinGlitch \/ GlitchesDone \/ JoinLogo
  <2>1. pc' \notin ListPhases /\ ~listed'
    BY <1>2 DEF Validate, OpenGroup, Pull, CloseGroup, Combine, CombineDone, JoinGlitch, GlitchesDone, JoinLogo,
                ListPhases, listed
  <2> QED BY <2>1 DEF ListInv, BreaksSound, ListPhases, WholePhases
<1>3. CASE Decide
  <2>1. Ready
    BY <1>3, ReadyToList DEF Decide
  <2> QED BY <1>3, <2>1, DecideStep
<1>4. CASE ExtendAfter \/ KeepFirst \/ KeepLast \/ Pad
  <2>1. Listing
    BY <1>4, ReadyToList DEF Listing, ExtendAfter, KeepFirst, KeepLast, Pad
  <2> QED BY <1>4, <2>1, ExtendAfterStep, KeepFirstStep, KeepLastStep, PadStep
<1>5. CASE ExtendLast \/ ExtendFirst \/ DeleteByLength \/ LengthDone \/ DeleteAfterLast \/ DeleteBeforeFirst
  <2>1. Listing
    BY <1>5, ReadyToList DEF Listing, ExtendLast, ExtendFirst, DeleteByLength, LengthDone, DeleteAfterLast, DeleteBeforeFirst
  <2> QED BY <1>5, <2>1, WholeStep
<1> QED BY <1>1, <1>2, <1>3, <1>4, <1>5 DEF Next

\* BuildCommercial, the passes after it and ApplyCommercialPadding: for every verdict on the
\* blocks and every setting, breaks are runs of whole blocks, none in two, until they are
\* shortened, and what is written is apart and leaves what is always kept.
THEOREM ListSound == Spec => []BreaksSound
<1>1. Init => ListInv
  BY DEF Init, ListInv, BreaksSound, ListPhases, WholePhases, listed
<1>2. ListInv => BreaksSound
  BY DEF ListInv
<1> QED BY <1>1, <1>2, ListIInv, Inductive, PTL DEF Spec
=============================================================================
