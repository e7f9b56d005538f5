---------------------------- MODULE LiveJob_proofs ----------------------------
(***************************************************************************)
(* Proofs about the three threads of the live fingerprint job, for every   *)
(* stream of messages and capacity of the queue: first the queue between   *)
(* them (module AudioQueue) by itself; then the job, which uses it as that *)
(* module lets it, forgets no code on the way to the store, and ends as it *)
(* should.                                                                 *)
(***************************************************************************)
EXTENDS LiveJob, WellFoundedInduction, TLAPS

-----------------------------------------------------------------------------
(***************************************************************************)
(* The queue, for every capacity, every set of run starts and message      *)
(* sizes and every length of stream: it keeps its types, never holds more  *)
(* than its capacity, never makes the matching thread misplace a sample,   *)
(* and hands on every run start and the end.                               *)
(*                                                                         *)
(* The invariant that carries the proof says three things of the pieces    *)
(* that wait: their ghost counts add up, each begins where the one before  *)
(* it ends unless it opens a run, and the end comes last.  The lemmas of   *)
(* the first part say how appending a piece and taking the first one off   *)
(* keep such a sequence in order.                                          *)
(***************************************************************************)

\* The pieces s carry the counts from t (taken so far) up to k (kept so far).
CountedOf(s, k, t) ==
  /\ t <= k
  /\ s = <<>> => t = k
  /\ s # <<>> => s[1].upto = t + s[1].size /\ s[Len(s)].upto = k
  /\ \A i \in 1..Len(s) - 1 : s[i + 1].upto = s[i].upto + s[i + 1].size
  /\ \A i \in 1..Len(s) : t + s[i].size <= s[i].upto /\ s[i].upto <= k
  /\ \A i \in 1..Len(s) : \A j \in i..Len(s) : s[i].upto <= s[j].upto

\* Each piece of s that opens no run begins where the one before it ends, the
\* first one at position p.
ChainedOf(s, p) ==
  /\ \A i \in 1..Len(s) - 1 : s[i + 1].kind # "run" => s[i + 1].pos = s[i].pos + s[i].size
  /\ s # <<>> /\ s[1].kind # "run" => s[1].pos = p
  /\ \A i \in 1..Len(s) : s[i].kind # "audio" => s[i].size = 0

\* Where the pieces s lead from position p.
TailOf(s, p) == IF s = <<>> THEN p ELSE s[Len(s)].pos + s[Len(s)].size

\* What waits leads up to the place the stream has reached, unless a gap is open.
TailKnown == inRun /\ ~gap => TailOf(pieces, JobPosition) = runStart + runSamples

\* The end, once read, is the last piece until it is popped, and only then has the
\* matching thread seen it.
EndLast ==
  /\ ended /\ ~jobEnded => pieces # <<>> /\ pieces[Len(pieces)].kind = "end"
  /\ jobEnded => ended /\ pieces = <<>>
  /\ \A i \in 1..Len(pieces) : pieces[i].kind = "end" => ended /\ i = Len(pieces)

Counted == queued = kept - taken /\ CountedOf(pieces, kept, taken)
Chained == ChainedOf(pieces, JobPosition)

IInv == TypeOK /\ WithinCapacity /\ Counted /\ Chained /\ TailKnown /\ EndLast

-----------------------------------------------------------------------------
(* Sequences of pieces. *)

LEMMA PieceType ==
  ASSUME NEW kind \in {"run", "audio", "end"}, NEW pos \in Nat, NEW size \in Nat, NEW upto \in Nat
  PROVE  Piece(kind, pos, size, upto) \in Pieces
BY DEF Piece, Pieces

LEMMA PieceFields ==
  ASSUME NEW s \in Seq(Pieces), NEW i \in 1..Len(s)
  PROVE  s[i] \in Pieces /\ s[i].pos \in Nat /\ s[i].size \in Nat /\ s[i].upto \in Nat
<1>1. s[i] \in Pieces
  OBVIOUS
<1> QED BY <1>1 DEF Pieces

LEMMA AppendFacts ==
  ASSUME NEW s \in Seq(Pieces), NEW p \in Pieces
  PROVE  /\ Append(s, p) \in Seq(Pieces)
         /\ Len(Append(s, p)) = Len(s) + 1
         /\ Append(s, p) # <<>>
         /\ \A i \in 1..Len(s) : Append(s, p)[i] = s[i]
         /\ Append(s, p)[Len(s) + 1] = p
         /\ s = <<>> <=> Len(s) = 0
         /\ Len(s) \in Nat
OBVIOUS

LEMMA TailFacts ==
  ASSUME NEW s \in Seq(Pieces), s # <<>>
  PROVE  /\ Tail(s) \in Seq(Pieces)
         /\ Len(Tail(s)) = Len(s) - 1
         /\ Head(s) = s[1]
         /\ \A i \in 1..Len(s) - 1 : Tail(s)[i] = s[i + 1]
         /\ Tail(s) = <<>> <=> Len(s) = 1
         /\ Len(s) \in Nat \ {0}
<1>1. Len(s) \in Nat \ {0} /\ Head(s) = s[1]
  OBVIOUS
<1>2. Tail(s) \in Seq(Pieces) /\ Len(Tail(s)) = Len(s) - 1
  OBVIOUS
<1>3. \A i \in 1..Len(s) - 1 : Tail(s)[i] = s[i + 1]
  OBVIOUS
<1>4. Tail(s) = <<>> <=> Len(s) = 1
  BY <1>1, <1>2
<1> QED BY <1>1, <1>2, <1>3, <1>4

LEMMA AppendCounted ==
  ASSUME NEW s \in Seq(Pieces), NEW k \in Nat, NEW t \in Nat, CountedOf(s, k, t),
         NEW p \in Pieces, p.upto = k + p.size
  PROVE  CountedOf(Append(s, p), k + p.size, t)
<1> DEFINE r == Append(s, p)
<1>1. p.size \in Nat /\ p.upto \in Nat
  BY DEF Pieces
<1>2. \A i \in 1..Len(s) : s[i].size \in Nat /\ s[i].upto \in Nat
  BY PieceFields
<1> HIDE DEF r
<1>3. /\ Len(r) = Len(s) + 1 /\ r # <<>> /\ r[Len(s) + 1] = p /\ Len(s) \in Nat
      /\ \A i \in 1..Len(s) : r[i] = s[i]
      /\ s = <<>> <=> Len(s) = 0
  BY AppendFacts DEF r
<1>4. r[1].upto = t + r[1].size /\ r[Len(r)].upto = k + p.size
  <2>1. CASE s = <<>>
    BY <2>1, <1>1, <1>3 DEF CountedOf
  <2>2. CASE s # <<>>
    BY <2>2, <1>1, <1>2, <1>3 DEF CountedOf
  <2> QED BY <2>1, <2>2
<1>5. ASSUME NEW i \in 1..Len(r) - 1
      PROVE  r[i + 1].upto = r[i].upto + r[i + 1].size
  <2>1. CASE i = Len(s)
    BY <1>1, <1>3, <2>1 DEF CountedOf
  <2>2. CASE i < Len(s)
    BY <1>3, <2>2 DEF CountedOf
  <2> QED BY <1>3, <2>1, <2>2
<1>6. ASSUME NEW i \in 1..Len(r)
      PROVE  t + r[i].size <= r[i].upto /\ r[i].upto <= k + p.size
  <2>1. CASE i = Len(r)
    BY <1>1, <1>3, <2>1 DEF CountedOf
  <2>2. CASE i < Len(r)
    <3>1. i \in 1..Len(s) /\ r[i] = s[i]
      BY <1>3, <2>2
    <3>2. t + s[i].size <= s[i].upto /\ s[i].upto <= k
      BY <3>1 DEF CountedOf
    <3>3. s[i].size \in Nat /\ s[i].upto \in Nat
      BY <1>2, <3>1
    <3>4. s[i].upto <= k + p.size
      BY <1>1, <3>2, <3>3
    <3> QED BY <3>1, <3>2, <3>4
  <2> QED BY <1>3, <2>1, <2>2
<1>7. ASSUME NEW i \in 1..Len(r), NEW j \in i..Len(r)
      PROVE  r[i].upto <= r[j].upto
  <2>1. CASE j = Len(r)
    BY <1>4, <1>6, <2>1
  <2>2. CASE j < Len(r)
    BY <1>3, <2>2 DEF CountedOf
  <2> QED BY <1>3, <2>1, <2>2
<1>8. t <= k + p.size
  BY <1>1 DEF CountedOf
<1>9. CountedOf(r, k + p.size, t)
  BY <1>3, <1>4, <1>5, <1>6, <1>7, <1>8 DEF CountedOf
<1> QED BY <1>9 DEF r

LEMMA AppendChained ==
  ASSUME NEW s \in Seq(Pieces), NEW pos \in Nat, ChainedOf(s, pos),
         NEW p \in Pieces, p.kind # "run" => p.pos = TailOf(s, pos), p.kind # "audio" => p.size = 0
  PROVE  /\ ChainedOf(Append(s, p), pos)
         /\ TailOf(Append(s, p), pos) = p.pos + p.size
<1> DEFINE r == Append(s, p)
<1> HIDE DEF r
<1>1. /\ Len(r) = Len(s) + 1 /\ r # <<>> /\ r[Len(s) + 1] = p /\ Len(s) \in Nat
      /\ \A i \in 1..Len(s) : r[i] = s[i]
      /\ s = <<>> <=> Len(s) = 0
  BY AppendFacts DEF r
<1>2. ASSUME NEW i \in 1..Len(r) - 1, r[i + 1].kind # "run"
      PROVE  r[i + 1].pos = r[i].pos + r[i].size
  <2>1. CASE i = Len(s)
    BY <1>1, <1>2, <2>1 DEF TailOf
  <2>2. CASE i < Len(s)
    BY <1>1, <1>2, <2>2 DEF ChainedOf
  <2> QED BY <1>1, <2>1, <2>2
<1>3. ASSUME r[1].kind # "run"
      PROVE  r[1].pos = pos
  BY <1>1, <1>3 DEF ChainedOf, TailOf
<1>4. ASSUME NEW i \in 1..Len(r), r[i].kind # "audio"
      PROVE  r[i].size = 0
  BY <1>1, <1>4 DEF ChainedOf
<1>5. ChainedOf(r, pos) /\ TailOf(r, pos) = p.pos + p.size
  BY <1>1, <1>2, <1>3, <1>4 DEF ChainedOf, TailOf
<1> QED BY <1>5 DEF r

LEMMA PopCounted ==
  ASSUME NEW s \in Seq(Pieces), NEW k \in Nat, NEW t \in Nat, CountedOf(s, k, t), s # <<>>
  PROVE  CountedOf(Tail(s), k, t + Head(s).size)
<1> DEFINE r == Tail(s)
<1> HIDE DEF r
<1>1. /\ Len(r) = Len(s) - 1 /\ Head(s) = s[1] /\ Len(s) \in Nat \ {0}
      /\ \A i \in 1..Len(s) - 1 : r[i] = s[i + 1]
      /\ r = <<>> <=> Len(s) = 1
  BY TailFacts DEF r
<1>2. \A i \in 1..Len(s) : s[i].size \in Nat /\ s[i].upto \in Nat
  BY PieceFields
<1>3. s[1].upto = t + s[1].size /\ s[Len(s)].upto = k /\ s[1].upto <= k
  BY <1>1 DEF CountedOf
<1>4. t + s[1].size <= k
  BY <1>1, <1>2, <1>3
<1>5. r = <<>> => t + s[1].size = k
  BY <1>1, <1>2, <1>3
<1>6. r # <<>> => r[1].upto = t + s[1].size + r[1].size /\ r[Len(r)].upto = k
  <2> SUFFICES ASSUME r # <<>> PROVE r[1].upto = t + s[1].size + r[1].size /\ r[Len(r)].upto = k
    OBVIOUS
  <2>1. Len(s) >= 2
    BY <1>1
  <2>2. r[1] = s[2] /\ r[Len(r)] = s[Len(s)]
    BY <1>1, <2>1
  <2>3. s[2].upto = s[1].upto + s[2].size
    <3>1. 1 \in 1..Len(s) - 1 /\ 1 + 1 = 2
      BY <1>1, <2>1
    <3> QED BY <3>1 DEF CountedOf
  <2> QED BY <1>3, <2>2, <2>3
<1>7. ASSUME NEW i \in 1..Len(r) - 1
      PROVE  r[i + 1].upto = r[i].upto + r[i + 1].size
  BY <1>1 DEF CountedOf
<1>8. ASSUME NEW i \in 1..Len(r)
      PROVE  t + s[1].size + r[i].size <= r[i].upto /\ r[i].upto <= k
  <2>1. r[i] = s[i + 1] /\ i \in 1..Len(s) - 1
    BY <1>1
  <2>2. s[i + 1].upto = s[i].upto + s[i + 1].size /\ s[i + 1].upto <= k
    BY <1>1, <2>1 DEF CountedOf
  <2>3. t + s[1].size <= s[i].upto
    <3>1. 1 \in 1..Len(s) /\ i \in 1..Len(s)
      BY <1>1, <2>1
    <3>2. s[1].upto <= s[i].upto
      BY <3>1 DEF CountedOf
    <3>3. s[1].upto \in Nat /\ s[1].size \in Nat /\ s[i].upto \in Nat
      BY <1>2, <3>1
    <3> QED BY <1>3, <3>2, <3>3
  <2>4. /\ s[1].size \in Nat /\ s[i].upto \in Nat
        /\ s[i + 1].size \in Nat /\ s[i + 1].upto \in Nat
    <3>1. 1 \in 1..Len(s) /\ i \in 1..Len(s) /\ i + 1 \in 1..Len(s)
      BY <1>1, <2>1
    <3> QED BY <1>2, <3>1
  <2>5. t + s[1].size + s[i + 1].size <= s[i + 1].upto
    <3> DEFINE first == s[1].size
               here == s[i].upto
               size == s[i + 1].size
               after == s[i + 1].upto
    <3>1. /\ {first, here, size, after} \subseteq Nat
          /\ after = here + size /\ t + first <= here
      BY <2>2, <2>3, <2>4
    <3> HIDE DEF first, here, size, after
    <3>2. t + first + size <= after
      BY <3>1
    <3> QED BY <3>2 DEF first, here, size, after
  <2> QED BY <2>1, <2>2, <2>5
<1>9. ASSUME NEW i \in 1..Len(r), NEW j \in i..Len(r)
      PROVE  r[i].upto <= r[j].upto
  <2>1. r[i] = s[i + 1] /\ r[j] = s[j + 1] /\ i + 1 \in 1..Len(s) /\ j + 1 \in (i + 1)..Len(s)
    BY <1>1
  <2> QED BY <2>1 DEF CountedOf
<1>10. CountedOf(r, k, t + s[1].size)
  BY <1>1, <1>4, <1>5, <1>6, <1>7, <1>8, <1>9 DEF CountedOf
<1> QED BY <1>1, <1>10 DEF r

LEMMA PopChained ==
  ASSUME NEW s \in Seq(Pieces), NEW pos \in Nat, ChainedOf(s, pos), s # <<>>
  PROVE  /\ ChainedOf(Tail(s), Head(s).pos + Head(s).size)
         /\ TailOf(Tail(s), Head(s).pos + Head(s).size) = TailOf(s, pos)
<1> DEFINE r == Tail(s)
<1> HIDE DEF r
<1>1. /\ Len(r) = Len(s) - 1 /\ Head(s) = s[1] /\ Len(s) \in Nat \ {0}
      /\ \A i \in 1..Len(s) - 1 : r[i] = s[i + 1]
      /\ r = <<>> <=> Len(s) = 1
  BY TailFacts DEF r
<1>2. ASSUME NEW i \in 1..Len(r) - 1, r[i + 1].kind # "run"
      PROVE  r[i + 1].pos = r[i].pos + r[i].size
  BY <1>1, <1>2 DEF ChainedOf
<1>3. ASSUME r # <<>>, r[1].kind # "run"
      PROVE  r[1].pos = s[1].pos + s[1].size
  <2>1. 1 \in 1..Len(s) - 1 /\ r[1] = s[1 + 1]
    BY <1>1, <1>3
  <2> QED BY <1>3, <2>1 DEF ChainedOf
<1>4. ASSUME NEW i \in 1..Len(r), r[i].kind # "audio"
      PROVE  r[i].size = 0
  BY <1>1, <1>4 DEF ChainedOf
<1>5. TailOf(r, s[1].pos + s[1].size) = TailOf(s, pos)
  BY <1>1 DEF TailOf
<1> QED BY <1>1, <1>2, <1>3, <1>4, <1>5 DEF r, ChainedOf

LEMMA TailOfType ==
  ASSUME NEW s \in Seq(Pieces), NEW pos \in Nat
  PROVE  TailOf(s, pos) \in Nat
<1>1. CASE s = <<>>
  BY <1>1 DEF TailOf
<1>2. CASE s # <<>>
  BY <1>2, PieceFields DEF TailOf
<1> QED BY <1>1, <1>2

LEMMA TailPositionIsTailOf == TailPosition = TailOf(pieces, JobPosition)
BY DEF TailPosition, TailOf, Last

-----------------------------------------------------------------------------
(* The invariant. *)

LEMMA InitIInv == Init => IInv
<1> SUFFICES ASSUME Init PROVE IInv
  OBVIOUS
<1> USE DEF Init
<1>1. TypeOK
  <2>1. pieces \in Seq(Pieces)
    OBVIOUS
  <2>2. closed \in BOOLEAN /\ gap \in BOOLEAN /\ inRun \in BOOLEAN /\ ended \in BOOLEAN /\ jobEnded \in BOOLEAN
    OBVIOUS
  <2> QED BY <2>1, <2>2 DEF TypeOK
<1>2. WithinCapacity /\ Counted /\ Chained /\ TailKnown /\ EndLast
  BY QueueAssumption DEF WithinCapacity, Counted, CountedOf, Chained, ChainedOf, TailKnown, EndLast
<1> QED BY <1>1, <1>2 DEF IInv

LEMMA RunStartIInv ==
  ASSUME IInv, NEW start \in Starts, RunStart(start)
  PROVE  IInv'
<1> DEFINE p == Piece("run", start, 0, kept)
<1>0. /\ TypeOK /\ start \in Nat /\ p \in Pieces /\ kept \in Nat /\ taken \in Nat
      /\ pieces' = Append(pieces, p) /\ pieces \in Seq(Pieces) /\ JobPosition \in Nat
      /\ UNCHANGED <<queued, peak, dropped, closed, ended, kept, taken, jobStart, jobSamples, jobEnded>>
      /\ runStart' = start /\ runSamples' = 0 /\ ~gap' /\ inRun' /\ ~ended /\ ~jobEnded
  BY QueueAssumption, PieceType DEF IInv, TypeOK, RunStart, Reading, jobVars, EndLast, JobPosition
<1>1. TypeOK'
  <2>1. pieces' \in Seq(Pieces)
    BY <1>0, AppendFacts
  <2>2. messages' \in Nat /\ runStart' \in Nat /\ runSamples' \in Nat
    BY <1>0 DEF TypeOK, RunStart
  <2>3. inRun' \in BOOLEAN /\ gap' \in BOOLEAN
    BY DEF RunStart
  <2> HIDE DEF p
  <2> QED BY <1>0, <2>1, <2>2, <2>3 DEF TypeOK
<1>2. WithinCapacity'
  BY <1>0 DEF IInv, WithinCapacity
<1>3. Counted'
  <2>1. p.upto = kept + p.size /\ kept + p.size = kept
    BY <1>0 DEF Piece
  <2>2. CountedOf(Append(pieces, p), kept, taken)
    BY <1>0, <2>1, AppendCounted DEF IInv, Counted
  <2> QED BY <1>0, <2>2 DEF IInv, Counted
<1>4. Chained' /\ TailKnown'
  <2>1. p.kind = "run" /\ p.size = 0 /\ p.pos = start
    BY DEF Piece
  <2>2. ChainedOf(Append(pieces, p), JobPosition) /\ TailOf(Append(pieces, p), JobPosition) = start + 0
    BY <1>0, <2>1, AppendChained DEF IInv, Chained
  <2>3. JobPosition' = JobPosition
    BY <1>0 DEF JobPosition
  <2> QED BY <1>0, <2>2, <2>3 DEF Chained, TailKnown
<1>5. EndLast'
  <2>1. p.kind # "end"
    BY DEF Piece
  <2> QED BY <1>0, <2>1, AppendFacts DEF IInv, EndLast
<1> QED BY <1>1, <1>2, <1>3, <1>4, <1>5 DEF IInv

\* Keeping audio: the pieces it appends, one or two, begin where the tail stands.
LEMMA KeepIInv ==
  ASSUME IInv, NEW n \in Sizes, Audio(n), Keep(n)
  PROVE  IInv'
<1> DEFINE at == runStart + runSamples
           run == Piece("run", at, 0, kept)
           audio == Piece("audio", at, n, kept + n)
<1>0. /\ TypeOK /\ n \in Nat /\ at \in Nat /\ run \in Pieces /\ audio \in Pieces
      /\ kept \in Nat /\ taken \in Nat /\ pieces \in Seq(Pieces) /\ JobPosition \in Nat
      /\ pieces' = Append(Resumed, audio)
      /\ UNCHANGED <<dropped, closed, runStart, inRun, ended, taken, jobStart, jobSamples, jobEnded>>
      /\ kept' = kept + n /\ queued' = queued + n /\ runSamples' = runSamples + n
      /\ peak' = (IF queued + n > peak THEN queued + n ELSE peak)
      /\ ~gap' /\ inRun /\ ~ended /\ ~jobEnded /\ queued + n <= Capacity
      /\ Resumed = IF gap THEN Append(pieces, run) ELSE pieces
  BY QueueAssumption, PieceType
     DEF IInv, TypeOK, Audio, Keep, Fits, Resumed, Reading, jobVars, EndLast, JobPosition
<1>1. /\ run.kind = "run" /\ run.size = 0 /\ run.pos = at /\ run.upto = kept
      /\ audio.kind = "audio" /\ audio.size = n /\ audio.pos = at /\ audio.upto = kept + n
  BY DEF Piece
<1> HIDE DEF run, audio
<1>2. Resumed \in Seq(Pieces) /\ CountedOf(Resumed, kept, taken)
  <2>1. CASE gap
    <3>1. run.upto = kept + run.size /\ kept + run.size = kept
      BY <1>0, <1>1
    <3>2. CountedOf(Append(pieces, run), kept, taken)
      BY <1>0, <3>1, AppendCounted DEF IInv, Counted
    <3> QED BY <1>0, <2>1, <3>2, AppendFacts
  <2>2. CASE ~gap
    BY <1>0, <2>2 DEF IInv, Counted
  <2> QED BY <2>1, <2>2
<1>3. ChainedOf(Resumed, JobPosition) /\ TailOf(Resumed, JobPosition) = at
  <2>1. CASE gap
    <3>1. /\ ChainedOf(Append(pieces, run), JobPosition)
          /\ TailOf(Append(pieces, run), JobPosition) = at + 0
      BY <1>0, <1>1, AppendChained DEF IInv, Chained
    <3>2. at + 0 = at
      BY <1>0
    <3> QED BY <1>0, <2>1, <3>1, <3>2
  <2>2. CASE ~gap
    BY <1>0, <2>2 DEF IInv, Chained, TailKnown
  <2> QED BY <2>1, <2>2
<1>4. Counted'
  <2>1. CountedOf(Append(Resumed, audio), kept + n, taken)
    BY <1>0, <1>1, <1>2, AppendCounted
  <2>2. queued + n = (kept + n) - taken
    BY <1>0 DEF IInv, Counted, TypeOK
  <2> QED BY <1>0, <2>1, <2>2 DEF Counted
<1>5. Chained' /\ TailKnown'
  <2>1. /\ ChainedOf(Append(Resumed, audio), JobPosition)
        /\ TailOf(Append(Resumed, audio), JobPosition) = at + n
    <3>1. audio.pos = TailOf(Resumed, JobPosition) /\ audio.kind = "audio" /\ audio.pos + audio.size = at + n
      BY <1>1, <1>3
    <3>2. Resumed \in Seq(Pieces) /\ JobPosition \in Nat /\ audio \in Pieces /\ ChainedOf(Resumed, JobPosition)
      BY <1>0, <1>2, <1>3
    <3> QED BY <3>1, <3>2, AppendChained
  <2>2. JobPosition' = JobPosition
    BY <1>0 DEF JobPosition
  <2>3. at + n = runStart' + runSamples'
    BY <1>0 DEF TypeOK
  <2> QED BY <1>0, <2>1, <2>2, <2>3 DEF Chained, TailKnown
<1>6. EndLast'
  <2>1. \A i \in 1..Len(Resumed) : Resumed[i].kind # "end"
    <3>1. \A i \in 1..Len(pieces) : pieces[i].kind # "end"
      BY <1>0 DEF IInv, EndLast
    <3> QED BY <1>0, <1>1, <3>1, AppendFacts
  <2> QED BY <1>0, <1>1, <1>2, <2>1, AppendFacts DEF EndLast
<1>7. TypeOK'
  <2>1. pieces' \in Seq(Pieces)
    BY <1>0, <1>2, AppendFacts
  <2>2. /\ messages' \in Nat /\ runSamples' \in Nat /\ queued' \in Nat /\ peak' \in Nat
        /\ kept' \in Nat
    BY <1>0 DEF TypeOK, Audio
  <2>3. gap' \in BOOLEAN
    BY DEF Keep
  <2> QED BY <1>0, <2>1, <2>2, <2>3 DEF TypeOK
<1>8. WithinCapacity'
  BY <1>0 DEF IInv, WithinCapacity, TypeOK
<1> QED BY <1>4, <1>5, <1>6, <1>7, <1>8 DEF IInv

LEMMA DropIInv ==
  ASSUME IInv, NEW n \in Sizes, Audio(n), Drop(n)
  PROVE  IInv'
<1>1. /\ n \in Nat /\ gap' /\ inRun'
      /\ UNCHANGED <<pieces, queued, peak, kept, taken, closed, runStart, inRun, ended, jobStart, jobSamples, jobEnded>>
  BY QueueAssumption DEF Audio, Drop, jobVars
<1>2. TypeOK'
  <2>1. dropped' \in Nat /\ messages' \in Nat /\ runSamples' \in Nat
    BY <1>1 DEF IInv, TypeOK, Audio, Drop
  <2>2. gap' \in BOOLEAN
    BY DEF Drop
  <2> QED BY <1>1, <2>1, <2>2 DEF IInv, TypeOK
<1>3. WithinCapacity' /\ Counted' /\ Chained' /\ TailKnown' /\ EndLast'
  BY <1>1 DEF IInv, WithinCapacity, Counted, CountedOf, Chained, ChainedOf, TailKnown, EndLast, JobPosition
<1> QED BY <1>2, <1>3 DEF IInv

LEMMA EndIInv ==
  ASSUME IInv, End
  PROVE  IInv'
<1> DEFINE p == Piece("end", TailPosition, 0, kept)
<1>0. /\ TypeOK /\ kept \in Nat /\ taken \in Nat /\ pieces \in Seq(Pieces) /\ JobPosition \in Nat
      /\ pieces' = Append(pieces, p) /\ TailPosition \in Nat
      /\ UNCHANGED <<queued, peak, dropped, closed, runStart, runSamples, gap, kept, inRun, taken,
                     jobStart, jobSamples, jobEnded>>
      /\ ended' /\ ~ended /\ ~jobEnded
  BY TailOfType, TailPositionIsTailOf
     DEF IInv, TypeOK, End, WithEnd, Reading, jobVars, EndLast, JobPosition
<1>1. p \in Pieces /\ p.kind = "end" /\ p.size = 0 /\ p.pos = TailPosition /\ p.upto = kept
  BY <1>0, PieceType DEF Piece
<1> HIDE DEF p
<1>2. TypeOK'
  <2>1. pieces' \in Seq(Pieces)
    BY <1>0, <1>1, AppendFacts
  <2>2. messages' \in Nat
    BY <1>0 DEF TypeOK, End
  <2>3. ended' \in BOOLEAN
    BY DEF End
  <2> QED BY <1>0, <2>1, <2>2, <2>3 DEF TypeOK
<1>3. Counted'
  <2>1. p.upto = kept + p.size /\ kept + p.size = kept
    BY <1>0, <1>1
  <2>2. CountedOf(Append(pieces, p), kept, taken)
    BY <1>0, <1>1, <2>1, AppendCounted DEF IInv, Counted
  <2> QED BY <1>0, <2>2 DEF IInv, Counted
<1>4. Chained' /\ TailKnown'
  <2>1. /\ ChainedOf(Append(pieces, p), JobPosition)
        /\ TailOf(Append(pieces, p), JobPosition) = TailPosition + 0
    BY <1>0, <1>1, AppendChained, TailPositionIsTailOf DEF IInv, Chained
  <2>2. JobPosition' = JobPosition
    BY <1>0 DEF JobPosition
  <2>3. TailPosition + 0 = TailOf(pieces, JobPosition)
    BY <1>0, TailPositionIsTailOf
  <2> QED BY <1>0, <2>1, <2>2, <2>3 DEF IInv, Chained, TailKnown
<1>5. EndLast'
  <2>1. \A i \in 1..Len(pieces) : pieces[i].kind # "end"
    BY <1>0 DEF IInv, EndLast
  <2> QED BY <1>0, <1>1, <2>1, AppendFacts DEF EndLast
<1>6. WithinCapacity'
  BY <1>0 DEF IInv, WithinCapacity
<1> QED BY <1>2, <1>3, <1>4, <1>5, <1>6 DEF IInv

LEMMA PopIInv ==
  ASSUME IInv, Pop
  PROVE  IInv'
<1> DEFINE p == Head(pieces)
<1>0. /\ TypeOK /\ kept \in Nat /\ taken \in Nat /\ pieces \in Seq(Pieces) /\ JobPosition \in Nat
      /\ pieces # <<>> /\ pieces' = Tail(pieces)
      /\ queued' = queued - p.size /\ taken' = taken + p.size
      /\ jobStart' = (IF p.kind = "run" THEN p.pos ELSE jobStart)
      /\ jobSamples' = (IF p.kind = "run" THEN 0 ELSE jobSamples + p.size)
      /\ jobEnded' = (jobEnded \/ p.kind = "end")
      /\ UNCHANGED <<peak, dropped, closed, runStart, runSamples, gap, kept, inRun, ended, messages>>
  BY DEF IInv, TypeOK, Pop, QueuedAfter, parserVars, JobPosition
<1>1. p \in Pieces /\ p = pieces[1] /\ 1 \in 1..Len(pieces) /\ p.size \in Nat /\ p.pos \in Nat
  BY <1>0, TailFacts, PieceFields
<1> HIDE DEF p
<1>2. JobPosition' = p.pos + p.size
  <2>1. p.kind = "run" => p.size = 0
    BY <1>0, <1>1 DEF IInv, Chained, ChainedOf
  <2>2. p.kind # "run" => p.pos = jobStart + jobSamples
    BY <1>0, <1>1 DEF IInv, Chained, ChainedOf, JobPosition
  <2>3. CASE p.kind = "run"
    BY <1>0, <1>1, <2>1, <2>3 DEF JobPosition
  <2>4. CASE p.kind # "run"
    <3>1. jobStart \in Nat /\ jobSamples \in Nat /\ jobStart' = jobStart /\ jobSamples' = jobSamples + p.size
      BY <1>0, <2>4 DEF TypeOK
    <3> QED BY <1>1, <2>2, <2>4, <3>1 DEF JobPosition
  <2> QED BY <2>3, <2>4
<1>3. Counted'
  <2>1. CountedOf(Tail(pieces), kept, taken + p.size)
    BY <1>0, PopCounted DEF p, IInv, Counted
  <2> QED BY <1>0, <1>1, <2>1 DEF IInv, Counted, TypeOK
<1>4. Chained' /\ TailKnown'
  <2>1. /\ ChainedOf(Tail(pieces), p.pos + p.size)
        /\ TailOf(Tail(pieces), p.pos + p.size) = TailOf(pieces, JobPosition)
    BY <1>0, PopChained DEF p, IInv, Chained
  <2> QED BY <1>0, <1>2, <2>1 DEF IInv, Chained, TailKnown
<1>5. EndLast'
  <2>1. ~jobEnded
    BY <1>0 DEF IInv, EndLast
  <2>2. CASE p.kind = "end"
    <3>1. ended /\ Len(pieces) = 1
      BY <1>1, <2>2 DEF IInv, EndLast
    <3>2. ended' /\ jobEnded'
      BY <1>0, <2>2, <3>1
    <3>3. pieces' = <<>> /\ Len(pieces') = 0
      BY <1>0, <3>1, TailFacts
    <3> QED BY <3>2, <3>3 DEF EndLast
  <2>3. CASE p.kind # "end"
    <3>1. ended => Len(pieces) # 1 /\ pieces[Len(pieces)].kind = "end"
      BY <1>1, <2>1, <2>3 DEF IInv, EndLast
    <3>2. \A i \in 1..Len(Tail(pieces)) : Tail(pieces)[i].kind = "end" => ended /\ i = Len(Tail(pieces))
      BY <1>0, TailFacts DEF IInv, EndLast
    <3>3. ~jobEnded' /\ ended' = ended
      BY <1>0, <2>1, <2>3
    <3>4. ended => Tail(pieces) # <<>> /\ Tail(pieces)[Len(Tail(pieces))] = pieces[Len(pieces)]
      BY <1>0, <3>1, TailFacts
    <3>5. pieces' = Tail(pieces)
      BY <1>0
    <3>6. ended => Tail(pieces)[Len(Tail(pieces))].kind = "end"
      BY <3>1, <3>4
    <3>7. ended' /\ ~jobEnded' => pieces' # <<>> /\ pieces'[Len(pieces')].kind = "end"
      BY ONLY <3>3, <3>4, <3>5, <3>6
    <3>8. \A i \in 1..Len(pieces') : pieces'[i].kind = "end" => ended' /\ i = Len(pieces')
      BY ONLY <3>2, <3>3, <3>5
    <3> QED BY <3>3, <3>7, <3>8 DEF EndLast
  <2> QED BY <2>2, <2>3
<1>6. TypeOK'
  <2>1. pieces' \in Seq(Pieces)
    BY <1>0, TailFacts
  <2>2. queued' \in Nat
    BY <1>0, <1>1, <1>3 DEF Counted, CountedOf
  <2>3. taken' \in Nat
    BY <1>0, <1>1
  <2>4. jobStart \in Nat /\ jobSamples \in Nat
    BY <1>0 DEF TypeOK
  <2>5. jobStart' \in Nat
    BY <1>0, <1>1, <2>4
  <2>6. jobSamples' \in Nat
    BY <1>0, <1>1, <2>4
  <2>7. jobEnded' \in BOOLEAN
    BY <1>0 DEF TypeOK
  <2> QED BY <1>0, <2>1, <2>2, <2>3, <2>5, <2>6, <2>7 DEF TypeOK
<1>7. WithinCapacity'
  BY <1>0, <1>1 DEF IInv, WithinCapacity, TypeOK, QueueAssumption
<1> QED BY <1>3, <1>4, <1>5, <1>6, <1>7 DEF IInv

LEMMA StepIInv == IInv /\ [Next]_queueAndStream => IInv'
<1> SUFFICES ASSUME IInv, [Next]_queueAndStream PROVE IInv'
  OBVIOUS
<1>1. ASSUME NEW start \in Starts, RunStart(start) PROVE IInv'
  BY <1>1, RunStartIInv
<1>2. ASSUME NEW n \in Sizes, Audio(n) PROVE IInv'
  BY <1>2, KeepIInv, DropIInv DEF Audio
<1>3. CASE End
  BY <1>3, EndIInv
<1>4. CASE Close
  BY <1>4 DEF Close, IInv, TypeOK, WithinCapacity, Counted, CountedOf, Chained, ChainedOf, TailKnown,
     TailOf, EndLast, JobPosition, parserVars, jobVars
<1>5. CASE Pop
  BY <1>5, PopIInv
<1>6. CASE UNCHANGED queueAndStream
  BY <1>6 DEF queueAndStream, queueVars, parserVars, jobVars, IInv, TypeOK, WithinCapacity, Counted,
     CountedOf, Chained, ChainedOf, TailKnown, TailOf, EndLast, JobPosition
<1> QED BY <1>1, <1>2, <1>3, <1>4, <1>5, <1>6 DEF Next

THEOREM Invariance == Spec => []IInv
BY InitIInv, StepIInv, PTL DEF Spec

\* Type correctness of the queue, for every Capacity, Starts, Sizes and stream.
THEOREM TypeCorrect == Spec => []TypeOK
<1>1. IInv => TypeOK
  BY DEF IInv
<1> QED BY <1>1, Invariance, PTL

\* The queue never holds more audio than its capacity, whatever arrives.
THEOREM CapacityKept == Spec => []WithinCapacity
<1>1. IInv => WithinCapacity
  BY DEF IInv
<1> QED BY <1>1, Invariance, PTL

\* Whatever is dropped, the matching thread feeds every sample at the capture
\* position it really has.
THEOREM SamplesInPlace == Spec => []InPlace
<1>1. IInv => InPlace
  BY TailFacts DEF IInv, TypeOK, Chained, ChainedOf, InPlace
<1> QED BY <1>1, Invariance, PTL

\* Whatever is dropped, a drained queue has handed on every run start and the end.
THEOREM DrainedIsComplete == Spec => []DrainedComplete
<1>1. IInv => DrainedComplete
  <2> SUFFICES ASSUME IInv, Drained PROVE jobEnded = ended /\ (inRun /\ ~gap => JobPosition = runStart + runSamples)
    BY DEF DrainedComplete
  <2>1. jobEnded \in BOOLEAN /\ ended \in BOOLEAN /\ pieces = <<>>
    BY DEF IInv, TypeOK, Drained
  <2>2. jobEnded <=> ended
    BY <2>1 DEF IInv, EndLast
  <2>3. jobEnded = ended
    BY <2>1, <2>2
  <2>4. inRun /\ ~gap => JobPosition = runStart + runSamples
    BY <2>1 DEF IInv, TailKnown, TailOf
  <2> QED BY <2>3, <2>4
<1> QED BY <1>1, Invariance, PTL

-----------------------------------------------------------------------------
(* The count. *)

\* Induction, in the form the provers can use: a set of naturals has a least element.
LEMMA LeastNatural ==
  ASSUME NEW T \in SUBSET Nat, T # {}
  PROVE  \E m \in T : \A n \in T : m <= n
<1> DEFINE R == OpToRel(<, Nat)
<1>1. IsWellFoundedOn(R, Nat)
  BY NatLessThanWellFounded
<1>2. \A x, y \in Nat : <<y, x>> \in R <=> y < x
  BY DEF OpToRel
<1> HIDE DEF R
<1>3. PICK m \in T : \A n \in T : ~(<<n, m>> \in R)
  BY <1>1, WFMin
<1>4. \A n \in T : m \in Nat /\ n \in Nat /\ ~(n < m)
  BY <1>2, <1>3
<1> QED BY <1>4

\* The sum over the pieces that wait, however it recurs, is what their counts give.
LEMMA SumExact ==
  ASSUME IInv
  PROVE  Waiting = queued
<1> DEFINE L == Len(pieces)
           Sums(f) == [n \in 0..L |-> IF n = 0 THEN 0 ELSE f[n - 1] + pieces[n].size]
           counted == [n \in 0..L |-> IF n = 0 THEN 0 ELSE pieces[n].upto - taken]
           sum == CHOOSE f : f = Sums(f)
<1>1. Waiting = sum[L]
  BY DEF Waiting
<1>2. /\ L \in Nat /\ taken \in Nat /\ kept \in Nat /\ queued = kept - taken
      /\ pieces = <<>> => L = 0 /\ kept = taken
      /\ L = 0 => pieces = <<>>
      /\ \A i \in 1..L : pieces[i].size \in Nat /\ pieces[i].upto \in Nat
      /\ L > 0 => pieces[1].upto = taken + pieces[1].size /\ pieces[L].upto = kept
      /\ \A i \in 1..L - 1 : pieces[i + 1].upto = pieces[i].upto + pieces[i + 1].size
  BY PieceFields DEF IInv, TypeOK, Counted, CountedOf
<1> HIDE DEF L
<1>3. ASSUME NEW n \in 1..L PROVE counted[n] = counted[n - 1] + pieces[n].size
  <2>1. CASE n = 1
    BY <1>2, <2>1
  <2>2. CASE n # 1
    <3>1. n - 1 \in 1..L - 1 /\ (n - 1) + 1 = n
      BY <1>2, <2>2
    <3>2. pieces[n].upto = pieces[n - 1].upto + pieces[n].size
      BY <1>2, <3>1
    <3>3. n \in 0..L /\ n - 1 \in 0..L /\ n # 0 /\ n - 1 # 0 /\ n - 1 \in 1..L
      BY <1>2, <2>2
    <3>4. counted[n] = pieces[n].upto - taken /\ counted[n - 1] = pieces[n - 1].upto - taken
      BY <3>3
    <3>5. pieces[n - 1].upto \in Nat /\ pieces[n].size \in Nat
      BY <1>2, <3>3
    <3> HIDE DEF counted
    <3> QED BY <1>2, <3>2, <3>4, <3>5
  <2> QED BY <2>1, <2>2
<1>4. counted = Sums(counted)
  <2>1. counted = [n \in 0..L |-> counted[n]] /\ counted[0] = 0
    BY <1>2
  <2> HIDE DEF counted
  <2>2. \A n \in 0..L : counted[n] = IF n = 0 THEN 0 ELSE counted[n - 1] + pieces[n].size
    <3>1. \A n \in 0..L : n = 0 \/ n \in 1..L
      BY <1>2
    <3>2. \A n \in 1..L : n # 0
      BY <1>2
    <3> QED BY <1>3, <2>1, <3>1, <3>2
  <2> QED BY <2>1, <2>2
<1>5. sum = Sums(sum)
  BY <1>4
<1>6. \A n \in 0..L : sum[n] = IF n = 0 THEN 0 ELSE sum[n - 1] + pieces[n].size
  BY <1>5
<1> HIDE DEF sum, counted, Sums
<1>7. counted[0] = 0 /\ counted[L] = queued
  BY <1>2 DEF counted
<1> DEFINE wrong == {n \in 0..L : sum[n] # counted[n]}
<1>8. wrong = {}
  <2> SUFFICES ASSUME wrong # {} PROVE FALSE
    OBVIOUS
  <2>1. wrong \in SUBSET Nat
    BY <1>2
  <2>2. PICK m \in wrong : \A n \in wrong : m <= n
    BY <2>1, LeastNatural
  <2>3. m \in 1..L /\ m - 1 \in 0..L /\ m - 1 \notin wrong
    BY <1>2, <1>6, <1>7, <2>1, <2>2
  <2>4. sum[m - 1] = counted[m - 1] /\ sum[m] = sum[m - 1] + pieces[m].size
    BY <1>2, <1>6, <2>3
  <2> QED BY <1>3, <2>2, <2>3, <2>4
<1> QED BY <1>1, <1>2, <1>7, <1>8

\* queued_ is exactly the audio that waits, so the subtraction in pop never wraps, and no
\* sample is lost between what was kept and what was taken.
THEOREM CountsExact == Spec => []CountExact
<1>1. IInv => CountExact
  <2> SUFFICES ASSUME IInv PROVE CountExact
    OBVIOUS
  <2>1. queued = kept - taken /\ kept \in Nat /\ taken \in Nat
    BY DEF IInv, Counted, TypeOK
  <2> QED BY <2>1, SumExact DEF CountExact
<1> QED BY <1>1, Invariance, PTL

-----------------------------------------------------------------------------
(* The job and its queue. *)

\* Every step of the job is a step of the queue, or one the queue does not see.
LEMMA JobStepsQueue == [JobNext]_vars => [Next]_queueAndStream
<1>1. Read => Next
  BY DEF Read, Next
<1>2. ASSUME NEW failed \in BOOLEAN, CloseQueue(failed) PROVE Next
  BY <1>2 DEF CloseQueue, Next
<1>3. PopPiece => Next
  BY DEF PopPiece, Next
<1>4. TakeIndex \/ PopNothing \/ LookIfDrained \/ Publish \/ Leave \/ TellStop \/ JoinStore \/ Unwind \/ UnwindJoin
      => UNCHANGED queueAndStream
  BY DEF TakeIndex, PopNothing, LookIfDrained, Publish, Leave, TellStop, JoinStore, Unwind, UnwindJoin
<1>5. StoreSteps \/ FailStore \/ StoreBusy \/ Promote => UNCHANGED queueAndStream
  BY DEF StoreSteps, OpenStore, TakeRuns, AppendRuns, ReadKey, BuildIndex, EndRound, Wake, FailStore, StoreBusy, Promote
<1>6. Exited \/ UNCHANGED vars => UNCHANGED queueAndStream
  BY DEF Exited, vars
<1> QED
  BY <1>1, <1>2, <1>3, <1>4, <1>5, <1>6 DEF JobNext, Matching

\* The threads of live() use the queue as the queue's own specification says, so what is
\* proved of the queue (its capacity, the places of its samples, its end) holds in the job.
THEOREM JobRunsQueue == JobSpec => Spec
<1>1. JobInit => Init
  BY DEF JobInit
<1> QED
  BY <1>1, JobStepsQueue, PTL DEF JobSpec, Spec

-----------------------------------------------------------------------------
(* The coder. *)

LEMMA DivMono ==
  ASSUME NEW h \in Nat \ {0}, NEW a \in Nat, NEW b \in Nat, a <= b
  PROVE  a \div h \in Nat /\ b \div h \in Nat /\ a \div h <= b \div h
<1> DEFINE p == a \div h
           q == b \div h
<1>1. p \in Int /\ q \in Int /\ h * p <= a /\ a < h * p + h /\ h * q <= b /\ b < h * q + h
  BY SMT
<1> HIDE DEF p, q
<1>2. ASSUME NEW r \in Int, r < 0, NEW c \in Nat, c < h * r + h PROVE FALSE
  <2>1. r + 1 <= 0
    BY <1>2
  <2>2. h * (r + 1) <= 0
    BY <2>1, <1>2, SMT
  <2> QED BY <1>2, <2>2, SMT
<1>3. p >= 0 /\ q >= 0
  BY <1>1, <1>2
<1>4. SUFFICES ASSUME p >= q + 1 PROVE FALSE
  BY <1>1, <1>3 DEF p, q
<1>5. h * p >= h * (q + 1)
  BY <1>1, <1>4, SMT
<1> QED BY <1>1, <1>5, SMT

\* More samples of a run never have fewer codes.
LEMMA CodesGrow ==
  ASSUME NEW m \in Nat, NEW n \in Nat, m <= n
  PROVE  Codes(m) \in Nat /\ Codes(n) \in Nat /\ Codes(m) <= Codes(n)
<1> USE CoderAssumption
<1>1. CASE n < Span
  BY <1>1 DEF Codes
<1>2. CASE m < Span /\ ~(n < Span)
  BY <1>2, DivMono DEF Codes
<1>3. CASE ~(m < Span)
  <2>1. m - Span \in Nat /\ n - Span \in Nat /\ m - Span <= n - Span
    BY <1>3
  <2>2. Codes(m) = (m - Span) \div Hop + 1 /\ Codes(n) = (n - Span) \div Hop + 1
    BY <1>3 DEF Codes
  <2> HIDE CoderAssumption
  <2>3. Hop \in Nat \ {0}
    BY CoderAssumption
  <2>4. (m - Span) \div Hop \in Nat /\ (n - Span) \div Hop \in Nat /\ (m - Span) \div Hop <= (n - Span) \div Hop
    BY <2>1, <2>3, DivMono
  <2> QED BY <2>2, <2>4
<1> QED BY <1>1, <1>2, <1>3

-----------------------------------------------------------------------------
(* The invariant. *)

JobTypes ==
  /\ runs \in Seq(Nat) /\ copy \in Seq(Nat) /\ stored \in Seq(Nat)
  /\ changed \in BOOLEAN /\ append \in BOOLEAN

\* What the store has of run i, and what the round under way will bring it.
InStore(i) == IF i \in DOMAIN stored THEN stored[i] ELSE 0
Carried(i) == IF storePc = "append" /\ append /\ i \in DOMAIN copy THEN copy[i] ELSE 0

\* With the flag down, every code is in the store or on its way.
NoneLost ==
  ~failure /\ ~changed => \A i \in DOMAIN runs : runs[i] <= InStore(i) \/ runs[i] <= Carried(i)

\* The store and the copy are earlier states of the runs, the copy the later of the two.
Behind(part) == Len(part) <= Len(runs) /\ \A i \in 1..Len(part) : part[i] <= runs[i]
InOrder ==
  /\ Behind(copy) /\ Behind(stored)
  /\ storePc = "append" /\ append => Len(stored) <= Len(copy)

\* How far the matching thread has come to its end.
Ending ==
  /\ pc \in {"leave", "stop", "join"} \/ outcome = "ok" => Drained
  /\ pc \in {"stop", "join"} \/ outcome = "ok" => ~error
  /\ pc = "exited" => storePc = "done"
  /\ outcome = "ok" => pc = "exited" /\ ~failure
  /\ failure => storePc = "done"

JobInv == JobTypes /\ NoneLost /\ InOrder /\ Ending

LEMMA InitJobInv == JobInit => JobInv
<1> SUFFICES ASSUME JobInit PROVE JobInv
  OBVIOUS
<1>1. <<>> \in Seq(Nat) /\ Len(<<>>) = 0 /\ DOMAIN <<>> = {}
  OBVIOUS
<1>2. JobTypes /\ NoneLost
  BY <1>1 DEF JobInit, JobTypes, NoneLost
<1>3. InOrder /\ Ending
  BY <1>1 DEF JobInit, InOrder, Behind, Ending
<1> QED BY <1>2, <1>3 DEF JobInv

-----------------------------------------------------------------------------
(* The steps. *)

\* What JobInv is about.
known == <<runs, copy, stored, changed, append, failure, storePc, pc, outcome, error, closed, pieces>>

LEMMA KnownJobInv == JobInv /\ UNCHANGED known => JobInv'
BY DEF known, JobInv, JobTypes, NoneLost, InStore, Carried, InOrder, Behind, Ending, Drained

\* The reader touches nothing but the queue, and leaves a drained one alone.
LEMMA ReadJobInv == JobInv /\ Read => JobInv'
<1> SUFFICES ASSUME JobInv, Read PROVE JobInv'
  OBVIOUS
<1>1. ~closed /\ UNCHANGED <<runs, copy, stored, changed, append, failure, storePc, pc, outcome, error>>
  BY DEF Read, RunStart, Audio, End, Reading, mainVars, sharedVars, threadVars, storeVars
<1>2. ~Drained
  BY <1>1 DEF Drained
<1> QED
  BY <1>1, <1>2 DEF JobInv, JobTypes, NoneLost, InStore, Carried, InOrder, Behind, Ending

LEMMA CloseJobInv ==
  ASSUME JobInv, NEW failed \in BOOLEAN, CloseQueue(failed)
  PROVE  JobInv'
<1>1. ~closed /\ UNCHANGED <<runs, copy, stored, changed, append, failure, storePc, pc, outcome>>
  BY DEF CloseQueue, Close, sharedVars, threadVars, storeVars
<1>2. ~Drained
  BY <1>1 DEF Drained
<1> QED
  BY <1>1, <1>2 DEF JobInv, JobTypes, NoneLost, InStore, Carried, InOrder, Behind, Ending

\* A piece adds codes to the last run or begins one, and codes are never taken away; the
\* flag goes up when there are new ones.
LEMMA PieceAdds ==
  ASSUME TypeOK, JobTypes, PopPiece
  PROVE  /\ runs' \in Seq(Nat) /\ changed' \in BOOLEAN /\ Len(runs) <= Len(runs')
         /\ \A i \in 1..Len(runs) : runs[i] <= runs'[i]
         /\ ~changed' => /\ ~changed
                         /\ \A i \in 1..Len(runs') : runs'[i] = IF i \in 1..Len(runs) THEN runs[i] ELSE 0
<1> DEFINE piece == Head(pieces)
           codes == Codes(jobSamples + piece.size) - Codes(jobSamples)
<1>1. pieces \in Seq(Pieces) /\ pieces # <<>> /\ jobSamples \in Nat
  BY DEF TypeOK, PopPiece, Pop
<1>2. piece \in Pieces
  BY <1>1
<1>3. piece.size \in Nat /\ piece.kind \in {"run", "audio", "end"}
  BY <1>2 DEF Pieces
<1>4. codes \in Nat
  <2>1. jobSamples + piece.size \in Nat /\ jobSamples <= jobSamples + piece.size
    BY <1>1, <1>3
  <2>2. /\ Codes(jobSamples) \in Nat /\ Codes(jobSamples + piece.size) \in Nat
        /\ Codes(jobSamples) <= Codes(jobSamples + piece.size)
    BY <1>1, <2>1, CodesGrow
  <2> QED BY <2>2
<1>5. runs \in Seq(Nat) /\ changed \in BOOLEAN /\ Len(runs) \in Nat
  BY DEF JobTypes
<1>6. /\ piece.kind = "run" => runs' = Append(runs, 0)
      /\ piece.kind = "audio" => runs' = [runs EXCEPT ![Len(runs)] = @ + codes]
      /\ piece.kind = "end" => runs' = runs
      /\ changed' = (changed \/ (piece.kind = "audio" /\ codes > 0))
  BY <1>3 DEF PopPiece, ChangedAfter
<1> HIDE DEF piece, codes
<1>7. CASE piece.kind = "run"
  <2>1. runs' = Append(runs, 0) /\ changed' = changed
    <3>1. piece.kind # "audio"
      BY <1>7
    <3>2. changed' = changed
      BY <1>5, <1>6, <3>1, Zenon
    <3> QED BY <1>6, <1>7, <3>2
  <2>2. runs' \in Seq(Nat) /\ Len(runs') = Len(runs) + 1 /\ Len(runs) <= Len(runs')
    BY <1>5, <2>1
  <2>3. \A i \in 1..Len(runs) : runs[i] \in Nat /\ runs'[i] = runs[i]
    BY <1>5, <2>1
  <2>4. \A i \in 1..Len(runs') : i \notin 1..Len(runs) => runs'[i] = 0
    BY <1>5, <2>1, <2>2
  <2>5. \A i \in 1..Len(runs) : runs[i] <= runs'[i]
    BY <2>3
  <2>6. \A i \in 1..Len(runs') : runs'[i] = IF i \in 1..Len(runs) THEN runs[i] ELSE 0
    BY <2>3, <2>4
  <2> QED BY <1>5, <2>1, <2>2, <2>5, <2>6
<1>8. CASE piece.kind = "audio"
  <2>1. runs' = [runs EXCEPT ![Len(runs)] = @ + codes] /\ changed' = (changed \/ codes > 0)
    BY <1>6, <1>8
  <2>2. runs' \in Seq(Nat) /\ Len(runs') = Len(runs)
    <3>1. runs \in [1..Len(runs) -> Nat]
      BY <1>5
    <3>2. runs' = [i \in 1..Len(runs) |-> IF i = Len(runs) THEN runs[i] + codes ELSE runs[i]]
      BY <1>5, <2>1, <3>1
    <3>3. \A i \in 1..Len(runs) : runs[i] + codes \in Nat /\ runs[i] \in Nat
      BY <1>4, <1>5
    <3> QED BY <1>5, <3>2, <3>3
  <2>3. ASSUME NEW i \in 1..Len(runs)
        PROVE  /\ runs[i] \in Nat /\ runs'[i] = IF i = Len(runs) THEN runs[i] + codes ELSE runs[i]
    BY <1>5, <2>1
  <2>4. ~changed' => ~changed /\ codes = 0
    <3>1. ~changed' => ~changed /\ ~(codes > 0)
      BY <2>1, Zenon
    <3> QED BY <1>4, <3>1
  <2>5. changed' \in BOOLEAN
    BY <2>1, Zenon
  <2>6. ~changed' => ~changed /\ \A i \in 1..Len(runs) : runs'[i] = runs[i]
    BY <2>3, <2>4
  <2> QED BY <1>4, <1>5, <2>2, <2>3, <2>5, <2>6
<1>9. CASE piece.kind = "end"
  <2>1. runs' = runs /\ changed' = changed
    <3>1. piece.kind # "audio"
      BY <1>9
    <3>2. changed' = changed
      BY <1>5, <1>6, <3>1, Zenon
    <3> QED BY <1>6, <1>9, <3>2
  <2>2. \A i \in 1..Len(runs) : runs[i] \in Nat /\ runs[i] <= runs'[i]
    BY <1>5, <2>1
  <2> QED BY <1>5, <2>1, <2>2
<1> QED BY <1>3, <1>7, <1>8, <1>9

LEMMA PopJobInv == TypeOK /\ JobInv /\ PopPiece => JobInv'
<1> SUFFICES ASSUME TypeOK, JobInv, PopPiece PROVE JobInv'
  OBVIOUS
<1>1. JobTypes /\ NoneLost /\ InOrder /\ Ending
  BY DEF JobInv
<1>2. /\ pc = "pop" /\ pc' = "look" /\ pieces # <<>>
      /\ UNCHANGED <<copy, stored, append, failure, storePc, outcome, error, closed>>
  BY DEF PopPiece, Goto, Pop, threadVars, storeVars
<1> DEFINE old == Len(runs)
           new == Len(runs')
<1>3. /\ runs \in Seq(Nat) /\ copy \in Seq(Nat) /\ stored \in Seq(Nat) /\ old \in Nat /\ new \in Nat
      /\ Len(copy) \in Nat /\ Len(stored) \in Nat
      /\ runs' \in Seq(Nat) /\ changed' \in BOOLEAN /\ old <= new
      /\ \A i \in 1..old : runs[i] <= runs'[i]
      /\ ~changed' => ~changed /\ \A i \in 1..new : runs'[i] = IF i \in 1..old THEN runs[i] ELSE 0
  BY <1>1, PieceAdds DEF JobTypes
<1> HIDE DEF old, new
<1>4. JobTypes'
  BY <1>1, <1>2, <1>3 DEF JobTypes
<1>5. NoneLost'
  <2> SUFFICES ASSUME ~failure, ~changed', NEW i \in 1..new
               PROVE  (runs[i] <= InStore(i) \/ runs[i] <= Carried(i))'
    BY <1>2, <1>3 DEF NoneLost, new
  <2>1. InStore(i)' = InStore(i) /\ Carried(i)' = Carried(i) /\ InStore(i) \in Nat
    BY <1>2, <1>3 DEF InStore, Carried
  <2>2. CASE i \in 1..old
    <3>1. ~changed /\ runs'[i] = runs[i] /\ i \in DOMAIN runs
      BY <1>3, <2>2 DEF old
    <3>2. runs[i] <= InStore(i) \/ runs[i] <= Carried(i)
      BY <1>1, <3>1 DEF NoneLost
    <3> QED BY <2>1, <3>1, <3>2
  <2>3. CASE i \notin 1..old
    BY <1>3, <2>1, <2>3
  <2> QED BY <2>2, <2>3
<1>6. InOrder'
  <2>1. ASSUME NEW part \in Seq(Nat), part' = part, Behind(part) PROVE Behind(part)'
    <3>1. Len(part) \in Nat /\ Len(part) <= old /\ \A i \in 1..Len(part) : part[i] \in Nat /\ part[i] <= runs[i]
      BY <2>1 DEF Behind, old
    <3>2. ASSUME NEW i \in 1..Len(part) PROVE part[i] <= runs'[i]
      <4>1. i \in 1..old /\ i \in 1..new
        BY <1>3, <3>1
      <4>2. part[i] \in Nat /\ part[i] <= runs[i]
        BY <3>1
      <4>3. runs[i] \in Nat
        BY <1>3, <4>1 DEF old
      <4>4. runs'[i] \in Nat
        BY <1>3, <4>1 DEF new
      <4>5. runs[i] <= runs'[i]
        BY <1>3, <4>1, <4>3
      <4> QED BY <4>2, <4>3, <4>4, <4>5
    <3> QED BY <1>3, <2>1, <3>1, <3>2 DEF Behind, new
  <2> QED BY <1>1, <1>2, <1>3, <2>1 DEF InOrder
<1>7. Ending'
  BY <1>1, <1>2 DEF Ending, Drained
<1> QED BY <1>4, <1>5, <1>6, <1>7 DEF JobInv

\* The other steps of the matching thread.
LEMMA MatchingJobInv == JobInv /\ Matching /\ ~PopPiece => JobInv'
<1> SUFFICES ASSUME JobInv, Matching, ~PopPiece PROVE JobInv'
  OBVIOUS
<1> USE DEF mainVars, sharedVars, threadVars, storeVars, queueAndStream, queueVars, Goto, JobInv, JobTypes, NoneLost, InStore, Carried,
            InOrder, Behind, Ending, Drained
<1>1. CASE TakeIndex
  BY <1>1 DEF TakeIndex
<1>2. CASE PopNothing
  BY <1>2 DEF PopNothing
<1>3. CASE LookIfDrained
  BY <1>3 DEF LookIfDrained, Finished
<1>4. CASE Publish
  BY <1>4 DEF Publish
<1>5. CASE Leave
  BY <1>5 DEF Leave
<1>6. CASE TellStop
  BY <1>6 DEF TellStop
<1>7. CASE JoinStore
  BY <1>7 DEF JoinStore, Joined, Verdict
<1>8. CASE Unwind
  BY <1>8 DEF Unwind
<1>9. CASE UnwindJoin
  BY <1>9 DEF UnwindJoin, Joined
<1> QED BY <1>1, <1>2, <1>3, <1>4, <1>5, <1>6, <1>7, <1>8, <1>9 DEF Matching

\* What the store thread leaves alone in every step of its own.
mains == <<runs, pc, outcome, error, closed, pieces>>

LEMMA StoreKeeps ==
  StoreSteps \/ FailStore \/ StoreBusy \/ Promote => UNCHANGED mains
BY DEF StoreSteps, OpenStore, TakeRuns, AppendRuns, ReadKey, BuildIndex, EndRound, Wake, FailStore, StoreBusy, Promote,
       mains, mainVars, sharedVars, queueAndStream, queueVars

LEMMA TakeRunsJobInv == JobInv /\ TakeRuns => JobInv'
<1> SUFFICES ASSUME JobInv, TakeRuns PROVE JobInv'
  OBVIOUS
<1>1. /\ storePc = "copy" /\ storePc' = "append" /\ append' = changed /\ changed' = FALSE
      /\ copy' = IF changed THEN runs ELSE <<>>
      /\ UNCHANGED mains /\ UNCHANGED <<failure, stored>>
  BY DEF TakeRuns, StoreGoto, mains, mainVars, storeVars, queueAndStream, queueVars
<1> USE DEF mains
<1>2. JobTypes'
  <2>1. <<>> \in Seq(Nat)
    OBVIOUS
  <2> QED BY <1>1, <2>1 DEF JobInv, JobTypes
<1>3. NoneLost'
  BY <1>1 DEF JobInv, JobTypes, NoneLost, InStore, Carried
<1>4. InOrder'
  BY <1>1 DEF JobInv, JobTypes, InOrder, Behind
<1>5. Ending'
  BY <1>1 DEF JobInv, Ending, Drained
<1> QED BY <1>2, <1>3, <1>4, <1>5 DEF JobInv

LEMMA AppendRunsJobInv == JobInv /\ AppendRuns => JobInv'
<1> SUFFICES ASSUME JobInv, AppendRuns PROVE JobInv'
  OBVIOUS
<1>1. /\ storePc = "append" /\ storePc' \in {"round", "key"}
      /\ stored' = IF append /\ copy # <<>> THEN [i \in DOMAIN copy |-> Kept(i)] ELSE stored
      /\ UNCHANGED mains /\ UNCHANGED <<failure, copy, append, changed>>
  BY DEF AppendRuns, mains, mainVars, sharedVars, queueAndStream, queueVars
<1>2. /\ runs \in Seq(Nat) /\ copy \in Seq(Nat) /\ stored \in Seq(Nat) /\ append \in BOOLEAN /\ changed \in BOOLEAN
      /\ Len(runs) \in Nat /\ Len(copy) \in Nat /\ Len(stored) \in Nat
  BY DEF JobInv, JobTypes
<1>3. CASE ~(append /\ copy # <<>>)
  <2>1. stored' = stored /\ (append => copy = <<>>)
    BY <1>1, <1>2, <1>3
  <2>2. JobTypes' /\ InOrder' /\ Ending'
    BY <1>1, <2>1 DEF JobInv, JobTypes, InOrder, Behind, Ending, Drained, mains
  <2>3. NoneLost'
    BY <1>1, <1>2, <2>1 DEF JobInv, NoneLost, InStore, Carried, mains
  <2> QED BY <2>2, <2>3 DEF JobInv
<1>4. CASE append /\ copy # <<>>
  <2>1. stored' = [i \in 1..Len(copy) |-> Kept(i)]
    BY <1>1, <1>2, <1>4
  <2>2. Len(stored) <= Len(copy)
    BY <1>1, <1>4 DEF JobInv, InOrder
  <2>3. ASSUME NEW i \in 1..Len(copy)
        PROVE  /\ Kept(i) \in Nat /\ copy[i] <= Kept(i) /\ Kept(i) <= runs[i]
               /\ i \in 1..Len(stored) => stored[i] <= Kept(i)
    <3>1. i \in 1..Len(runs) /\ copy[i] \in Nat /\ runs[i] \in Nat /\ copy[i] <= runs[i]
      <4>1. Len(copy) <= Len(runs) /\ copy[i] <= runs[i]
        BY DEF JobInv, InOrder, Behind
      <4>2. i \in 1..Len(runs)
        BY <1>2, <4>1
      <4> QED BY <1>2, <4>1, <4>2
    <3>2. CASE i \in 1..Len(stored)
      <4>1. stored[i] \in Nat /\ stored[i] <= runs[i] /\ i \in DOMAIN stored
        BY <1>2, <3>2, SMTT(30) DEF JobInv, InOrder, Behind
      <4>2. Kept(i) = IF stored[i] >= copy[i] THEN stored[i] ELSE copy[i]
        BY <4>1 DEF Kept
      <4> QED BY <3>1, <4>1, <4>2
    <3>3. CASE i \notin 1..Len(stored)
      <4>1. i \notin DOMAIN stored
        BY <1>2, <3>3
      <4>2. Kept(i) = copy[i]
        BY <4>1 DEF Kept
      <4> QED BY <3>1, <3>3, <4>2
    <3> QED BY <3>2, <3>3
  <2>4. stored' \in Seq(Nat) /\ Len(stored') = Len(copy)
    BY <1>2, <2>1, <2>3
  <2>5. JobTypes'
    BY <1>1, <1>2, <2>4 DEF JobTypes, mains
  <2>6. NoneLost'
    <3> SUFFICES ASSUME ~failure, ~changed, NEW i \in 1..Len(runs) PROVE runs[i] <= InStore(i)'
      BY <1>1, <1>2 DEF NoneLost, mains
    <3>1. runs[i] <= InStore(i) \/ runs[i] <= Carried(i)
      BY <1>2 DEF JobInv, NoneLost
    <3>2. CASE i \in 1..Len(copy)
      <4>1. InStore(i)' = Kept(i) /\ runs[i] \in Nat /\ copy[i] \in Nat
        BY <1>2, <2>1, <2>4, <3>2 DEF InStore
      <4>2. Carried(i) = copy[i] /\ (i \in 1..Len(stored) => InStore(i) = stored[i] /\ stored[i] \in Nat)
        BY <1>1, <1>2, <1>4, <3>2 DEF Carried, InStore
      <4>3. i \notin 1..Len(stored) => InStore(i) = 0
        BY <1>2 DEF InStore
      <4> QED BY <2>3, <3>1, <3>2, <4>1, <4>2, <4>3
    <3>3. CASE i \notin 1..Len(copy)
      BY <1>2, <2>1, <2>2, <2>4, <3>1, <3>3 DEF InStore, Carried
    <3> QED BY <3>2, <3>3
  <2>7. InOrder'
    BY <1>1, <1>2, <2>1, <2>3, <2>4 DEF JobInv, InOrder, Behind, mains
  <2>8. Ending'
    BY <1>1 DEF JobInv, Ending, Drained, mains
  <2> QED BY <2>5, <2>6, <2>7, <2>8 DEF JobInv
<1> QED BY <1>3, <1>4

\* The rest of the store thread's steps, and the store's failures.
LEMMA StoreJobInv ==
  JobInv /\ (StoreSteps \/ FailStore \/ StoreBusy) /\ ~TakeRuns /\ ~AppendRuns => JobInv'
<1> SUFFICES ASSUME JobInv, StoreSteps \/ FailStore \/ StoreBusy, ~TakeRuns, ~AppendRuns PROVE JobInv'
  OBVIOUS
<1>1. UNCHANGED mains
  BY StoreKeeps
<1> USE <1>1 DEF mains, JobInv, JobTypes, NoneLost, InStore, Carried, InOrder, Behind, Ending, Drained,
                 StoreGoto, sharedVars, storeVars
<1>2. CASE OpenStore
  BY <1>2 DEF OpenStore
<1>3. CASE ReadKey
  BY <1>3 DEF ReadKey
<1>4. CASE BuildIndex
  BY <1>4 DEF BuildIndex
<1>5. CASE EndRound
  BY <1>5 DEF EndRound
<1>6. CASE Wake
  BY <1>6 DEF Wake
<1>7. CASE FailStore
  BY <1>7 DEF FailStore
<1>8. CASE StoreBusy
  BY <1>8 DEF StoreBusy, ChangedAgain
<1> QED BY <1>2, <1>3, <1>4, <1>5, <1>6, <1>7, <1>8 DEF StoreSteps

LEMMA NextJobInv == TypeOK /\ JobInv /\ [JobNext]_vars => JobInv'
<1> SUFFICES ASSUME TypeOK, JobInv, [JobNext]_vars PROVE JobInv'
  OBVIOUS
<1>1. CASE Read
  BY <1>1, ReadJobInv
<1>2. ASSUME NEW failed \in BOOLEAN, CloseQueue(failed) PROVE JobInv'
  BY <1>2, CloseJobInv
<1>3. CASE Matching
  BY <1>3, PopJobInv, MatchingJobInv
<1>4. CASE StoreSteps \/ FailStore \/ StoreBusy
  BY <1>4, TakeRunsJobInv, AppendRunsJobInv, StoreJobInv
<1>5. CASE Promote \/ Exited \/ UNCHANGED vars
  <2>1. UNCHANGED known
    BY <1>5 DEF Promote, Exited, known, vars, mainVars, sharedVars, threadVars, storeVars, queueAndStream, queueVars
  <2> QED BY <2>1, KnownJobInv
<1> QED BY <1>1, <1>2, <1>3, <1>4, <1>5 DEF JobNext

LEMMA JobInvariance == JobSpec => [](TypeOK /\ JobInv)
<1>1. JobSpec => []TypeOK
  BY JobRunsQueue, TypeCorrect, PTL
<1> QED
  BY <1>1, InitJobInv, NextJobInv, PTL DEF JobSpec

-----------------------------------------------------------------------------
(* What follows. *)

\* Whatever order the matching and the store thread run in, and however often the store
\* is busy, codes the store lacks keep the flag up between two rounds (keep_store).
THEOREM CodesKept == JobSpec => []NoCodeForgotten
<1>1. JobInv => NoCodeForgotten
  BY SMTT(30) DEF JobInv, JobTypes, NoneLost, InStore, Carried, Ending, NoCodeForgotten
<1> QED BY <1>1, JobInvariance, PTL

\* live() returns after its store thread, returns well only when nothing failed, and then
\* the store has every code of every run unless its very last round was busy.
THEOREM ExitsSound == JobSpec => []ExitSound
<1>1. JobInv => ExitSound
  <2> SUFFICES ASSUME JobInv, pc = "exited" PROVE
        /\ storePc = "done"
        /\ outcome = "ok" => ~failure /\ ~error /\ Drained
        /\ ~failure /\ ~changed => AllStored
    BY DEF ExitSound
  <2>1. storePc = "done" /\ (outcome = "ok" => ~failure /\ ~error /\ Drained)
    BY DEF JobInv, Ending
  <2>2. ASSUME ~failure, ~changed, NEW i \in DOMAIN runs, runs[i] > 0
        PROVE  i \in DOMAIN stored /\ stored[i] = runs[i]
    <3>1. runs \in Seq(Nat) /\ stored \in Seq(Nat) /\ runs[i] \in Nat /\ Carried(i) = 0
      BY <2>1 DEF JobInv, JobTypes, Carried
    <3>2. runs[i] <= InStore(i)
      BY <2>2, <3>1 DEF JobInv, NoneLost
    <3>3. i \in DOMAIN stored /\ runs[i] <= stored[i]
      BY <2>2, <3>1, <3>2 DEF InStore
    <3>4. stored[i] <= runs[i] /\ stored[i] \in Nat
      BY <3>1, <3>3, SMTT(30) DEF JobInv, InOrder, Behind
    <3> QED BY <3>1, <3>3, <3>4
  <2> QED BY <2>1, <2>2 DEF AllStored
<1> QED BY <1>1, JobInvariance, PTL
=============================================================================
