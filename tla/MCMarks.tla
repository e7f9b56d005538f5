------------------------------ MODULE MCMarks -------------------------------
(***************************************************************************)
(* A live recording from its inputs to its marks, checked in one run:      *)
(* combine() on inputs of every kind (module MCCombiner), the loop that    *)
(* publishes what it makes of them (LiveMarks), the audio stream on        *)
(* standard input (AudioStream) and the Evidence file (EvidenceFile).      *)
(* They share no state, so a behaviour is of one of them: `part` says      *)
(* which, and the others stand still.                                      *)
(***************************************************************************)
EXTENDS MCCombiner, Sequences

VARIABLES
  part,
  pc, now, run, audioEnded, heard, repeats, known, seen, written, failures, last, steady,
  stream, input, got, used, header, payload, inRun, ended, outcome, events,
  wpc, revision, final, temp, attempt, gaveUp, file,
  rpc, time, size, content, stamp, taken, lastLook, unreadable, missed

-----------------------------------------------------------------------------
(* What combine() is given: a whole match, one cut short by nothing yet (projected), and *)
(* the other kinds; seams, logo intervals and blocks within and beside them.             *)

MCMatches ==
  {[status |-> "ad", from |-> f, to |-> f + 2, agreedFrom |-> f, agreedTo |-> f + 2] : f \in {1, 7}}
  \cup {[status |-> "ad", from |-> 2, to |-> 6, agreedFrom |-> 2, agreedTo |-> 6],
        [status |-> "ad", from |-> 5, to |-> 8, agreedFrom |-> 5, agreedTo |-> 6],
        [status |-> "in-programme ad", from |-> 2, to |-> 6, agreedFrom |-> 2, agreedTo |-> 6],
        [status |-> "intro", from |-> 0, to |-> 9, agreedFrom |-> 1, agreedTo |-> 9]}
MCSeams == {4, 6}
MCLogo == {[from |-> 0, to |-> 2], [from |-> 3, to |-> 5], [from |-> 4, to |-> 8], [from |-> 9, to |-> 11]}
MCBlockChoices ==
  [from : {3}, to : {4, 5}, commercial : BOOLEAN] \cup [from : {0}, to : {3, 9}, commercial : {TRUE}]
  \cup [from : {5}, to : {10}, commercial : BOOLEAN]

CombineIdle == matches = {} /\ marks = {} /\ ~evidence.logoKnown /\ mode.final

-----------------------------------------------------------------------------
(* The loop that publishes the marks: an ad that airs while it is watched, and *)
(* evidence that moves an edge, marks a block, or bridges nothing.             *)

CONSTANTS
  UnchangedWithin, Lag, BackReach, SeamReach, StandardLengths, Entries, RunStarts, RepeatChoices, EvidenceChoices,
  MaxLiveNow, MaxHeard, MaxRepeats, MaxRevision, MaxFailures

\* Times are coarser than unchanged_within (0.05 s); an entry ends before the horizon.
ASSUME LiveAssumption ==
  /\ UnchangedWithin = 0 /\ MaxLiveNow \in Nat
  /\ \A entry \in Entries : /\ entry.status \in Statuses /\ entry.length \in Nat \ {0}
                            /\ MaxLiveNow + entry.length <= Horizon + 1
  /\ RunStarts \subseteq 0..MaxLiveNow
  /\ RepeatChoices \subseteq [earlierFrom : Times, earlierTo : Times, agreedFrom : Times, agreedTo : Times]
  /\ EvidenceChoices \subseteq [logoKnown : BOOLEAN, seams : SUBSET Times, logo : SUBSET [from : Times, to : Times],
                               blocks : SUBSET [from : Times, to : Times, commercial : BOOLEAN]]
  /\ \A choice \in EvidenceChoices : IsFiniteSet(choice.blocks)

MCEntries == {[status |-> "ad", length |-> 3]}
MCRepeats == {[earlierFrom |-> 0, earlierTo |-> 2, agreedFrom |-> 3, agreedTo |-> 5]}
MCEvidence ==
  {[logoKnown |-> TRUE, seams |-> {}, logo |-> {}, blocks |-> {}],
   [logoKnown |-> TRUE, seams |-> {3, 5}, logo |-> {}, blocks |-> {[from |-> 2, to |-> 4, commercial |-> TRUE]}]}

Live == INSTANCE LiveMarks WITH matches <- heard, evidence <- known, ended <- audioEnded, MaxNow <- MaxLiveNow,
  MaxMatches <- MaxHeard
liveVars == <<pc, now, run, audioEnded, heard, repeats, known, seen, written, failures, last, steady>>

-----------------------------------------------------------------------------
(* The audio stream: every stream of up to two messages, and with a run start first *)
(* (without one the rest is refused) up to four, with something after the end or not. *)

CONSTANTS HeaderSize, BufferSize, StartSize, MaxPayload, Streams

\* Only a run start holds a value that can be wrong.
ASSUME StreamAssumption ==
  /\ {HeaderSize, BufferSize} \subseteq Nat \ {0} /\ {StartSize, MaxPayload} \subseteq Nat
  /\ \A s \in Streams : /\ s \in Seq([type : STRING, size : Nat, good : BOOLEAN])
                        /\ \A i \in DOMAIN s : s[i].type # "R" => s[i].good

Stream == INSTANCE AudioStream
streamVars == <<stream, input, got, used, header, payload, inRun, ended, outcome, events>>
StreamIdle ==
  /\ stream = <<>> /\ input = 0 /\ got = 0 /\ used = 0 /\ header = 0 /\ payload = 0
  /\ inRun = FALSE /\ ended = FALSE /\ outcome = "idle" /\ events = <<>>

M(type, length, good) == [type |-> type, size |-> length, good |-> good]
Messages == {
  M("R", 2, TRUE),    \* a run start
  M("R", 2, FALSE),   \* a run start that is negative or not finite
  M("R", 1, TRUE),    \* a run start of the wrong length
  M("A", 0, TRUE),    \* audio without samples
  M("A", 4, TRUE),    \* audio
  M("A", 3, TRUE),    \* half a sample
  M("A", 6, TRUE),    \* too much audio
  M("E", 0, TRUE),    \* the end
  M("X", 1, TRUE)}    \* no such message
MCStreams ==
  UNION {[1..n -> Messages] : n \in 0..2}
  \cup {<<M("R", 2, TRUE), a, b>> : a \in Messages, b \in Messages}
  \cup {<<M("R", 2, TRUE), M("A", 4, TRUE), a, b>> : a \in Messages, b \in Messages}

-----------------------------------------------------------------------------
(* The Evidence file. *)

CONSTANTS Retries, Sizes, MaxRewrites, MaxUnreadable

File == INSTANCE EvidenceFile WITH evidence <- taken, last <- lastLook, MaxRevision <- MaxRewrites
fileVars ==
  <<wpc, revision, final, temp, attempt, gaveUp, file, rpc, time, size, content, stamp, taken, lastLook,
    unreadable, missed>>
FileIdle == File!Init

-----------------------------------------------------------------------------
MarksInit ==
  \/ part = "combine" /\ Init /\ Live!Init /\ StreamIdle /\ FileIdle
  \/ part = "live" /\ Init /\ CombineIdle /\ Live!Init /\ StreamIdle /\ FileIdle
  \/ part = "stream" /\ Init /\ CombineIdle /\ Live!Init /\ Stream!Init /\ FileIdle
  \/ part = "file" /\ Init /\ CombineIdle /\ Live!Init /\ StreamIdle /\ File!Init

CombineStep == part = "combine" /\ Next /\ UNCHANGED <<part, liveVars, streamVars, fileVars>>
LiveStep == part = "live" /\ Live!Next /\ UNCHANGED <<part, vars, streamVars, fileVars>>
StreamStep == part = "stream" /\ Stream!Next /\ UNCHANGED <<part, vars, liveVars, fileVars>>
FileStep == part = "file" /\ File!Next /\ UNCHANGED <<part, vars, liveVars, streamVars>>
MarksNext == CombineStep \/ LiveStep \/ StreamStep \/ FileStep

WriterStep == part = "file" /\ File!Writer /\ UNCHANGED <<part, vars, liveVars, streamVars>>
ReaderStep == part = "file" /\ File!Reader /\ UNCHANGED <<part, vars, liveVars, streamVars>>
allVars == <<part, vars, liveVars, streamVars, fileVars>>
\* The fairness is that of the file's writer and reader (File!Spec).
MarksSpec == MarksInit /\ [][MarksNext]_allVars /\ WF_allVars(WriterStep) /\ WF_allVars(ReaderStep)

-----------------------------------------------------------------------------
\* Live, an ad mark that stood still is settled, and one that is settled long after its end
\* stood still or is agreed in every part (Live!AgedAdsSettleWhenQuiet); and what may be
\* withdrawn is provisional (Live!OpenIsProvisional).
Settling == Live!AgedAdsSettleWhenQuiet /\ Live!OpenIsProvisional
\* What is agreed in every part is settled once it is over (Live!AgreedAdsAreSettled).
AgreedAdsAreSettled == Live!AgreedAdsAreSettled
\* The pieces standard input happens to come in change nothing, and what reaches the
\* queue is a legal stream (Stream!PieceIndependent, Stream!LegalOrder).
StreamSound == part = "stream" => Stream!TypeOK /\ Stream!PieceIndependent /\ Stream!LegalOrder
\* The Evidence file is whole and goes forward at every step, and at rest it is the
\* newest that was not given up, with nothing beside it (File!FileWhole).
FileWhole == [][File!Forward /\ File!RestsClean']_File!vars
\* A revision that reaches the file is taken up (File!NewestTaken).
NewestTaken == File!NewestTaken
=============================================================================
