---------------------------- MODULE AudioStream ----------------------------
(***************************************************************************)
(* The reading thread of the live job: the loop in live() that reads       *)
(* standard input in pieces of any size, and AudioStreamParser, which      *)
(* splits those bytes into messages (fingerprint/audio_stream.cpp).        *)
(*                                                                         *)
(* A stream is a sequence of messages; bytes are counted, not spelled out. *)
(* Each iteration of the loop in push() is one step.  The events handed to *)
(* AudioQueue are the history `events`: the messages delivered so far.     *)
(***************************************************************************)
EXTENDS Integers, Sequences, FiniteSetsExt

CONSTANTS
  HeaderSize,   \* bytes of a message header: header_size
  BufferSize,   \* the most one read returns
  StartSize,    \* bytes of an R payload (8 in the code)
  MaxPayload,   \* max_payload
  Streams       \* the streams tried: sequences of [type, size, good]

VARIABLES
  stream,       \* the bytes the recording sends, as messages
  input,        \* how many of its bytes come before end of input
  got,          \* bytes read from standard input
  used,         \* bytes the parser has taken
  header,       \* header_.size()
  payload,      \* payload_.size()
  inRun, ended, \* in_run_, ended_
  outcome,      \* of the reading thread: "reading", "closed" or "invalid" (InputInvalid)
  events        \* messages delivered

vars == <<stream, input, got, used, header, payload, inRun, ended, outcome, events>>

Bytes(m) == HeaderSize + m.size
\* EndsAt(i): the offset at which the first i messages of the stream end.
EndsAt(i) ==
  LET end[n \in 0..Len(stream)] == IF n = 0 THEN 0 ELSE end[n - 1] + Bytes(stream[n]) IN end[i]

Init ==
  /\ stream \in Streams
  /\ input \in 0..EndsAt(Len(stream))
  /\ got = 0 /\ used = 0 /\ header = 0 /\ payload = 0
  /\ inRun = FALSE /\ ended = FALSE
  /\ outcome = "reading"
  /\ events = <<>>

TypeOK ==
  /\ input \in 0..EndsAt(Len(stream)) /\ got \in 0..input /\ used \in 0..got
  /\ header \in 0..HeaderSize /\ payload \in Nat
  /\ inRun \in BOOLEAN /\ ended \in BOOLEAN
  /\ outcome \in {"reading", "closed", "invalid"}

-----------------------------------------------------------------------------
(* The read loop: while the parser has not seen the end, read a piece. *)

Read ==
  /\ outcome = "reading" /\ used = got /\ ~ended /\ got < input
  /\ \E size \in 1..Min({BufferSize, input - got}) : got' = got + size
  /\ UNCHANGED <<stream, input, used, header, payload, inRun, ended, outcome, events>>

AtEnd == ended \/ got = input

\* The end message, or end of input: what is pending is discarded.
Stop ==
  /\ outcome = "reading" /\ used = got
  /\ AtEnd
  /\ outcome' = "closed"
  /\ UNCHANGED <<stream, input, got, used, header, payload, inRun, ended, events>>

-----------------------------------------------------------------------------
(* AudioStreamParser::push, one iteration per step. *)

Pushing == outcome = "reading" /\ used < got

\* Bytes that follow the end message in the same piece.
Overrun ==
  /\ Pushing /\ ended
  /\ outcome' = "invalid"
  /\ UNCHANGED <<stream, input, got, used, header, payload, inRun, ended, events>>

Message == stream[Len(events) + 1]
ValidHeader(m) ==
  \/ m.type = "R" /\ m.size = StartSize
  \/ m.type = "A" /\ m.size % 2 = 0 /\ m.size <= MaxPayload /\ inRun
  \/ m.type = "E" /\ m.size = 0

HeaderTake == Min({got - used, HeaderSize - header})
\* Mutant of PayloadTake: the part of the payload already here forgotten.
PayloadTakeAnew == Min({got - used - HeaderTake, Message.size})
PayloadTake == Min({got - used - HeaderTake, Message.size - payload})

\* The header completes and is refused.
RefuseHeader ==
  /\ Pushing /\ ~ended
  /\ header < HeaderSize /\ header + HeaderTake = HeaderSize
  /\ ~ValidHeader(Message)
  /\ header' = HeaderSize
  /\ used' = used + HeaderTake
  /\ outcome' = "invalid"
  /\ UNCHANGED <<stream, input, got, payload, inRun, ended, events>>

\* The header is still incomplete.
PartHeader ==
  /\ Pushing /\ ~ended
  /\ header + HeaderTake < HeaderSize
  /\ header' = header + HeaderTake
  /\ used' = got
  /\ UNCHANGED <<stream, input, got, payload, inRun, ended, outcome, events>>

\* The header is here and valid (or was when it completed); its payload is taken.
Accepted == header + HeaderTake = HeaderSize /\ (header = HeaderSize \/ ValidHeader(Message))

PartPayload ==
  /\ Pushing /\ ~ended /\ Accepted
  /\ payload + PayloadTake < Message.size
  /\ header' = HeaderSize
  /\ payload' = payload + PayloadTake
  /\ used' = used + HeaderTake + PayloadTake
  /\ UNCHANGED <<stream, input, got, inRun, ended, outcome, events>>

\* complete(): the event is delivered, or the run start refused.
Complete ==
  /\ Pushing /\ ~ended /\ Accepted
  /\ payload + PayloadTake >= Message.size
  /\ used' = used + HeaderTake + PayloadTake
  /\ IF Message.type = "R" /\ ~Message.good
     THEN /\ outcome' = "invalid"
          /\ header' = HeaderSize
          /\ payload' = Message.size
          /\ UNCHANGED <<inRun, ended, events>>
     ELSE /\ events' = Append(events, Message)
          /\ header' = 0
          /\ payload' = 0
          /\ inRun' = (inRun \/ Message.type = "R")
          /\ ended' = (Message.type = "E")
          /\ UNCHANGED outcome
  /\ UNCHANGED <<stream, input, got>>

Next == Read \/ Stop \/ Overrun \/ RefuseHeader \/ PartHeader \/ PartPayload \/ Complete

Spec == Init /\ [][Next]_vars /\ WF_vars(Next)

-----------------------------------------------------------------------------
(* Correctness. *)

\* The pieces standard input happens to come in change nothing: whatever they are,
\* the messages delivered are the complete messages among the bytes taken, and the
\* bytes held are exactly those of the message not yet complete.
PieceIndependent ==
  /\ events = SubSeq(stream, 1, Len(events))
  /\ outcome = "reading" => used = EndsAt(Len(events)) + header + payload
  /\ outcome = "closed" /\ ~ended => used = input

\* The queue's contract: no audio reaches it before a run start, nothing after the
\* end, no message with an invalid length or start.
LegalOrder ==
  \A i \in DOMAIN events :
    /\ events[i].good
    /\ events[i].type = "A" => \E j \in 1..i - 1 : events[j].type = "R"
    /\ events[i].type = "E" => i = Len(events)
=============================================================================
