---------------------------- MODULE ProgramData ----------------------------
(***************************************************************************)
(* The programme data sent in the second field of the caption lines (XDS): *)
(* AddXDS of detection/captions.cpp puts packets together from pairs of    *)
(* bytes and keeps a list of what the programme is called and how long it  *)
(* is.  The state is a record, so that the packet handler of module        *)
(* Captions can call it for each pair.                                     *)
(*                                                                         *)
(* A pair is [code, of, type, data, weight]: the code that starts or       *)
(* continues a class of packets, that ends one, or data.  Weights stand    *)
(* for the bytes in the checksum.                                          *)
(***************************************************************************)
EXTENDS Integers, Sequences, SequencesExt

CONSTANTS
  MaxPairs, \* the pairs that fit AddXDS_XDSbuf
  Prefix,   \* the pairs of a packet the cache keeps
  MaxCache, \* the packets XDSbuffer holds
  Modulus   \* of the checksum

\* The class of a code that starts or continues packets is `of`, and 0 for the other pairs.
CodePair == [code : {"start", "more", "end", "data"}, of : Nat, type : STRING, data : Nat \X Nat, weight : Nat]

NoData == <<0, 0>>
NoTitle == [frame |-> 0, name |-> <<>>, chip |-> NoData, duration |-> NoData, position |-> NoData]
XDS0 ==
  [idle |-> TRUE,      \* startXDS
   endless |-> FALSE,  \* the code after baseXDS is the one that ends packets
   buf |-> <<>>,       \* AddXDS_XDSbuf
   cache |-> <<>>,     \* XDSbuffer: one packet of each class and type
   list |-> <<NoTitle>>, \* XDS_block
   sent |-> NoTitle]   \* only observed: the data of the last good packet of each type

IsControl(p) == p.code \in {"start", "more"}
\* Whether a pair is put into the buffer.  A packet that starts inside another one loses
\* its start, as the code after the one that opened the present packet (baseXDS) is.
Collects(x, p) ==
  IF x.idle THEN p.code = "start" ELSE ~IsControl(p) /\ (p.code = "end" => ~x.endless)

\* What a pair does before it is put away: any control code opens a packet.  After the code that
\* continues the last class comes the one that ends packets.
LastClass == 7
OpenedBy(x, p) ==
  IF x.idle /\ IsControl(p)
  THEN [x EXCEPT !.idle = FALSE, !.endless = p.code = "more" /\ p.of = LastClass, !.buf = <<>>] ELSE x

WeightOf(buf) == FoldLeft(LAMBDA sum, p : sum + p.weight, 0, buf)
IsWhole(buf) == Len(buf) >= 2 /\ WeightOf(buf) % Modulus = 0

Key(buf) == <<buf[1].of, buf[1].type, buf[1].data>>
Kept(buf) == SubSeq(buf, 1, IF Len(buf) < Prefix THEN Len(buf) ELSE Prefix)
CachedAt(x, buf) == {i \in DOMAIN x.cache : Key(x.cache[i]) = Key(buf)}
Differs(x, buf) == \A i \in CachedAt(x, buf) : ~IsPrefix(Kept(buf), x.cache[i])

\* A full cache overwrites its last packet.
Cached(x, buf) ==
  IF CachedAt(x, buf) # {}
  THEN [i \in DOMAIN x.cache |-> IF i \in CachedAt(x, buf) THEN Kept(buf) ELSE x.cache[i]]
  ELSE IF Len(x.cache) < MaxCache THEN Append(x.cache, Kept(buf)) ELSE [x.cache EXCEPT ![MaxCache] = Kept(buf)]

Swapped(d) == <<d[2], d[1]>>
Payload(buf) == [i \in 1..(Len(buf) - 2) |-> buf[i + 1].data]

\* A change is a new entry (Add_XDS_block), with all else copied from the one before it.
Noted(list, field, value, compared, frame) ==
  IF compared = Last(list)[field] THEN list
  ELSE Append(list, [Last(list) EXCEPT ![field] = value, !.frame = frame])

\* A packet about the current programme.  A length is compared with its bytes in the other order
\* than it is stored in.
About(buf, type) == buf[1].code = "start" /\ buf[1].of = 1 /\ buf[1].type = type
Told(list, buf, frame) ==
  LET data == Payload(buf)
      timed == Noted(list, "duration", data[1], Swapped(data[1]), frame)
  IN CASE About(buf, "length") /\ Len(data) = 1 -> timed
       [] About(buf, "length") /\ Len(data) > 1 -> Noted(timed, "position", data[2], Swapped(data[2]), frame)
       [] About(buf, "name") -> Noted(list, "name", data, data, frame)
       [] About(buf, "chip") /\ data # <<>> -> Noted(list, "chip", data[1], data[1], frame)
       [] OTHER -> list

Observed(sent, buf) ==
  CASE About(buf, "name") -> [sent EXCEPT !.name = Payload(buf)]
    [] About(buf, "chip") /\ Len(buf) > 2 -> [sent EXCEPT !.chip = Payload(buf)[1]]
    [] OTHER -> sent

\* The end of a packet: one that is not whole is dropped, one that is as cached is not
\* looked at again, unless it is longer than what the cache keeps.
Ended(x, buf, frame) ==
  LET closed == [x EXCEPT !.idle = TRUE, !.buf = <<>>]
  IN IF ~IsWhole(buf) THEN closed
     ELSE [closed EXCEPT
             !.cache = IF Differs(x, buf) THEN Cached(x, buf) ELSE x.cache,
             !.list = IF Differs(x, buf) \/ Len(buf) > Prefix THEN Told(x.list, buf, frame) ELSE x.list,
             !.sent = Observed(x.sent, buf)]

\* AddXDS.  A buffer that is nearly full is given up.
AddXDS(x, p, frame) ==
  LET y == OpenedBy(x, p)
  IN IF ~Collects(x, p) THEN y
     ELSE IF Len(y.buf) >= MaxPairs - 2 THEN [y EXCEPT !.idle = TRUE, !.buf = <<>>]
     ELSE IF p.code = "end" THEN Ended(y, Append(y.buf, p), frame)
     ELSE [y EXCEPT !.buf = Append(@, p)]
=============================================================================
