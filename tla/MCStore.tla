------------------------------- MODULE MCStore -------------------------------
(***************************************************************************)
(* The store of the library, checked in one run: the search for repeats    *)
(* over code streams (module Airings), the statuses over the airings found *)
(* (module Library, which takes any airings) and the commands that several *)
(* processes run on one store (module StoreCommands).  They share no       *)
(* state, so a behaviour is of one of them: `part` says which, and the     *)
(* others stand still.                                                     *)
(***************************************************************************)
EXTENDS MCLibrary, StoreCommands

VARIABLES
  part,
  streams, stored, entries, found, searched, steps

StatusIdle == Init /\ context = [rec \in Recordings |-> ShowA]

-----------------------------------------------------------------------------
(* Three recordings that share parts of one break: all of it, one or two parts of it *)
(* with something of its own between, and one part.                                  *)

CONSTANTS Streams, Shortest, Apart, MaxSteps

Repeats == INSTANCE Airings WITH airings <- found
repeatVars == <<streams, stored, entries, found, searched, steps>>
Break == <<1, 2, 3, 4, 5, 6>>
Parts == {SubSeq(Break, i, j) : i \in 1..5, j \in 2..6} \ {<<>>}
MCStreams == {<<Break, one \o <<7>> \o other, part1 \o <<8>>>> :
                one \in {p \in Parts : Len(p) \in 3..4}, other \in {p \in Parts : Len(p) = 2},
                part1 \in {p \in Parts : Len(p) = 3}}
RepeatsIdle == Repeats!Init /\ streams = <<Break, <<1, 2, 3, 7, 1, 2>>, <<1, 2, 3, 8>>>>

-----------------------------------------------------------------------------
(* Commands of two processes for two recordings: adding a stream, passes and searches *)
(* with the evidence of one or both, promoting, and contexts of one and of all.       *)

CONSTANTS a, b, c1, c2

Cmd(name, recording, given, said) ==
  [name |-> name, recording |-> recording, evidence |-> given, contexts |-> said]
MCCommands ==
  {Cmd("seed", a, <<>>, a :> c1), Cmd("pass", a, a :> 1, a :> c1), Cmd("pass", b, b :> 1, b :> c1),
   Cmd("search", a, a :> 2 @@ b :> 1, <<>>), Cmd("search", b, a :> 1 @@ b :> 1, <<>>),
   Cmd("promote", Nil, <<>>, <<>>), Cmd("context", a, <<>>, a :> c2),
   Cmd("context", Nil, <<>>, a :> c1 @@ b :> c2)}

-----------------------------------------------------------------------------
StoreInit ==
  \/ part = "statuses" /\ Init /\ RepeatsIdle /\ CommandsInit
  \/ part = "repeats" /\ StatusIdle /\ Repeats!Init /\ CommandsInit
  \/ part = "commands" /\ StatusIdle /\ RepeatsIdle /\ CommandsInit

StatusStep == part = "statuses" /\ Next /\ UNCHANGED <<part, repeatVars, commandVars>>
RepeatsStep == part = "repeats" /\ Repeats!Next /\ UNCHANGED <<part, vars, commandVars>>
CommandStep == part = "commands" /\ CommandsNext /\ UNCHANGED <<part, vars, repeatVars>>
StoreNext == StatusStep \/ RepeatsStep \/ CommandStep
StoreSpec == StoreInit /\ [][StoreNext]_<<part, vars, repeatVars, commandVars>>

StoreSym == Sym \cup Permutations(Processes)

-----------------------------------------------------------------------------
\* No code of a recording is in two airings, an airing holds the codes it stands for, and
\* a search repeated at once finds nothing more (Repeats!AiringsApart,
\* Repeats!AiringsAgree, Repeats!SearchSettles).
AiringsSound == Repeats!AiringsApart /\ Repeats!AiringsAgree /\ Repeats!SearchSettles
=============================================================================
