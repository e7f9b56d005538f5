------------------------------ MODULE MCLibrary ------------------------------
(* A spot of 30 s that may be split into a body and a tag, what follows it for    *)
(* 25 s, which is no ad's length, and a stretch of programme; recordings of two   *)
(* shows and of a game.                                                           *)
EXTENDS Library, TLC

MCLength == <<30, 22, 8, 25, 200>>
MCPieces == <<<<2, 3>>, <<>>, <<>>, <<>>, <<>>>>
MCStarts == <<{300, 1500}, {}, {}, {330, 1530}, {900}>>

ShowA == [series |-> 1, network |-> 0, channel |-> 1, event |-> FALSE]
ShowB == [series |-> 2, network |-> 2, channel |-> 2, event |-> FALSE]
Game  == [series |-> 3, network |-> 1, channel |-> 0, event |-> TRUE]
MCContexts == {ShowA, ShowB, Game}

\* Three episodes of one show, or one recording of each.
MCFirst ==
  {[rec \in Recordings |-> ShowA]}
    \union {first \in [Recordings -> MCContexts] :
              \A said \in MCContexts : \E rec \in Recordings : first[rec] = said}

\* A logo over the spot at 300 for a third of it, over what follows the spot at 1500 for
\* all of it; seams around the spot at 1500.
MCEvidence ==
  {[known |-> TRUE, seams |-> {1500, 1530},
    logo |-> {[from |-> 300, to |-> 310], [from |-> 1530, to |-> 1560]}]}

Sym == Permutations(Recordings)
=============================================================================
