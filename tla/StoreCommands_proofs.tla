------------------------ MODULE StoreCommands_proofs ------------------------
(***************************************************************************)
(* Proofs about the commands on one store, for any processes, captures,    *)
(* contexts and command lines: commands are whole to one another, and no   *)
(* marks file is out of date without somebody being told.                  *)
(*                                                                         *)
(* The invariant says for each place a command can be at what its          *)
(* transaction holds: what is committed, as far as its steps have changed  *)
(* it.  Others cannot change what is committed meanwhile, since they need  *)
(* the lock to begin.                                                      *)
(***************************************************************************)
EXTENDS StoreCommands, SequenceTheorems, TLAPS

(* Steps of a command, one after the other. *)

Words == {"open", "stored", "begin", "create", "add", "load", "evidence", "save", "contexts", "commit", "files", "print"}
Then(step, rest) == <<step>> \o rest

\* The first step and what follows it.
LEMMA ThenIs ==
  ASSUME NEW step \in Words, NEW rest \in Seq(Words)
  PROVE  /\ Then(step, rest) \in Seq(Words) /\ Then(step, rest) # <<>>
         /\ Head(Then(step, rest)) = step /\ Tail(Then(step, rest)) = rest
<1>1. Then(step, rest) \in Seq(Words) /\ Len(Then(step, rest)) = Len(rest) + 1
  BY DEF Then
<1>2. Then(step, rest)[1] = step /\ \A i \in 1..Len(rest) : Then(step, rest)[i + 1] = rest[i]
  BY DEF Then
<1>3. Then(step, rest) # <<>> /\ Head(Then(step, rest)) = step
  BY <1>1, <1>2
<1>4. /\ Tail(Then(step, rest)) \in Seq(Words) /\ Len(Tail(Then(step, rest))) = Len(rest)
      /\ \A i \in 1..Len(rest) : Tail(Then(step, rest))[i] = rest[i]
  BY <1>1, <1>2, <1>3
<1> QED BY <1>1, <1>3, <1>4, SeqEqual

\* A transaction is its steps between "begin" and "commit".
LEMMA TransactionThen ==
  ASSUME NEW steps \in Seq(Words), NEW rest \in Seq(Words)
  PROVE  Transaction(steps) \o rest = Then("begin", steps \o Then("commit", rest))
BY DEF Then, Transaction, Words

\* A transaction of steps is a sequence of steps.
LEMMA TransactionIs ==
  ASSUME NEW steps \in Seq(Words)
  PROVE  Transaction(steps) \in Seq(Words)
<1>1. <<"begin">> \in Seq(Words) /\ <<"commit">> \in Seq(Words)
  BY DEF Words
<1> QED BY <1>1 DEF Transaction

LEMMA ThenConcat ==
  ASSUME NEW step \in Words, NEW steps \in Seq(Words), NEW rest \in Seq(Words)
  PROVE  /\ Then(step, steps) \o rest = Then(step, steps \o rest)
         /\ <<step>> \o rest = Then(step, rest)
         /\ <<step>> = Then(step, <<>>)
BY DEF Then

(* What is left of a command from each of its places on. *)

Owns(c) == Writes(c) /\ c.recording \in DOMAIN c.evidence
Result == Then("print", <<>>)
After(c) == IF Writes(c) THEN Then("files", Result) ELSE Then("commit", Result)
Saving(c) == Then("save", Then("commit", Then("commit", After(c))))
ToSave(c) == Then("begin", Saving(c))
Storing(c) == Then("evidence", Then("commit", ToSave(c)))
Loaded(c) == IF Owns(c) THEN Then("begin", Storing(c)) ELSE ToSave(c)
Loading(c) == Then("load", Loaded(c))
Search(c) == Then("begin", Loading(c))
AfterAdding(c) == IF c.name = "seed" THEN Result ELSE Search(c)
Adding(c) == Then("add", Then("commit", AfterAdding(c)))
Opened(c) ==
  CASE c.name = "search" -> Then("stored", Search(c))
    [] c.name = "promote" -> Then("begin", Search(c))
    [] c.name = "context" -> Then("begin", Then("contexts", Search(c)))
    [] OTHER -> Then("begin", Adding(c))

\* Each is a sequence of steps.
LEMMA Tails ==
  ASSUME NEW c
  PROVE  /\ Result \in Seq(Words) /\ After(c) \in Seq(Words) /\ Saving(c) \in Seq(Words)
         /\ ToSave(c) \in Seq(Words) /\ Storing(c) \in Seq(Words) /\ Loaded(c) \in Seq(Words)
         /\ Loading(c) \in Seq(Words) /\ Search(c) \in Seq(Words) /\ AfterAdding(c) \in Seq(Words)
         /\ Adding(c) \in Seq(Words) /\ Opened(c) \in Seq(Words) /\ Then("commit", After(c)) \in Seq(Words)
         /\ Then("commit", Then("commit", After(c))) \in Seq(Words) /\ Then("commit", ToSave(c)) \in Seq(Words) /\ Then("begin", Storing(c)) \in Seq(Words)
         /\ Then("commit", AfterAdding(c)) \in Seq(Words) /\ Then("contexts", Search(c)) \in Seq(Words) /\ Then("commit", Opened(c)) \in Seq(Words)
         /\ Then("commit", Result) \in Seq(Words) /\ Then("files", Result) \in Seq(Words)
<1>1. Result \in Seq(Words) /\ Then("commit", Result) \in Seq(Words) /\ Then("files", Result) \in Seq(Words)
  <2>1. <<>> \in Seq(Words)
    OBVIOUS
  <2>2. Result \in Seq(Words)
    BY <2>1, ThenIs DEF Result, Words
  <2> QED BY <2>2, ThenIs DEF Words
<1>2. After(c) \in Seq(Words)
  BY <1>1 DEF After
<1>3. Then("commit", After(c)) \in Seq(Words) /\ Then("commit", Then("commit", After(c))) \in Seq(Words)
  BY <1>2, ThenIs DEF Words
<1>4. Saving(c) \in Seq(Words)
  BY <1>3, ThenIs DEF Saving, Words
<1>5. ToSave(c) \in Seq(Words) /\ Then("commit", ToSave(c)) \in Seq(Words)
  BY <1>4, ThenIs DEF ToSave, Words
<1>6. Storing(c) \in Seq(Words) /\ Then("begin", Storing(c)) \in Seq(Words)
  BY <1>5, ThenIs DEF Storing, Words
<1>7. Loaded(c) \in Seq(Words)
  BY <1>5, <1>6 DEF Loaded
<1>8. Loading(c) \in Seq(Words) /\ Search(c) \in Seq(Words) /\ Then("contexts", Search(c)) \in Seq(Words)
  BY <1>7, ThenIs DEF Loading, Search, Words
<1>9. AfterAdding(c) \in Seq(Words) /\ Then("commit", AfterAdding(c)) \in Seq(Words)
  BY <1>1, <1>8, ThenIs DEF AfterAdding, Words
<1>10. Adding(c) \in Seq(Words)
  BY <1>9, ThenIs DEF Adding, Words
<1>11. Opened(c) \in Seq(Words)
  BY <1>8, <1>10, ThenIs DEF Opened, Words
<1>12. Then("commit", Opened(c)) \in Seq(Words)
  BY <1>11, ThenIs DEF Words
<1> QED BY <1>1, <1>2, <1>3, <1>4, <1>5, <1>6, <1>7, <1>8, <1>9, <1>10, <1>11, <1>12

\* The steps of a search, whatever follows them.
LEMMA SearchThen ==
  ASSUME NEW own, NEW rest \in Seq(Words)
  PROVE  LET toSave == Then("begin", Then("save", Then("commit", Then("commit", rest)))) IN
         SearchSteps(own) \o rest =
           Then("begin", Then("load", IF own THEN Then("begin", Then("evidence", Then("commit", toSave))) ELSE toSave))
<1> DEFINE out == Then("commit", rest)
           save == Transaction(<<"save">>)
           middle == IF own THEN Transaction(<<"evidence">>) ELSE <<>>
           toSave == Then("begin", Then("save", Then("commit", out)))
<1>1. out \in Seq(Words) /\ toSave \in Seq(Words) /\ Then("commit", out) \in Seq(Words)
  BY ThenIs DEF Words
<1>2. save \in Seq(Words) /\ Transaction(<<"evidence">>) \in Seq(Words) /\ middle \in Seq(Words)
  <2>1. <<>> \in Seq(Words) /\ <<"save">> \in Seq(Words) /\ <<"evidence">> \in Seq(Words)
    BY DEF Words
  <2> QED BY <2>1, TransactionIs
<1>3. save \o out = toSave
  <2>1. <<"save">> \in Seq(Words) /\ "save" \in Words
    BY DEF Words
  <2>2. save \o out = Then("begin", <<"save">> \o Then("commit", out))
    BY <1>1, <2>1, TransactionThen
  <2> QED BY <1>1, <2>1, <2>2, ThenConcat
<1>4. middle \o toSave = IF own THEN Then("begin", Then("evidence", Then("commit", toSave))) ELSE toSave
  <2>1. CASE own
    <3>1. Then("commit", toSave) \in Seq(Words)
      BY <1>1, ThenIs DEF Words
    <3>2. <<"evidence">> \in Seq(Words) /\ "evidence" \in Words
      BY DEF Words
    <3>3. Transaction(<<"evidence">>) \o toSave = Then("begin", <<"evidence">> \o Then("commit", toSave))
      BY <1>1, <3>2, TransactionThen
    <3> QED BY <2>1, <3>1, <3>2, <3>3, ThenConcat
  <2>2. CASE ~own
    BY <1>1, <2>2
  <2> QED BY <2>1, <2>2
<1>5. SearchSteps(own) = Transaction((<<"load">> \o middle) \o save)
  BY DEF SearchSteps
<1> HIDE DEF out, save, middle, toSave
<1>6. (<<"load">> \o middle) \o save \in Seq(Words)
  BY <1>2 DEF Words
<1>7. SearchSteps(own) \o rest = Then("begin", ((<<"load">> \o middle) \o save) \o out)
  BY <1>5, <1>6, TransactionThen DEF out, Words
<1>8. ((<<"load">> \o middle) \o save) \o out = <<"load">> \o (middle \o (save \o out))
  BY <1>1, <1>2, SMTT(30)
<1>9. <<"load">> \o (middle \o toSave) = Then("load", middle \o toSave)
  BY DEF Then
<1> QED BY <1>3, <1>4, <1>7, <1>8, <1>9 DEF toSave, out

\* The steps of a command are its opening and the rest.
LEMMA StepsThen ==
  ASSUME NEW c, c.name \in {"seed", "search", "pass", "promote", "context"}
  PROVE  Steps(c) = Then("open", Opened(c))
<1> DEFINE own == c.recording \in DOMAIN c.evidence
           body ==
             CASE c.name = "seed" -> Transaction(<<"add">>)
               [] c.name = "search" -> (<<"stored">> \o SearchSteps(own)) \o <<"files">>
               [] c.name = "pass" -> (Transaction(<<"add">>) \o SearchSteps(own)) \o <<"files">>
               [] c.name = "promote" -> Transaction(SearchSteps(FALSE))
               [] c.name = "context" -> Transaction(<<"contexts">> \o SearchSteps(FALSE))
<1>1. Steps(c) = (<<"open">> \o body) \o <<"print">>
  BY DEF Steps
<1>2. /\ <<"add">> \in Seq(Words) /\ <<"contexts">> \in Seq(Words) /\ <<"load">> \in Seq(Words)
      /\ <<"evidence">> \in Seq(Words) /\ <<"save">> \in Seq(Words) /\ <<"stored">> \in Seq(Words)
      /\ <<"files">> \in Seq(Words) /\ <<"print">> \in Seq(Words) /\ <<"open">> \in Seq(Words) /\ <<>> \in Seq(Words)
      /\ {"open", "stored", "add", "contexts", "files", "print", "commit"} \subseteq Words
  BY DEF Words
<1>3. ASSUME NEW o PROVE SearchSteps(o) \in Seq(Words)
  <2>1. Transaction(<<"save">>) \in Seq(Words) /\ Transaction(<<"evidence">>) \in Seq(Words)
    BY <1>2, TransactionIs
  <2>2. (<<"load">> \o (IF o THEN Transaction(<<"evidence">>) ELSE <<>>)) \o Transaction(<<"save">>) \in Seq(Words)
    BY <1>2, <2>1
  <2> QED BY <2>2, TransactionIs DEF SearchSteps
<1>4. Transaction(<<"add">>) \in Seq(Words) /\ \A o : Transaction(<<"contexts">> \o SearchSteps(o)) \in Seq(Words)
  <2>1. ASSUME NEW o PROVE <<"contexts">> \o SearchSteps(o) \in Seq(Words)
    BY <1>2, <1>3
  <2> QED BY <1>2, <2>1, TransactionIs
<1>5. Transaction(SearchSteps(FALSE)) \in Seq(Words)
  BY <1>3, TransactionIs
<1>6. body \in Seq(Words)
  <2>1. PICK search : search = SearchSteps(own)
    OBVIOUS
  <2>2. PICK add : add = Transaction(<<"add">>)
    OBVIOUS
  <2>3. search \in Seq(Words) /\ add \in Seq(Words)
    BY <1>3, <1>4, <2>1, <2>2
  <2>4. (<<"stored">> \o search) \o <<"files">> \in Seq(Words) /\ (add \o search) \o <<"files">> \in Seq(Words)
    BY <1>2, <2>3
  <2> HIDE DEF own
  <2> QED BY <1>4, <1>5, <2>1, <2>2, <2>4
<1>7. Result \in Seq(Words) /\ <<"print">> = Result
  BY <1>2, Tails, ThenConcat DEF Result
<1>8. Steps(c) = Then("open", body \o Result)
  <2> HIDE DEF body
  <2>1. (<<"open">> \o body) \o Result = <<"open">> \o (body \o Result)
    BY <1>2, <1>6, <1>7
  <2> QED BY <1>1, <1>7, <2>1 DEF Then
<1>9. body \o Result = Opened(c)
  <2>1. CASE c.name = "seed"
    <3>1. Transaction(<<"add">>) \o Result = Then("begin", <<"add">> \o Then("commit", Result))
      BY <1>2, <1>7, TransactionThen
    <3>2. Then("commit", Result) \in Seq(Words)
      BY Tails
    <3> QED BY <1>2, <2>1, <3>1, <3>2, ThenConcat, ZenonT(60) DEF Opened, Adding, AfterAdding
  <2>2. ASSUME Writes(c) PROVE SearchSteps(own) \o (<<"files">> \o Result) = Search(c)
    <3>1. <<"files">> \o Result = After(c) /\ After(c) \in Seq(Words)
      BY <1>2, <1>7, <2>2, Tails, ThenConcat DEF After
    <3>2. SearchSteps(own) \o After(c)
            = Then("begin", Then("load", IF own THEN Then("begin", Then("evidence", Then("commit", ToSave(c)))) ELSE ToSave(c)))
      BY <3>1, SearchThen DEF ToSave, Saving
    <3>3. own <=> Owns(c)
      BY <2>2 DEF Owns
    <3> HIDE DEF own
    <3> QED BY <3>1, <3>2, <3>3 DEF Search, Loading, Loaded, Storing
  <2>3. CASE c.name = "search"
    <3>1. ((<<"stored">> \o SearchSteps(own)) \o <<"files">>) \o Result
            = <<"stored">> \o (SearchSteps(own) \o (<<"files">> \o Result))
      BY <1>2, <1>3, <1>7
    <3>2. Search(c) \in Seq(Words)
      BY Tails
    <3>3. <<"stored">> \o Search(c) = Then("stored", Search(c))
      BY DEF Then
    <3> QED BY <2>2, <2>3, <3>1, <3>3 DEF Writes, Opened
  <2>4. CASE c.name = "pass"
    <3>1. ((Transaction(<<"add">>) \o SearchSteps(own)) \o <<"files">>) \o Result
            = Transaction(<<"add">>) \o (SearchSteps(own) \o (<<"files">> \o Result))
      BY <1>2, <1>3, <1>4, <1>7
    <3>2. Search(c) \in Seq(Words) /\ Then("commit", Search(c)) \in Seq(Words)
      BY <2>4, Tails DEF AfterAdding
    <3>3. Transaction(<<"add">>) \o Search(c) = Then("begin", <<"add">> \o Then("commit", Search(c)))
      BY <1>2, <3>2, TransactionThen
    <3>4. <<"add">> \o Then("commit", Search(c)) = Then("add", Then("commit", Search(c)))
      BY DEF Then
    <3> QED BY <2>2, <2>4, <3>1, <3>3, <3>4 DEF Writes, Opened, Adding, AfterAdding
  <2>5. ASSUME c.name \in {"promote", "context"} PROVE SearchSteps(FALSE) \o Then("commit", Result) = Search(c)
    <3>1. Then("commit", Result) = After(c) /\ After(c) \in Seq(Words)
      BY <2>5, Tails DEF After, Writes
    <3>2. ~Owns(c)
      BY <2>5 DEF Owns, Writes
    <3>3. SearchSteps(FALSE) \o After(c) = Then("begin", Then("load", ToSave(c)))
      BY <3>1, SearchThen DEF ToSave, Saving
    <3> QED BY <3>1, <3>2, <3>3 DEF Search, Loading, Loaded
  <2>6. CASE c.name = "promote"
    <3>1. Transaction(SearchSteps(FALSE)) \o Result = Then("begin", SearchSteps(FALSE) \o Then("commit", Result))
      BY <1>3, <1>7, TransactionThen
    <3> QED BY <2>5, <2>6, <3>1 DEF Opened
  <2>7. CASE c.name = "context"
    <3> DEFINE search == SearchSteps(FALSE)
    <3>1. search \in Seq(Words) /\ Then("commit", Result) \in Seq(Words)
      BY <1>3, Tails
    <3> HIDE DEF search
    <3>2. <<"contexts">> \o search \in Seq(Words)
      BY <1>2, <3>1
    <3>3. /\ Transaction(<<"contexts">> \o search) \o Result
               = Then("begin", (<<"contexts">> \o search) \o Then("commit", Result))
          /\ (<<"contexts">> \o search) \o Then("commit", Result)
               = <<"contexts">> \o (search \o Then("commit", Result))
      <4>1. Transaction(<<"contexts">> \o search) \o Result
              = Then("begin", (<<"contexts">> \o search) \o Then("commit", Result))
        BY <1>7, <3>2, TransactionThen
      <4>2. (<<"contexts">> \o search) \o Then("commit", Result)
              = <<"contexts">> \o (search \o Then("commit", Result))
        BY <1>2, <3>1
      <4> QED BY <4>1, <4>2
    <3>4. <<"contexts">> \o Search(c) = Then("contexts", Search(c))
      BY DEF Then
    <3> QED BY <2>5, <2>7, <3>3, <3>4 DEF Opened, search
  <2> QED BY <2>1, <2>3, <2>4, <2>6, <2>7
<1> QED BY <1>8, <1>9

\* Which step each place is at, and where it leads.
LEMMA Heads ==
  ASSUME NEW c
  PROVE  /\ Head(Then("open", Opened(c))) = "open"
         /\ Head(Then("begin", Then("create", Then("commit", Opened(c))))) = "begin"
         /\ Head(Then("create", Then("commit", Opened(c)))) = "create"
         /\ Head(Then("commit", Opened(c))) = "commit"
         /\ Head(Opened(c)) = IF c.name = "search" THEN "stored" ELSE "begin"
         /\ Head(Adding(c)) = "add" /\ Head(Then("commit", AfterAdding(c))) = "commit"
         /\ Head(Then("contexts", Search(c))) = "contexts"
         /\ Head(Search(c)) = "begin" /\ Head(Loading(c)) = "load" /\ Head(Loaded(c)) = "begin"
         /\ Head(Storing(c)) = "evidence" /\ Head(Then("commit", ToSave(c))) = "commit"
         /\ Head(ToSave(c)) = "begin" /\ Head(Saving(c)) = "save"
         /\ Head(Then("commit", Then("commit", After(c)))) = "commit" /\ Head(Then("commit", After(c))) = "commit"
         /\ Head(After(c)) = (IF Writes(c) THEN "files" ELSE "commit") /\ Head(Result) = "print"
<1>1. \A step \in Words, rest \in Seq(Words) : Head(Then(step, rest)) = step
  BY ThenIs
<1>2. {"open", "stored", "begin", "create", "add", "load", "evidence", "save", "contexts", "commit", "files", "print"}
         \subseteq Words /\ <<>> \in Seq(Words) /\ Then("create", Then("commit", Opened(c))) \in Seq(Words)
  BY Tails, ThenIs DEF Words
<1>3. /\ Head(Then("open", Opened(c))) = "open"
      /\ Head(Then("begin", Then("create", Then("commit", Opened(c))))) = "begin"
      /\ Head(Then("create", Then("commit", Opened(c)))) = "create"
      /\ Head(Then("commit", Opened(c))) = "commit" /\ Head(Then("commit", AfterAdding(c))) = "commit"
      /\ Head(Then("contexts", Search(c))) = "contexts" /\ Head(Then("commit", ToSave(c))) = "commit"
      /\ Head(Then("commit", Then("commit", After(c)))) = "commit" /\ Head(Then("commit", After(c))) = "commit"
  BY <1>1, <1>2, Tails
<1>4. /\ Head(Opened(c)) = IF c.name = "search" THEN "stored" ELSE "begin"
      /\ Head(Adding(c)) = "add" /\ Head(Search(c)) = "begin" /\ Head(Loading(c)) = "load"
  BY <1>1, <1>2, Tails DEF Opened, Adding, Search, Loading
<1>5. /\ Head(Loaded(c)) = "begin" /\ Head(Storing(c)) = "evidence" /\ Head(ToSave(c)) = "begin"
      /\ Head(Saving(c)) = "save"
  BY <1>1, <1>2, Tails DEF Loaded, Storing, ToSave, Saving
<1>6. Head(After(c)) = (IF Writes(c) THEN "files" ELSE "commit") /\ Head(Result) = "print"
  <2>1. Head(Result) = "print"
    BY <1>1, <1>2 DEF Result
  <2>2. Head(Then("files", Result)) = "files" /\ Head(Then("commit", Result)) = "commit"
    BY <1>1, <1>2, Tails
  <2> QED BY <2>1, <2>2 DEF After
<1> QED BY <1>3, <1>4, <1>5, <1>6

LEMMA Rests ==
  ASSUME NEW c
  PROVE  /\ Tail(Then("open", Opened(c))) = Opened(c)
         /\ Tail(Then("begin", Then("create", Then("commit", Opened(c))))) = Then("create", Then("commit", Opened(c)))
         /\ Tail(Then("create", Then("commit", Opened(c)))) = Then("commit", Opened(c))
         /\ Tail(Then("commit", Opened(c))) = Opened(c)
         /\ c.name \in {"search", "promote"} => Tail(Opened(c)) = Search(c)
         /\ c.name = "context" => Tail(Opened(c)) = Then("contexts", Search(c))
         /\ c.name \notin {"search", "promote", "context"} => Tail(Opened(c)) = Adding(c)
         /\ Tail(Adding(c)) = Then("commit", AfterAdding(c)) /\ Tail(Then("commit", AfterAdding(c))) = AfterAdding(c)
         /\ Tail(Then("contexts", Search(c))) = Search(c)
         /\ Tail(Search(c)) = Loading(c) /\ Tail(Loading(c)) = Loaded(c)
         /\ Tail(Loaded(c)) = (IF Owns(c) THEN Storing(c) ELSE Saving(c))
         /\ Tail(Storing(c)) = Then("commit", ToSave(c)) /\ Tail(Then("commit", ToSave(c))) = ToSave(c)
         /\ Tail(ToSave(c)) = Saving(c) /\ Tail(Saving(c)) = Then("commit", Then("commit", After(c)))
         /\ Tail(Then("commit", Then("commit", After(c)))) = Then("commit", After(c))
         /\ Tail(Then("commit", After(c))) = After(c)
         /\ Tail(After(c)) = Result
<1>1. \A step \in Words, rest \in Seq(Words) : Tail(Then(step, rest)) = rest
  BY ThenIs
<1>2. {"open", "stored", "begin", "create", "add", "load", "evidence", "save", "contexts", "commit", "files", "print"}
         \subseteq Words /\ Then("create", Then("commit", Opened(c))) \in Seq(Words)
  BY Tails, ThenIs DEF Words
<1>3. /\ Tail(Then("open", Opened(c))) = Opened(c)
      /\ Tail(Then("begin", Then("create", Then("commit", Opened(c))))) = Then("create", Then("commit", Opened(c)))
      /\ Tail(Then("create", Then("commit", Opened(c)))) = Then("commit", Opened(c))
      /\ Tail(Then("commit", Opened(c))) = Opened(c) /\ Tail(Then("commit", AfterAdding(c))) = AfterAdding(c)
      /\ Tail(Then("contexts", Search(c))) = Search(c) /\ Tail(Then("commit", ToSave(c))) = ToSave(c)
      /\ Tail(Then("commit", Then("commit", After(c)))) = Then("commit", After(c))
      /\ Tail(Then("commit", After(c))) = After(c)
  BY <1>1, <1>2, Tails, ZenonT(60)
<1>4. /\ c.name \in {"search", "promote"} => Tail(Opened(c)) = Search(c)
      /\ c.name = "context" => Tail(Opened(c)) = Then("contexts", Search(c))
      /\ c.name \notin {"search", "promote", "context"} => Tail(Opened(c)) = Adding(c)
  BY <1>1, <1>2, Tails DEF Opened
<1>5. /\ Tail(Adding(c)) = Then("commit", AfterAdding(c)) /\ Tail(Search(c)) = Loading(c) /\ Tail(Loading(c)) = Loaded(c)
  BY <1>1, <1>2, Tails DEF Adding, Search, Loading
<1>6. /\ Tail(Storing(c)) = Then("commit", ToSave(c)) /\ Tail(ToSave(c)) = Saving(c)
      /\ Tail(Saving(c)) = Then("commit", Then("commit", After(c)))
  <2>1. /\ Saving(c) \in Seq(Words) /\ Then("commit", ToSave(c)) \in Seq(Words)
        /\ Then("commit", Then("commit", After(c))) \in Seq(Words)
    BY Tails
  <2>2. Tail(Storing(c)) = Then("commit", ToSave(c))
    BY <1>1, <1>2, <2>1 DEF Storing
  <2>3. Tail(ToSave(c)) = Saving(c)
    BY <1>1, <1>2, <2>1 DEF ToSave
  <2>4. Tail(Saving(c)) = Then("commit", Then("commit", After(c)))
    BY <1>1, <1>2, <2>1 DEF Saving
  <2> QED BY <2>2, <2>3, <2>4
<1>7. Tail(Loaded(c)) = IF Owns(c) THEN Storing(c) ELSE Saving(c)
  BY <1>1, <1>2, <1>6, Tails DEF Loaded
<1>8. Tail(After(c)) = Result
  <2>1. Tail(Then("files", Result)) = Result /\ Tail(Then("commit", Result)) = Result
    BY <1>1, <1>2, Tails
  <2> QED BY <2>1 DEF After
<1> QED BY <1>3, <1>4, <1>5, <1>6, <1>7, <1>8

(* What the steps make of a store. *)

IsStore(s) ==
  /\ s = [made |-> s.made, context |-> s.context, evidence |-> s.evidence, entries |-> s.entries]
  /\ s.made \in BOOLEAN

\* A part of a store replaced.
LEMMA Parts ==
  ASSUME NEW s, IsStore(s), NEW x
  PROVE  /\ [s EXCEPT !.made = x] = [made |-> x, context |-> s.context, evidence |-> s.evidence, entries |-> s.entries]
         /\ [s EXCEPT !.context = x] = [made |-> s.made, context |-> x, evidence |-> s.evidence, entries |-> s.entries]
         /\ [s EXCEPT !.evidence = x] = [made |-> s.made, context |-> s.context, evidence |-> x, entries |-> s.entries]
         /\ [s EXCEPT !.entries = x] = [made |-> s.made, context |-> s.context, evidence |-> s.evidence, entries |-> x]
<1>1. PICK m, n, e, f : m = s.made /\ n = s.context /\ e = s.evidence /\ f = s.entries
  OBVIOUS
<1>2. s = [made |-> m, context |-> n, evidence |-> e, entries |-> f]
  BY <1>1 DEF IsStore
<1>3. /\ [s EXCEPT !.made = x] = [made |-> x, context |-> n, evidence |-> e, entries |-> f]
      /\ [s EXCEPT !.context = x] = [made |-> m, context |-> x, evidence |-> e, entries |-> f]
      /\ [s EXCEPT !.evidence = x] = [made |-> m, context |-> n, evidence |-> x, entries |-> f]
      /\ [s EXCEPT !.entries = x] = [made |-> m, context |-> n, evidence |-> e, entries |-> x]
  BY <1>2
<1> QED BY <1>1, <1>3

\* Each step leaves a store, and what it does not write as it was.
LEMMA Written ==
  ASSUME NEW s, IsStore(s), NEW c
  PROVE  /\ IsStore(Created(s)) /\ Created(s).made /\ Created(s).entries = s.entries
         /\ Created(s).context = s.context /\ (s.made => Created(s) = s)
         /\ IsStore(Added(s, c)) /\ Added(s, c).made = s.made /\ Added(s, c).entries = s.entries
         /\ DOMAIN s.context \subseteq DOMAIN Added(s, c).context
         /\ IsStore(WithCopy(s, c)) /\ WithCopy(s, c).made = s.made /\ WithCopy(s, c).entries = s.entries
         /\ WithCopy(s, c).context = s.context
         /\ IsStore(Replaced(s, c)) /\ Replaced(s, c).made = s.made /\ Replaced(s, c).entries = s.entries
         /\ DOMAIN Replaced(s, c).context = DOMAIN s.context
         /\ \A from : /\ IsStore(Saved(s, from, c)) /\ Saved(s, from, c).made = s.made
                      /\ Saved(s, from, c).context = s.context /\ Saved(s, from, c).entries = Rejudged(from, Own(c))
<1>1. IsStore(Created(s)) /\ Created(s).made /\ Created(s).entries = s.entries /\ Created(s).context = s.context
  BY Parts DEF Created, IsStore
<1>2. s.made => Created(s) = s
  BY Parts DEF Created, IsStore
<1>3. /\ IsStore(Added(s, c)) /\ Added(s, c).made = s.made /\ Added(s, c).entries = s.entries
      /\ Added(s, c).context = Set(s.context, c.recording, c.contexts[c.recording])
  BY Parts DEF Added, IsStore
<1>4. /\ IsStore(WithCopy(s, c)) /\ WithCopy(s, c).made = s.made /\ WithCopy(s, c).entries = s.entries
      /\ WithCopy(s, c).context = s.context
  BY Parts DEF WithCopy, IsStore
<1>5. /\ IsStore(Replaced(s, c)) /\ Replaced(s, c).made = s.made /\ Replaced(s, c).entries = s.entries
      /\ DOMAIN Replaced(s, c).context = DOMAIN s.context
  BY Parts DEF Replaced, IsStore
<1>6. ASSUME NEW from
      PROVE  /\ IsStore(Saved(s, from, c)) /\ Saved(s, from, c).made = s.made
             /\ Saved(s, from, c).context = s.context /\ Saved(s, from, c).entries = Rejudged(from, Own(c))
  BY Parts DEF Saved, IsStore
<1> QED BY <1>1, <1>2, <1>3, <1>4, <1>5, <1>6 DEF Set

(* Where a command can be: committed d, command c, steps left t, depth n, its view w, *)
(* its search's copy k and the captures x that its search corrects.                   *)

Base(c) == IF Writes(c) THEN 0 ELSE 1    \* the depth of its search's transaction
Ground(d, c) == IF c.name = "context" THEN Replaced(d, c) ELSE d
Heard(d, c) == IF Owns(c) THEN WithCopy(Ground(d, c), c) ELSE Ground(d, c)
Outcome(d, c) == Saved(Heard(d, c), Heard(d, c), c)

Making(d, c, t, n, w) ==
  \/ n = 0 /\ t = Then("open", Opened(c))
  \/ n = 0 /\ t = Then("begin", Then("create", Then("commit", Opened(c))))
  \/ n = 1 /\ t = Then("create", Then("commit", Opened(c))) /\ w = d
  \/ n = 1 /\ t = Then("commit", Opened(c)) /\ w = Created(d)

Beginning(d, c, t, n, w) ==
  \/ n = 0 /\ t = Opened(c)
  \/ n = 1 /\ c.name \in {"seed", "pass"} /\ t = Adding(c) /\ w = d
  \/ n = 1 /\ c.name \in {"seed", "pass"} /\ t = Then("commit", AfterAdding(c)) /\ w = Added(d, c)
  \/ n = 1 /\ c.name = "context" /\ t = Then("contexts", Search(c)) /\ w = d

Searching(d, c, t, n, w, k) ==
  \/ n = Base(c) /\ t = Search(c) /\ (Base(c) = 1 => w = Ground(d, c))
  \/ n = Base(c) + 1 /\ t = Loading(c) /\ w = Ground(d, c)
  \/ n = Base(c) + 1 /\ t = Loaded(c) /\ w = Ground(d, c) /\ k = Ground(d, c)
  \/ n = Base(c) + 2 /\ Owns(c) /\ t = Storing(c) /\ w = Ground(d, c) /\ k = Ground(d, c)
  \/ n = Base(c) + 2 /\ Owns(c) /\ t = Then("commit", ToSave(c)) /\ w = Heard(d, c) /\ k = Heard(d, c)
  \/ n = Base(c) + 1 /\ t = ToSave(c) /\ w = Heard(d, c) /\ k = Heard(d, c)
  \/ n = Base(c) + 2 /\ t = Saving(c) /\ w = Heard(d, c) /\ k = Heard(d, c)

Ending(d, c, t, n, w, x) ==
  /\ w = Outcome(d, c) /\ x = Changed(Heard(d, c), c)
  /\ \/ n = Base(c) + 2 /\ t = Then("commit", Then("commit", After(c)))
     \/ n = Base(c) + 1 /\ t = Then("commit", After(c))
     \/ n = 1 /\ Base(c) = 1 /\ t = After(c)

Ended(c, t, n) == n = 0 /\ (t = Result \/ (Writes(c) /\ t = After(c)))

Place(d, c, t, n, w, k, x) ==
  \/ Making(d, c, t, n, w) /\ x = {}
  \/ d.made /\ Beginning(d, c, t, n, w) /\ x = {}
  \/ d.made /\ c.name # "seed" /\ Searching(d, c, t, n, w, k) /\ x = {}
  \/ d.made /\ c.name # "seed" /\ Ending(d, c, t, n, w, x)
  \/ d.made /\ Ended(c, t, n)

\* No step is left out and none comes at a place where it is not meant.
LEMMA OpenMoves ==
  ASSUME NEW d, NEW c, NEW t, NEW n, NEW w, NEW k, NEW x, Place(d, c, t, n, w, k, x), Head(t) = "open"
  PROVE  t = Then("open", Opened(c)) /\ n = 0 /\ x = {}
BY Heads, ZenonT(60) DEF Place, Making, Beginning, Searching, Ending, Ended

LEMMA BeginMoves ==
  ASSUME NEW d, NEW c, IsCommand(c), NEW t, NEW n, NEW w, NEW k, NEW x, Place(d, c, t, n, w, k, x), Head(t) = "begin"
  PROVE  /\ n \in Nat
         /\ n = 0 => Place(d, c, Tail(t), 1, d, k, x)
         /\ n > 0 => Place(d, c, Tail(t), n + 1, w, k, x)
<1>1. CASE Making(d, c, t, n, w) /\ x = {}
  <2>1. n = 0 /\ Tail(t) = Then("create", Then("commit", Opened(c)))
    BY <1>1, Heads, Rests, ZenonT(60) DEF Making
  <2>2. Making(d, c, Tail(t), 1, d)
    BY <2>1 DEF Making
  <2> QED BY <1>1, <2>1, <2>2 DEF Place
<1>2. CASE d.made /\ Beginning(d, c, t, n, w) /\ x = {}
  <2>1. n = 0 /\ t = Opened(c) /\ c.name # "search"
    BY <1>2, Heads DEF Beginning
  <2>2. CASE c.name = "promote"
    <3>1. Searching(d, c, Tail(t), 1, d, k)
      BY <2>1, <2>2, Rests DEF Searching, Base, Ground, Writes
    <3> QED BY <1>2, <2>1, <2>2, <3>1 DEF Place
  <2>3. CASE c.name # "promote"
    <3>1. Beginning(d, c, Tail(t), 1, d)
      BY <2>1, <2>3, Rests DEF Beginning, IsCommand
    <3> QED BY <1>2, <2>1, <3>1 DEF Place
  <2> QED BY <2>2, <2>3
<1>3. CASE d.made /\ c.name # "seed" /\ Searching(d, c, t, n, w, k) /\ x = {}
  <2>1. Base(c) \in {0, 1} /\ (Base(c) = 0 => Ground(d, c) = d) /\ (~Owns(c) => Heard(d, c) = Ground(d, c))
    BY DEF Base, Ground, Heard, Writes
  <2>2. \/ n = Base(c) /\ t = Search(c) /\ (Base(c) = 1 => w = Ground(d, c))
        \/ n = Base(c) + 1 /\ t = Loaded(c) /\ w = Ground(d, c) /\ k = Ground(d, c)
        \/ n = Base(c) + 1 /\ t = ToSave(c) /\ w = Heard(d, c) /\ k = Heard(d, c)
    BY <1>3, Heads DEF Searching
  <2>3. n = 0 => Searching(d, c, Tail(t), 1, d, k)
    BY <2>1, <2>2, Rests DEF Searching
  <2>4. n > 0 => Searching(d, c, Tail(t), n + 1, w, k)
    BY <2>1, <2>2, Rests DEF Searching
  <2>5. n \in Nat
    BY <2>1, <2>2
  <2> QED BY <1>3, <2>3, <2>4, <2>5 DEF Place
<1>4. ~(d.made /\ c.name # "seed" /\ Ending(d, c, t, n, w, x)) /\ ~(d.made /\ Ended(c, t, n))
  BY Heads DEF Ending, Ended
<1> QED BY <1>1, <1>2, <1>3, <1>4 DEF Place

\* Steps of a transaction on the store.
LEMMA CreateMoves ==
  ASSUME NEW d, NEW c, NEW t, NEW n, NEW w, NEW k, NEW x, Place(d, c, t, n, w, k, x), Head(t) = "create"
  PROVE  n > 0 /\ Place(d, c, Tail(t), n, Created(w), k, x)
<1>1. n = 1 /\ t = Then("create", Then("commit", Opened(c))) /\ w = d /\ x = {}
  BY Heads, ZenonT(60) DEF Place, Making, Beginning, Searching, Ending, Ended
<1>2. Making(d, c, Tail(t), n, Created(w))
  BY <1>1, Rests DEF Making
<1> QED BY <1>1, <1>2 DEF Place

LEMMA AddMoves ==
  ASSUME NEW d, NEW c, NEW t, NEW n, NEW w, NEW k, NEW x, Place(d, c, t, n, w, k, x), Head(t) = "add"
  PROVE  n > 0 /\ Place(d, c, Tail(t), n, Added(w, c), k, x)
<1>1. n = 1 /\ t = Adding(c) /\ w = d /\ x = {} /\ d.made /\ c.name \in {"seed", "pass"}
  BY Heads, ZenonT(60) DEF Place, Making, Beginning, Searching, Ending, Ended
<1>2. Beginning(d, c, Tail(t), n, Added(w, c))
  BY <1>1, Rests DEF Beginning
<1> QED BY <1>1, <1>2 DEF Place

LEMMA ContextsMoves ==
  ASSUME NEW d, NEW c, NEW t, NEW n, NEW w, NEW k, NEW x, Place(d, c, t, n, w, k, x), Head(t) = "contexts"
  PROVE  n > 0 /\ Place(d, c, Tail(t), n, Replaced(w, c), k, x)
<1>1. n = 1 /\ t = Then("contexts", Search(c)) /\ w = d /\ x = {} /\ d.made /\ c.name = "context"
  BY Heads, ZenonT(60) DEF Place, Making, Beginning, Searching, Ending, Ended
<1>2. Searching(d, c, Tail(t), n, Replaced(w, c), k)
  BY <1>1, Rests DEF Searching, Base, Ground, Writes
<1> QED BY <1>1, <1>2 DEF Place

LEMMA LoadMoves ==
  ASSUME NEW d, NEW c, NEW t, NEW n, NEW w, NEW k, NEW x, Place(d, c, t, n, w, k, x), Head(t) = "load"
  PROVE  n > 0 /\ Place(d, c, Tail(t), n, w, w, x)
<1>1. n = Base(c) + 1 /\ t = Loading(c) /\ w = Ground(d, c) /\ x = {} /\ d.made /\ c.name # "seed"
  BY Heads, ZenonT(60) DEF Place, Making, Beginning, Searching, Ending, Ended
<1>2. Searching(d, c, Tail(t), n, w, w)
  BY <1>1, Rests DEF Searching
<1> QED BY <1>1, <1>2 DEF Place, Base

LEMMA EvidenceMoves ==
  ASSUME NEW d, NEW c, NEW t, NEW n, NEW w, NEW k, NEW x, Place(d, c, t, n, w, k, x), Head(t) = "evidence"
  PROVE  n > 0 /\ Place(d, c, Tail(t), n, WithCopy(w, c), WithCopy(k, c), x)
<1>1. /\ n = Base(c) + 2 /\ t = Storing(c) /\ w = Ground(d, c) /\ k = Ground(d, c) /\ x = {} /\ d.made
      /\ c.name # "seed" /\ Owns(c)
  BY Heads, ZenonT(60) DEF Place, Making, Beginning, Searching, Ending, Ended
<1>2. Searching(d, c, Tail(t), n, WithCopy(w, c), WithCopy(k, c))
  BY <1>1, Rests DEF Searching, Heard
<1> QED BY <1>1, <1>2 DEF Place, Base

LEMMA SaveMoves ==
  ASSUME NEW d, NEW c, NEW t, NEW n, NEW w, NEW k, NEW x, Place(d, c, t, n, w, k, x), Head(t) = "save"
  PROVE  n > 0 /\ Place(d, c, Tail(t), n, Saved(w, k, c), k, Changed(k, c))
<1>1. n = Base(c) + 2 /\ t = Saving(c) /\ w = Heard(d, c) /\ k = Heard(d, c) /\ d.made /\ c.name # "seed"
  BY Heads, ZenonT(60) DEF Place, Making, Beginning, Searching, Ending, Ended
<1>2. Ending(d, c, Tail(t), n, Saved(w, k, c), Changed(k, c))
  BY <1>1, Rests DEF Ending, Outcome
<1> QED BY <1>1, <1>2 DEF Place, Base

\* Steps outside one.
LEMMA StoredMoves ==
  ASSUME NEW d, NEW c, NEW t, NEW n, NEW w, NEW k, NEW x, Place(d, c, t, n, w, k, x), Head(t) = "stored"
  PROVE  n = 0 /\ Place(d, c, Tail(t), n, w, k, x)
<1>1. n = 0 /\ t = Opened(c) /\ c.name = "search" /\ d.made /\ x = {}
  BY Heads, ZenonT(60) DEF Place, Making, Beginning, Searching, Ending, Ended
<1>2. Searching(d, c, Tail(t), n, w, k)
  BY <1>1, Rests DEF Searching, Base, Writes
<1> QED BY <1>1, <1>2 DEF Place

LEMMA FilesMoves ==
  ASSUME NEW d, NEW c, NEW t, NEW n, NEW w, NEW k, NEW x, Place(d, c, t, n, w, k, x), Head(t) = "files"
  PROVE  n = 0 /\ t = After(c) /\ Tail(t) = Result /\ Writes(c) /\ Place(d, c, Tail(t), n, w, k, x)
<1>1. n = 0 /\ t = After(c) /\ Writes(c) /\ d.made
  BY Heads, ZenonT(60) DEF Place, Making, Beginning, Searching, Ending, Ended, Base
<1>2. Tail(t) = Result
  BY <1>1, Rests
<1>3. Ended(c, Tail(t), n)
  BY <1>1, <1>2 DEF Ended
<1> QED BY <1>1, <1>2, <1>3 DEF Place

LEMMA PrintMoves ==
  ASSUME NEW d, NEW c, NEW t, NEW n, NEW w, NEW k, NEW x, Place(d, c, t, n, w, k, x), Head(t) = "print"
  PROVE  n = 0 /\ t = Result
BY Heads, ZenonT(60) DEF Place, Making, Beginning, Searching, Ending, Ended

\* The outcome of a search, a promotion or contexts replaced is one of the effects it should have.
LEMMA OutcomeIsEffect ==
  ASSUME NEW d, NEW c, IsCommand(c), c.name # "seed"
  PROVE  Outcome(d, c) \in Effects(d, c)
<1>1. CASE Writes(c)
  <2>1. Own(c) = {c.recording} /\ Ground(d, c) = d /\ c.name \in {"search", "pass"}
    BY <1>1 DEF Own, Ground, Writes
  <2>2. Outcome(d, c) = Searched(d, c)
    BY <1>1, <2>1 DEF Outcome, Heard, Owns, Saved, Searched
  <2> QED BY <2>1, <2>2 DEF Effects
<1>2. CASE c.name = "promote"
  <2>1. Outcome(d, c) = Promoted(d)
    BY <1>2 DEF Outcome, Heard, Ground, Owns, Writes, Saved, Own, Promoted
  <2> QED BY <1>2, <2>1 DEF Effects
<1>3. CASE c.name = "context"
  <2>1. Outcome(d, c) = Promoted(Replaced(d, c))
    BY <1>3 DEF Outcome, Heard, Ground, Owns, Writes, Saved, Own, Promoted
  <2> QED BY <1>3, <2>1 DEF Effects
<1> QED BY <1>1, <1>2, <1>3 DEF IsCommand, Writes

\* What is committed: a store made, or a whole effect of the command; who has a search commit
\* corrects what it changed.
LEMMA CommitMoves ==
  ASSUME NEW d, IsStore(d), NEW c, IsCommand(c), NEW t, NEW n, NEW w, NEW k, NEW x, Place(d, c, t, n, w, k, x),
         Head(t) = "commit"
  PROVE  /\ n \in Nat \ {0}
         /\ n > 1 => Place(d, c, Tail(t), n - 1, w, k, x)
         /\ n = 1 => /\ Place(w, c, Tail(t), 0, w, k, x)
                     /\ w = Created(d) \/ (d.made /\ w \in Effects(d, c))
                     /\ \/ w.entries = d.entries
                        \/ /\ w = Outcome(d, c) /\ x = Changed(Heard(d, c), c)
                           /\ Tail(t) = Result \/ (Writes(c) /\ Tail(t) = After(c))
<1>1. CASE Making(d, c, t, n, w) /\ x = {}
  <2>1. n = 1 /\ w = Created(d) /\ Tail(t) = Opened(c)
    BY <1>1, Heads, Rests, ZenonT(60) DEF Making
  <2>2. w.made /\ w.entries = d.entries
    BY <2>1, Written
  <2>3. Beginning(w, c, Tail(t), 0, w)
    BY <2>1 DEF Beginning
  <2> QED BY <1>1, <2>1, <2>2, <2>3 DEF Place
<1>2. CASE d.made /\ Beginning(d, c, t, n, w) /\ x = {}
  <2>1. n = 1 /\ w = Added(d, c) /\ Tail(t) = AfterAdding(c) /\ c.name \in {"seed", "pass"}
    BY <1>2, Heads, Rests, ZenonT(60) DEF Beginning
  <2>2. w.made /\ w.entries = d.entries /\ w \in Effects(d, c)
    <3>1. w.made /\ w.entries = d.entries
      <4>1. Added(d, c).made = d.made /\ Added(d, c).entries = d.entries
        BY Written
      <4> QED BY <1>2, <2>1, <4>1
    <3>2. Added(d, c) \in Effects(d, c)
      BY <2>1 DEF Effects
    <3> QED BY <2>1, <3>1, <3>2
  <2>3. CASE c.name = "seed"
    <3>1. Ended(c, Tail(t), 0)
      BY <2>1, <2>3 DEF Ended, AfterAdding
    <3> QED BY <1>2, <2>1, <2>2, <3>1 DEF Place
  <2>4. CASE c.name = "pass"
    <3>1. Searching(w, c, Tail(t), 0, w, k)
      BY <2>1, <2>4 DEF Searching, AfterAdding, Base, Writes
    <3> QED BY <1>2, <2>1, <2>2, <2>4, <3>1 DEF Place
  <2> QED BY <2>1, <2>3, <2>4
<1>3. CASE d.made /\ c.name # "seed" /\ Searching(d, c, t, n, w, k) /\ x = {}
  <2>1. /\ n = Base(c) + 2 /\ Tail(t) = ToSave(c) /\ w = Heard(d, c) /\ k = Heard(d, c) /\ Base(c) \in {0, 1}
    BY <1>3, Heads, Rests DEF Searching, Base
  <2>2. Searching(d, c, Tail(t), n - 1, w, k)
    BY <2>1 DEF Searching
  <2> QED BY <1>3, <2>1, <2>2 DEF Place
<1>4. CASE d.made /\ c.name # "seed" /\ Ending(d, c, t, n, w, x)
  <2>1. /\ Base(c) \in {0, 1} /\ (Base(c) = 1 <=> ~Writes(c))
        /\ w = Outcome(d, c) /\ x = Changed(Heard(d, c), c)
    BY <1>4 DEF Ending, Base
  <2>2. n > 1 => Ending(d, c, Tail(t), n - 1, w, x)
    BY <1>4, <2>1, Rests DEF Ending
  <2>3. n \in Nat \ {0} /\ (n = 1 => Tail(t) = Result \/ (Writes(c) /\ Tail(t) = After(c)))
    BY <1>4, <2>1, Rests DEF Ending
  <2>4. w.made
    BY <1>4, <2>1, Written, ZenonT(60) DEF Outcome, Heard, Ground
  <2>5. n = 1 => Ended(c, Tail(t), 0)
    BY <2>3 DEF Ended
  <2> QED BY <1>4, <2>1, <2>2, <2>3, <2>4, <2>5, OutcomeIsEffect DEF Place
<1>5. ~(d.made /\ Ended(c, t, n))
  BY Heads DEF Ended
<1> QED BY <1>1, <1>2, <1>3, <1>4, <1>5 DEF Place

(* The invariant. *)

\* Tables by process.
Tables ==
  /\ DOMAIN todo = Processes /\ DOMAIN command = Processes /\ DOMAIN depth = Processes /\ DOMAIN work = Processes
  /\ DOMAIN copy = Processes /\ DOMAIN corrected = Processes /\ DOMAIN exit = Processes /\ DOMAIN asked = Processes
  /\ DOMAIN left = Processes /\ DOMAIN held = Processes

\* What is committed is a store or none yet, and only recordings with a stream have entries.
StoreWhole ==
  IsStore(disk) /\ (disk.made \/ disk = Empty) /\ DOMAIN disk.entries \subseteq DOMAIN disk.context

Running(p) ==
  /\ command[p] \in Commands
  /\ Place(disk, command[p], todo[p], depth[p], work[p], copy[p], corrected[p])

\* Who runs is at a place of its command, and who is in a transaction has the lock.
Placed ==
  \A p \in Processes :
    /\ exit[p] = Nil => Running(p)
    /\ exit[p] # Nil => depth[p] = 0
    /\ depth[p] = 0 <=> lock # p

CommandsInv == Tables /\ StoreWhole /\ Placed

LEMMA CommandsInvInit == CommandsInit => CommandsInv
<1> SUFFICES ASSUME CommandsInit PROVE CommandsInv
  OBVIOUS
<1>1. Tables
  BY DEF CommandsInit, Tables
<1>2. StoreWhole
  BY DEF CommandsInit, StoreWhole, IsStore, Empty
<1>3. Placed
  BY CommandsAssumption DEF CommandsInit, Placed
<1> QED BY <1>1, <1>2, <1>3 DEF CommandsInv

\* A process that does nothing stays where it is when others leave the store, and, outside
\* a transaction, when they commit.
LEMMA OthersStay ==
  ASSUME NEW d, NEW e, NEW c, NEW t, NEW n, NEW w, NEW k, NEW x, Place(d, c, t, n, w, k, x),
         d = e \/ (n = 0 /\ (d.made => e.made))
  PROVE  Place(e, c, t, n, w, k, x)
<1>1. CASE d = e
  BY <1>1
<1>2. CASE n = 0 /\ (d.made => e.made)
  <2>1. Making(d, c, t, n, w) => Making(e, c, t, n, w)
    BY <1>2 DEF Making
  <2>2. Beginning(d, c, t, n, w) => Beginning(e, c, t, n, w)
    BY <1>2 DEF Beginning
  <2>3. Searching(d, c, t, n, w, k) => Searching(e, c, t, n, w, k)
    BY <1>2 DEF Searching, Base
  <2>4. ~Ending(d, c, t, n, w, x)
    BY <1>2 DEF Ending, Base
  <2> QED BY <1>2, <2>1, <2>2, <2>3, <2>4 DEF Place
<1> QED BY <1>1, <1>2

\* What of a process another one's step does not touch.
Same(q) ==
  /\ todo'[q] = todo[q] /\ command'[q] = command[q] /\ depth'[q] = depth[q] /\ work'[q] = work[q]
  /\ copy'[q] = copy[q] /\ corrected'[q] = corrected[q] /\ exit'[q] = exit[q]

\* A step of one process keeps the invariant if it leads that process to a place of its
\* command and treats the lock and the store as the others rely on.
LEMMA StepPlaces ==
  ASSUME CommandsInv, Tables', StoreWhole', NEW p \in Processes,
         \A q \in Processes \ {p} : Same(q),
         exit'[p] = Nil => Running(p)', exit'[p] # Nil => depth'[p] = 0,
         depth'[p] = 0 <=> lock' # p,
         lock' = lock \/ (lock = Nil /\ lock' = p) \/ (lock = p /\ lock' = Nil),
         disk' = disk \/ (lock = p /\ (disk.made => disk'.made))
  PROVE  CommandsInv'
<1>1. ASSUME NEW q \in Processes, q # p
      PROVE  /\ exit'[q] = Nil => Running(q)'
             /\ exit'[q] # Nil => depth'[q] = 0
             /\ depth'[q] = 0 <=> lock' # q
  <2>1. Same(q)
    BY <1>1
  <2>2. depth'[q] = 0 <=> lock' # q
    BY <1>1, <2>1, CommandsAssumption DEF CommandsInv, Placed, Same
  <2>3. exit'[q] # Nil => depth'[q] = 0
    BY <2>1 DEF CommandsInv, Placed, Same
  <2>4. ASSUME exit'[q] = Nil PROVE Running(q)'
    <3>1. Running(q)
      BY <2>1, <2>4 DEF CommandsInv, Placed, Same
    <3>2. disk = disk' \/ (depth[q] = 0 /\ (disk.made => disk'.made))
      BY <1>1 DEF CommandsInv, Placed
    <3>3. Place(disk', command[q], todo[q], depth[q], work[q], copy[q], corrected[q])
      BY <3>1, <3>2, OthersStay DEF Running
    <3> QED BY <2>1, <3>1, <3>3 DEF Running, Same
  <2> QED BY <2>2, <2>3, <2>4
<1>2. Placed'
  BY <1>1 DEF Placed
<1> QED BY <1>2 DEF CommandsInv

(* Every step keeps it. *)

\* A process that starts is at the beginning of its command.
LEMMA StartStep ==
  ASSUME CommandsInv, NEW p \in Processes, NEW c \in Commands, Start(p, c)
  PROVE  CommandsInv'
<1>1. Tables' /\ \A q \in Processes \ {p} : Same(q)
  BY DEF Start, CommandsInv, Tables, Same
<1>2. StoreWhole' /\ disk' = disk /\ lock' = lock
  BY DEF Start, CommandsInv, StoreWhole
<1>3. /\ exit[p] # Nil /\ depth[p] = 0 /\ depth'[p] = 0 /\ exit'[p] = Nil /\ command'[p] = c
      /\ todo'[p] = Steps(c) /\ corrected'[p] = {}
  BY DEF Start, CommandsInv, Placed, Tables
<1>4. Steps(c) = Then("open", Opened(c))
  BY CommandsAssumption, StepsThen DEF IsCommand
<1>5. Running(p)'
  BY <1>3, <1>4 DEF Running, Place, Making
<1>6. depth'[p] = 0 <=> lock' # p
  BY <1>2, <1>3 DEF CommandsInv, Placed
<1> QED BY <1>1, <1>2, <1>3, <1>5, <1>6, StepPlaces

\* A process that ends gives the lock back.
LEMMA EndsStep ==
  ASSUME CommandsInv, NEW p \in Processes, exit[p] = Nil, NEW code \in {2, 3, 6}, Ends(p, code)
  PROVE  CommandsInv'
<1>1. Tables' /\ \A q \in Processes \ {p} : Same(q)
  BY DEF Ends, Forget, CommandsInv, Tables, Same
<1>2. StoreWhole' /\ disk' = disk
  BY DEF Ends, CommandsInv, StoreWhole
<1>3. /\ exit'[p] # Nil /\ depth'[p] = 0 /\ lock' # p
      /\ lock' = lock \/ (lock = p /\ lock' = Nil)
  BY CommandsAssumption DEF Ends, CommandsInv, Tables
<1> QED BY <1>1, <1>2, <1>3, StepPlaces

\* A step taken within a command.
LEMMA AtStep ==
  ASSUME CommandsInv, NEW p \in Processes, NEW step, At(p, step)
  PROVE  /\ exit[p] = Nil /\ Head(todo[p]) = step /\ Running(p) /\ IsCommand(command[p]) /\ IsStore(disk)
         /\ Done(p) => todo'[p] = Tail(todo[p]) /\ DOMAIN todo' = Processes /\ \A q \in Processes \ {p} : todo'[q] = todo[q]
BY CommandsAssumption DEF CommandsInv, Placed, Tables, At, Done, StoreWhole, Running

LEMMA OpenStep ==
  ASSUME CommandsInv, NEW p \in Processes, Open(p)
  PROVE  CommandsInv'
<1>1. /\ exit[p] = Nil /\ Head(todo[p]) = "open" /\ Running(p)
  BY AtStep DEF Open
<1>2. todo[p] = Then("open", Opened(command[p])) /\ depth[p] = 0 /\ corrected[p] = {}
  BY <1>1, OpenMoves DEF Running
<1>3. Tables' /\ \A q \in Processes \ {p} : Same(q)
  BY DEF Open, outside, CommandsInv, Tables, Same
<1>4. todo'[p] = IF disk.made THEN Opened(command[p])
                 ELSE Then("begin", Then("create", Then("commit", Opened(command[p]))))
  <2>1. todo'[p] = IF disk.made THEN Tail(todo[p]) ELSE Transaction(<<"create">>) \o Tail(todo[p])
    BY DEF Open, CommandsInv, Tables
  <2>2. Tail(todo[p]) = Opened(command[p])
    BY <1>2, Rests
  <2>3. Opened(command[p]) \in Seq(Words) /\ Then("commit", Opened(command[p])) \in Seq(Words)
    BY Tails
  <2>4. <<"create">> \in Seq(Words) /\ "create" \in Words
    BY DEF Words
  <2>5. Transaction(<<"create">>) \o Opened(command[p])
          = Then("begin", <<"create">> \o Then("commit", Opened(command[p])))
    BY <2>3, <2>4, TransactionThen
  <2>6. <<"create">> \o Then("commit", Opened(command[p])) = Then("create", Then("commit", Opened(command[p])))
    BY DEF Then
  <2> QED BY <2>1, <2>2, <2>5, <2>6
<1>5. /\ disk' = disk /\ lock' = lock /\ depth'[p] = 0 /\ corrected'[p] = {} /\ command'[p] = command[p]
      /\ exit'[p] = Nil /\ StoreWhole'
  BY <1>1, <1>2 DEF Open, outside, CommandsInv, StoreWhole
<1>6. Running(p)'
  <2>1. CASE disk.made
    BY <1>1, <1>4, <1>5, <2>1 DEF Running, Place, Beginning
  <2>2. CASE ~disk.made
    BY <1>1, <1>4, <1>5, <2>2 DEF Running, Place, Making
  <2> QED BY <2>1, <2>2
<1>7. depth'[p] = 0 <=> lock' # p
  BY <1>2, <1>5 DEF CommandsInv, Placed
<1> QED BY <1>1, <1>3, <1>5, <1>6, <1>7, StepPlaces

LEMMA BeginStep ==
  ASSUME CommandsInv, NEW p \in Processes, Begin(p)
  PROVE  CommandsInv'
<1>1. /\ exit[p] = Nil /\ Head(todo[p]) = "begin" /\ Running(p) /\ IsCommand(command[p])
      /\ todo'[p] = Tail(todo[p])
  BY AtStep DEF Begin
<1>2. Tables' /\ \A q \in Processes \ {p} : Same(q)
  BY DEF Begin, Done, outside, CommandsInv, Tables, Same
<1>3. /\ disk' = disk /\ command'[p] = command[p] /\ copy'[p] = copy[p] /\ corrected'[p] = corrected[p]
      /\ exit'[p] = Nil /\ depth'[p] = depth[p] + 1 /\ StoreWhole'
  BY <1>1 DEF Begin, outside, CommandsInv, Tables, StoreWhole
<1>4. /\ depth[p] \in Nat
      /\ depth[p] = 0 => Place(disk, command[p], Tail(todo[p]), 1, disk, copy[p], corrected[p])
      /\ depth[p] > 0 => Place(disk, command[p], Tail(todo[p]), depth[p] + 1, work[p], copy[p], corrected[p])
  BY <1>1, BeginMoves DEF Running
<1>5. CASE depth[p] = 0
  <2>1. lock = Nil /\ lock' = p /\ work'[p] = disk /\ depth'[p] = 1
    BY <1>3, <1>5 DEF Begin, CanLock, CommandsInv, Tables
  <2>2. Running(p)'
    BY <1>1, <1>3, <1>4, <1>5, <2>1 DEF Running
  <2> QED BY <1>2, <1>3, <2>1, <2>2, StepPlaces
<1>6. CASE depth[p] > 0
  <2>1. lock' = lock /\ work'[p] = work[p]
    BY <1>6 DEF Begin
  <2>2. Running(p)'
    BY <1>1, <1>3, <1>4, <1>6, <2>1 DEF Running
  <2>3. depth'[p] = 0 <=> lock' # p
    BY <1>3, <1>4, <1>6, <2>1 DEF CommandsInv, Placed
  <2> QED BY <1>2, <1>3, <2>1, <2>2, <2>3, StepPlaces
<1> QED BY <1>4, <1>5, <1>6

\* A step inside a transaction that leads to a place of the command.
LEMMA InsideStep ==
  ASSUME CommandsInv, NEW p \in Processes, NEW step, Inside(p, step),
         DOMAIN work' = Processes, DOMAIN copy' = Processes, DOMAIN corrected' = Processes,
         \A q \in Processes \ {p} : work'[q] = work[q] /\ copy'[q] = copy[q] /\ corrected'[q] = corrected[q],
         Place(disk, command[p], Tail(todo[p]), depth[p], work'[p], copy'[p], corrected'[p])
  PROVE  CommandsInv'
<1>1. /\ exit[p] = Nil /\ Running(p) /\ todo'[p] = Tail(todo[p]) /\ DOMAIN todo' = Processes
      /\ \A q \in Processes \ {p} : todo'[q] = todo[q]
  BY AtStep DEF Inside
<1>2. disk' = disk /\ lock' = lock /\ command' = command /\ depth' = depth /\ exit' = exit
      /\ asked' = asked /\ left' = left /\ held' = held
  BY DEF Inside, outside
<1>3. Tables' /\ StoreWhole' /\ \A q \in Processes \ {p} : Same(q)
  BY <1>1, <1>2 DEF CommandsInv, Tables, StoreWhole, Same
<1>4. Running(p)' /\ exit'[p] = Nil
  BY <1>1, <1>2 DEF Running
<1>5. depth'[p] = 0 <=> lock' # p
  BY <1>2 DEF CommandsInv, Placed
<1> QED BY <1>2, <1>3, <1>4, <1>5, StepPlaces

LEMMA CreateStep ==
  ASSUME CommandsInv, NEW p \in Processes, Create(p)
  PROVE  CommandsInv'
<1>1. Inside(p, "create") /\ Head(todo[p]) = "create" /\ Running(p) /\ IsCommand(command[p])
  BY AtStep DEF Create, Inside
<1>2. /\ work'[p] = Created(work[p])
      /\ copy'[p] = copy[p] /\ corrected'[p] = corrected[p]
      /\ DOMAIN work' = Processes /\ DOMAIN copy' = Processes /\ DOMAIN corrected' = Processes
      /\ \A q \in Processes \ {p} : work'[q] = work[q] /\ copy'[q] = copy[q] /\ corrected'[q] = corrected[q]
  BY DEF Create, Write, CommandsInv, Tables
<1>3. Place(disk, command[p], Tail(todo[p]), depth[p], work'[p], copy'[p], corrected'[p])
  BY <1>1, <1>2, CreateMoves DEF Running
<1> QED BY <1>1, <1>2, <1>3, InsideStep

LEMMA AddStreamStep ==
  ASSUME CommandsInv, NEW p \in Processes, AddStream(p)
  PROVE  CommandsInv'
<1>1. Inside(p, "add") /\ Head(todo[p]) = "add" /\ Running(p) /\ IsCommand(command[p])
  BY AtStep DEF AddStream, Inside
<1>2. /\ work'[p] = Added(work[p], command[p])
      /\ copy'[p] = copy[p] /\ corrected'[p] = corrected[p]
      /\ DOMAIN work' = Processes /\ DOMAIN copy' = Processes /\ DOMAIN corrected' = Processes
      /\ \A q \in Processes \ {p} : work'[q] = work[q] /\ copy'[q] = copy[q] /\ corrected'[q] = corrected[q]
  BY DEF AddStream, Write, CommandsInv, Tables
<1>3. Place(disk, command[p], Tail(todo[p]), depth[p], work'[p], copy'[p], corrected'[p])
  BY <1>1, <1>2, AddMoves DEF Running
<1> QED BY <1>1, <1>2, <1>3, InsideStep

LEMMA ReplaceContextsStep ==
  ASSUME CommandsInv, NEW p \in Processes, ReplaceContexts(p)
  PROVE  CommandsInv'
<1>1. Inside(p, "contexts") /\ Head(todo[p]) = "contexts" /\ Running(p) /\ IsCommand(command[p])
  BY AtStep DEF ReplaceContexts, Inside
<1>2. /\ work'[p] = Replaced(work[p], command[p])
      /\ copy'[p] = copy[p] /\ corrected'[p] = corrected[p]
      /\ DOMAIN work' = Processes /\ DOMAIN copy' = Processes /\ DOMAIN corrected' = Processes
      /\ \A q \in Processes \ {p} : work'[q] = work[q] /\ copy'[q] = copy[q] /\ corrected'[q] = corrected[q]
  BY DEF ReplaceContexts, Write, CommandsInv, Tables
<1>3. Place(disk, command[p], Tail(todo[p]), depth[p], work'[p], copy'[p], corrected'[p])
  BY <1>1, <1>2, ContextsMoves DEF Running
<1> QED BY <1>1, <1>2, <1>3, InsideStep

LEMMA LoadStep ==
  ASSUME CommandsInv, NEW p \in Processes, Load(p)
  PROVE  CommandsInv'
<1>1. Inside(p, "load") /\ Head(todo[p]) = "load" /\ Running(p) /\ IsCommand(command[p])
  BY AtStep DEF Load, Inside
<1>2. /\ work'[p] = work[p] /\ copy'[p] = work[p] /\ corrected'[p] = corrected[p]
      /\ DOMAIN work' = Processes /\ DOMAIN copy' = Processes /\ DOMAIN corrected' = Processes
      /\ \A q \in Processes \ {p} : work'[q] = work[q] /\ copy'[q] = copy[q] /\ corrected'[q] = corrected[q]
  BY DEF Load, Write, CommandsInv, Tables
<1>3. Place(disk, command[p], Tail(todo[p]), depth[p], work'[p], copy'[p], corrected'[p])
  BY <1>1, <1>2, LoadMoves DEF Running
<1> QED BY <1>1, <1>2, <1>3, InsideStep

LEMMA StoreEvidenceStep ==
  ASSUME CommandsInv, NEW p \in Processes, StoreEvidence(p)
  PROVE  CommandsInv'
<1>1. Inside(p, "evidence") /\ Head(todo[p]) = "evidence" /\ Running(p) /\ IsCommand(command[p])
  BY AtStep DEF StoreEvidence, Inside
<1>2. /\ work'[p] = WithCopy(work[p], command[p]) /\ copy'[p] = WithCopy(copy[p], command[p])
      /\ corrected'[p] = corrected[p]
      /\ DOMAIN work' = Processes /\ DOMAIN copy' = Processes /\ DOMAIN corrected' = Processes
      /\ \A q \in Processes \ {p} : work'[q] = work[q] /\ copy'[q] = copy[q] /\ corrected'[q] = corrected[q]
  BY DEF StoreEvidence, Write, CommandsInv, Tables
<1>3. Place(disk, command[p], Tail(todo[p]), depth[p], work'[p], copy'[p], corrected'[p])
  BY <1>1, <1>2, EvidenceMoves DEF Running
<1> QED BY <1>1, <1>2, <1>3, InsideStep

LEMMA SaveStep ==
  ASSUME CommandsInv, NEW p \in Processes, Save(p)
  PROVE  CommandsInv'
<1>1. Inside(p, "save") /\ Head(todo[p]) = "save" /\ Running(p) /\ IsCommand(command[p])
  BY AtStep DEF Save, Inside
<1>2. /\ work'[p] = Saved(work[p], copy[p], command[p]) /\ copy'[p] = copy[p]
      /\ corrected'[p] = Changed(copy[p], command[p])
      /\ DOMAIN work' = Processes /\ DOMAIN copy' = Processes /\ DOMAIN corrected' = Processes
      /\ \A q \in Processes \ {p} : work'[q] = work[q] /\ copy'[q] = copy[q] /\ corrected'[q] = corrected[q]
  BY DEF Save, Write, CommandsInv, Tables
<1>3. Place(disk, command[p], Tail(todo[p]), depth[p], work'[p], copy'[p], corrected'[p])
  BY <1>1, <1>2, SaveMoves DEF Running
<1> QED BY <1>1, <1>2, <1>3, InsideStep

\* What is judged again has a stream.
LEMMA OutcomeIs ==
  ASSUME NEW d, IsStore(d), NEW c
  PROVE  /\ IsStore(Heard(d, c)) /\ Heard(d, c).entries = d.entries /\ Heard(d, c).made = d.made
         /\ IsStore(Outcome(d, c)) /\ Outcome(d, c).made = d.made
         /\ Outcome(d, c).entries = Rejudged(Heard(d, c), Own(c)) /\ Outcome(d, c).context = Heard(d, c).context
         /\ DOMAIN Outcome(d, c).entries \subseteq DOMAIN Outcome(d, c).context
<1>1. IsStore(Ground(d, c)) /\ Ground(d, c).entries = d.entries /\ Ground(d, c).made = d.made
  BY Written DEF Ground
<1>2. IsStore(Heard(d, c)) /\ Heard(d, c).entries = d.entries /\ Heard(d, c).made = d.made
  BY <1>1, Written DEF Heard
<1>3. /\ IsStore(Outcome(d, c)) /\ Outcome(d, c).made = d.made
      /\ Outcome(d, c).entries = Rejudged(Heard(d, c), Own(c)) /\ Outcome(d, c).context = Heard(d, c).context
  BY <1>2, Written DEF Outcome
<1>4. DOMAIN Rejudged(Heard(d, c), Own(c)) \subseteq DOMAIN Heard(d, c).context
  BY DEF Rejudged
<1> QED BY <1>2, <1>3, <1>4

LEMMA EffectsAre ==
  ASSUME NEW d, IsStore(d), DOMAIN d.entries \subseteq DOMAIN d.context, NEW c, IsCommand(c), NEW w \in Effects(d, c)
  PROVE  IsStore(w) /\ w.made = d.made /\ DOMAIN w.entries \subseteq DOMAIN w.context
<1>1. CASE w = Added(d, c)
  BY <1>1, Written
<1>2. CASE w = Outcome(d, c)
  BY <1>2, OutcomeIs
<1>3. w = Added(d, c) \/ w = Outcome(d, c)
  <2>1. CASE c.name = "seed"
    BY <2>1 DEF Effects
  <2>2. CASE c.name # "seed"
    <3>1. Outcome(d, c) \in Effects(d, c)
      BY <2>2, OutcomeIsEffect
    <3>2. CASE c.name = "search"
      BY <3>1, <3>2 DEF Effects
    <3>3. CASE c.name = "pass"
      <4>1. Outcome(d, c) = Searched(d, c)
        BY <3>3 DEF Outcome, Heard, Ground, Owns, Writes, Saved, Own, Searched
      <4> QED BY <4>1, <3>3 DEF Effects
    <3>4. CASE c.name = "promote"
      BY <3>1, <3>4 DEF Effects
    <3>5. CASE c.name = "context"
      BY <3>1, <3>5 DEF Effects
    <3> QED BY <2>2, <3>2, <3>3, <3>4, <3>5 DEF IsCommand
  <2> QED BY <2>1, <2>2
<1> QED BY <1>1, <1>2, <1>3

\* What a commit makes of the store, and of its process.
LEMMA CommitStep ==
  ASSUME CommandsInv, NEW p \in Processes, Commit(p)
  PROVE  CommandsInv' /\ (disk' # disk => CommitIsWhole)
<1>1. /\ exit[p] = Nil /\ Head(todo[p]) = "commit" /\ Running(p) /\ IsCommand(command[p])
      /\ todo'[p] = Tail(todo[p])
  BY AtStep DEF Commit
<1>2. Tables' /\ \A q \in Processes \ {p} : Same(q)
  BY DEF Commit, Done, outside, CommandsInv, Tables, Same
<1>3. /\ command'[p] = command[p] /\ copy'[p] = copy[p] /\ corrected'[p] = corrected[p] /\ work'[p] = work[p]
      /\ exit'[p] = Nil /\ depth'[p] = depth[p] - 1
  BY <1>1 DEF Commit, outside, CommandsInv, Tables
<1>4. IsStore(disk) /\ (disk.made \/ disk = Empty) /\ DOMAIN disk.entries \subseteq DOMAIN disk.context
  BY DEF CommandsInv, StoreWhole
<1>5. /\ depth[p] \in Nat \ {0}
      /\ depth[p] > 1 => Place(disk, command[p], Tail(todo[p]), depth[p] - 1, work[p], copy[p], corrected[p])
      /\ depth[p] = 1 => /\ Place(work[p], command[p], Tail(todo[p]), 0, work[p], copy[p], corrected[p])
                         /\ \/ work[p] = Created(disk)
                            \/ disk.made /\ work[p] \in Effects(disk, command[p])
  BY <1>1, <1>4, CommitMoves DEF Running
<1>6. lock = p
  BY <1>5 DEF CommandsInv, Placed
<1>7. CASE depth[p] > 1
  <2>1. disk' = disk /\ lock' = lock
    BY <1>7 DEF Commit
  <2>2. Running(p)'
    BY <1>1, <1>3, <1>5, <1>7, <2>1 DEF Running
  <2>3. depth'[p] # 0
    BY <1>3, <1>5, <1>7
  <2>4. StoreWhole'
    BY <2>1, <1>4 DEF StoreWhole
  <2> QED BY <1>2, <1>3, <1>6, <2>1, <2>2, <2>3, <2>4, StepPlaces
<1>8. CASE depth[p] = 1
  <2>1. disk' = work[p] /\ lock' = Nil /\ depth'[p] = 0
    BY <1>3, <1>8 DEF Commit
  <2>2. Running(p)'
    BY <1>1, <1>3, <1>5, <1>8, <2>1 DEF Running
  <2>3. IsStore(disk') /\ disk'.made /\ DOMAIN disk'.entries \subseteq DOMAIN disk'.context
    <3>1. CASE work[p] = Created(disk)
      BY <1>4, <2>1, <3>1, Written
    <3>2. CASE disk.made /\ work[p] \in Effects(disk, command[p])
      BY <1>1, <1>4, <2>1, <3>2, EffectsAre
    <3> QED BY <1>5, <1>8, <3>1, <3>2
  <2>4. StoreWhole'
    BY <2>3 DEF StoreWhole
  <2>5. CommandsInv'
    BY <1>2, <1>3, <1>6, <2>1, <2>2, <2>3, <2>4, CommandsAssumption, StepPlaces
  <2>6. ASSUME disk' # disk PROVE CommitIsWhole
    <3>1. CASE work[p] = Created(disk)
      <4>1. ~disk.made
        BY <1>4, <2>1, <2>6, <3>1, Written
      <4> QED BY <1>4, <2>1, <3>1, <4>1 DEF CommitIsWhole
    <3>2. CASE disk.made /\ work[p] \in Effects(disk, command[p])
      BY <1>1, <2>1, <3>2 DEF CommitIsWhole
    <3> QED BY <1>5, <1>8, <3>1, <3>2
  <2> QED BY <2>5, <2>6
<1> QED BY <1>5, <1>7, <1>8

LEMMA StoredStep ==
  ASSUME CommandsInv, NEW p \in Processes, Stored(p)
  PROVE  CommandsInv'
<1>1. /\ exit[p] = Nil /\ Head(todo[p]) = "stored" /\ Running(p) /\ IsCommand(command[p])
      /\ todo'[p] = Tail(todo[p])
  BY AtStep DEF Stored
<1>2. Tables' /\ StoreWhole' /\ \A q \in Processes \ {p} : Same(q)
  BY DEF Stored, Done, outside, CommandsInv, Tables, StoreWhole, Same
<1>3. /\ disk' = disk /\ lock' = lock /\ command'[p] = command[p] /\ depth'[p] = depth[p] /\ work'[p] = work[p]
      /\ copy'[p] = copy[p] /\ corrected'[p] = corrected[p] /\ exit'[p] = exit[p]
  BY DEF Stored, outside
<1>4. Place(disk, command[p], Tail(todo[p]), depth[p], work[p], copy[p], corrected[p])
  BY <1>1, StoredMoves DEF Running
<1>5. Running(p)'
  BY <1>1, <1>3, <1>4 DEF Running
<1>6. depth'[p] = 0 <=> lock' # p
  BY <1>3 DEF CommandsInv, Placed
<1> QED BY <1>1, <1>2, <1>3, <1>5, <1>6, StepPlaces

LEMMA FilesStep ==
  ASSUME CommandsInv, NEW p \in Processes, ListCaptures(p) \/ ReadMatches(p) \/ ReplaceFile(p)
  PROVE  CommandsInv'
<1>1. UNCHANGED <<disk, lock, todo, command, depth, work, copy, corrected, exit, asked>>
  BY DEF ListCaptures, ReadMatches, ReplaceFile, Files
<1>2. Tables'
  BY <1>1 DEF ListCaptures, ReadMatches, ReplaceFile, CommandsInv, Tables
<1> QED BY <1>1, <1>2 DEF CommandsInv, StoreWhole, Placed, Running

LEMMA AllWrittenStep ==
  ASSUME CommandsInv, NEW p \in Processes, AllWritten(p)
  PROVE  CommandsInv'
<1>1. /\ exit[p] = Nil /\ Head(todo[p]) = "files" /\ Running(p) /\ IsCommand(command[p])
      /\ todo'[p] = Tail(todo[p])
  BY AtStep DEF AllWritten, Files
<1>2. Tables' /\ StoreWhole' /\ \A q \in Processes \ {p} : Same(q)
  BY DEF AllWritten, Files, Done, CommandsInv, Tables, StoreWhole, Same
<1>3. /\ disk' = disk /\ lock' = lock /\ command'[p] = command[p] /\ depth'[p] = depth[p] /\ work'[p] = work[p]
      /\ copy'[p] = copy[p] /\ corrected'[p] = corrected[p] /\ exit'[p] = exit[p]
  BY DEF AllWritten, Files
<1>4. Place(disk, command[p], Tail(todo[p]), depth[p], work[p], copy[p], corrected[p])
  BY <1>1, FilesMoves DEF Running
<1>5. Running(p)'
  BY <1>1, <1>3, <1>4 DEF Running
<1>6. depth'[p] = 0 <=> lock' # p
  BY <1>3 DEF CommandsInv, Placed
<1> QED BY <1>1, <1>2, <1>3, <1>5, <1>6, StepPlaces

LEMMA TellStep ==
  ASSUME CommandsInv, NEW p \in Processes, Tell(p)
  PROVE  CommandsInv'
<1>1. exit[p] = Nil /\ Head(todo[p]) = "print" /\ Running(p)
  BY AtStep DEF Tell
<1>2. Tables' /\ StoreWhole' /\ \A q \in Processes \ {p} : Same(q)
  BY DEF Tell, Forget, Done, CommandsInv, Tables, StoreWhole, Same
<1>3. disk' = disk /\ lock' = lock /\ depth'[p] = depth[p] /\ exit'[p] = 0
  BY DEF Tell, CommandsInv, Tables
<1>4. depth[p] = 0
  BY <1>1, PrintMoves DEF Running
<1>5. depth'[p] = 0 <=> lock' # p
  BY <1>3 DEF CommandsInv, Placed
<1> QED BY <1>2, <1>3, <1>4, <1>5, CommandsAssumption, StepPlaces

LEMMA CommandsNextKeeps ==
  CommandsInv /\ [CommandsNext]_commandVars => CommandsInv' /\ CommitIsWhole
<1> SUFFICES ASSUME CommandsInv, [CommandsNext]_commandVars PROVE CommandsInv' /\ CommitIsWhole
  OBVIOUS
<1>1. CASE UNCHANGED commandVars
  <2>1. /\ disk' = disk /\ lock' = lock /\ todo' = todo /\ command' = command /\ depth' = depth /\ work' = work
        /\ copy' = copy /\ corrected' = corrected /\ exit' = exit /\ asked' = asked /\ left' = left /\ held' = held
    BY <1>1 DEF commandVars
  <2> QED BY <2>1 DEF CommandsInv, Tables, StoreWhole, Placed, Running, CommitIsWhole
<1>2. ASSUME NEW p \in Processes, NEW c \in Commands, Start(p, c) PROVE CommandsInv' /\ CommitIsWhole
  BY <1>2, StartStep DEF Start, CommitIsWhole
<1>3. ASSUME NEW p \in Processes, Open(p) PROVE CommandsInv' /\ CommitIsWhole
  BY <1>3, OpenStep DEF Open, CommitIsWhole
<1>4. ASSUME NEW p \in Processes, Begin(p) PROVE CommandsInv' /\ CommitIsWhole
  BY <1>4, BeginStep DEF Begin, CommitIsWhole
<1>5. ASSUME NEW p \in Processes, Create(p) \/ AddStream(p) \/ Load(p) \/ StoreEvidence(p) \/ Save(p) \/ ReplaceContexts(p)
      PROVE  CommandsInv' /\ CommitIsWhole
  <2>1. disk' = disk
    BY <1>5 DEF Create, AddStream, Load, StoreEvidence, Save, ReplaceContexts, Inside
  <2>2. CommandsInv'
    BY <1>5, CreateStep, AddStreamStep, LoadStep, StoreEvidenceStep, SaveStep, ReplaceContextsStep
  <2> QED BY <2>1, <2>2 DEF CommitIsWhole
<1>6. ASSUME NEW p \in Processes, Commit(p) PROVE CommandsInv' /\ CommitIsWhole
  BY <1>6, CommitStep DEF CommitIsWhole
<1>7. ASSUME NEW p \in Processes, Stored(p) PROVE CommandsInv' /\ CommitIsWhole
  BY <1>7, StoredStep DEF Stored, CommitIsWhole
<1>8. ASSUME NEW p \in Processes, ListCaptures(p) \/ ReadMatches(p) \/ ReplaceFile(p) \/ AllWritten(p)
      PROVE  CommandsInv' /\ CommitIsWhole
  BY <1>8, FilesStep, AllWrittenStep DEF ListCaptures, ReadMatches, ReplaceFile, AllWritten, Files, CommitIsWhole
<1>9. ASSUME NEW p \in Processes, Tell(p) PROVE CommandsInv' /\ CommitIsWhole
  BY <1>9, TellStep DEF Tell, CommitIsWhole
<1>10. ASSUME NEW p \in Processes, InputInvalid(p) \/ StoreUnavailable(p) \/ Die(p)
       PROVE  CommandsInv' /\ CommitIsWhole
  <2>1. exit[p] = Nil /\ \E code \in {2, 3, 6} : Ends(p, code)
    BY <1>10 DEF InputInvalid, StoreUnavailable, Die, Unstored, At
  <2> QED BY <2>1, EndsStep DEF Ends, CommitIsWhole
<1>11. CASE CommandsNext
  BY <1>2, <1>3, <1>4, <1>5, <1>6, <1>7, <1>8, <1>9, <1>10, <1>11 DEF CommandsNext
<1> QED BY <1>1, <1>11

\* Every process is where its command can be, with what its transaction should hold there.
THEOREM CommandsPlaced == CommandsSpec => []CommandsInv
<1>1. CommandsInv /\ [CommandsNext]_commandVars => CommandsInv'
  BY CommandsNextKeeps
<1> QED BY <1>1, CommandsInvInit, PTL DEF CommandsSpec

\* Commands of any number of processes are whole to one another: what is committed goes from the
\* effect of one to the effect of the next, however they interleave, wait, fail and die.
THEOREM CommandsWhole == CommandsSpec => CommitsWhole
<1>1. CommandsInv /\ [CommandsNext]_commandVars => [CommitIsWhole]_commandVars
  BY CommandsNextKeeps
<1> QED BY <1>1, CommandsPlaced, PTL DEF CommandsSpec, CommitsWhole

(* Stale marks files. *)

\* A marks file that exists was written by a search that was given its capture's evidence.
MarksFrom == \A r \in Captures : marks[r] # Nil => \E c \in Commands : Writes(c) /\ r \in DOMAIN c.evidence

\* One process at a time searches and writes marks files.
OneSearch ==
  \A p, q \in Processes : exit[p] = Nil /\ exit[q] = Nil /\ Writes(command[p]) /\ Writes(command[q]) => p = q

\* Only a process at its marks files combines any, of captures whose evidence it was given.
Combining ==
  \A p \in Processes :
    /\ ~At(p, "files") => left[p] = Nil /\ held[p] = <<>>
    /\ left[p] # Nil => left[p] \subseteq Given(command[p])
    /\ DOMAIN held[p] \subseteq Given(command[p])

Searches == MarksFrom /\ OneSearch /\ Combining

\* The entries have changed since a capture's marks file was written or its matches were read for one.
Stale(r) ==
  /\ r \in DOMAIN disk.entries
  /\ \/ marks[r] # Nil /\ marks[r] # disk.entries
     \/ \E p \in Processes : r \in DOMAIN held[p] /\ held[p][r] # disk.entries

\* A process at its marks files will write that of r from the entries that are stored.
Due(p, r) ==
  /\ r \in Given(command[p])
  /\ left[p] = Nil \/ r \in left[p] \/ (r \in DOMAIN held[p] /\ held[p][r] = disk.entries)

\* A request that no result takes back, unless the marks file is written before it.
Stands(r) ==
  /\ r \in needs
  /\ \A p \in Processes :
       r \in Given(command[p]) /\ r \in asked[p] => ~At(p, "print") /\ (At(p, "files") => Due(p, r))

\* A command past its last commit that will write the marks file or ask for it.
Promises(p, r) ==
  \/ At(p, "files") /\ (r \in Unwritten(p) \/ Due(p, r))
  \/ At(p, "print") /\ r \in Unwritten(p)

Told == \A r \in Captures : Stale(r) => r \in lost \/ Stands(r) \/ \E p \in Processes : Promises(p, r)

\* What a process has due does not change while it and the entries stay.
LEMMA StaysDue ==
  ASSUME NEW q \in Processes, Same(q), left'[q] = left[q], held'[q] = held[q], disk'.entries = disk.entries, NEW r
  PROVE  /\ At(q, "files")' = At(q, "files") /\ At(q, "print")' = At(q, "print")
         /\ Given(command'[q]) = Given(command[q])
         /\ Due(q, r)' <=> Due(q, r)
         /\ Promises(q, r)' <=> Promises(q, r)
<1>1. /\ At(q, "files")' = At(q, "files") /\ At(q, "print")' = At(q, "print")
      /\ Given(command'[q]) = Given(command[q])
  BY DEF Same, At
<1>2. Due(q, r)' <=> Due(q, r)
  BY <1>1 DEF Due
<1>3. Unwritten(q)' = Unwritten(q)
  BY DEF Same, Unwritten
<1> QED BY <1>1, <1>2, <1>3 DEF Promises

\* Searches stay one at a time, and combine only what they were given.
LEMMA SearchesStay ==
  CommandsInv /\ CommandsInv' /\ Searches /\ [CommandsNext]_commandVars => Searches'
<1> SUFFICES ASSUME CommandsInv, CommandsInv', Searches, [CommandsNext]_commandVars PROVE Searches'
  OBVIOUS
<1>1. CASE UNCHANGED commandVars
  <2>1. UNCHANGED <<marks, exit, command, todo, left, held>>
    BY <1>1 DEF commandVars
  <2> QED BY <2>1 DEF Searches, MarksFrom, OneSearch, Combining, At
\* A step of p leaves to the others what they search and combine, and keeps or ends or starts its own.
<1>2. ASSUME NEW p \in Processes,
             \A q \in Processes \ {p} : Same(q) /\ left'[q] = left[q] /\ held'[q] = held[q],
             \/ exit'[p] # Nil
             \/ exit[p] = Nil /\ command'[p] = command[p]
             \/ Writes(command'[p]) => \A q \in Processes : exit[q] = Nil => ~Writes(command[q]),
             \/ left'[p] = Nil /\ held'[p] = <<>>
             \/ /\ At(p, "files")' /\ (left'[p] # Nil => left'[p] \subseteq Given(command'[p]))
                /\ DOMAIN held'[p] \subseteq Given(command'[p])
      PROVE  OneSearch' /\ Combining'
  <2>1. OneSearch'
    BY <1>2 DEF Searches, OneSearch, Same
  <2>2. ASSUME NEW q \in Processes
        PROVE  /\ ~At(q, "files")' => left'[q] = Nil /\ held'[q] = <<>>
               /\ left'[q] # Nil => left'[q] \subseteq Given(command'[q])
               /\ DOMAIN held'[q] \subseteq Given(command'[q])
    <3>1. CASE q = p
      <4>1. CASE left'[p] = Nil /\ held'[p] = <<>>
        <5>1. DOMAIN held'[p] = {}
          BY <4>1
        <5> QED BY <3>1, <4>1, <5>1
      <4>2. CASE /\ At(p, "files")' /\ (left'[p] # Nil => left'[p] \subseteq Given(command'[p]))
                 /\ DOMAIN held'[p] \subseteq Given(command'[p])
        BY <3>1, <4>2
      <4> QED BY <1>2, <4>1, <4>2
    <3>2. CASE q # p
      BY <1>2, <3>2 DEF Searches, Combining, Same, At
    <3> QED BY <3>1, <3>2
  <2> QED BY <2>1, <2>2 DEF Combining
<1>3. ASSUME NEW p \in Processes, UNCHANGED <<marks, left, held>>, ~At(p, "files"),
             \A q \in Processes \ {p} : Same(q),
             \/ exit[p] = Nil /\ command'[p] = command[p]
             \/ Writes(command'[p]) => \A q \in Processes : exit[q] = Nil => ~Writes(command[q])
      PROVE  Searches'
  <2>1. left'[p] = Nil /\ held'[p] = <<>>
    BY <1>3 DEF Searches, Combining
  <2>2. OneSearch' /\ Combining'
    BY <1>2, <1>3, <2>1
  <2> QED BY <1>3, <2>2 DEF Searches, MarksFrom
<1>4. ASSUME NEW p \in Processes, NEW c \in Commands, Start(p, c) PROVE Searches'
  <2>1. /\ UNCHANGED <<marks, left, held>> /\ ~At(p, "files") /\ command'[p] = c
        /\ Writes(c) => \A q \in Processes : exit[q] = Nil => ~Writes(command[q])
    BY <1>4 DEF Start, At, CommandsInv, Tables
  <2>2. \A q \in Processes \ {p} : Same(q)
    BY <1>4 DEF Start, CommandsInv, Tables, Same
  <2> QED BY <1>3, <2>1, <2>2
<1>5. ASSUME NEW p \in Processes, Open(p) \/ Begin(p) \/ Commit(p) \/ Stored(p) PROVE Searches'
  <2>1. PICK step \in {"open", "begin", "commit", "stored"} : At(p, step)
    BY <1>5 DEF Open, Begin, Commit, Stored
  <2>2. UNCHANGED <<marks, left, held, command>> /\ exit[p] = Nil /\ ~At(p, "files")
    BY <1>5, <2>1 DEF Open, Begin, Commit, Stored, outside, At
  <2>3. \A q \in Processes \ {p} : Same(q)
    BY <1>5 DEF Open, Begin, Commit, Stored, Done, outside, CommandsInv, Tables, Same
  <2> QED BY <1>3, <2>2, <2>3
<1>6. ASSUME NEW p \in Processes,
             Create(p) \/ AddStream(p) \/ Load(p) \/ StoreEvidence(p) \/ Save(p) \/ ReplaceContexts(p)
      PROVE  Searches'
  <2>1. PICK step \in {"create", "add", "load", "evidence", "save", "contexts"} : Inside(p, step)
    BY <1>6 DEF Create, AddStream, Load, StoreEvidence, Save, ReplaceContexts
  <2>2. UNCHANGED <<marks, left, held, command>> /\ exit[p] = Nil /\ ~At(p, "files")
    BY <2>1 DEF Inside, outside, At
  <2>3. \A q \in Processes \ {p} : Same(q)
    BY <1>6, <2>1 DEF Create, AddStream, Load, StoreEvidence, Save, ReplaceContexts, Write, Inside, Done, CommandsInv, Tables, Same
  <2> QED BY <1>3, <2>2, <2>3
<1>7. ASSUME NEW p \in Processes, ListCaptures(p) \/ ReadMatches(p) \/ ReplaceFile(p) \/ AllWritten(p) PROVE Searches'
  <2>1. Files(p) /\ At(p, "files") /\ exit[p] = Nil /\ UNCHANGED <<command, exit, corrected>>
    BY <1>7 DEF ListCaptures, ReadMatches, ReplaceFile, AllWritten, Files, At
  <2>2. Writes(command[p]) /\ command[p] \in Commands
    BY <2>1, AtStep, FilesMoves DEF Running
  <2>3. DOMAIN held[p] \subseteq Given(command[p]) /\ (left[p] # Nil => left[p] \subseteq Given(command[p]))
    BY DEF Searches, Combining
  <2>4. MarksFrom'
    <3>1. ASSUME NEW r \in Captures, marks'[r] # Nil PROVE marks[r] # Nil \/ r \in Given(command[p])
      BY <1>7, <2>3, <3>1 DEF ListCaptures, ReadMatches, ReplaceFile, AllWritten
    <3> QED BY <2>2, <3>1 DEF Searches, MarksFrom, Given
  <2>5. \A q \in Processes \ {p} : Same(q) /\ left'[q] = left[q] /\ held'[q] = held[q]
    BY <1>7 DEF ListCaptures, ReadMatches, ReplaceFile, AllWritten, Files, Done, CommandsInv, Tables, Same
  <2>6. CASE ListCaptures(p)
    <3>1. left'[p] = Combined(p) /\ held' = held /\ todo' = todo
      BY <2>6 DEF ListCaptures, CommandsInv, Tables
    <3>2. At(p, "files")'
      BY <2>1, <3>1 DEF At
    <3>3. Combined(p) \subseteq Given(command[p])
      BY <2>2 DEF Combined, Given
    <3> QED BY <1>2, <2>1, <2>3, <2>4, <2>5, <3>1, <3>2, <3>3 DEF Searches
  <2>7. CASE ReadMatches(p)
    <3>1. PICK c \in left[p] : held'[p] = [one \in {c} |-> disk.entries] /\ left'[p] = left[p] \ {c}
      BY <2>7 DEF ReadMatches, CommandsInv, Tables
    <3>2. At(p, "files")' /\ left[p] # Nil
      BY <2>1, <2>7 DEF At, ReadMatches
    <3>3. DOMAIN held'[p] \subseteq Given(command[p]) /\ left'[p] \subseteq Given(command[p])
      BY <2>3, <3>1, <3>2
    <3> QED BY <1>2, <2>1, <2>4, <2>5, <3>2, <3>3 DEF Searches
  <2>8. CASE ReplaceFile(p)
    <3>1. held'[p] = <<>> /\ left' = left /\ todo' = todo
      BY <2>8 DEF ReplaceFile, CommandsInv, Tables
    <3>2. At(p, "files")' /\ DOMAIN held'[p] = {}
      BY <2>1, <3>1 DEF At
    <3> QED BY <1>2, <2>1, <2>3, <2>4, <2>5, <3>1, <3>2 DEF Searches
  <2>9. CASE AllWritten(p)
    <3>1. left'[p] = Nil /\ held'[p] = <<>>
      BY <2>9 DEF AllWritten, CommandsInv, Tables
    <3> QED BY <1>2, <2>1, <2>4, <2>5, <3>1 DEF Searches
  <2> QED BY <1>7, <2>6, <2>7, <2>8, <2>9
<1>8. ASSUME NEW p \in Processes, Tell(p) \/ \E code \in {2, 3, 6} : Ends(p, code) PROVE Searches'
  <2>1. marks' = marks /\ exit'[p] # Nil /\ left'[p] = Nil /\ held'[p] = <<>>
    BY <1>8, CommandsAssumption DEF Tell, Ends, Forget, CommandsInv, Tables
  <2>2. \A q \in Processes \ {p} : Same(q) /\ left'[q] = left[q] /\ held'[q] = held[q]
    BY <1>8 DEF Tell, Ends, Forget, Done, CommandsInv, Tables, Same
  <2>3. OneSearch' /\ Combining'
    BY <1>2, <2>1, <2>2
  <2> QED BY <2>1, <2>3 DEF Searches, MarksFrom
<1>9. ASSUME NEW p \in Processes, InputInvalid(p) \/ StoreUnavailable(p) \/ Die(p) PROVE Searches'
  <2>1. \E code \in {2, 3, 6} : Ends(p, code)
    BY <1>9 DEF InputInvalid, StoreUnavailable, Die
  <2> QED BY <1>8, <2>1
<1>10. CASE CommandsNext
  BY <1>4, <1>5, <1>6, <1>7, <1>8, <1>9, <1>10 DEF CommandsNext
<1> QED BY <1>1, <1>10

\* A step that changes no entries and comes before the last commit's outcome is due.
LEMMA QuietStep ==
  ASSUME Told, Searches, NEW p \in Processes, UNCHANGED <<marks, needs, lost, left, held>>,
         disk'.entries = disk.entries, \A q \in Processes \ {p} : Same(q) /\ asked'[q] = asked[q],
         ~At(p, "files"), ~At(p, "print"), At(p, "print")' => Given(command'[p]) = {}
  PROVE  Told'
<1> SUFFICES ASSUME NEW r \in Captures, Stale(r)'
             PROVE  r \in lost' \/ Stands(r)' \/ \E q \in Processes : Promises(q, r)'
  BY DEF Told
<1>1. Stale(r)
  BY DEF Stale
<1>2. left'[p] = Nil
  BY DEF Searches, Combining
<1>3. ASSUME NEW q \in Processes \ {p}
      PROVE  /\ At(q, "files")' = At(q, "files") /\ At(q, "print")' = At(q, "print")
             /\ Given(command'[q]) = Given(command[q])
             /\ Due(q, r)' <=> Due(q, r)
             /\ Promises(q, r)' <=> Promises(q, r)
  BY StaysDue
<1>4. Stands(r) => Stands(r)'
  <2> SUFFICES ASSUME Stands(r), NEW q \in Processes, r \in Given(command'[q]), r \in asked'[q]
               PROVE  ~At(q, "print")' /\ (At(q, "files")' => Due(q, r)')
    BY DEF Stands
  <2>1. CASE q = p
    BY <1>2, <2>1 DEF Due
  <2>2. CASE q # p
    BY <1>3, <2>2 DEF Stands
  <2> QED BY <2>1, <2>2
<1>5. ASSUME NEW q \in Processes, Promises(q, r) PROVE Promises(q, r)'
  <2>1. q # p
    BY <1>5 DEF Promises
  <2> QED BY <1>3, <1>5, <2>1
<1> QED BY <1>1, <1>4, <1>5 DEF Told

\* A process in a transaction or at the beginning of a command has no outcome due.
LEMMA NotYet ==
  ASSUME NEW d, NEW c, NEW t, NEW n, NEW w, NEW k, NEW x, Place(d, c, t, n, w, k, x),
         n # 0 \/ t = Then("open", Opened(c)) \/ t = Opened(c) \/ t = Search(c)
                \/ t = Then("begin", Then("create", Then("commit", Opened(c))))
  PROVE  Head(t) # "files" /\ Head(t) # "print"
<1>1. CASE n # 0
  <2>1. ASSUME Head(t) = "files" PROVE FALSE
    <3>1. t = After(c) /\ n = 0
      BY <2>1, Heads, ZenonT(60) DEF Place, Making, Beginning, Searching, Ending, Ended, Base
    <3> QED BY <1>1, <3>1
  <2>2. ASSUME Head(t) = "print" PROVE FALSE
    BY <1>1, <2>2, PrintMoves
  <2> QED BY <2>1, <2>2
<1>2. CASE n = 0
  BY <1>2, Heads
<1> QED BY <1>1, <1>2

\* Before the last commit of a command that changes entries: its search's outcome will be due.
DueNext(d, c, t, w, x) ==
  /\ w = Outcome(d, c) /\ x = Changed(Heard(d, c), c) /\ c.name # "seed"
  /\ Writes(c) => Head(Tail(t)) = "files"
  /\ ~Writes(c) => Head(Tail(t)) = "print"

\* The last commit of a search leaves its outcome due; another one leaves nothing due.
LEMMA LastCommit ==
  ASSUME NEW d, IsStore(d), NEW c, IsCommand(c), NEW t, NEW n, NEW w, NEW k, NEW x, Place(d, c, t, n, w, k, x),
         Head(t) = "commit", n = 1
  PROVE  /\ Head(Tail(t)) = "print" => Given(c) = {}
         /\ w.entries # d.entries => DueNext(d, c, t, w, x)
<1>1. CASE Making(d, c, t, n, w) /\ x = {}
  <2>1. w = Created(d) /\ Tail(t) = Opened(c)
    BY <1>1, Heads, Rests, ZenonT(60) DEF Making
  <2>2. w.entries = d.entries
    BY <2>1, Written
  <2>3. Head(Tail(t)) # "print"
    BY <2>1, Heads
  <2> QED BY <2>2, <2>3
<1>2. CASE d.made /\ Beginning(d, c, t, n, w) /\ x = {}
  <2>1. w = Added(d, c) /\ Tail(t) = AfterAdding(c)
    BY <1>2, Heads, Rests, ZenonT(60) DEF Beginning
  <2>2. Head(Tail(t)) = "print" => ~Writes(c)
    BY <2>1, Heads DEF AfterAdding, Writes
  <2> QED BY <2>1, <2>2, Written DEF Given
<1>3. CASE d.made /\ c.name # "seed" /\ Searching(d, c, t, n, w, k) /\ x = {}
  <2>1. Base(c) + 2 # 1
    BY DEF Base
  <2> QED BY <1>3, <2>1, Heads DEF Searching
<1>4. CASE d.made /\ c.name # "seed" /\ Ending(d, c, t, n, w, x)
  <2>1. w = Outcome(d, c) /\ x = Changed(Heard(d, c), c) /\ (Base(c) = 1 <=> ~Writes(c)) /\ Base(c) \in {0, 1}
    BY <1>4 DEF Ending, Base
  <2>2. CASE Writes(c)
    <3>1. Tail(t) = After(c)
      BY <1>4, <2>1, <2>2, Rests DEF Ending
    <3> QED BY <1>4, <2>1, <2>2, <3>1, Heads DEF DueNext
  <2>3. CASE ~Writes(c)
    <3>1. Tail(t) = Result
      BY <1>4, <2>1, <2>3, Rests DEF Ending
    <3> QED BY <1>4, <2>1, <2>3, <3>1, Heads DEF Given, DueNext
  <2> QED BY <2>2, <2>3
<1>5. ~(d.made /\ Ended(c, t, n))
  BY DEF Ended
<1> QED BY <1>1, <1>2, <1>3, <1>4, <1>5 DEF Place

\* Once a search's outcome is due no commit is left.
LEMMA NoCommitLeft ==
  ASSUME NEW c, NEW t, t = Result \/ (Writes(c) /\ t = After(c)), NEW i \in DOMAIN t
  PROVE  t[i] # "commit"
<1>1. CASE t = Result
  <2>1. t = <<"print">>
    BY <1>1 DEF Result, Then
  <2> QED BY <2>1
<1>2. CASE Writes(c) /\ t = After(c)
  <2>1. Result \in Seq(Words) /\ Result = <<"print">>
    BY Tails DEF Result, Then
  <2>2. Len(<<"files">> \o Result) = 2 /\ (<<"files">> \o Result)[1] = "files" /\ (<<"files">> \o Result)[2] = "print"
    BY <2>1
  <2>3. t = <<"files">> \o Result /\ DOMAIN t = 1..2
    BY <1>2, <2>1, <2>2 DEF After, Then
  <2> QED BY <2>2, <2>3
<1> QED BY <1>1, <1>2

LEMMA NotDueWithin ==
  ASSUME CommandsInv', NEW p \in Processes, depth'[p] # 0
  PROVE  ~At(p, "print")'
<1>1. ASSUME At(p, "print")' PROVE FALSE
  <2>1. exit'[p] = Nil /\ Head(todo'[p]) = "print" /\ Running(p)'
    BY <1>1 DEF At, CommandsInv, Placed
  <2> QED BY <2>1, NotYet DEF Running
<1> QED BY <1>1

\* A step within a command at which no outcome is due.
LEMMA WithinTold ==
  ASSUME CommandsInv, CommandsInv', Told, Searches, NEW p \in Processes, NEW step, At(p, step),
         step # "files", step # "print", UNCHANGED <<marks, needs, lost, left, held, asked, exit, command>>,
         disk'.entries = disk.entries, \A q \in Processes \ {p} : Same(q),
         depth'[p] # 0 \/ Head(todo'[p]) # "print"
  PROVE  Told'
<1>1. ~At(p, "files") /\ ~At(p, "print")
  BY DEF At
<1>2. ~At(p, "print")'
  BY NotDueWithin DEF At
<1>3. \A q \in Processes \ {p} : Same(q) /\ asked'[q] = asked[q]
  OBVIOUS
<1> QED BY <1>1, <1>2, <1>3, QuietStep

LEMMA InsideTold ==
  ASSUME CommandsInv, CommandsInv', Told, Searches, NEW p \in Processes,
         Create(p) \/ AddStream(p) \/ Load(p) \/ StoreEvidence(p) \/ Save(p) \/ ReplaceContexts(p)
  PROVE  Told'
<1>1. PICK step \in {"create", "add", "load", "evidence", "save", "contexts"} : Inside(p, step)
  BY DEF Create, AddStream, Load, StoreEvidence, Save, ReplaceContexts
<1>2. At(p, step) /\ Done(p) /\ UNCHANGED <<disk, lock, command, depth, exit, marks, needs, asked, lost, left, held>>
  BY <1>1 DEF Inside, outside
<1>3. \A q \in Processes \ {p} : Same(q)
  BY <1>2 DEF Create, AddStream, Load, StoreEvidence, Save, ReplaceContexts, Write, Done, CommandsInv, Tables, Same
<1>4. depth'[p] # 0
  <2>1. Running(p) /\ Head(todo[p]) = step
    BY <1>2, AtStep
  <2>2. depth[p] > 0
    BY <2>1, CreateMoves, AddMoves, LoadMoves, EvidenceMoves, SaveMoves, ContextsMoves DEF Running
  <2> QED BY <1>2, <2>2
<1> QED BY <1>2, <1>3, <1>4, WithinTold

LEMMA StartTold ==
  ASSUME CommandsInv, CommandsInv', Told, Searches, NEW p \in Processes, NEW c \in Commands, Start(p, c)
  PROVE  Told'
<1>1. /\ UNCHANGED <<marks, needs, lost, disk, left, held>> /\ exit[p] # Nil /\ todo'[p] = Steps(c)
      /\ \A q \in Processes \ {p} : Same(q) /\ asked'[q] = asked[q]
  BY DEF Start, CommandsInv, Tables, Same
<1>2. Steps(c) = Then("open", Opened(c))
  BY CommandsAssumption, StepsThen DEF IsCommand
<1>3. ~At(p, "files") /\ ~At(p, "print") /\ ~At(p, "print")'
  BY <1>1, <1>2, Heads DEF At
<1> QED BY <1>1, <1>3, QuietStep

LEMMA OpenTold ==
  ASSUME CommandsInv, CommandsInv', Told, Searches, NEW p \in Processes, Open(p)
  PROVE  Told'
<1>1. At(p, "open") /\ UNCHANGED <<disk, command, exit, marks, needs, asked, lost, left, held>>
  BY DEF Open, outside
<1>2. \A q \in Processes \ {p} : Same(q)
  BY DEF Open, outside, CommandsInv, Tables, Same
<1>3. todo[p] = Then("open", Opened(command[p]))
  BY <1>1, AtStep, OpenMoves DEF Running
<1>4. Head(todo'[p]) # "print"
  <2>1. CASE disk.made
    <3>1. todo'[p] = Opened(command[p])
      BY <1>3, <2>1, Rests DEF Open, CommandsInv, Tables
    <3> QED BY <3>1, Heads
  <2>2. CASE ~disk.made
    <3>1. todo'[p] = Transaction(<<"create">>) \o Opened(command[p])
      BY <1>3, <2>2, Rests DEF Open, CommandsInv, Tables
    <3>2. <<"create">> \in Seq(Words) /\ Opened(command[p]) \in Seq(Words)
      BY Tails DEF Words
    <3>3. <<"create">> \o Then("commit", Opened(command[p])) \in Seq(Words) /\ "begin" \in Words
      BY <3>2, Tails DEF Words
    <3>4. todo'[p] = Then("begin", <<"create">> \o Then("commit", Opened(command[p])))
      BY <3>1, <3>2, TransactionThen
    <3>5. PICK rest \in Seq(Words) : todo'[p] = Then("begin", rest)
      BY <3>3, <3>4
    <3>6. Head(todo'[p]) = "begin"
      BY <3>3, <3>5, ThenIs
    <3> QED BY <3>6
  <2> QED BY <2>1, <2>2
<1> QED BY <1>1, <1>2, <1>4, WithinTold

LEMMA BeginTold ==
  ASSUME CommandsInv, CommandsInv', Told, Searches, NEW p \in Processes, Begin(p)
  PROVE  Told'
<1>1. At(p, "begin") /\ UNCHANGED <<disk, command, exit, marks, needs, asked, lost, left, held>>
  BY DEF Begin, outside
<1>2. \A q \in Processes \ {p} : Same(q)
  BY DEF Begin, Done, outside, CommandsInv, Tables, Same
<1>3. depth'[p] # 0
  <2>1. Running(p) /\ IsCommand(command[p]) /\ Head(todo[p]) = "begin"
    BY <1>1, AtStep
  <2>2. depth[p] \in Nat
    BY <2>1, BeginMoves DEF Running
  <2>3. depth'[p] = depth[p] + 1
    BY DEF Begin, CommandsInv, Tables
  <2> QED BY <2>2, <2>3
<1> QED BY <1>1, <1>2, <1>3, WithinTold

LEMMA StoredTold ==
  ASSUME CommandsInv, CommandsInv', Told, Searches, NEW p \in Processes, Stored(p)
  PROVE  Told'
<1>1. At(p, "stored") /\ UNCHANGED <<disk, command, exit, marks, needs, asked, lost, left, held>>
  BY DEF Stored, outside
<1>2. \A q \in Processes \ {p} : Same(q)
  BY DEF Stored, Done, outside, CommandsInv, Tables, Same
<1>3. todo'[p] = Search(command[p])
  <2>1. Running(p) /\ Head(todo[p]) = "stored" /\ todo'[p] = Tail(todo[p])
    BY <1>1, AtStep DEF Stored
  <2>2. todo[p] = Opened(command[p]) /\ command[p].name = "search"
    BY <2>1, Heads, ZenonT(60) DEF Running, Place, Making, Beginning, Searching, Ending, Ended
  <2> QED BY <2>1, <2>2, Rests
<1> QED BY <1>1, <1>2, <1>3, Heads, WithinTold

\* A commit that changes entries leaves the correction of all that it makes stale due.
LEMMA CommitTold ==
  ASSUME CommandsInv, CommandsInv', Told, Searches, NEW p \in Processes, Commit(p)
  PROVE  Told'
<1>1. At(p, "commit") /\ UNCHANGED <<command, work, corrected, exit, marks, needs, asked, lost, left, held>>
  BY DEF Commit, outside
<1>2. \A q \in Processes \ {p} : Same(q)
  BY DEF Commit, Done, outside, CommandsInv, Tables, Same
<1>3. /\ exit[p] = Nil /\ Head(todo[p]) = "commit" /\ Running(p) /\ IsCommand(command[p]) /\ IsStore(disk)
      /\ todo'[p] = Tail(todo[p]) /\ depth'[p] = depth[p] - 1
  BY <1>1, AtStep DEF Commit, CommandsInv, Tables
<1>4. depth[p] \in Nat \ {0}
  BY <1>3, CommitMoves DEF Running
<1>5. CASE depth[p] > 1
  <2>1. disk' = disk /\ depth'[p] # 0
    BY <1>3, <1>4, <1>5 DEF Commit
  <2> QED BY <1>1, <1>2, <2>1, WithinTold
<1>6. CASE depth[p] = 1
  <2>1. disk' = work[p]
    BY <1>6 DEF Commit
  <2>2. /\ Head(todo'[p]) = "print" => Given(command[p]) = {}
        /\ work[p].entries # disk.entries =>
             /\ work[p] = Outcome(disk, command[p]) /\ corrected[p] = Changed(Heard(disk, command[p]), command[p])
             /\ command[p].name # "seed"
             /\ Writes(command[p]) => Head(todo'[p]) = "files"
             /\ ~Writes(command[p]) => Head(todo'[p]) = "print"
    <3>1. Place(disk, command[p], todo[p], depth[p], work[p], copy[p], corrected[p])
      BY <1>3 DEF Running
    <3>2. /\ Head(Tail(todo[p])) = "print" => Given(command[p]) = {}
          /\ work[p].entries # disk.entries => DueNext(disk, command[p], todo[p], work[p], corrected[p])
      BY <1>3, <1>6, <3>1, LastCommit
    <3> QED BY <1>3, <3>2 DEF DueNext
  <2>3. CASE work[p].entries = disk.entries
    <3>1. ~At(p, "files") /\ ~At(p, "print") /\ (At(p, "print")' => Given(command'[p]) = {})
      BY <1>1, <1>3, <2>2 DEF At
    <3>2. \A q \in Processes \ {p} : Same(q) /\ asked'[q] = asked[q]
      BY <1>1, <1>2
    <3> QED BY <1>1, <2>1, <2>3, <3>1, <3>2, QuietStep
  <2>4. CASE work[p].entries # disk.entries
    <3> DEFINE c == command[p]
               judged == Rejudged(Heard(disk, c), Own(c))
    <3>1. disk'.entries = judged /\ judged # Heard(disk, c).entries
      BY <1>3, <2>1, <2>2, <2>4, OutcomeIs
    <3>2. corrected[p] = (DOMAIN judged) \ Own(c)
      BY <2>2, <2>4, <3>1 DEF Changed
    <3>3. left'[p] = Nil
      BY <1>1, <1>3 DEF Searches, Combining, At
    <3>4. ASSUME NEW r \in Captures, Stale(r)' PROVE Promises(p, r)'
      <4>1. r \in DOMAIN judged /\ \E o \in Commands : Writes(o) /\ r \in DOMAIN o.evidence
        <5>1. CASE marks[r] # Nil
          BY <1>1, <3>1, <3>4, <5>1 DEF Stale, Searches, MarksFrom
        <5>2. ASSUME NEW q \in Processes, r \in DOMAIN held[q] PROVE r \in Given(command[q]) /\ command[q] \in Commands
          <6>1. At(q, "files") /\ r \in Given(command[q])
            BY <5>2 DEF Searches, Combining
          <6> QED BY <6>1 DEF At, CommandsInv, Placed, Running
        <5> QED BY <1>1, <3>1, <3>4, <5>1, <5>2 DEF Stale, Given
      <4>2. exit'[p] = Nil /\ corrected'[p] = corrected[p] /\ command'[p] = c
        BY <1>1, <1>3
      <4>3. CASE Writes(c)
        <5>1. r \in corrected[p] \cup Given(c)
          <6>1. CASE r \in Own(c)
            <7>1. c.recording = r /\ c \in Commands /\ c.name \in {"search", "pass"}
              BY <1>3, <4>3, <6>1 DEF Own, Running, Writes
            <7>2. PICK o \in Commands : Writes(o) /\ r \in DOMAIN o.evidence
              BY <4>1
            <7>3. r \in DOMAIN c.evidence
              BY <7>1, <7>2, CopiesAssumption DEF Writes
            <7> QED BY <4>3, <7>3 DEF Given
          <6>2. CASE r \notin Own(c)
            BY <3>2, <4>1, <6>2
          <6> QED BY <6>1, <6>2
        <5>2. Head(todo'[p]) = "files"
          BY <2>2, <2>4, <4>3
        <5> QED BY <3>3, <4>2, <5>1, <5>2 DEF Promises, At, Unwritten, Due
      <4>4. CASE ~Writes(c)
        <5>1. Own(c) = {} /\ Given(c) = {}
          BY <1>3, <2>2, <2>4, <4>4 DEF Own, Given, Writes, IsCommand
        <5>2. r \in corrected[p] \ Given(c)
          BY <3>2, <4>1, <5>1
        <5>3. Head(todo'[p]) = "print"
          BY <2>2, <2>4, <4>4
        <5> QED BY <4>2, <5>2, <5>3 DEF Promises, At, Unwritten
      <4> QED BY <4>3, <4>4
    <3> QED BY <3>4 DEF Told
  <2> QED BY <2>3, <2>4
<1> QED BY <1>4, <1>5, <1>6

\* Marks files are written from what is stored; what else the search changed is still to be said.
LEMMA FilesTold ==
  ASSUME CommandsInv, CommandsInv', Told, Searches, NEW p \in Processes,
         ListCaptures(p) \/ ReadMatches(p) \/ ReplaceFile(p) \/ AllWritten(p)
  PROVE  Told'
<1>1. At(p, "files") /\ exit[p] = Nil /\ UNCHANGED <<disk, command, corrected, exit, needs, asked, lost>>
  BY DEF ListCaptures, ReadMatches, ReplaceFile, AllWritten, Files, At
<1>2. \A q \in Processes \ {p} : Same(q) /\ left'[q] = left[q] /\ held'[q] = held[q]
  BY DEF ListCaptures, ReadMatches, ReplaceFile, AllWritten, Files, Done, CommandsInv, Tables, Same
<1>3. Running(p) /\ Head(todo[p]) = "files"
  BY <1>1, AtStep
<1>4. Writes(command[p])
  BY <1>3, FilesMoves DEF Running
<1>5. SUFFICES ASSUME NEW r \in Captures, Stale(r)'
               PROVE  r \in lost' \/ Stands(r)' \/ \E q \in Processes : Promises(q, r)'
  BY DEF Told
<1>6. Unwritten(p)' = Unwritten(p) /\ Given(command'[p]) = Given(command[p])
  BY <1>1 DEF Unwritten
\* It stays stale, and what p has due it keeps.
<1>7. ASSUME Stale(r),
             \/ At(p, "files")' /\ (Due(p, r) => Due(p, r)')
             \/ At(p, "print")' /\ ~At(p, "files")' /\ ~Due(p, r)
      PROVE  r \in lost' \/ Stands(r)' \/ \E q \in Processes : Promises(q, r)'
  <2>1. ASSUME NEW q \in Processes \ {p}
        PROVE  /\ At(q, "files")' = At(q, "files") /\ At(q, "print")' = At(q, "print")
               /\ Given(command'[q]) = Given(command[q])
               /\ Due(q, r)' <=> Due(q, r)
               /\ Promises(q, r)' <=> Promises(q, r)
    BY <1>1, <1>2, StaysDue
  <2>2. ~At(p, "print") /\ (At(p, "files")' => ~At(p, "print")')
    BY <1>1 DEF At
  <2>3. Stands(r) => Stands(r)'
    <3> SUFFICES ASSUME Stands(r), NEW q \in Processes, r \in Given(command'[q]), r \in asked'[q]
                 PROVE  ~At(q, "print")' /\ (At(q, "files")' => Due(q, r)')
      BY <1>1 DEF Stands
    <3>1. CASE q = p
      <4>1. Due(p, r)
        BY <1>1, <1>6, <3>1 DEF Stands
      <4> QED BY <1>7, <2>2, <3>1, <4>1
    <3>2. CASE q # p
      BY <1>1, <2>1, <3>2 DEF Stands
    <3> QED BY <3>1, <3>2
  <2>4. ASSUME NEW q \in Processes, Promises(q, r) PROVE Promises(q, r)'
    <3>1. CASE q = p
      BY <1>6, <1>7, <2>2, <2>4, <3>1 DEF Promises
    <3>2. CASE q # p
      BY <2>1, <2>4, <3>2
    <3> QED BY <3>1, <3>2
  <2> QED BY <1>1, <1>7, <2>3, <2>4 DEF Told
<1>8. CASE ListCaptures(p)
  <2>1. left'[p] = Combined(p) /\ left[p] = Nil /\ UNCHANGED <<todo, marks, held>>
    BY <1>8 DEF ListCaptures, CommandsInv, Tables
  <2>2. Stale(r) /\ At(p, "files")'
    BY <1>1, <1>5, <2>1 DEF Stale, At
  <2>3. Due(p, r) => r \in Combined(p)
    BY <1>4, <2>2 DEF Due, Given, Combined, Stale, CommandsInv, StoreWhole
  <2>4. Due(p, r) => Due(p, r)'
    BY <1>6, <2>1, <2>3 DEF Due
  <2> QED BY <1>7, <2>2, <2>4
<1>9. CASE ReadMatches(p)
  <2>1. PICK c \in left[p] : /\ held'[p] = [one \in {c} |-> disk.entries] /\ left'[p] = left[p] \ {c}
                             /\ left[p] # Nil /\ held[p] = <<>> /\ UNCHANGED <<todo, marks>>
    BY <1>9 DEF ReadMatches, CommandsInv, Tables
  <2>2. Stale(r)
    <3>1. ASSUME NEW q \in Processes, r \in DOMAIN held'[q], held'[q][r] # disk.entries
          PROVE  r \in DOMAIN held[q] /\ held[q][r] # disk.entries
      BY <1>2, <2>1, <3>1
    <3> QED BY <1>1, <1>5, <2>1, <3>1 DEF Stale
  <2>3. DOMAIN held[p] = {}
    BY <2>1
  <2>4. Due(p, r) => Due(p, r)'
    <3>1. Due(p, r) => r \in left[p]
      BY <2>1, <2>3 DEF Due
    <3>2. r \in left[p] => r \in left'[p] \/ (r \in DOMAIN held'[p] /\ held'[p][r] = disk'.entries)
      BY <1>1, <2>1
    <3> QED BY <1>6, <3>1, <3>2 DEF Due
  <2>5. At(p, "files")'
    BY <1>1, <2>1 DEF At
  <2> QED BY <1>7, <2>2, <2>4, <2>5
<1>10. CASE ReplaceFile(p)
  <2>1. /\ held'[p] = <<>> /\ DOMAIN held'[p] = {} /\ UNCHANGED <<todo, left>>
        /\ marks'[r] = IF r \in DOMAIN held[p] THEN held[p][r] ELSE marks[r]
    BY <1>10 DEF ReplaceFile, CommandsInv, Tables
  \* No other search holds anything.
  <2>2. ASSUME NEW q \in Processes, r \in DOMAIN held[q] PROVE q = p
    <3>1. At(q, "files") /\ r \in Given(command[q])
      BY <2>2 DEF Searches, Combining
    <3>2. exit[q] = Nil /\ Writes(command[q])
      BY <3>1 DEF At, Given
    <3> QED BY <1>1, <1>4, <3>2 DEF Searches, OneSearch
  <2>3. ASSUME NEW q \in Processes PROVE r \notin DOMAIN held'[q]
    BY <1>2, <2>1, <2>2
  <2>4. marks'[r] # Nil /\ marks'[r] # disk.entries /\ r \in DOMAIN disk.entries
    BY <1>1, <1>5, <2>3 DEF Stale
  <2>5. Stale(r) /\ (r \in DOMAIN held[p] => held[p][r] # disk.entries)
    BY <2>1, <2>4 DEF Stale
  <2>6. Due(p, r) => Due(p, r)'
    BY <1>6, <2>1, <2>5 DEF Due
  <2>7. At(p, "files")'
    BY <1>1, <2>1 DEF At
  <2> QED BY <1>7, <2>5, <2>6, <2>7
<1>11. CASE AllWritten(p)
  <2>1. left[p] = {} /\ DOMAIN held[p] = {} /\ UNCHANGED <<marks, held>> /\ todo'[p] = Tail(todo[p])
    BY <1>11 DEF AllWritten, Done, CommandsInv, Tables
  <2>2. todo'[p] = Result
    BY <1>3, <2>1, FilesMoves DEF Running
  <2>3. At(p, "print")' /\ ~At(p, "files")'
    BY <1>1, <2>2, Heads DEF At
  <2>4. Stale(r)
    BY <1>1, <1>5, <2>1 DEF Stale
  <2>5. ~Due(p, r)
    <3>1. left[p] # Nil
      BY <2>1, CommandsAssumption
    <3> QED BY <2>1, <3>1 DEF Due
  <2> QED BY <1>7, <2>3, <2>4, <2>5
<1> QED BY <1>8, <1>9, <1>10, <1>11

\* A result asks for what the search changed and did not write; requests made after its command
\* started, or again since, stand.
LEMMA TellTold ==
  ASSUME CommandsInv, CommandsInv', Told, Searches, NEW p \in Processes, Tell(p)
  PROVE  Told'
<1>1. /\ At(p, "print") /\ UNCHANGED <<disk, marks, lost>> /\ exit'[p] # Nil /\ held'[p] = <<>>
      /\ needs' = (needs \ (asked[p] \cap Given(command[p]))) \cup Unwritten(p)
      /\ \A q \in Processes \ {p} : asked'[q] = asked[q] \ Unwritten(p)
  BY CommandsAssumption DEF Tell, Forget, CommandsInv, Tables
<1>2. \A q \in Processes \ {p} : Same(q) /\ left'[q] = left[q] /\ held'[q] = held[q]
  BY DEF Tell, Forget, Done, CommandsInv, Tables, Same
<1>3. ~At(p, "print")' /\ ~At(p, "files")'
  BY <1>1 DEF At
<1> SUFFICES ASSUME NEW r \in Captures, Stale(r)'
             PROVE  r \in lost' \/ Stands(r)' \/ \E q \in Processes : Promises(q, r)'
  BY DEF Told
<1>4. ASSUME NEW q \in Processes \ {p}
      PROVE  /\ At(q, "files")' = At(q, "files") /\ At(q, "print")' = At(q, "print")
             /\ Given(command'[q]) = Given(command[q])
             /\ Due(q, r)' <=> Due(q, r)
             /\ Promises(q, r)' <=> Promises(q, r)
  BY <1>1, <1>2, StaysDue
<1>5. Stale(r)
  <2>1. DOMAIN held'[p] = {}
    BY <1>1
  <2> QED BY <1>1, <1>2, <2>1 DEF Stale
<1>6. r \in Unwritten(p) => Stands(r)'
  BY <1>1, <1>3 DEF Stands
<1>7. Stands(r) => Stands(r)'
  <2> SUFFICES ASSUME Stands(r) PROVE Stands(r)'
    OBVIOUS
  <2>1. r \in needs'
    BY <1>1 DEF Stands
  <2>2. ASSUME NEW q \in Processes, r \in Given(command'[q]), r \in asked'[q]
        PROVE  ~At(q, "print")' /\ (At(q, "files")' => Due(q, r)')
    <3>1. CASE q = p
      BY <1>3, <3>1
    <3>2. CASE q # p
      BY <1>1, <1>4, <2>2, <3>2 DEF Stands
    <3> QED BY <3>1, <3>2
  <2> QED BY <2>1, <2>2 DEF Stands
<1>8. ASSUME NEW q \in Processes, Promises(q, r) PROVE Stands(r)' \/ Promises(q, r)'
  <2>1. CASE q = p
    <3>1. ~At(p, "files")
      BY <1>1 DEF At
    <3> QED BY <1>6, <1>8, <2>1, <3>1 DEF Promises
  <2>2. CASE q # p
    BY <1>4, <1>8, <2>2
  <2> QED BY <2>1, <2>2
<1> QED BY <1>1, <1>5, <1>7, <1>8 DEF Told

\* What was due of a process that ends is lost.
LEMMA EndsTold ==
  ASSUME CommandsInv, CommandsInv', Told, Searches, NEW p \in Processes, NEW code \in {2, 3, 6}, Ends(p, code)
  PROVE  Told'
<1>1. /\ UNCHANGED <<disk, marks, needs>> /\ exit'[p] # Nil /\ lost' = lost \cup Unheard(p)
      /\ held'[p] = <<>>
  BY CommandsAssumption DEF Ends, Forget, CommandsInv, Tables
<1>2. \A q \in Processes \ {p} : Same(q) /\ asked'[q] = asked[q] /\ left'[q] = left[q] /\ held'[q] = held[q]
  BY DEF Ends, Forget, CommandsInv, Tables, Same
<1>3. ~At(p, "print")' /\ ~At(p, "files")'
  BY <1>1 DEF At
<1> SUFFICES ASSUME NEW r \in Captures, Stale(r)'
             PROVE  r \in lost' \/ Stands(r)' \/ \E q \in Processes : Promises(q, r)'
  BY DEF Told
<1>4. ASSUME NEW q \in Processes \ {p}
      PROVE  /\ At(q, "files")' = At(q, "files") /\ At(q, "print")' = At(q, "print")
             /\ Given(command'[q]) = Given(command[q])
             /\ Due(q, r)' <=> Due(q, r)
             /\ Promises(q, r)' <=> Promises(q, r)
  BY <1>1, <1>2, StaysDue
<1>5. ASSUME Promises(p, r) PROVE r \in lost'
  <2>1. exit[p] = Nil /\ Running(p) /\ (Head(todo[p]) = "files" \/ Head(todo[p]) = "print")
    BY <1>5 DEF Promises, At, CommandsInv, Placed
  <2>2. todo[p] = Result \/ (Writes(command[p]) /\ todo[p] = After(command[p]))
    BY <2>1, FilesMoves, PrintMoves DEF Running
  <2>3. \A i \in DOMAIN todo[p] : todo[p][i] # "commit"
    BY <2>2, NoCommitLeft
  <2>4. Unheard(p) = corrected[p] \cup Given(command[p])
    BY <2>3 DEF Unheard
  <2> QED BY <1>1, <1>5, <2>4 DEF Promises, Unwritten, Due
<1>6. Stale(r)
  <2>1. DOMAIN held'[p] = {}
    BY <1>1
  <2> QED BY <1>1, <1>2, <2>1 DEF Stale
<1>7. Stands(r) => Stands(r)'
  <2> SUFFICES ASSUME Stands(r), NEW q \in Processes, r \in Given(command'[q]), r \in asked'[q]
               PROVE  ~At(q, "print")' /\ (At(q, "files")' => Due(q, r)')
    BY <1>1 DEF Stands
  <2>1. CASE q = p
    BY <1>3, <2>1
  <2>2. CASE q # p
    BY <1>2, <1>4, <2>2 DEF Stands
  <2> QED BY <2>1, <2>2
<1>8. ASSUME NEW q \in Processes, q # p, Promises(q, r) PROVE Promises(q, r)'
  BY <1>4, <1>8
<1> QED BY <1>1, <1>5, <1>6, <1>7, <1>8 DEF Told

LEMMA NextTold ==
  CommandsInv /\ CommandsInv' /\ Told /\ Searches /\ [CommandsNext]_commandVars => Told' /\ Searches'
<1> SUFFICES ASSUME CommandsInv, CommandsInv', Told, Searches, [CommandsNext]_commandVars PROVE Told' /\ Searches'
  OBVIOUS
<1>1. CASE UNCHANGED commandVars
  <2>1. /\ disk' = disk /\ todo' = todo /\ command' = command /\ corrected' = corrected /\ exit' = exit
        /\ marks' = marks /\ needs' = needs /\ asked' = asked /\ lost' = lost /\ left' = left /\ held' = held
    BY <1>1 DEF commandVars
  <2>2. Told'
    BY <2>1 DEF Told, Stale, Stands, Promises, Due, At, Unwritten
  <2> QED BY <2>2, SearchesStay
<1>2. ASSUME NEW p \in Processes, InputInvalid(p) \/ StoreUnavailable(p) \/ Die(p) PROVE Told'
  <2>1. \E code \in {2, 3, 6} : Ends(p, code)
    BY <1>2 DEF InputInvalid, StoreUnavailable, Die
  <2> QED BY <2>1, EndsTold
<1>3. CASE CommandsNext
  <2>1. Told'
    BY <1>2, <1>3, StartTold, OpenTold, BeginTold, InsideTold, CommitTold, StoredTold, FilesTold, TellTold
       DEF CommandsNext
  <2> QED BY <2>1, SearchesStay
<1> QED BY <1>1, <1>3

\* Whatever the processes do and wherever they end, a marks file that the entries have left behind
\* is known of: asked for, about to be written or asked for, or lost with a process.
THEOREM StaleTold == CommandsSpec => []StaleIsTold
<1>1. CommandsInit => Told /\ Searches
  <2> SUFFICES ASSUME CommandsInit PROVE Told /\ Searches
    OBVIOUS
  <2>1. \A p \in Processes : exit[p] # Nil /\ left[p] = Nil /\ held[p] = <<>> /\ DOMAIN held[p] = {}
    BY CommandsAssumption DEF CommandsInit
  <2>2. \A r \in Captures : marks[r] = Nil
    BY DEF CommandsInit
  <2> QED BY <2>1, <2>2 DEF Told, Searches, MarksFrom, OneSearch, Combining, Stale
<1>2. Told => StaleIsTold
  <2> SUFFICES ASSUME Told, NEW r \in Captures, marks[r] # Nil, r \in DOMAIN disk.entries, marks[r] # disk.entries
               PROVE  r \in needs \cup lost \/ \E p \in Processes : exit[p] = Nil /\ r \in corrected[p] \cup Given(command[p])
    BY DEF StaleIsTold
  <2>1. Stands(r) => r \in needs
    BY DEF Stands
  <2>2. ASSUME NEW p \in Processes, Promises(p, r) PROVE exit[p] = Nil /\ r \in corrected[p] \cup Given(command[p])
    BY <2>2 DEF Promises, At, Unwritten, Due
  <2> QED BY <2>1, <2>2 DEF Told, Stale
<1> QED BY <1>1, <1>2, CommandsPlaced, NextTold, PTL DEF CommandsSpec

==============================================================================
