--------------------------- MODULE StoreCommands ---------------------------
(***************************************************************************)
(* The commands of comskip-fingerprint (fingerprint/main.cpp) at work on   *)
(* one store (fingerprint/store.cpp): several processes, each with a       *)
(* connection and a program of steps, transactions that nest, a write lock *)
(* that is waited for and may not come, and processes that fail or die.    *)
(*                                                                         *)
(* Of the library (modules Airings and Library say what a search finds)    *)
(* only what ties the rows together is kept: the context and the evidence  *)
(* of each stored recording, and those every entry's status was last       *)
(* judged with.  Any change of what the entries rest on may change the     *)
(* marks of every recording in them; that it does is the worst case.       *)
(***************************************************************************)
EXTENDS Integers, Sequences, FiniteSets

CONSTANTS
  Processes,
  Captures,     \* recordings with marks files
  ContextsOf,   \* bound: the contexts a recording may get
  Commands,     \* bound: the commands run, see IsCommand
  MaxStarts,    \* bound: on commands
  Nil

\* A command line: what it is given of each capture, and what it says of some.
IsCommand(c) ==
  /\ c.name \in {"seed", "search", "pass", "promote", "context"}
  /\ c.recording \in Captures \cup {Nil}
  /\ c.evidence \in [DOMAIN c.evidence -> Nat] /\ DOMAIN c.evidence \subseteq Captures    \* the copies
  /\ c.contexts \in [DOMAIN c.contexts -> ContextsOf] /\ DOMAIN c.contexts \subseteq Captures
  /\ c.name \in {"seed", "pass"} => c.recording \in DOMAIN c.contexts
  /\ c.name \in {"seed", "search", "pass"} => c.recording \in Captures

ASSUME CommandsAssumption ==
  /\ Nil \notin Processes /\ Nil \notin {0, 2, 3, 6} /\ \A some \in SUBSET Captures : some # Nil
  /\ \A c \in Commands : IsCommand(c)

\* fingerprint-plan.md: a pass is given the copies "of this and other captures"; a capture without
\* one has none for any command.
ASSUME CopiesAssumption ==
  \A c, other \in Commands :
    (/\ c.name \in {"search", "pass"} /\ other.name \in {"search", "pass"}
     /\ c.recording \in DOMAIN other.evidence) => c.recording \in DOMAIN c.evidence

VARIABLES
  disk,      \* what is committed
  lock,      \* the process with the write lock
  todo,      \* by process: the steps left of its command
  command,
  depth,     \* depth_ of its connection
  work,      \* its view of the store, with what its transaction wrote
  copy,      \* what its search loaded
  corrected, \* the captures its search gave other marks
  exit,      \* its exit code, or Nil while it runs
  marks,     \* by capture: the entries its marks file was written from, or Nil
  needs,     \* the captures results have asked evidence for
  asked,     \* by process: needs, when it started
  lost,      \* captures whose correction ended with a process
  left,      \* by process: the captures whose marks files it has yet to combine, Nil before it lists them
  held,      \* by process: at most one capture it is combining, with the entries it read
  starts

commandVars ==
  <<disk, lock, todo, command, depth, work, copy, corrected, exit, marks, needs, asked, lost, left, held, starts>>
outside == <<marks, needs, asked, lost, left, held, starts>>

Empty == [made |-> FALSE, context |-> [c \in {} |-> Nil], evidence |-> [c \in {} |-> 0], entries |-> [c \in {} |-> <<>>]]
Set(f, c, value) == [x \in DOMAIN f \cup {c} |-> IF x = c THEN value ELSE f[x]]
EvidenceOf(store, c) == IF c \in DOMAIN store.evidence THEN store.evidence[c] ELSE 0

CommandsInit ==
  /\ disk = Empty /\ lock = Nil /\ starts = 0
  /\ todo = [p \in Processes |-> <<>>] /\ command = [p \in Processes |-> Nil]
  /\ depth = [p \in Processes |-> 0] /\ work = [p \in Processes |-> Nil] /\ copy = [p \in Processes |-> Nil]
  /\ corrected = [p \in Processes |-> {}]
  /\ exit = [p \in Processes |-> 0]
  /\ marks = [c \in Captures |-> Nil]
  /\ needs = {} /\ asked = [p \in Processes |-> {}] /\ lost = {}
  /\ left = [p \in Processes |-> Nil] /\ held = [p \in Processes |-> <<>>]

-----------------------------------------------------------------------------
(* What the steps do to a store. *)

Created(store) == [store EXCEPT !.made = TRUE]
Added(store, c) == [store EXCEPT !.context = Set(@, c.recording, c.contexts[c.recording])]
WithCopy(store, c) == [store EXCEPT !.evidence = Set(@, c.recording, c.evidence[c.recording])]
Replaced(store, c) ==
  [store EXCEPT !.context = [r \in DOMAIN @ |-> IF r \in DOMAIN c.contexts THEN c.contexts[r] ELSE @[r]]]

\* Every entry is judged again, those of a search with its own recording.
Rejudged(store, recordings) ==
  [r \in DOMAIN store.context \cap (DOMAIN store.entries \cup recordings) |-> <<store.context[r], EvidenceOf(store, r)>>]
Own(c) == IF c.name = "promote" \/ c.name = "context" THEN {} ELSE {c.recording}
Saved(store, from, c) == [store EXCEPT !.entries = Rejudged(from, Own(c))]

\* The captures, but its own, whose entries a search changed.
Changed(from, c) ==
  IF Rejudged(from, Own(c)) = from.entries THEN {} ELSE (DOMAIN Rejudged(from, Own(c))) \ Own(c)

-----------------------------------------------------------------------------
(* The commands. *)

Transaction(steps) == <<"begin">> \o steps \o <<"commit">>
SearchSteps(own) ==
  Transaction(<<"load">> \o (IF own THEN Transaction(<<"evidence">>) ELSE <<>>) \o Transaction(<<"save">>))
Steps(c) ==
  <<"open">> \o
  (CASE c.name = "seed" -> Transaction(<<"add">>)
    [] c.name = "search" -> <<"stored">> \o SearchSteps(c.recording \in DOMAIN c.evidence) \o <<"files">>
    [] c.name = "pass" -> Transaction(<<"add">>) \o SearchSteps(c.recording \in DOMAIN c.evidence) \o <<"files">>
    [] c.name = "promote" -> Transaction(SearchSteps(FALSE))
    [] c.name = "context" -> Transaction(<<"contexts">> \o SearchSteps(FALSE)))
  \o <<"print">>

\* Those that find repeats and write marks files.
Writes(c) == c.name \in {"search", "pass"}

\* fingerprint-plan.md: the app runs one repeat search at a time.
Start(p, c) ==
  /\ exit[p] # Nil /\ starts < MaxStarts /\ starts' = starts + 1
  /\ Writes(c) => \A q \in Processes : exit[q] = Nil => ~Writes(command[q])
  /\ command' = [command EXCEPT ![p] = c]
  /\ todo' = [todo EXCEPT ![p] = Steps(c)]
  /\ exit' = [exit EXCEPT ![p] = Nil]
  /\ corrected' = [corrected EXCEPT ![p] = {}]
  /\ asked' = [asked EXCEPT ![p] = needs]
  /\ UNCHANGED <<disk, lock, depth, work, copy, marks, needs, lost, left, held>>

\* What goes with a process.
Forget(p) ==
  /\ work' = [work EXCEPT ![p] = Nil] /\ copy' = [copy EXCEPT ![p] = Nil]
  /\ left' = [left EXCEPT ![p] = Nil] /\ held' = [held EXCEPT ![p] = <<>>]
  /\ command' = [command EXCEPT ![p] = Nil] /\ corrected' = [corrected EXCEPT ![p] = {}]

At(p, step) == exit[p] = Nil /\ Head(todo[p]) = step
Done(p) == todo' = [todo EXCEPT ![p] = Tail(@)]
\* The recording that a command is for is not in the store.
Unstored(p) ==
  \/ At(p, "stored") /\ command[p].recording \notin DOMAIN disk.context
  \/ At(p, "contexts") /\ command[p].recording # Nil /\ command[p].recording \notin DOMAIN work[p].context

\* A current store is only read; another is made in a transaction, which looks again.
Open(p) ==
  /\ At(p, "open")
  /\ todo' = [todo EXCEPT ![p] = IF disk.made THEN Tail(@) ELSE Transaction(<<"create">>) \o Tail(@)]
  /\ UNCHANGED <<disk, lock, command, depth, work, copy, corrected, exit, outside>>

\* BEGIN IMMEDIATE for the outermost: the lock, or waiting for it.
\* Mutant: nobody waits, as if BEGIN left the lock for the first write.
AnyTime(p) == lock # p
CanLock(p) == lock = Nil
Begin(p) ==
  /\ At(p, "begin") /\ Done(p)
  /\ depth' = [depth EXCEPT ![p] = @ + 1]
  /\ IF depth[p] > 0 THEN UNCHANGED <<lock, work>>
     ELSE CanLock(p) /\ lock' = p /\ work' = [work EXCEPT ![p] = disk]
  /\ UNCHANGED <<disk, command, copy, corrected, exit, outside>>

\* Steps inside a transaction.
Inside(p, step) == At(p, step) /\ Done(p) /\ UNCHANGED <<disk, lock, command, depth, exit, outside>>
Write(p, store) == work' = [work EXCEPT ![p] = store]

Create(p) == Inside(p, "create") /\ Write(p, Created(work[p])) /\ UNCHANGED <<copy, corrected>>
AddStream(p) == Inside(p, "add") /\ Write(p, Added(work[p], command[p])) /\ UNCHANGED <<copy, corrected>>
Load(p) == Inside(p, "load") /\ copy' = [copy EXCEPT ![p] = work[p]] /\ UNCHANGED <<work, corrected>>
StoreEvidence(p) ==
  /\ Inside(p, "evidence")
  /\ Write(p, WithCopy(work[p], command[p])) /\ copy' = [copy EXCEPT ![p] = WithCopy(@, command[p])]
  /\ UNCHANGED corrected
Save(p) ==
  /\ Inside(p, "save")
  /\ Write(p, Saved(work[p], copy[p], command[p]))
  /\ corrected' = [corrected EXCEPT ![p] = Changed(copy[p], command[p])]
  /\ UNCHANGED copy
\* One named recording has to be stored; of many, those that are not are passed over.
ReplaceContexts(p) ==
  /\ Inside(p, "contexts") /\ ~Unstored(p)
  /\ Write(p, Replaced(work[p], command[p]))
  /\ UNCHANGED <<copy, corrected>>

Commit(p) ==
  /\ At(p, "commit") /\ Done(p)
  /\ depth' = [depth EXCEPT ![p] = @ - 1]
  /\ IF depth[p] > 1 THEN UNCHANGED <<disk, lock>> ELSE disk' = work[p] /\ lock' = Nil
  /\ UNCHANGED <<command, work, copy, corrected, exit, outside>>

Stored(p) ==
  /\ At(p, "stored") /\ Done(p) /\ ~Unstored(p)
  /\ UNCHANGED <<disk, lock, command, depth, work, copy, corrected, exit, outside>>

\* A marks file for every capture whose evidence was given and whose stream is stored,
\* changed by this search or not.
\* Mutant: only for those that it changed.
ChangedOnly(p) == DOMAIN command[p].evidence \cap DOMAIN disk.context \cap (corrected[p] \cup {command[p].recording})
Combined(p) == DOMAIN command[p].evidence \cap DOMAIN disk.context
Files(p) == At(p, "files") /\ UNCHANGED <<disk, lock, command, depth, work, copy, corrected, exit, needs, asked, lost, starts>>
ListCaptures(p) ==
  /\ Files(p) /\ left[p] = Nil
  /\ left' = [left EXCEPT ![p] = Combined(p)]
  /\ UNCHANGED <<todo, marks, held>>

\* Capture by capture, no transaction holds its matches and its file together.
ReadMatches(p) ==
  /\ Files(p) /\ left[p] # Nil /\ held[p] = <<>>
  /\ \E c \in left[p] :
       /\ held' = [held EXCEPT ![p] = [one \in {c} |-> disk.entries]]
       /\ left' = [left EXCEPT ![p] = @ \ {c}]
  /\ UNCHANGED <<todo, marks>>
ReplaceFile(p) ==
  /\ Files(p) /\ held[p] # <<>>
  /\ marks' = [c \in Captures |-> IF c \in DOMAIN held[p] THEN held[p][c] ELSE marks[c]]
  /\ held' = [held EXCEPT ![p] = <<>>]
  /\ UNCHANGED <<todo, left>>
AllWritten(p) ==
  /\ Files(p) /\ Done(p) /\ left[p] = {} /\ held[p] = <<>>
  /\ left' = [left EXCEPT ![p] = Nil]
  /\ UNCHANGED <<marks, held>>

Given(c) == IF Writes(c) THEN DOMAIN c.evidence ELSE {}
Unwritten(p) == corrected[p] \ Given(command[p])
Tell(p) ==
  /\ At(p, "print") /\ Done(p)
  /\ exit' = [exit EXCEPT ![p] = 0]
  \* The app answers what it was asked for before by running the search with the evidence;
  \* what is asked for again meanwhile is another request.
  /\ needs' = (needs \ (asked[p] \cap Given(command[p]))) \cup Unwritten(p)
  /\ asked' = [q \in Processes |-> IF q = p THEN {} ELSE asked[q] \ Unwritten(p)]
  /\ Forget(p)
  /\ UNCHANGED <<disk, lock, depth, marks, lost, starts>>

-----------------------------------------------------------------------------
(* What goes wrong. *)

\* Captures whose marks a committed search changed, or that it was to write, when nobody hears.
Unheard(p) ==
  IF \E i \in DOMAIN todo[p] : todo[p][i] = "commit" THEN {} ELSE corrected[p] \cup Given(command[p])

\* The process ends, by itself or not; closing its connection ends its transaction.
Ends(p, code) ==
  /\ exit' = [exit EXCEPT ![p] = code]
  /\ todo' = [todo EXCEPT ![p] = <<>>]
  /\ depth' = [depth EXCEPT ![p] = 0]
  /\ lock' = IF lock = p THEN Nil ELSE lock
  /\ lost' = lost \cup Unheard(p)
  /\ asked' = [asked EXCEPT ![p] = {}]
  /\ Forget(p)
  /\ UNCHANGED <<disk, marks, needs, starts>>

InputInvalid(p) == Unstored(p) /\ Ends(p, 2)

\* The lock does not come in time, or a statement or COMMIT fails.
StoreUnavailable(p) ==
  /\ \/ At(p, "begin") /\ depth[p] = 0 /\ lock # Nil
     \/ exit[p] = Nil /\ depth[p] > 0
  /\ Ends(p, 3)

\* A marks file or the result cannot be written, or the process is killed.
Die(p) == exit[p] = Nil /\ Ends(p, 6)

CommandsNext ==
  \E p \in Processes :
    \/ \E c \in Commands : Start(p, c)
    \/ Open(p) \/ Begin(p) \/ Create(p) \/ AddStream(p) \/ Load(p) \/ StoreEvidence(p) \/ Save(p)
    \/ ReplaceContexts(p) \/ Commit(p) \/ Stored(p) \/ Tell(p)
    \/ ListCaptures(p) \/ ReadMatches(p) \/ ReplaceFile(p) \/ AllWritten(p)
    \/ InputInvalid(p) \/ StoreUnavailable(p) \/ Die(p)

CommandsSpec == CommandsInit /\ [][CommandsNext]_commandVars

-----------------------------------------------------------------------------
(* Properties. *)

\* The commands as they should look to one another: one change of the store each, or two for pass.
Promoted(store) == [store EXCEPT !.entries = Rejudged(store, {})]
Searched(store, c) ==
  LET with == IF c.recording \in DOMAIN c.evidence THEN WithCopy(store, c) ELSE store
  IN [with EXCEPT !.entries = Rejudged(with, {c.recording})]
Effects(store, c) ==
  CASE c.name = "seed" -> {Added(store, c)}
    [] c.name = "search" -> {Searched(store, c)}
    [] c.name = "pass" -> {Added(store, c), Searched(store, c)}
    [] c.name = "promote" -> {Promoted(store)}
    [] c.name = "context" -> {Promoted(Replaced(store, c))}

\* However processes interleave, wait, fail and die, the store goes from one whole command to the
\* next: contexts are never replaced without the promotion that follows from them, a search never
\* overwrites what another command stored while it worked, and a store is made once.
CommitIsWhole ==
  disk' # disk =>
    \/ disk = Empty /\ disk' = Created(Empty)
    \/ disk.made /\ \E p \in Processes : exit[p] = Nil /\ disk' \in Effects(disk, command[p])
CommitsWhole == [][CommitIsWhole]_commandVars

\* A marks file that no longer says what the entries do is known of: its capture was asked for in
\* a result, a command that has yet to print its result changed it or will write it, or a process
\* ended between its commit and its result.
StaleIsTold ==
  \A c \in Captures :
    marks[c] # Nil /\ c \in DOMAIN disk.entries /\ marks[c] # disk.entries =>
      \/ c \in needs \cup lost
      \/ \E p \in Processes : exit[p] = Nil /\ c \in corrected[p] \cup Given(command[p])
=============================================================================
