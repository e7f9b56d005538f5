------------------------------- MODULE LiveJob -------------------------------
(***************************************************************************)
(* The three threads of the live fingerprint job (fingerprint/live.cpp)    *)
(* and how they come to an end.                                            *)
(*                                                                         *)
(*   reader    standard input -> AudioQueue (module AudioQueue)            *)
(*   matching  AudioQueue -> coder, Shared.runs; takes the live index      *)
(*   store     keep_store(): Shared.runs -> store, store -> live index     *)
(*                                                                         *)
(* A critical section on shared.mutex, a call on the queue and a call on   *)
(* the store are one step each; everything else a thread does between them *)
(* is local to it.  Runs are kept in the order they began and stand for    *)
(* their number of codes; each starts at a capture second of its own, the  *)
(* key it has in the store.  The store's entries, which other processes    *)
(* promote meanwhile, are the single counter `version`.                    *)
(***************************************************************************)
EXTENDS AudioQueue, Functions

CONSTANTS
  Span,         \* samples the first code of a run needs (code_span_samples)
  Hop,          \* samples each further code needs (code_samples)
  MaxVersion,   \* bound: changes of the store's entries
  MaxBusy       \* bound: how often the store is busy past its wait

ASSUME CoderAssumption == Span \in Nat \ {0} /\ Hop \in Nat \ {0}

VARIABLES
  error,        \* error_ of the queue: reading standard input failed
  pc,           \* the matching thread
  outcome,      \* how live() ended: "none", "ok" or "thrown"
  index,        \* version of the live index the matcher uses
  runs,         \* Shared.runs: codes per run
  changed,      \* Shared.runs_changed
  stop,         \* Shared.stop
  offered,      \* Shared.index: version of a new live index, -1 for none
  failure,      \* Shared.failure
  storePc,      \* the store thread
  copy,         \* its `runs`, taken this round (<<>> when not append)
  append,       \* its `append`
  stopping,     \* its `stop`
  key,          \* its `key`: version the offered index was built for, -1 for none
  next,         \* the key just read
  stored,       \* the store: codes per run of this recording
  version,      \* the store: its entries
  busy          \* bound: times the store was busy

mainVars == <<error, pc, outcome, index>>
sharedVars == <<runs, changed, stop, offered, failure>>
threadVars == <<storePc, copy, append, stopping, key, next>>
storeVars == <<stored, version, busy>>
vars == <<queueAndStream, mainVars, sharedVars, threadVars, storeVars>>

JobInit ==
  /\ Init
  /\ error = FALSE /\ pc = "top" /\ outcome = "none" /\ index = 0
  /\ runs = <<>> /\ changed = FALSE /\ stop = FALSE /\ offered = -1 /\ failure = FALSE
  /\ storePc = "open" /\ copy = <<>> /\ append = FALSE /\ stopping = FALSE /\ key = -1 /\ next = -1
  /\ stored = <<>> /\ version = 0 /\ busy = 0

-----------------------------------------------------------------------------
(* The reader: it owns its share of the queue, so it may outlive the job. *)

Read ==
  /\ \/ \E start \in Starts : RunStart(start)
     \/ \E n \in Sizes : Audio(n)
     \/ End
  /\ UNCHANGED <<mainVars, sharedVars, threadVars, storeVars>>

CloseQueue(failed) ==
  /\ Close
  /\ error' = failed
  /\ UNCHANGED <<pc, outcome, index, sharedVars, threadVars, storeVars>>

-----------------------------------------------------------------------------
(* The matching thread. *)

Goto(from, to) == pc = from /\ pc' = to

\* Codes complete after n samples of a run.
Codes(n) == IF n < Span THEN 0 ELSE (n - Span) \div Hop + 1

IndexTaken == IF offered >= 0 THEN offered ELSE index

\* The top of the loop: a failed store ends the job, a new index is taken.
TakeIndex ==
  /\ pc = "top"
  /\ IF failure
     THEN pc' = "unwind" /\ UNCHANGED <<index, offered>>
     ELSE /\ pc' = "pop"
          /\ index' = IndexTaken
          /\ offered' = -1
  /\ UNCHANGED <<queueAndStream, error, outcome, runs, changed, stop, failure, threadVars, storeVars>>

\* Mutant of ChangedAfter: the flag follows the last piece only.
ChangedByLast(piece, codes) == piece.kind = "audio" /\ codes > 0
ChangedAfter(piece, codes) == changed \/ (piece.kind = "audio" /\ codes > 0)

\* A piece is popped and fed; its run or its codes are added to Shared.runs.
PopPiece ==
  /\ Goto("pop", "look")
  /\ Pop
  /\ LET piece == Head(pieces)
         codes == Codes(jobSamples + piece.size) - Codes(jobSamples) IN
       /\ runs' = CASE piece.kind = "run" -> Append(runs, 0)
                    [] piece.kind = "audio" -> [runs EXCEPT ![Len(runs)] = @ + codes]
                    [] piece.kind = "end" -> runs
       /\ changed' = ChangedAfter(piece, codes)
  /\ UNCHANGED <<error, outcome, index, stop, offered, failure, threadVars, storeVars>>

\* No piece within pop_wait ...
PopNothing ==
  /\ Goto("pop", "empty")
  /\ pieces = <<>>
  /\ UNCHANGED <<queueAndStream, error, outcome, index, sharedVars, threadVars, storeVars>>

Finished == Drained

\* ... so the loop ends if the queue is drained by now.
LookIfDrained ==
  /\ pc = "empty"
  /\ pc' = IF Finished THEN "leave" ELSE "look"
  /\ UNCHANGED <<queueAndStream, error, outcome, index, sharedVars, threadVars, storeVars>>

\* The evidence is looked at and the marks published (module LiveMarks): local here.
Publish ==
  /\ Goto("look", "top")
  /\ UNCHANGED <<queueAndStream, error, outcome, index, sharedVars, threadVars, storeVars>>

\* After the loop: a read error ends the job, else the matcher finishes.
Leave ==
  /\ pc = "leave"
  /\ pc' = IF error THEN "unwind" ELSE "stop"
  /\ UNCHANGED <<queueAndStream, error, outcome, index, sharedVars, threadVars, storeVars>>

\* The store thread is told to stop, and to append once more.
TellStop ==
  /\ Goto("stop", "join")
  /\ stop' = TRUE
  /\ changed' = TRUE
  /\ UNCHANGED <<queueAndStream, error, outcome, index, runs, offered, failure, threadVars, storeVars>>

Joined == storePc = "done"
Verdict == IF failure THEN "thrown" ELSE "ok"

\* Mutant of ReaderLeft: the reader is always joined.
ReaderJoined == "joined"
ReaderLeft == IF Drained THEN "joined" ELSE "detached"

\* The store thread is joined, then, in ~Threads, the reader of a drained queue.
JoinStore ==
  /\ Goto("join", "exited")
  /\ Joined
  /\ ReaderLeft = "joined" => closed
  /\ outcome' = Verdict
  /\ UNCHANGED <<queueAndStream, error, index, sharedVars, threadVars, storeVars>>

\* ~Threads while an exception leaves live(): stop, join, and leave a reader
\* whose queue is not drained to the end of the process.
Unwind ==
  /\ Goto("unwind", "rejoin")
  /\ stop' = TRUE
  /\ UNCHANGED <<queueAndStream, error, outcome, index, runs, changed, offered, failure, threadVars, storeVars>>

UnwindJoin ==
  /\ Goto("rejoin", "exited")
  /\ Joined
  /\ ReaderLeft = "joined" => closed
  /\ outcome' = "thrown"
  /\ UNCHANGED <<queueAndStream, error, index, sharedVars, threadVars, storeVars>>

Matching ==
  TakeIndex \/ PopPiece \/ PopNothing \/ LookIfDrained \/ Publish \/ Leave \/ TellStop \/ JoinStore
  \/ Unwind \/ UnwindJoin

-----------------------------------------------------------------------------
(* The store thread: keep_store(). *)

StoreGoto(from, to) == storePc = from /\ storePc' = to

\* The store and the library are opened, outside the retry.
OpenStore ==
  /\ StoreGoto("open", "copy")
  /\ UNCHANGED <<queueAndStream, mainVars, sharedVars, copy, append, stopping, key, next, storeVars>>

\* Any other error of the store, and a busy one while it is opened, ends the job.
FailStore ==
  /\ storePc \in {"open", "append", "key", "build"}
  /\ storePc' = "done"
  /\ failure' = TRUE
  /\ UNCHANGED <<queueAndStream, mainVars, runs, changed, stop, offered, copy, append, stopping, key, next, storeVars>>

\* Under the lock: what is new since the last round, and whether this is the last.
TakeRuns ==
  /\ StoreGoto("copy", "append")
  /\ stopping' = stop
  /\ append' = changed
  /\ copy' = IF changed THEN runs ELSE <<>>
  /\ changed' = FALSE
  /\ UNCHANGED <<queueAndStream, mainVars, runs, stop, offered, failure, key, next, storeVars>>

\* add_stream: a run already stored with as many codes stays as it is.
Kept(i) == IF i \in DOMAIN stored /\ stored[i] >= copy[i] THEN stored[i] ELSE copy[i]

AppendRuns ==
  /\ storePc = "append"
  /\ storePc' = IF stopping THEN "round" ELSE "key"
  /\ stored' = IF append /\ copy # <<>> THEN [i \in DOMAIN copy |-> Kept(i)] ELSE stored
  /\ UNCHANGED <<queueAndStream, mainVars, sharedVars, copy, append, stopping, key, next, version, busy>>

ReadKey ==
  /\ storePc = "key"
  /\ next' = version
  /\ storePc' = IF version = key THEN "round" ELSE "build"
  /\ UNCHANGED <<queueAndStream, mainVars, sharedVars, copy, append, stopping, key, storeVars>>

\* Mutant of Built: the key read after the index.
BuiltThenKey == [index |-> next, key |-> version]
\* The index is read after its key, in a snapshot of its own: it may be newer.
Built == [index |-> version, key |-> next]

BuildIndex ==
  /\ StoreGoto("build", "round")
  /\ offered' = Built.index
  /\ key' = Built.key
  /\ UNCHANGED <<queueAndStream, mainVars, runs, changed, stop, failure, copy, append, stopping, next, storeVars>>

\* Mutant of ChangedAgain: the runs of a round that failed are not flagged again.
ChangedStill == changed
ChangedAgain == changed \/ append

\* StoreUnavailable in a round: reported, and its runs are for the next round.
StoreBusy ==
  /\ storePc \in {"append", "key", "build"}
  /\ storePc = "append" => append /\ copy # <<>>
  /\ busy < MaxBusy
  /\ busy' = busy + 1
  /\ storePc' = "round"
  /\ changed' = ChangedAgain
  /\ UNCHANGED <<queueAndStream, mainVars, runs, stop, offered, failure, copy, append, stopping, key, next, stored, version>>

\* The last round ends the thread; else it waits up to 10 s, or for stop.
EndRound ==
  /\ storePc = "round"
  /\ storePc' = IF stopping THEN "done" ELSE "wait"
  /\ UNCHANGED <<queueAndStream, mainVars, sharedVars, copy, append, stopping, key, next, storeVars>>

Wake ==
  /\ StoreGoto("wait", "copy")
  /\ UNCHANGED <<queueAndStream, mainVars, sharedVars, copy, append, stopping, key, next, storeVars>>

StoreSteps ==
  OpenStore \/ TakeRuns \/ AppendRuns \/ ReadKey \/ BuildIndex \/ EndRound \/ Wake

-----------------------------------------------------------------------------
(* Other processes promote entries in the store. *)

Promote ==
  /\ version < MaxVersion
  /\ version' = version + 1
  /\ UNCHANGED <<queueAndStream, mainVars, sharedVars, threadVars, stored, busy>>

\* The job is over: the process may end.
Exited == pc = "exited" /\ UNCHANGED vars

JobNext ==
  \/ Read
  \/ \E failed \in BOOLEAN : CloseQueue(failed)
  \/ Matching
  \/ StoreSteps
  \/ FailStore
  \/ StoreBusy
  \/ Promote
  \/ Exited

\* The matching and the store thread are scheduled and their waits time out; the
\* reader may wait for input for ever, and nothing makes the store busy or broken.
JobSpec ==
  /\ JobInit /\ [][JobNext]_vars
  /\ WF_vars(Matching) /\ WF_vars(StoreSteps)

-----------------------------------------------------------------------------
(* Correctness. *)

\* Codes the store lacks are never forgotten: between two rounds the flag is up, and
\* during one they are in the round's copy or the flag is up for the next.
NoCodeForgotten ==
  storePc \in {"copy", "wait"} =>
    \A i \in DOMAIN runs :
      runs[i] > (IF i \in DOMAIN stored THEN stored[i] ELSE 0) => changed

\* Every code counted is in the store.
AllStored == \A i \in DOMAIN runs : runs[i] > 0 => i \in DOMAIN stored /\ stored[i] = runs[i]

\* live() never returns before the store thread has ended, which uses Shared and the
\* options of the caller's frame, and it returns well only when nothing failed; a job
\* whose store works ends with every code of its runs stored, even when its input
\* fails, unless the store was busy in its very last round (which flags the runs for a
\* round that never comes).
ExitSound ==
  pc = "exited" => /\ storePc = "done"
                   /\ outcome = "ok" => ~failure /\ ~error /\ Drained
                   /\ ~failure /\ ~changed => AllStored

\* live.h:42-43: "a store busy past its wait is reported on standard error and
\* retried 10 s later", so a job that ends well has stored every code it counted.
BusyRetried == outcome = "ok" => AllStored

\* Once its input is closed, or the store has failed, the job ends, even if the
\* reader waits for input for ever.
JobEnds == closed \/ failure ~> pc = "exited"

\* Flow 14: an entry promoted by a concurrent capture reaches the matcher, unless the
\* job ends first.
IndexReachesMatcher ==
  version = MaxVersion ~> index = version \/ stop \/ failure \/ closed
=============================================================================
