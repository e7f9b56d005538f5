---------------------------- MODULE ScanWorkers ----------------------------
(***************************************************************************)
(* The per-frame worker threads of the logo and scene scans                *)
(* (platform/portable_threads.h), four in the code.                        *)
(*                                                                         *)
(* A worker holds the mutex except while it waits and while its task runs, *)
(* and run() holds it except while it waits, so the code between two waits *)
(* or unlocks is one step.  Waits have predicates that are tested under    *)
(* the lock: a waiting thread is one whose predicate is a step's guard.    *)
(***************************************************************************)
EXTENDS Integers, FiniteSets

CONSTANTS
  Workers,   \* threads_
  None,      \* no failure
  MaxRuns    \* bound: runs

ASSUME WorkersAssumption == IsFiniteSet(Workers) /\ None \notin Workers /\ MaxRuns \in Nat

VARIABLES
  generation, remaining,  \* generation_, remaining_
  failure,     \* failure_: the task whose exception is kept, or None
  caller,      \* the orchestration thread: "outside" run(), "inside", or "destroying"
  thrown,      \* the last run rethrew a failure
  at,          \* each worker: "waiting", "scanning" or "ended"
  seen,        \* each worker's `seen`
  stopped,     \* workers whose jthread was asked to stop
  done,        \* ghost: how many times each task was done
  failed       \* ghost: the tasks of this run that failed

vars == <<generation, remaining, failure, caller, thrown, at, seen, stopped, done, failed>>

TypeOK ==
  /\ generation \in Nat /\ remaining \in Nat
  /\ failure \in Workers \cup {None}
  /\ caller \in {"outside", "inside", "destroying"}
  /\ thrown \in BOOLEAN
  /\ at \in [Workers -> {"waiting", "scanning", "ended"}]
  /\ seen \in [Workers -> Nat] /\ done \in [Workers -> Nat]
  /\ stopped \subseteq Workers /\ failed \subseteq Workers

Init ==
  /\ generation = 0 /\ remaining = 0 /\ failure = None
  /\ caller = "outside" /\ thrown = FALSE
  /\ at = [w \in Workers |-> "waiting"]
  /\ seen = [w \in Workers |-> 0] /\ done = [w \in Workers |-> 0]
  /\ stopped = {} /\ failed = {}

-----------------------------------------------------------------------------
(* The orchestration thread. *)

\* Mutant of FailureAtStart: the failure of an earlier run is kept.
FailureOfEarlier == failure
FailureAtStart == None

Begin ==
  /\ caller = "outside" /\ generation < MaxRuns
  /\ remaining' = Cardinality(Workers)
  /\ failure' = FailureAtStart
  /\ generation' = generation + 1
  /\ caller' = "inside"
  /\ failed' = {}
  /\ UNCHANGED <<thrown, at, seen, stopped, done>>

\* Mutant of AllDone: the caller wakes for the first worker that finishes.
SomeDone == remaining < Cardinality(Workers)
AllDone == remaining = 0

Return ==
  /\ caller = "inside" /\ AllDone
  /\ caller' = "outside"
  /\ thrown' = (failure # None)
  /\ UNCHANGED <<generation, remaining, failure, at, seen, stopped, done, failed>>

\* The destructor stops and joins the threads one by one, before the rest is gone.
Destroy(w) ==
  /\ caller \in {"outside", "destroying"}
  /\ caller' = "destroying"
  /\ w \notin stopped
  /\ \A v \in stopped : at[v] = "ended"
  /\ stopped' = stopped \cup {w}
  /\ UNCHANGED <<generation, remaining, failure, thrown, at, seen, done, failed>>

-----------------------------------------------------------------------------
(* A worker. *)

Take(w) ==
  /\ at[w] = "waiting" /\ generation # seen[w]
  /\ at' = [at EXCEPT ![w] = "scanning"]
  /\ seen' = [seen EXCEPT ![w] = generation]
  /\ UNCHANGED <<generation, remaining, failure, caller, thrown, stopped, done, failed>>

\* Mutant of Left: a task that failed does not count as done.
LeftUnlessFailed(fails) == IF fails THEN remaining ELSE remaining - 1
Left(fails) == remaining - 1

\* The task returns, or throws when `fails`: the first failure of the run is kept.
Done(w, fails) ==
  /\ at[w] = "scanning"
  /\ at' = [at EXCEPT ![w] = "waiting"]
  /\ failure' = IF fails /\ failure = None THEN w ELSE failure
  /\ remaining' = Left(fails)
  /\ done' = [done EXCEPT ![w] = @ + 1]
  /\ failed' = IF fails THEN failed \cup {w} ELSE failed
  /\ UNCHANGED <<generation, caller, thrown, seen, stopped>>

\* wait() returns false: asked to stop, and no frame to take.
Leave(w) ==
  /\ at[w] = "waiting" /\ w \in stopped /\ generation = seen[w]
  /\ at' = [at EXCEPT ![w] = "ended"]
  /\ UNCHANGED <<generation, remaining, failure, caller, thrown, seen, stopped, done, failed>>

Next ==
  \/ Begin
  \/ Return
  \/ \E w \in Workers : Destroy(w) \/ Take(w) \/ Leave(w) \/ \E fails \in BOOLEAN : Done(w, fails)

Spec == Init /\ [][Next]_vars

\* Threads are scheduled and tasks return; nothing makes the caller call run().
FairSpec ==
  /\ Spec
  /\ WF_vars(Return)
  /\ \A w \in Workers :
       /\ WF_vars(Take(w)) /\ WF_vars(\E fails \in BOOLEAN : Done(w, fails)) /\ WF_vars(Leave(w))
       /\ WF_vars(caller = "destroying" /\ Destroy(w))

-----------------------------------------------------------------------------
(* Correctness. *)

\* A worker scans only while the caller is inside run(): the frame and the results
\* the scans share are never written by one side while the other uses them.
FrameStable == \A w \in Workers : at[w] = "scanning" => caller = "inside"

\* Outside run() every task has been done once for each frame published, no frame
\* skipped and none scanned twice.
EveryFrameOnce == caller # "inside" => \A w \in Workers : done[w] = generation

\* remaining_ counts the tasks of this run still to be done: it never wraps.
RemainingExact == remaining = Cardinality({w \in Workers : done[w] # generation})

\* A run rethrows exactly when a task of that run failed, and one of those failures.
FailureOfThisRun ==
  /\ failure = None <=> failed = {}
  /\ failure # None => failure \in failed
  /\ caller = "outside" /\ generation > 0 => (thrown <=> failed # {})

\* The run ScanBarrier promises: what is left of it are the tasks not done.
Barrier == INSTANCE ScanBarrier WITH
  running <- caller = "inside",
  todo <- {w \in Workers : done[w] # generation},
  failed <- failed,
  thrown <- thrown

ImplementsBarrier == Barrier!BarrierSpec

\* Every run returns, also when tasks fail.
RunReturns == caller = "inside" ~> caller = "outside"
=============================================================================
