---------------------------- MODULE ScanBarrier ----------------------------
(***************************************************************************)
(* What ScanWorkers promises its caller (platform/portable_threads.h):     *)
(* "Each run publishes a frame and waits for all four scans."  A run has   *)
(* every task done exactly once, returns only then, and reports a failure  *)
(* exactly when a task of this run failed.                                 *)
(***************************************************************************)
CONSTANTS Workers

VARIABLES
  running,   \* the caller is inside run()
  todo,      \* tasks of this run not yet done
  failed,    \* tasks of this run that failed
  thrown     \* the last run threw

barrierVars == <<running, todo, failed, thrown>>

BarrierInit == running = FALSE /\ todo = {} /\ failed = {} /\ thrown = FALSE

Begin ==
  /\ ~running
  /\ running' = TRUE
  /\ todo' = Workers
  /\ failed' = {}
  /\ UNCHANGED thrown

Do(w) ==
  /\ running
  /\ w \in todo
  /\ todo' = todo \ {w}
  /\ failed' \in {failed, failed \cup {w}}
  /\ UNCHANGED <<running, thrown>>

\* The run returns, or throws when a task of it failed.
Finish ==
  /\ running
  /\ todo = {}
  /\ running' = FALSE
  /\ thrown' = (failed # {})
  /\ UNCHANGED <<todo, failed>>

BarrierNext == Begin \/ (\E w \in Workers : Do(w)) \/ Finish

BarrierSpec == BarrierInit /\ [][BarrierNext]_barrierVars
=============================================================================
