---------------------------- MODULE EvidenceFile ----------------------------
(***************************************************************************)
(* How a file that is rewritten while it is watched is handed over:        *)
(* replace_output_file() of output/output_file.h as WriteEvidenceFile()    *)
(* (output/evidence_adapter.cpp) calls it, and look_at_evidence() of       *)
(* fingerprint/live.cpp.  The application between the two, which maps the  *)
(* times, also replaces its file whole; it is not told apart here.         *)
(*                                                                         *)
(* A file is [revision, time, size]; revision 0 is no file or a part of    *)
(* one.  A file written gets a time of its own; its size is one of Sizes,  *)
(* and the stamp read is the pair of both, each read when it is read.      *)
(***************************************************************************)
EXTENDS Integers

CONSTANTS
  Retries,        \* renames after the first one
  Sizes,          \* what a file's size may be
  MaxRevision,    \* bound: rewrites
  MaxUnreadable   \* bound: how often the file is there and cannot be opened

VARIABLES
  wpc,        \* the writer: "idle", "temp", "rename", "failed" (a final write threw)
  revision,   \* state.evidence_revision
  final,      \* whether the rewrite under way is the final one
  temp,       \* the ".tmp" file
  attempt,    \* renames tried again
  file,       \* the file
  gaveUp,     \* what the last rewrite was given up at: "write", "rename" or "nothing"
  rpc,        \* the reader: "wait", "time", "size", "open", "parse", "done"
  time,       \* `seen`, as far as it is read
  size,
  content,    \* the revision it reads
  stamp,      \* the stamp of the copy in hand
  evidence,   \* its revision, 0 for none
  last,       \* whether this look is the one after the loop
  unreadable, \* bound
  missed      \* ghost: the latest revision a look could not open

writerVars == <<wpc, revision, final, temp, attempt, gaveUp>>
readerVars == <<rpc, time, size, content, stamp, evidence, last, unreadable, missed>>
vars == <<writerVars, file, readerVars>>

NoFile == [revision |-> 0, time |-> 0, size |-> 0]
NoStamp == [time |-> 0, size |-> 0]

Init ==
  /\ wpc = "idle" /\ revision = 0 /\ final = FALSE /\ temp = NoFile /\ attempt = 0 /\ gaveUp = "nothing"
  /\ file = NoFile
  /\ rpc = "wait" /\ time = 0 /\ size = 0 /\ content = 0 /\ stamp = NoStamp /\ evidence = 0 /\ last = FALSE
  /\ unreadable = 0 /\ missed = 0

-----------------------------------------------------------------------------
(* The writer. *)

\* WriteEvidenceFile: the revision counts a rewrite whether or not it succeeds.
Rewrite ==
  /\ wpc = "idle" /\ ~final /\ revision < MaxRevision
  /\ revision' = revision + 1
  /\ final' \in BOOLEAN
  /\ wpc' = "temp" /\ attempt' = 0
  /\ UNCHANGED <<temp, gaveUp, file, readerVars>>

\* The whole contents go to the temporary file.
WriteTemp ==
  /\ wpc = "temp" /\ wpc' = "rename"
  /\ \E s \in Sizes : temp' = [revision |-> revision, time |-> revision, size |-> s]
  /\ UNCHANGED <<revision, final, attempt, gaveUp, file, readerVars>>

Part == [revision |-> 0, time |-> revision, size |-> 0]
\* A live rewrite keeps the previous file; a final one throws.
AfterFailedWrite == IF final THEN "failed" ELSE "idle"

\* The temporary file cannot be opened, or only a part of it written: that part stays.
WriteTempFails ==
  /\ wpc = "temp" /\ wpc' = AfterFailedWrite
  /\ temp' \in {temp, Part}
  /\ gaveUp' = "write"
  /\ UNCHANGED <<revision, final, attempt, file, readerVars>>

Rename ==
  /\ wpc = "rename" /\ wpc' = "idle"
  /\ file' = temp /\ temp' = NoFile /\ gaveUp' = "nothing"
  /\ UNCHANGED <<revision, final, attempt, readerVars>>

MayRetry == attempt < Retries

\* A reader holds the file (on Windows): tried again ...
RenameBlocked ==
  /\ wpc = "rename" /\ MayRetry
  /\ attempt' = attempt + 1
  /\ UNCHANGED <<wpc, revision, final, temp, gaveUp, file, readerVars>>

\* Mutant of RenameGivenUp: the temporary file is left behind.
RenameLeftBehind ==
  /\ wpc = "rename" /\ ~MayRetry
  /\ gaveUp' = "rename"
  /\ wpc' = IF final THEN "failed" ELSE "idle"
  /\ UNCHANGED <<revision, final, temp, attempt, file, readerVars>>
\* ... and given up: the previous file stands; a final rewrite throws.
RenameGivenUp ==
  /\ wpc = "rename" /\ ~MayRetry
  /\ temp' = NoFile /\ gaveUp' = "rename"
  /\ wpc' = IF final THEN "failed" ELSE "idle"
  /\ UNCHANGED <<revision, final, attempt, file, readerVars>>

Writer == WriteTemp \/ WriteTempFails \/ Rename \/ RenameBlocked \/ RenameGivenUp

-----------------------------------------------------------------------------
(* The reader. *)

\* A look is due; after the loop there is one more.
LookDue ==
  /\ rpc = "wait" /\ rpc' = "time"
  /\ UNCHANGED <<time, size, content, stamp, evidence, last, unreadable, missed, writerVars, file>>

LookLast ==
  /\ rpc = "wait" /\ ~last /\ rpc' = "time" /\ last' = TRUE
  /\ UNCHANGED <<time, size, content, stamp, evidence, unreadable, missed, writerVars, file>>

After == IF last THEN "done" ELSE "wait"

\* last_write_time, then file_size; nothing without a file.
ReadTime ==
  /\ rpc = "time"
  /\ rpc' = IF file.revision = 0 THEN After ELSE "size"
  /\ time' = file.time
  /\ UNCHANGED <<size, content, stamp, evidence, last, unreadable, missed, writerVars, file>>

ReadSize ==
  /\ rpc = "size"
  /\ size' = file.size
  /\ rpc' = IF stamp = [time |-> time, size |-> file.size] THEN After ELSE "open"
  /\ UNCHANGED <<time, content, stamp, evidence, last, unreadable, missed, writerVars, file>>

\* Mutant of StampTaken: the stamp is taken after the file is read.
StampOfFile == [time |-> file.time, size |-> file.size]
StampTaken == [time |-> time, size |-> size]

Newer == content > evidence

\* The contents are those of the file when it is opened; it may be replaced meanwhile.
Open ==
  /\ rpc = "open" /\ rpc' = "parse"
  /\ content' = file.revision
  /\ UNCHANGED <<time, size, stamp, evidence, last, unreadable, missed, writerVars, file>>

Parse ==
  /\ rpc = "parse" /\ rpc' = After
  /\ stamp' = StampTaken
  /\ evidence' = IF Newer THEN content ELSE evidence
  /\ UNCHANGED <<time, size, content, last, unreadable, missed, writerVars, file>>

\* The file cannot be opened: the copy in hand stands, and the stamp is taken.
OpenFails ==
  /\ rpc = "open" /\ rpc' = After
  /\ unreadable < MaxUnreadable
  /\ unreadable' = unreadable + 1
  /\ missed' = time
  /\ stamp' = StampTaken
  /\ UNCHANGED <<time, size, content, evidence, last, writerVars, file>>

Reader == LookDue \/ ReadTime \/ ReadSize \/ Open \/ Parse

Next ==
  \/ Rewrite
  \/ Writer
  \/ Reader
  \/ LookLast
  \/ OpenFails

\* The reader keeps looking while the job runs, and the writer finishes a rewrite it
\* began: a rename is tried only Retries times.  The job may end at any time or never.
Spec == Init /\ [][Next]_vars /\ WF_vars(Writer) /\ WF_vars(Reader)

-----------------------------------------------------------------------------
(* Correctness. *)

\* output_file.h:35-36: "a reader sees the previous contents or the new ones, never a
\* partial file": once a file was there, there is a whole one, and it never goes back to
\* an earlier revision.
Forward == file'.revision >= file.revision

\* Between rewrites nothing is left beside the file unless writing it failed, and the
\* file is the newest rewrite unless that one was given up.
RestsClean ==
  wpc \in {"idle", "failed"} =>
    /\ gaveUp # "write" => temp = NoFile
    /\ gaveUp = "nothing" => file.revision = revision

\* Every step keeps both.
FileWhole == [][Forward /\ RestsClean']_vars

\* A revision that reaches the file is taken up, whatever rewrites race its reading,
\* unless the job comes to its last look or that very revision could not be opened.
NewestTaken ==
  \A r \in 1..MaxRevision : (file.revision = r) ~> (evidence >= r \/ last \/ missed >= r)
=============================================================================
