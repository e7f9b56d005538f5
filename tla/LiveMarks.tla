----------------------------- MODULE LiveMarks ------------------------------
(***************************************************************************)
(* What the matching thread of the live job publishes (fingerprint/live.cpp*)
(* and MarkHistory of fingerprint/combiner.cpp).  One round of its loop is *)
(* a piece from the queue (audio, the start of a run, or the end), a look  *)
(* at the Evidence file, and publish(): combine, settle by history, and    *)
(* replace the MarksFile when its text changed.                            *)
(*                                                                         *)
(* The LiveMatcher is known by its contract: a match is found where the    *)
(* audio is, with the rest of its entry projected, backward too when the   *)
(* entry began before the run; its agreed part grows with the audio, or    *)
(* lags behind it for a while, until its extent ends or it diverges or its *)
(* run ends, which withdraws the rest.  A match carries `open` while it    *)
(* may grow.  A repeat of the recording's own audio counts once it ended.  *)
(***************************************************************************)
EXTENDS Combiner

CONSTANTS
  UnchangedWithin,  \* unchanged_within
  Lag,              \* how long codes may disagree before a match ends (divergence_codes)
  BackReach,        \* edge_slack: this near the run's start an entry may have begun before it
  SeamReach,        \* seam_reach
  StandardLengths,  \* standard_lengths, with their tolerance
  Entries,          \* [status, length]: what the live index holds and the Combiner is offered (intro_credits)
  RunStarts,        \* where a run of audio may start
  RepeatChoices,    \* [earlierFrom, earlierTo, agreedFrom, agreedTo]: repeats of the recording's own audio
  EvidenceChoices,  \* what the Evidence file may say
  MaxNow,           \* bound: capture time
  MaxMatches,       \* bound: matches found
  MaxRepeats,       \* bound: repeats of its own
  MaxRevision,      \* bound: revisions of the Evidence file
  MaxFailures       \* bound: replacements of the MarksFile that fail

VARIABLES
  pc,         \* the loop: "piece", "look", "publish"; then "lastLook" .. "exited"
  now,        \* the capture time reached
  run,        \* where the current run started
  ended,      \* the end of the audio was read
  matches,    \* matcher.matches(): those with an entry
  repeats,    \* matcher.matches(): the ended ones with the recording itself
  evidence,   \* the copy in hand, with its revision; revision 0 when there is none
  seen,       \* seen_ of the MarkHistory
  written,    \* the text last written: [revision, marks], revision 0 for none
  failures,   \* bound: failed replacements
    \* what follows only observes
  last,       \* the marks of the last publish()
  steady      \* since when each mark of `last` has been published with these edges

audio == <<now, run, ended, matches, repeats>>
published == <<seen, written, failures, last, steady>>
vars == <<pc, audio, evidence, published>>

NoEvidence == [revision |-> 0, logoKnown |-> FALSE, seams |-> {}, logo |-> {}, blocks |-> {}]

\* The reader starts a run before it hands on audio.
Init ==
  /\ pc = "piece" /\ now = 0 /\ run = 0 /\ ended = FALSE /\ matches = {} /\ repeats = {}
  /\ evidence = NoEvidence /\ seen = {}
  /\ written = [revision |-> 0, marks |-> {}] /\ failures = 0
  /\ last = {} /\ steady = <<>>

-----------------------------------------------------------------------------
(* MarkHistory. *)

Length(m) == m.end - m.start
MarkShared(m, o) == Shared(m.start, m.end, [from |-> o.start, to |-> o.end])

\* Marks of the kind seen before that share at least half of the shorter with it.
Earlier(m) ==
  {o \in seen : /\ o.kind = m.kind /\ MarkShared(m, o) > 0
                /\ \/ 2 * MarkShared(m, o) >= Length(m)
                   \/ 2 * MarkShared(m, o) >= Length(o)}

Before(o, p) == o.start < p.start \/ (o.start = p.start /\ o.end <= p.end)
\* The one that shares the most, the first of several.
Likest(m) ==
  CHOOSE o \in Earlier(m) : \A p \in Earlier(m) :
    \/ MarkShared(m, o) > MarkShared(m, p)
    \/ MarkShared(m, o) = MarkShared(m, p) /\ Before(o, p)

\* Mutant of Unmoved: only its start is compared.
UnmovedStart(m, o) == Distance(m.start, o.start) <= UnchangedWithin
Unmoved(m, o) == Distance(m.start, o.start) <= UnchangedWithin /\ Distance(m.end, o.end) <= UnchangedWithin

Since(m) ==
  IF Earlier(m) # {} /\ Unmoved(m, Likest(m)) THEN Likest(m).since ELSE now

\* A mark settled by its age that changed less than SettleAfter ago.
StillMoving(m) == m.end + SettleAfter <= now /\ now - Since(m) < SettleAfter

Settled(marks) == {IF StillMoving(m) THEN [m EXCEPT !.state = "provisional"] ELSE m : m \in marks}
SeenAfter(marks) == {[start |-> m.start, end |-> m.end, kind |-> m.kind, since |-> Since(m)] : m \in marks}

-----------------------------------------------------------------------------
(* The matches. *)

Grown(m, time) ==
  [m EXCEPT !.agreedTo = IF m.to <= time THEN m.to ELSE time, !.open = m.to > time]
Withdrawn(m) == [m EXCEPT !.from = m.agreedFrom, !.to = m.agreedTo, !.open = FALSE]

\* A match with what follows the first `missed` of an entry: only one that began before
\* the run is projected back, to the run's start.
Found(entry, missed, time) ==
  LET from == time - 1
      before == missed > from - run /\ from - run <= BackReach
      to == from - missed + entry.length IN
  [status |-> entry.status, from |-> IF before THEN run ELSE from, to |-> to,
   agreedFrom |-> from, agreedTo |-> time, open |-> to > time]

Closed == {m \in matches : ~m.open}
Open == {m \in matches : m.open}

\* finish() of the LiveMatcher.
Finished == Closed \cup {Withdrawn(m) : m \in Open}

\* A repeat may have ended by this time.
RepeatsBy(time) ==
  /\ \E more \in SUBSET {r \in RepeatChoices : r.agreedTo <= time} : repeats' = repeats \cup more
  /\ Cardinality(repeats') <= MaxRepeats

\* within_show_ad(): advertising between two seams, of its length, without the logo.
LogoFree(e, from, to) ==
  LET seconds == {t \in from..(to - 1) : \E logo \in e.logo : logo.from <= t /\ t < logo.to} IN
  from < to /\ 10 * Cardinality(seconds) < to - from
AtSeam(e, time) == \E seam \in e.seams : Distance(seam, time) <= SeamReach
WithinShowAd(e, r) ==
  /\ e.logoKnown /\ r.agreedTo - r.agreedFrom \in StandardLengths
  /\ \/ AtSeam(e, r.earlierFrom) /\ AtSeam(e, r.earlierTo)
     \/ AtSeam(e, r.agreedFrom) /\ AtSeam(e, r.agreedTo)
  /\ LogoFree(e, r.earlierFrom, r.earlierTo) /\ LogoFree(e, r.agreedFrom, r.agreedTo)

AgreedAd(from, to) ==
  [status |-> "ad", from |-> from, to |-> to, agreedFrom |-> from, agreedTo |-> to, open |-> FALSE]

\* combiner_matches(): a repeat within the show counts for both its copies.
CombinerMatches(found, own, e) ==
  LET ads == {r \in own : WithinShowAd(e, r)} IN
  found \cup {AgreedAd(r.earlierFrom, r.earlierTo) : r \in ads}
        \cup {AgreedAd(r.agreedFrom, r.agreedTo) : r \in ads}

-----------------------------------------------------------------------------
(* The loop. *)

\* A piece of audio: the matches it extends, ends or begins.
Piece ==
  /\ pc = "piece" /\ pc' = "look"
  /\ ~ended /\ now < MaxNow
  /\ now' = now + 1
  /\ \E diverged \in SUBSET Open :
     \E lagging \in SUBSET {m \in Open \ diverged : now - m.agreedTo < Lag} :
     \E found \in {{}} \cup UNION {{{Found(entry, missed, now')} : missed \in 0..(entry.length - 1)} : entry \in Entries} :
       /\ matches' = Closed \cup {Withdrawn(m) : m \in diverged} \cup lagging
                     \cup {Grown(m, now') : m \in Open \ (diverged \cup lagging)} \cup found
       /\ Cardinality(matches') <= MaxMatches
  /\ RepeatsBy(now')
  /\ UNCHANGED <<run, ended, evidence, published>>

\* A run: what was open ends where it agreed, and time goes on from where the run starts,
\* be it before the end of the last one.
NewRun ==
  /\ pc = "piece" /\ pc' = "look"
  /\ ~ended
  /\ matches' = Finished /\ RepeatsBy(now)
  /\ \E start \in RunStarts : run' = start /\ now' = start
  /\ UNCHANGED <<ended, evidence, published>>

\* The end of the audio, before the queue is found drained.
End ==
  /\ pc = "piece" /\ pc' = "look"
  /\ ~ended /\ ended' = TRUE
  /\ matches' = Finished /\ RepeatsBy(now)
  /\ UNCHANGED <<now, run, evidence, published>>

Newer(revision) == revision > evidence.revision

\* The file may hold any revision: the process that writes it may have restarted.
LookAt ==
  \/ UNCHANGED evidence
  \/ \E revision \in 1..MaxRevision, choice \in EvidenceChoices :
       /\ Newer(revision)
       /\ evidence' = [revision |-> revision, logoKnown |-> choice.logoKnown, seams |-> choice.seams,
                       logo |-> choice.logo, blocks |-> choice.blocks]

Look ==
  /\ pc = "look" /\ pc' = "publish"
  /\ LookAt
  /\ UNCHANGED <<audio, published>>

\* publish(): nothing without evidence, nor when the text is the one written last; a
\* replacement that fails is for the next round.
PublishMarks ==
  IF evidence.revision = 0
  THEN UNCHANGED published
  ELSE LET combined == Combined(CombinerMatches(matches, repeats, evidence), evidence, [final |-> FALSE, now |-> now])
           marks == Settled(combined)
           text == [revision |-> evidence.revision, marks |-> marks]
           Key(m) == <<m.kind, m.start, m.end>> IN
       /\ seen' = SeenAfter(combined)
       /\ last' = marks
       /\ steady' = [key \in {Key(m) : m \in marks} |-> IF key \in DOMAIN steady THEN steady[key] ELSE now]
       /\ \/ text = written /\ UNCHANGED <<written, failures>>
          \/ text # written /\ written' = text /\ UNCHANGED failures
          \/ /\ text # written /\ failures < MaxFailures
             /\ failures' = failures + 1 /\ UNCHANGED written

Publish ==
  /\ pc = "publish" /\ pc' = "piece"
  /\ PublishMarks
  /\ UNCHANGED <<audio, evidence>>

\* A round without a piece.
NoPiece ==
  /\ pc = "piece" /\ pc' = "look"
  /\ UNCHANGED <<audio, evidence, published>>

\* The queue is drained: matcher.finish() withdraws what is still projected.
Finish ==
  /\ pc = "piece" /\ pc' = "lastLook"
  /\ matches' = Finished /\ RepeatsBy(now)
  /\ UNCHANGED <<now, run, ended, evidence, published>>

LastLook ==
  /\ pc = "lastLook" /\ pc' = "lastPublish"
  /\ LookAt
  /\ UNCHANGED <<audio, published>>

LastPublish ==
  /\ pc = "lastPublish" /\ pc' = "exited"
  /\ PublishMarks
  /\ UNCHANGED <<audio, evidence>>

Next == Piece \/ NewRun \/ End \/ NoPiece \/ Look \/ Publish \/ Finish \/ LastLook \/ LastPublish
Spec == Init /\ [][Next]_vars

-----------------------------------------------------------------------------
(* Correctness. *)

Quiet(m) == now - steady[<<m.kind, m.start, m.end>>] >= SettleAfter
Published == pc \in {"piece", "exited"}

\* Every part of an ad mark is agreed.
WhollyAgreed(m) ==
  \E s \in AdStretches(CombinerMatches(matches, repeats, evidence), evidence) :
    s.from = m.start /\ s.to = m.end /\ ~s.unconfirmed

\* Q9: an ad mark SettleAfter past its end that has been published with these edges for
\* SettleAfter is settled, and one that is settled has been, or is agreed in every part:
\* which earlier mark it is taken for never lets a moved mark settle by its age, nor
\* keeps one that stands still from settling.
AgedAdsSettleWhenQuiet ==
  Published => \A m \in last : (m.kind = "ad" /\ m.end + SettleAfter <= now) =>
    /\ Quiet(m) => m.state = "settled"
    /\ m.state = "settled" => Quiet(m) \/ WhollyAgreed(m)

\* Until its time is over, an ad mark that holds a match still growing is provisional:
\* auto-skip never skips what may still be withdrawn.
OpenIsProvisional ==
  Published => \A m \in last : \A o \in Open :
    LET from == Snap(evidence, o.from)  to == Snap(evidence, o.to) IN
    (/\ m.kind = "ad" /\ IsBreak(evidence, o)
     /\ from < to /\ m.start <= from /\ to <= m.end
     /\ m.end + SettleAfter > now) => m.state = "provisional"

\* fingerprint-plan.md:781: an ad mark whose every part is agreed and whose end is before
\* now is settled, whatever its age.  MarkHistory makes it provisional for a while all
\* the same when it moved or appeared late.
AgreedAdsAreSettled ==
  Published => \A m \in last : (m.kind = "ad" /\ WhollyAgreed(m) /\ m.end <= now) => m.state = "settled"
=============================================================================
