---------------------------- MODULE AudioVolumes ----------------------------
(***************************************************************************)
(* How the volume of each video frame comes about: decoded sound is put    *)
(* into audio_buffer with the time its first sample stands for, and the    *)
(* samples of a frame's interval are taken out of it once both the frame   *)
(* and the sound have arrived (sound_to_frames, backfill_frame_volumes and *)
(* retrieve_frame_volume of media/audio_analysis.cpp).                     *)
(*                                                                         *)
(* Two streams that arrive apart are tied by time stamps alone; stamps are *)
(* rounded, packets get lost.  A sample is a tick, and is represented by   *)
(* when it was recorded and how much sound had been lost by then; its      *)
(* loudness is left out.  Frame f shows ticks (f - 1) * Interval on.       *)
(***************************************************************************)
EXTENDS Integers, Sequences, FiniteSets

CONSTANTS
  Interval,   \* of a frame, in samples
  MinHeld,    \* as many samples have to be there before any is taken, 0.2 s
  Capacity,   \* audio_buffer_capacity
  Precision,  \* of the stamps, a tick of the stream or a sample
  Jitter,     \* steps of the clock are told apart from here on, above 0.02 s
  SmallStep,  \* do_audio_repair ignores those smaller than this, 1 s
  Lengths,    \* bound: the samples of a packet
  Roundings,  \* bound: how far a stamp may be off, up to Precision
  Losses,     \* bound: how much sound is lost at once
  MaxLosses,  \* bound: how often
  Ticks,      \* bound: the length of the recording
  Lead        \* bound: how far one stream arrives ahead of the other

\* Stamps are rounded to their precision; no frame is as short as that, and no packet shorter.  A
\* frame lasts for more than a sample.
ASSUME VolumesAssumption ==
  /\ {Interval, MinHeld, Capacity, Precision, Jitter, SmallStep, MaxLosses, Ticks, Lead} \subseteq Nat
  /\ Interval > Precision /\ Interval > 1
  /\ \A n \in Lengths : n \in Nat \ {0} /\ n >= Precision
  /\ Roundings \subseteq 0..Precision /\ Losses \subseteq Nat

VARIABLES
  repair,   \* do_audio_repair
  read,     \* framenum: the frames decoded
  clock,    \* audio_clock
  started,  \* initial_apts_set
  base,     \* base_apts
  buffer,   \* audio_buffer
  recorded, \* the tick the next packet begins at
  lost,     \* ghost: sound lost so far
  unseen,   \* ghost: lost since a stamp set the clock
  losses,   \* ghost: how often
  volume    \* ghost: by frame, the samples its volumes were computed from

volumeVars == <<repair, read, clock, started, base, buffer, recorded, lost, unseen, losses, volume>>

Frames == 1..(Ticks \div Interval)
Shown(f) == (f - 1) * Interval
Apart(a, b) == IF a < b THEN b - a ELSE a - b

VolumesInit ==
  /\ repair \in BOOLEAN
  /\ read = 0 /\ clock = 0 /\ started = FALSE /\ base = 0 /\ buffer = <<>>
  /\ recorded = 0 /\ lost = 0 /\ unseen = 0 /\ losses = 0 /\ volume = [f \in Frames |-> <<>>]

Top(sound) == sound.base + Len(sound.samples)

\* retrieve_frame_volume: what is before the frame's samples goes with them; a frame that begins
\* before them has no volume, and one they end in has volume 0.
Volumes(sound, f, samples) == [sound.volume EXCEPT ![f] = Append(@, [samples |-> samples, lost |-> sound.lost])]
Taken(sound, f) ==
  LET first == Shown(f) - sound.base
      held == Len(sound.samples)
  IN IF first < 0 \/ first > held \/ Interval > held THEN sound
     ELSE IF first + Interval > held THEN [sound EXCEPT !.volume = Volumes(sound, f, <<>>)]
     ELSE [base |-> sound.base + first + Interval,
           samples |-> SubSeq(sound.samples, first + Interval + 1, held),
           lost |-> sound.lost,
           volume |-> Volumes(sound, f, SubSeq(sound.samples, first + 1, first + Interval))]

\* backfill_frame_volumes: from the last frame that does not begin after the buffer does, the
\* frames whose end is there too, while enough sound is held.
FirstFrame(sound) ==
  LET from == {f \in 1..read - 2 : f = 1 \/ Shown(f) <= sound.base}
  IN CHOOSE f \in from : \A g \in from : g <= f
\* The turn of frame f - 1; the first frame that does not end in the buffer ends the loop.
Turn(before, f) ==
  LET goes == before.goes /\ f - 1 < read - 1 /\ Shown(f) <= Top(before.sound) /\ Len(before.sound.samples) > MinHeld
  IN [sound |-> IF goes THEN Taken(before.sound, f - 1) ELSE before.sound, goes |-> goes]
Backfilled(sound) ==
  LET turn[f \in 1..read] ==
        IF f <= FirstFrame(sound) THEN [sound |-> sound, goes |-> TRUE] ELSE Turn(turn[f - 1], f)
  IN IF read < 3 THEN sound ELSE turn[read].sound

\* The buffer keeps the time of its samples while stamps differ by no more than their precision.
\* Mutant: while it holds sound at all.
AnchoredEmpty(now) == IF buffer = <<>> THEN now ELSE base
Anchored(now) ==
  IF buffer = <<>> \/ Apart(base + Len(buffer), now) > Precision THEN now - Len(buffer) ELSE base

\* A packet of n samples, at the time `now`; a buffer that is or gets too full is emptied.
Heard(n, now) ==
  IF Len(buffer) >= Capacity \/ n + Len(buffer) > Capacity
  THEN [base |-> 0, samples |-> <<>>, lost |-> lost', volume |-> volume]
  ELSE Backfilled([base |-> Anchored(now),
                   samples |-> buffer \o [k \in 1..n |-> [at |-> recorded' - n + k - 1, unseen |-> unseen', lost |-> lost']],
                   lost |-> lost', volume |-> volume])

\* audio_packet_process: a stamp sets the clock; without one, or when repair takes the step for
\* jitter, it goes on from the packet before.  The steps and the packets put together of AC3 sound
\* that is not aligned are left out.
Ignored(stamp) == repair /\ started /\ stamp # 0 /\ Apart(stamp, clock) \in Jitter + 1..SmallStep - 1
Clock(stamps) == LET told == {stamp \in stamps : ~Ignored(stamp)}
                 IN IF told = {} THEN clock ELSE CHOOSE stamp \in told : TRUE

\* roundings: how far the stamp is off, empty when the packet has none.
AudioPacket(n, roundings, gap) ==
  LET begins == recorded + gap
      now == Clock({begins + r : r \in roundings})
  IN /\ begins + n <= Ticks
     /\ gap > 0 => losses < MaxLosses
     /\ begins - read * Interval <= Lead
     /\ recorded' = begins + n /\ lost' = lost + gap
     /\ unseen' = IF \E r \in roundings : ~Ignored(begins + r) THEN 0 ELSE unseen + gap
     /\ losses' = losses + (IF gap > 0 THEN 1 ELSE 0)
     /\ started' = TRUE
     /\ clock' = now + n
     /\ LET sound == Heard(n, now)
        IN base' = sound.base /\ buffer' = sound.samples /\ volume' = sound.volume
     /\ UNCHANGED <<repair, read>>

VideoFrame ==
  /\ read < Ticks \div Interval
  /\ read * Interval - recorded <= Lead
  /\ read' = read + 1
  /\ UNCHANGED <<repair, clock, started, base, buffer, recorded, lost, unseen, losses, volume>>

VolumesOver ==
  recorded + Lead >= Ticks /\ read = Ticks \div Interval /\ UNCHANGED volumeVars

VolumesNext ==
  \/ \E n \in Lengths, roundings \in {{}} \cup {{r} : r \in Roundings}, gap \in Losses \cup {0} :
       AudioPacket(n, roundings, gap)
  \/ VideoFrame \/ VolumesOver
VolumesSpec == VolumesInit /\ [][VolumesNext]_volumeVars

-----------------------------------------------------------------------------
(* Properties. *)

\* A frame gets its volume once, never 0 for want of its sound, from as many samples as it
\* lasts, recorded while it was shown: up to twice the precision of the stamps, to the sound
\* lost while the samples were held, and to the sound lost before them that no stamp told of
\* or do_audio_repair took for jitter; no matter which stream is ahead, and over a full
\* buffer.
VolumesInPlace ==
  \A f \in Frames :
    /\ Len(volume[f]) <= 1
    /\ \A k \in DOMAIN volume[f] :
         /\ Len(volume[f][k].samples) = Interval
         /\ \A i \in 1..Interval :
              LET sample == volume[f][k].samples[i]
                  since == volume[f][k].lost - sample.lost
              IN sample.at - (Shown(f) + i - 1) \in -2 * Precision - since..Precision + sample.unseen
=============================================================================
