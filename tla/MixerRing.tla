----------------------------- MODULE MixerRing -----------------------------
(* The audio mixer's data path (audio_mixer.c): the frame ring of each source, *)
(* the ducking of the background, the start of the DMA when enough frames     *)
(* wait, and the boot prompt, the first to use it.  AudioRoute models the     *)
(* codec and the call that share the sink with the mixer.                     *)
(* Writers and the DMA interrupt exclude each other with interrupts off: a    *)
(* write is one step, and a block of frames is rendered one frame a step with *)
(* every other step waiting.  start and stop hold the session mutex.          *)
EXTENDS Integers, Sequences

CONSTANTS Capacity,     \* capacity_frames of each source
          Watermark,    \* frames of a source that start the playback
          Sample, Silence,
          One,          \* AUDIO_MIXER_Q15_ONE, the background fully ducked
          Attack, Release,   \* steps of duck_q15
          Block,        \* frames rendered by one interrupt
          Pcm,          \* what the writers may write
          PromptFrames, TailFrames,   \* the prompt, and the silence after it
          Chunk, StopLevel

Source == {"background", "voice"}

ASSUME RingAssumption ==
    /\ Capacity \in [Source -> Nat \ {0}]
    /\ Watermark \in [Source -> Nat]
    /\ Silence \in Sample
    /\ Block \in Nat \ {0}
    /\ \A pcm \in Pcm : pcm \in Seq(Sample) /\ pcm # <<>>
ASSUME DuckAssumption == One \in Nat /\ Attack \in Nat /\ Release \in Nat
\* boot_prompt_pcm_len is 190512: frames enough to start the playback.
ASSUME PromptAssumption ==
    /\ PromptFrames \in Nat /\ TailFrames \in Nat /\ Chunk \in Nat /\ StopLevel \in Nat
    /\ PromptFrames + TailFrames >= Watermark["background"]
    /\ Watermark["background"] <= Capacity["background"]

VARIABLES ring,      \* each source: read and write frame, level, active
          buffer,    \* the frames of each ring
          duck,      \* duck_q15
          left,      \* frames the running interrupt has still to render
          sink,      \* the codec's playback: off, armed, running
          starting,  \* the source whose start holds the session mutex
          notify,    \* sources whose writer saw the playback ready
          prompt,    \* the boot prompt: where it is, frames written
          out        \* the frame rendered last, by source (history)

vars == <<ring, buffer, duck, left, sink, starting, notify, prompt, out>>

Index(s) == 0..Capacity[s] - 1
Ring(s) == [read : Index(s), write : Index(s), level : 0..Capacity[s], active : BOOLEAN]

TypeOK ==
    /\ DOMAIN ring = Source /\ DOMAIN buffer = Source
    /\ \A s \in Source : ring[s] \in Ring(s) /\ buffer[s] \in [Index(s) -> Sample]
    /\ duck \in 0..One
    /\ left \in 0..Block
    /\ sink \in {"off", "armed", "running"}
    /\ starting \in Source \union {"none"}
    /\ notify \subseteq Source
    /\ prompt \in [at : {"start", "write", "tail", "drain", "done"}, written : Nat]
    /\ out \in [Source -> Sample]

Empty == [read |-> 0, write |-> 0, level |-> 0, active |-> FALSE]

\* main plays the prompt before it starts Bluetooth.
Init ==
    /\ ring = [s \in Source |-> Empty]
    /\ buffer = [s \in Source |-> [i \in Index(s) |-> Silence]]
    /\ duck = 0 /\ left = 0
    /\ sink = "off" /\ starting = "none" /\ notify = {}
    /\ prompt = [at |-> "start", written |-> 0]
    /\ out = [s \in Source |-> Silence]

Enabled == left = 0
Booted == prompt.at = "done"
Active(r) == {s \in Source : r[s].active}
MutexFree == starting = "none"

----------------------------------------------------------------------------
(* The ring.                                                                *)

\* Mutant: a position wraps one frame late.
ForwardLate(s, pos, i) == IF pos + i > Capacity[s] THEN (pos + i) - Capacity[s] ELSE pos + i

\* i frames on from a position, for i up to the capacity.
Forward(s, pos, i) == IF pos + i >= Capacity[s] THEN (pos + i) - Capacity[s] ELSE pos + i

\* Mutant: the oldest frames are uncounted and the read position stays.
DropUncounted(s, r, frames) ==
    [r EXCEPT !.level = IF frames > @ THEN 0 ELSE @ - frames]

\* audio_mixer_drop_oldest_locked.
DropOldest(s, r, frames) ==
    LET n == IF frames > r.level THEN r.level ELSE frames
    IN  [r EXCEPT !.read = (@ + n) % Capacity[s], !.level = @ - n]

\* What of n frames is written: the last ones, when the ring cannot hold all.
Kept(s, n) == IF n > Capacity[s] THEN Capacity[s] ELSE n

\* Room is made for n frames.
RoomFor(s, r, n) ==
    IF Capacity[s] - r.level < n THEN DropOldest(s, r, n - (Capacity[s] - r.level)) ELSE r

WrittenRing(s, r, n) ==
    LET room == RoomFor(s, r, n)
    IN  [room EXCEPT !.write = Forward(s, @, n), !.level = @ + n]

\* Mutant: of a write longer than the ring the first frames are kept.
WrittenFirst(s, b, r, n, pcm) ==
    [i \in Index(s) |->
        LET k == IF i >= r.write THEN i - r.write ELSE i + Capacity[s] - r.write
        IN  IF k < n THEN pcm[k + 1] ELSE b[i]]

\* The n last frames of pcm go to the places from the write position on.
WrittenBuffer(s, b, r, n, pcm) ==
    [i \in Index(s) |->
        LET k == IF i >= r.write THEN i - r.write ELSE i + Capacity[s] - r.write
        IN  IF k < n THEN pcm[Len(pcm) - n + k + 1] ELSE b[i]]

\* Mutant: the playback waits for both sources.
BothReady(r) == \A s \in Source : r[s].active /\ r[s].level >= Watermark[s]

\* audio_mixer_playback_ready_locked.
PlaybackReady(r) == \E s \in Source : r[s].active /\ r[s].level >= Watermark[s]

\* The section of audio_mixer_write with interrupts off.
WriteFrames(s, pcm) ==
    /\ ring[s].active
    /\ LET n == Kept(s, Len(pcm))
       IN  /\ ring' = [ring EXCEPT ![s] = WrittenRing(s, @, n)]
           /\ buffer' = [buffer EXCEPT ![s] = WrittenBuffer(s, @, ring[s], n, pcm)]
    /\ notify' = IF PlaybackReady(ring') THEN notify \union {s} ELSE notify
    /\ UNCHANGED <<duck, left, sink, starting, out>>

\* The rest of it, under the session mutex: the DMA starts, or fails to.
Notify(s) ==
    /\ Enabled /\ MutexFree
    /\ s \in notify
    /\ notify' = notify \ {s}
    /\ IF PlaybackReady(ring) /\ sink = "armed"
       THEN sink' \in {"running", "off"}
       ELSE UNCHANGED sink
    /\ UNCHANGED <<ring, buffer, duck, left, starting, prompt, out>>

Write(s) ==
    /\ Enabled /\ Booted
    /\ s \notin notify
    /\ \E pcm \in Pcm : WriteFrames(s, pcm)
    /\ UNCHANGED prompt

----------------------------------------------------------------------------
(* The sources.                                                             *)

\* A source that starts, with its ring reset; one that is active goes on.
Started(s, r) == IF r.active THEN r ELSE [Empty EXCEPT !.active = TRUE]

StartSource(s) ==
    /\ Enabled /\ MutexFree
    /\ ring' = [ring EXCEPT ![s] = Started(s, @)]
    /\ starting' = IF sink = "off" THEN s ELSE "none"
    /\ UNCHANGED <<buffer, duck, left, sink, notify, out>>

Start(s) == Booted /\ StartSource(s) /\ UNCHANGED prompt

\* duck_q15 is reset when no source is left.
DuckOf(r) == IF Active(r) = {} THEN 0 ELSE duck

\* es8311_audio_start_playback succeeded, or the start is rolled back.
SinkStarted ==
    /\ Enabled /\ ~MutexFree
    /\ sink' = "armed" /\ starting' = "none"
    /\ UNCHANGED <<ring, buffer, duck, left, notify, prompt, out>>

RollbackStart ==
    /\ Enabled /\ ~MutexFree
    /\ ring' = [ring EXCEPT ![starting] = Empty]
    /\ duck' = DuckOf(ring')
    /\ starting' = "none"
    /\ prompt' = [prompt EXCEPT !.at = IF Booted THEN @ ELSE "done"]
    /\ UNCHANGED <<buffer, left, sink, notify, out>>

\* Mutant: only stop_all stops the sink.
StopLeavesSink(S) ==
    /\ MutexFree
    /\ ring' = [s \in Source |-> IF s \in S THEN Empty ELSE ring[s]]
    /\ duck' = DuckOf(ring')
    /\ sink' = IF S = Source THEN "off" ELSE sink
    /\ UNCHANGED <<buffer, left, starting, notify, out>>

\* audio_mixer_source_stop and audio_mixer_stop_all: the sink stops with the
\* last source.  What it renders until then is silence.
StopSources(S) ==
    /\ MutexFree
    /\ ring' = [s \in Source |-> IF s \in S THEN Empty ELSE ring[s]]
    /\ duck' = DuckOf(ring')
    /\ sink' = IF Active(ring') = {} THEN "off" ELSE sink
    /\ UNCHANGED <<buffer, left, starting, notify, out>>

Stop ==
    /\ Enabled /\ Booted
    /\ \E S \in {{"background"}, {"voice"}, Source} : StopSources(S)
    /\ UNCHANGED prompt

----------------------------------------------------------------------------
(* audio_mixer_render_stereo, called by the DMA interrupt.                  *)

Interrupt ==
    /\ Enabled
    /\ sink = "running"
    /\ left' = Block
    /\ UNCHANGED <<ring, buffer, duck, sink, starting, notify, prompt, out>>

HasFrame(s) == ring[s].active /\ ring[s].level > 0

Taken(s, r) == [r EXCEPT !.read = Forward(s, @, 1), !.level = @ - 1]

\* The background is ducked while a voice frame plays over it.
NextDuck ==
    IF ring["background"].active /\ HasFrame("voice")
    THEN IF duck + Attack > One THEN One ELSE duck + Attack
    ELSE IF duck > Release THEN duck - Release ELSE 0

RenderFrame ==
    /\ left > 0
    /\ left' = left - 1
    /\ out' = [s \in Source |-> IF HasFrame(s) THEN buffer[s][ring[s].read] ELSE Silence]
    /\ ring' = [s \in Source |-> IF HasFrame(s) THEN Taken(s, ring[s]) ELSE ring[s]]
    /\ duck' = NextDuck
    /\ UNCHANGED <<buffer, sink, starting, notify, prompt>>

----------------------------------------------------------------------------
(* boot_prompt_play_once.  It writes no more than is free: what becomes free  *)
(* after it has looked only makes it write less than it could.                *)

Free(s) == Capacity[s] - ring[s].level

Quiet(n) == [i \in 1..n |-> Silence]

PromptWrites(at, frames, next) ==
    /\ Enabled /\ MutexFree
    /\ prompt.at = at /\ "background" \notin notify
    /\ IF prompt.written >= frames
       THEN /\ prompt' = [at |-> next, written |-> 0]
            /\ UNCHANGED <<ring, buffer, duck, left, sink, starting, notify, out>>
       ELSE \E n \in 1..Chunk :
                /\ n <= Free("background") /\ n <= frames - prompt.written
                /\ WriteFrames("background", Quiet(n))
                /\ prompt' = [prompt EXCEPT !.written = @ + n]

PromptStarts ==
    /\ prompt.at = "start"
    /\ StartSource("background")
    /\ prompt' = [prompt EXCEPT !.at = "write"]

\* The last frames need not be heard: the source stops when few are left.
PromptStops ==
    /\ Enabled
    /\ prompt.at = "drain"
    /\ "background" \notin notify
    /\ ring["background"].level <= StopLevel
    /\ StopSources({"background"})
    /\ prompt' = [prompt EXCEPT !.at = "done"]

Prompt ==
    \/ PromptStarts
    \/ PromptWrites("write", PromptFrames, "tail")
    \/ PromptWrites("tail", TailFrames, "drain")
    \/ PromptStops

\* It polls, asleep in between, while the ring is full or has frames to play.
PromptWaits ==
    /\ Enabled /\ MutexFree
    /\ \/ prompt.at \in {"write", "tail"} /\ Free("background") = 0
       \/ prompt.at = "drain" /\ ring["background"].level > StopLevel
    /\ UNCHANGED vars

----------------------------------------------------------------------------
Next ==
    \/ \E s \in Source : Write(s) \/ Notify(s) \/ Start(s)
    \/ SinkStarted \/ RollbackStart \/ Stop
    \/ Interrupt \/ RenderFrame
    \/ Prompt \/ PromptWaits

Spec == Init /\ [][Next]_vars

\* The DMA goes on interrupting, and main with its prompt.
LiveSpec ==
    /\ Spec
    /\ WF_vars(Interrupt) /\ WF_vars(RenderFrame)
    /\ WF_vars(SinkStarted \/ RollbackStart)
    /\ SF_vars(Prompt) /\ SF_vars(Notify("background"))

----------------------------------------------------------------------------
(* Properties.                                                              *)

\* The positions and the level of a ring agree, whatever wrapped or was
\* dropped: the level counts the frames from the read to the write position.
RingCoherent ==
    \A s \in Source : ring[s].write = Forward(s, ring[s].read, ring[s].level)

\* A source that is switched off holds no frames to be heard when it is
\* switched on again.
StoppedIsEmpty == \A s \in Source : ~ring[s].active => ring[s].level = 0

\* The background is never left ducked when nothing plays.
NothingDucked == Active(ring) = {} => duck = 0

\* The DMA runs for a source and stops with the last one; a start waiting for
\* the codec still has its source, which no stop took meanwhile.
SinkHasSource ==
    /\ sink # "off" => Active(ring) # {}
    /\ starting # "none" => sink = "off" /\ ring[starting].active

\* The frames waiting in a ring, in the order they will be played.
Frames(s, r, b) == [i \in 1..r.level |-> b[Forward(s, r.read, i - 1)]]

Queue == INSTANCE FrameQueue WITH
    queue <- [s \in Source |-> Frames(s, ring[s], buffer[s])], on <- Active(ring),
    Pcm <- Pcm \union {Quiet(n) : n \in 1..Chunk}

\* The rings play what the writers wrote, in order, dropping the oldest.
PlaysInOrder == Queue!Spec

\* The boot prompt ends, and with it the wait of main, unless the DMA fails.
PromptEnds == prompt.at = "write" /\ sink = "armed" ~> prompt.at = "done" \/ sink = "off"
=============================================================================
