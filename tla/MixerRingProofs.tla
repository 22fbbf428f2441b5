-------------------------- MODULE MixerRingProofs --------------------------
(* What holds of the mixer's data path for every capacity, watermark, step of *)
(* the ducking and length of the prompt; and that its rings implement the     *)
(* queue: what a source plays is what was written to it, in order.            *)
EXTENDS MixerRing, SequenceTheorems, TLAPS

----------------------------------------------------------------------------
(* One ring.                                                                *)

\* A ring of s whose positions and level agree, and that is empty when off.
Good(s, r) ==
    /\ r \in Ring(s)
    /\ r.write = Forward(s, r.read, r.level)
    /\ ~r.active => r.level = 0

\* Going at most once around, the remainder is the wrap of the code's loops.
LEMMA ModWraps ==
    ASSUME NEW c \in Nat \ {0}, NEW x \in Nat, x < c + c
    PROVE  x % c = IF x >= c THEN x - c ELSE x
  <1>1. CASE x < c
    BY <1>1, SMT
  <1>2. CASE x >= c
    BY <1>2, SMT
  <1> QED BY <1>1, <1>2

\* Every ring has room for a frame.
LEMMA CapacityPositive ==
    ASSUME NEW s \in Source PROVE Capacity[s] \in Nat \ {0}
  BY RingAssumption DEF RingAssumption

\* Forward is the remainder, for positions of a ring and steps up to its length.
LEMMA ForwardIsMod ==
    ASSUME NEW s \in Source, NEW pos \in 0..Capacity[s] - 1, NEW i \in 0..Capacity[s]
    PROVE  (pos + i) % Capacity[s] = Forward(s, pos, i)
  <1> DEFINE c == Capacity[s]
             x == pos + i
  <1>1. c \in Nat \ {0} /\ x \in Nat /\ x < c + c
    BY CapacityPositive
  <1>2. Forward(s, pos, i) = IF x >= c THEN x - c ELSE x
    BY DEF Forward
  <1> HIDE DEF c, x
  <1>3. x % c = IF x >= c THEN x - c ELSE x
    BY <1>1, ModWraps
  <1> QED BY <1>2, <1>3 DEF c, x

\* A reset ring is good, switched on or not.
LEMMA EmptyGood ==
    ASSUME NEW s \in Source, NEW on \in BOOLEAN
    PROVE  Good(s, [Empty EXCEPT !.active = on])
  BY CapacityPositive DEF Good, Ring, Index, Forward, Empty

\* A source that starts has a good ring and is active.
LEMMA StartedGood ==
    ASSUME NEW s \in Source, NEW r, Good(s, r)
    PROVE  Good(s, Started(s, r)) /\ Started(s, r).active
  <1>1. CASE r.active
    BY <1>1 DEF Started
  <1>2. CASE ~r.active
    <2>1. Started(s, r) = [Empty EXCEPT !.active = TRUE]
      BY <1>2 DEF Started
    <2> QED BY <2>1, EmptyGood DEF Empty
  <1> QED BY <1>1, <1>2

\* Dropping the oldest frames keeps the ring good and makes room for as many.
LEMMA DropGood ==
    ASSUME NEW s \in Source, NEW r, Good(s, r), NEW frames \in 0..r.level
    PROVE  LET d == DropOldest(s, r, frames)
           IN  /\ Good(s, d)
               /\ d.level = r.level - frames
               /\ d.write = r.write /\ d.active = r.active
               /\ d.read = Forward(s, r.read, frames)
  <1> DEFINE d == DropOldest(s, r, frames)
  <1>1. /\ Capacity[s] \in Nat \ {0}
        /\ r.read \in 0..Capacity[s] - 1 /\ r.write \in 0..Capacity[s] - 1
        /\ r.level \in 0..Capacity[s]
        /\ frames \in Nat
    BY CapacityPositive DEF Good, Ring, Index
  <1>2. (r.read + frames) % Capacity[s] = Forward(s, r.read, frames)
    BY <1>1, ForwardIsMod
  <1>3. d = [r EXCEPT !.read = Forward(s, r.read, frames), !.level = @ - frames]
    <2>1. (IF frames > r.level THEN r.level ELSE frames) = frames
      BY <1>1
    <2> QED BY <1>2, <2>1, Zenon DEF DropOldest, d
  <1>4. /\ d.read = Forward(s, r.read, frames) /\ d.write = r.write
        /\ d.level = r.level - frames /\ d.active = r.active
    BY <1>3 DEF Good, Ring
  <1>5. Forward(s, Forward(s, r.read, frames), r.level - frames) = Forward(s, r.read, r.level)
    BY <1>1 DEF Forward
  <1>6. Forward(s, r.read, frames) \in Index(s) /\ r.level - frames \in 0..Capacity[s]
    BY <1>1 DEF Forward, Index
  <1>7. d \in Ring(s)
    BY <1>3, <1>6 DEF Good, Ring
  <1> QED BY <1>1, <1>4, <1>5, <1>7 DEF Good

\* Room is made for what is written, and not more.
LEMMA RoomGood ==
    ASSUME NEW s \in Source, NEW r, Good(s, r), NEW n \in 0..Capacity[s]
    PROVE  LET room == RoomFor(s, r, n)
           IN  /\ Good(s, room) /\ room.write = r.write /\ room.active = r.active
               /\ room.level + n <= Capacity[s]
  <1>1. Capacity[s] \in Nat /\ r.level \in 0..Capacity[s]
    BY CapacityPositive DEF Good, Ring
  <1>2. CASE Capacity[s] - r.level < n
    <2> DEFINE frames == n - (Capacity[s] - r.level)
    <2>1. frames \in 0..r.level
      BY <1>1, <1>2
    <2>2. RoomFor(s, r, n) = DropOldest(s, r, frames)
      BY <1>2 DEF RoomFor
    <2>3. r.level - frames + n = Capacity[s]
      BY <1>1
    <2> HIDE DEF frames
    <2> QED BY <1>1, <2>1, <2>2, <2>3, DropGood
  <1>3. CASE ~(Capacity[s] - r.level < n)
    BY <1>1, <1>3 DEF RoomFor
  <1> QED BY <1>2, <1>3

\* A write of what fits the ring at most keeps it good.
LEMMA WrittenGood ==
    ASSUME NEW s \in Source, NEW r, Good(s, r), r.active, NEW n \in 0..Capacity[s]
    PROVE  Good(s, WrittenRing(s, r, n)) /\ WrittenRing(s, r, n).active
  <1> DEFINE room == RoomFor(s, r, n)
             c == Capacity[s]
  <1>1. /\ Good(s, room) /\ room.active
        /\ room.level + n <= c
    BY RoomGood
  <1>2. WrittenRing(s, r, n) = [room EXCEPT !.write = Forward(s, @, n), !.level = @ + n]
    BY DEF WrittenRing
  <1> HIDE DEF room
  <1>3. /\ c \in Nat \ {0}
        /\ room.read \in 0..c - 1 /\ room.write \in 0..c - 1 /\ room.level \in 0..c
        /\ room = [read |-> room.read, write |-> room.write, level |-> room.level,
                   active |-> room.active]
        /\ room.write = Forward(s, room.read, room.level)
    BY <1>1, CapacityPositive DEF Good, Ring, Index
  <1>4. Forward(s, room.write, n) = Forward(s, room.read, room.level + n)
    BY <1>1, <1>3 DEF Forward
  <1>5. Forward(s, room.write, n) \in 0..c - 1 /\ room.level + n \in 0..c
    BY <1>1, <1>3 DEF Forward
  <1> QED BY <1>1, <1>2, <1>3, <1>4, <1>5 DEF Good, Ring, Index

\* So does taking one frame from it.
LEMMA TakenGood ==
    ASSUME NEW s \in Source, NEW r, Good(s, r), r.active, r.level > 0
    PROVE  Good(s, Taken(s, r)) /\ Taken(s, r).active
  <1>1. /\ Capacity[s] \in Nat \ {0}
        /\ r.read \in 0..Capacity[s] - 1
        /\ r.level \in 1..Capacity[s]
    BY CapacityPositive DEF Good, Ring, Index
  <1>2. Taken(s, r) = [r EXCEPT !.read = Forward(s, r.read, 1), !.level = @ - 1]
    BY DEF Taken
  <1>3. Forward(s, Forward(s, r.read, 1), r.level - 1) = Forward(s, r.read, r.level)
    BY <1>1 DEF Forward
  <1>4. Forward(s, r.read, 1) \in Index(s) /\ r.level - 1 \in 0..Capacity[s]
    BY <1>1 DEF Forward, Index
  <1>5. Taken(s, r) \in Ring(s)
    BY <1>2, <1>4 DEF Good, Ring
  <1>6. /\ Taken(s, r).read = Forward(s, r.read, 1) /\ Taken(s, r).write = r.write
        /\ Taken(s, r).level = r.level - 1 /\ Taken(s, r).active
    BY <1>2 DEF Good, Ring
  <1> QED BY <1>3, <1>5, <1>6 DEF Good

----------------------------------------------------------------------------
(* The invariant: the properties together.                                  *)

RingsGood == DOMAIN ring = Source /\ \A s \in Source : Good(s, ring[s])
BuffersTyped == DOMAIN buffer = Source /\ \A s \in Source : buffer[s] \in [Index(s) -> Sample]
RestTyped ==
    /\ duck \in 0..One
    /\ left \in 0..Block
    /\ sink \in {"off", "armed", "running"}
    /\ starting \in Source \union {"none"}
    /\ notify \subseteq Source
    /\ prompt \in [at : {"start", "write", "tail", "drain", "done"}, written : Nat]
    /\ out \in [Source -> Sample]

Inv == RingsGood /\ BuffersTyped /\ RestTyped /\ NothingDucked /\ SinkHasSource

\* The invariant gives every state property checked by the runs.
LEMMA InvSays ==
    Inv => TypeOK /\ RingCoherent /\ StoppedIsEmpty /\ NothingDucked /\ SinkHasSource
  BY DEF Inv, RingsGood, BuffersTyped, RestTyped, Good, TypeOK, RingCoherent, StoppedIsEmpty

\* It holds at power-up.
LEMMA InitInv == Init => Inv
  <1> SUFFICES ASSUME Init PROVE Inv
    OBVIOUS
  <1>1. RingsGood
    <2>1. \A s \in Source : Good(s, Empty)
      BY CapacityPositive DEF Good, Ring, Index, Forward, Empty
    <2> QED BY <2>1 DEF Init, RingsGood
  <1>2. BuffersTyped /\ RestTyped
    BY RingAssumption, DuckAssumption DEF RingAssumption, DuckAssumption,
        Init, BuffersTyped, RestTyped, Source
  <1>3. NothingDucked /\ SinkHasSource
    BY DEF Init, NothingDucked, SinkHasSource
  <1> QED BY <1>1, <1>2, <1>3 DEF Inv

\* A write keeps the rings good, the frames samples and its source active.
LEMMA WriteKeeps ==
    ASSUME Inv, NEW s \in Source, NEW pcm \in Seq(Sample), WriteFrames(s, pcm)
    PROVE  /\ RingsGood' /\ BuffersTyped'
           /\ Active(ring') # {} /\ Active(ring') = Active(ring)
           /\ notify' \subseteq Source
  <1> DEFINE n == Kept(s, Len(pcm))
  <1>1. Good(s, ring[s]) /\ ring[s].active /\ Capacity[s] \in Nat \ {0} /\ Len(pcm) \in Nat
    BY CapacityPositive DEF Inv, RingsGood, WriteFrames
  <1>2. n \in 0..Capacity[s] /\ n <= Len(pcm)
    BY <1>1 DEF Kept
  <1>3. /\ ring' = [ring EXCEPT ![s] = WrittenRing(s, ring[s], n)]
        /\ buffer' = [buffer EXCEPT ![s] = WrittenBuffer(s, buffer[s], ring[s], n, pcm)]
    BY DEF WriteFrames
  <1> HIDE DEF n
  <1>4. Good(s, WrittenRing(s, ring[s], n)) /\ WrittenRing(s, ring[s], n).active
    BY <1>1, <1>2, WrittenGood
  <1>5. RingsGood'
    BY <1>3, <1>4 DEF Inv, RingsGood
  <1>6. WrittenBuffer(s, buffer[s], ring[s], n, pcm) \in [Index(s) -> Sample]
    <2> DEFINE k(i) == IF i >= ring[s].write THEN i - ring[s].write
                       ELSE i + Capacity[s] - ring[s].write
    <2>1. ASSUME NEW i \in Index(s), k(i) < n
          PROVE  pcm[Len(pcm) - n + k(i) + 1] \in Sample
      <3>1. k(i) \in Nat
        BY <1>1 DEF Good, Ring, Index
      <3>2. Len(pcm) - n + k(i) + 1 \in 1..Len(pcm)
        BY <1>1, <1>2, <2>1, <3>1
      <3> QED BY <3>2
    <2>2. ASSUME NEW i \in Index(s) PROVE buffer[s][i] \in Sample
      BY <2>2 DEF Inv, BuffersTyped
    <2> QED BY <2>1, <2>2 DEF WrittenBuffer
  <1>7. BuffersTyped'
    BY <1>3, <1>6 DEF Inv, BuffersTyped
  <1>8. Active(ring') = Active(ring) /\ s \in Active(ring)
    BY <1>1, <1>3, <1>4 DEF Active, Inv, RingsGood
  <1>9. notify' \subseteq Source
    BY DEF WriteFrames, Inv, RestTyped
  <1> QED BY <1>5, <1>7, <1>8, <1>9

\* audio_mixer_write keeps the invariant, whoever calls it.
LEMMA WriteFramesInv ==
    ASSUME Inv, NEW s \in Source, NEW pcm \in Seq(Sample), WriteFrames(s, pcm),
           prompt' \in [at : {"start", "write", "tail", "drain", "done"}, written : Nat]
    PROVE  Inv'
  <1>1. /\ RingsGood' /\ BuffersTyped'
        /\ Active(ring') # {} /\ Active(ring') = Active(ring)
        /\ notify' \subseteq Source
    BY WriteKeeps
  <1>2. duck' = duck /\ left' = left /\ sink' = sink /\ starting' = starting /\ out' = out
    BY DEF WriteFrames
  <1>3. RestTyped'
    BY <1>1, <1>2 DEF Inv, RestTyped
  <1>4. NothingDucked'
    BY <1>1 DEF NothingDucked
  <1>5. SinkHasSource'
    BY <1>1, <1>2 DEF Inv, SinkHasSource, Active, RestTyped
  <1> QED BY <1>1, <1>3, <1>4, <1>5 DEF Inv

\* So does the start of the DMA, or its failure.
LEMMA NotifyInv ==
    ASSUME Inv, NEW s \in Source, Notify(s) PROVE Inv'
  <1>1. ring' = ring /\ buffer' = buffer /\ duck' = duck /\ starting' = starting /\ starting = "none"
    BY DEF Notify, MutexFree
  <1>2. RingsGood' /\ BuffersTyped' /\ NothingDucked'
    BY <1>1 DEF Inv, RingsGood, BuffersTyped, NothingDucked
  <1>3. RestTyped'
    BY DEF Notify, Inv, RestTyped
  <1>4. SinkHasSource'
    BY <1>1 DEF Notify, Inv, SinkHasSource
  <1> QED BY <1>2, <1>3, <1>4 DEF Inv

\* audio_mixer_source_start, up to the codec.
LEMMA StartInv ==
    ASSUME Inv, NEW s \in Source, StartSource(s),
           prompt' \in [at : {"start", "write", "tail", "drain", "done"}, written : Nat]
    PROVE  Inv'
  <1>1. /\ ring' = [ring EXCEPT ![s] = Started(s, ring[s])]
        /\ buffer' = buffer /\ duck' = duck /\ sink' = sink
        /\ starting' = IF sink = "off" THEN s ELSE "none"
    BY DEF StartSource
  <1>2. Good(s, Started(s, ring[s])) /\ Started(s, ring[s]).active
    BY StartedGood DEF Inv, RingsGood
  <1>3. RingsGood' /\ ring'[s].active
    BY <1>1, <1>2 DEF Inv, RingsGood
  <1>4. BuffersTyped' /\ RestTyped'
    BY <1>1 DEF StartSource, Inv, BuffersTyped, RestTyped
  <1>5. s \in Active(ring')
    BY <1>3 DEF Active
  <1>6. NothingDucked' /\ SinkHasSource'
    BY <1>1, <1>3, <1>5 DEF NothingDucked, SinkHasSource
  <1> QED BY <1>3, <1>4, <1>6 DEF Inv

\* audio_mixer_rollback_source_start.
LEMMA RollbackInv ==
    ASSUME Inv, RollbackStart PROVE Inv'
  <1>1. /\ ring' = [ring EXCEPT ![starting] = Empty] /\ starting' = "none"
        /\ buffer' = buffer /\ duck' = DuckOf(ring') /\ sink' = sink
        /\ starting \in Source /\ sink = "off"
    BY DEF RollbackStart, MutexFree, Inv, RestTyped, SinkHasSource
  <1>2. Good(starting, Empty)
    BY <1>1, CapacityPositive DEF Good, Ring, Index, Forward, Empty
  <1>3. RingsGood'
    BY <1>1, <1>2 DEF Inv, RingsGood
  <1>4. BuffersTyped' /\ RestTyped'
    BY <1>1, DuckAssumption DEF RollbackStart, Inv, BuffersTyped, RestTyped, DuckOf, DuckAssumption
  <1>5. NothingDucked' /\ SinkHasSource'
    BY <1>1 DEF NothingDucked, SinkHasSource, DuckOf
  <1> QED BY <1>3, <1>4, <1>5 DEF Inv

\* audio_mixer_source_stop and audio_mixer_stop_all.
LEMMA StopInv ==
    ASSUME Inv, NEW S \in SUBSET Source, StopSources(S),
           prompt' \in [at : {"start", "write", "tail", "drain", "done"}, written : Nat]
    PROVE  Inv'
  <1>1. /\ ring' = [s \in Source |-> IF s \in S THEN Empty ELSE ring[s]]
        /\ starting' = starting /\ starting = "none"
        /\ buffer' = buffer /\ duck' = DuckOf(ring')
        /\ sink' = IF Active(ring') = {} THEN "off" ELSE sink
    BY DEF StopSources, MutexFree
  <1>2. \A s \in Source : Good(s, Empty)
    BY CapacityPositive DEF Good, Ring, Index, Forward, Empty
  <1>3. RingsGood'
    BY <1>1, <1>2 DEF Inv, RingsGood
  <1>4. BuffersTyped' /\ RestTyped'
    BY <1>1, DuckAssumption DEF StopSources, Inv, BuffersTyped, RestTyped, DuckOf, DuckAssumption
  <1>5. NothingDucked' /\ SinkHasSource'
    BY <1>1 DEF NothingDucked, SinkHasSource, DuckOf
  <1> QED BY <1>3, <1>4, <1>5 DEF Inv

\* What a source plays of a frame is good for the ring that is left.
LEMMA RenderInv ==
    ASSUME Inv, RenderFrame PROVE Inv'
  <1>1. /\ ring' = [s \in Source |-> IF HasFrame(s) THEN Taken(s, ring[s]) ELSE ring[s]]
        /\ buffer' = buffer /\ duck' = NextDuck
        /\ sink' = sink /\ starting' = starting
    BY DEF RenderFrame
  <1>2. \A s \in Source : HasFrame(s) => Good(s, Taken(s, ring[s])) /\ Taken(s, ring[s]).active
    BY TakenGood DEF HasFrame, Inv, RingsGood
  <1>3. RingsGood'
    BY <1>1, <1>2 DEF Inv, RingsGood
  <1>4. \A s \in Source : ring'[s].active = ring[s].active
    BY <1>1, <1>2 DEF HasFrame, Inv, RingsGood, Good, Ring
  <1>5. Active(ring') = Active(ring)
    BY <1>4 DEF Active
  <1>6. duck' \in 0..One
    BY <1>1, DuckAssumption DEF NextDuck, DuckAssumption, Inv, RestTyped
  <1>7. out' \in [Source -> Sample]
    <2>1. \A s \in Source : buffer[s][ring[s].read] \in Sample
      BY DEF Inv, BuffersTyped, RingsGood, Good, Ring
    <2> QED BY <2>1, RingAssumption DEF RenderFrame, RingAssumption
  <1>8. left' \in 0..Block
    BY RingAssumption DEF RenderFrame, Inv, RestTyped, RingAssumption
  <1>9. BuffersTyped' /\ RestTyped'
    BY <1>1, <1>6, <1>7, <1>8 DEF RenderFrame, Inv, BuffersTyped, RestTyped
  <1>10. NothingDucked'
    <2>1. Active(ring) = {} => ~ring["background"].active /\ duck = 0
      BY DEF Active, Source, Inv, NothingDucked
    <2>2. Active(ring) = {} => NextDuck = 0
      BY <2>1, DuckAssumption DEF NextDuck, DuckAssumption
    <2> QED BY <1>1, <1>5, <2>2 DEF NothingDucked
  <1>11. SinkHasSource'
    BY <1>1, <1>4, <1>5 DEF Inv, SinkHasSource, RestTyped
  <1> QED BY <1>3, <1>9, <1>10, <1>11 DEF Inv

\* Every step keeps the invariant: one step of the proof for each action.
LEMMA NextInv == Inv /\ [Next]_vars => Inv'
  <1> SUFFICES ASSUME Inv, [Next]_vars PROVE Inv'
    OBVIOUS
  <1> USE DEF Inv
  <1>1. ASSUME NEW s \in Source, Write(s) PROVE Inv'
    <2>1. PICK pcm \in Pcm : WriteFrames(s, pcm)
      BY <1>1 DEF Write
    <2>2. pcm \in Seq(Sample)
      BY RingAssumption DEF RingAssumption
    <2>3. prompt' = prompt
      BY <1>1 DEF Write
    <2> QED BY <2>1, <2>2, <2>3, WriteFramesInv DEF RestTyped
  <1>2. ASSUME NEW s \in Source, Start(s) PROVE Inv'
    BY <1>2, StartInv DEF Start, RestTyped
  <1>3. CASE SinkStarted
    <2>1. RingsGood' /\ BuffersTyped' /\ RestTyped' /\ NothingDucked'
      BY <1>3 DEF SinkStarted, RingsGood, BuffersTyped, RestTyped, NothingDucked
    <2>2. SinkHasSource'
      BY <1>3 DEF SinkStarted, MutexFree, SinkHasSource, RestTyped, Active
    <2> QED BY <2>1, <2>2
  <1>4. CASE Stop
    <2>1. PICK S \in SUBSET Source : StopSources(S)
      BY <1>4 DEF Stop, Source
    <2> QED BY <1>4, <2>1, StopInv DEF Stop, RestTyped
  <1>5. CASE Interrupt
    BY <1>5, RingAssumption DEF Interrupt, RingAssumption, RingsGood, BuffersTyped,
        RestTyped, NothingDucked, SinkHasSource
  <1>6. CASE Prompt
    <2>1. CASE PromptStarts
      BY <2>1, StartInv DEF PromptStarts, Source, RestTyped
    <2>2. ASSUME NEW at, NEW frames, NEW next \in {"tail", "drain"},
                 PromptWrites(at, frames, next)
          PROVE  Inv'
      <3>1. CASE prompt.written >= frames
        BY <2>2, <3>1 DEF PromptWrites, RingsGood, BuffersTyped, RestTyped,
            NothingDucked, SinkHasSource
      <3>2. CASE ~(prompt.written >= frames)
        <4>1. PICK n \in 1..Chunk :
                /\ WriteFrames("background", Quiet(n))
                /\ prompt' = [prompt EXCEPT !.written = @ + n]
          BY <2>2, <3>2 DEF PromptWrites
        <4>2. Quiet(n) \in Seq(Sample)
          BY RingAssumption, PromptAssumption DEF Quiet, RingAssumption, PromptAssumption
        <4>3. prompt' \in [at : {"start", "write", "tail", "drain", "done"}, written : Nat]
          BY <4>1, PromptAssumption DEF RestTyped, PromptAssumption
        <4> QED BY <4>1, <4>2, <4>3, WriteFramesInv DEF Source
      <3> QED BY <3>1, <3>2
    <2>3. CASE PromptStops
      BY <2>3, StopInv DEF PromptStops, Source, RestTyped
    <2> QED BY <1>6, <2>1, <2>2, <2>3 DEF Prompt
  <1>7. CASE UNCHANGED vars
    BY <1>7 DEF vars, RingsGood, BuffersTyped, RestTyped, NothingDucked, SinkHasSource
  <1>8. CASE PromptWaits
    BY <1>8, <1>7 DEF PromptWaits
  <1> QED BY <1>1, <1>2, <1>3, <1>4, <1>5, <1>6, <1>7, <1>8,
             NotifyInv, RollbackInv, RenderInv DEF Next

----------------------------------------------------------------------------
(* The theorems about the data path.                                          *)

\* The invariant holds of every behaviour.
LEMMA SpecInv == Spec => []Inv
  BY InitInv, NextInv, PTL DEF Spec

\* The mixer's state keeps its type: no position leaves its ring and no level
\* exceeds the capacity, with the writers' and the renderer's wraps alike.
THEOREM TypeCorrect == Spec => []TypeOK
  BY SpecInv, InvSays, PTL

\* Read position, write position and level agree after every write, drop,
\* frame rendered and reset.
THEOREM RingsAgree == Spec => []RingCoherent
  BY SpecInv, InvSays, PTL

\* A source that is off has nothing left to play.
THEOREM StoppedPlaysNothing == Spec => []StoppedIsEmpty
  BY SpecInv, InvSays, PTL

\* With no source the background is not ducked.
THEOREM DuckEndsWithSources == Spec => []NothingDucked
  BY SpecInv, InvSays, PTL

\* The sink has a source, and a start that waits for it keeps its own.
THEOREM SinkFollowsSources == Spec => []SinkHasSource
  BY SpecInv, InvSays, PTL

----------------------------------------------------------------------------
(* The frames of one ring as a sequence.                                    *)

\* The frames of a ring are a sequence of samples, as long as its level.
LEMMA FramesSequence ==
    ASSUME NEW s \in Source, NEW r, Good(s, r), NEW b \in [Index(s) -> Sample]
    PROVE  /\ Frames(s, r, b) \in Seq(Sample)
           /\ Len(Frames(s, r, b)) = r.level
           /\ \A i \in 1..r.level : Frames(s, r, b)[i] = b[Forward(s, r.read, i - 1)]
  <1>1. r.level \in Nat /\ r.level <= Capacity[s] /\ r.read \in 0..Capacity[s] - 1 /\ Capacity[s] \in Nat
    BY CapacityPositive DEF Good, Ring, Index
  <1>2. ASSUME NEW i \in 1..r.level PROVE b[Forward(s, r.read, i - 1)] \in Sample
    <2>1. Forward(s, r.read, i - 1) \in Index(s)
      BY <1>1 DEF Forward, Index
    <2> QED BY <2>1
  <1> QED BY <1>1, <1>2 DEF Frames

\* A ring without frames is the empty queue.
LEMMA NoFrames ==
    ASSUME NEW s \in Source, NEW r, r.level = 0, NEW b
    PROVE  Frames(s, r, b) = <<>>
  BY DEF Frames

\* Rendering a frame takes the head of the queue.
LEMMA TakenFrames ==
    ASSUME NEW s \in Source, NEW r, Good(s, r), r.active, r.level > 0,
           NEW b \in [Index(s) -> Sample]
    PROVE  /\ Frames(s, r, b) # <<>>
           /\ Head(Frames(s, r, b)) = b[r.read]
           /\ Tail(Frames(s, r, b)) = Frames(s, Taken(s, r), b)
  <1> DEFINE q == Frames(s, r, b)
             t == Frames(s, Taken(s, r), b)
  <1>1. /\ r.level \in Nat \ {0} /\ r.level <= Capacity[s] /\ Capacity[s] \in Nat
        /\ r.read \in 0..Capacity[s] - 1
    BY CapacityPositive DEF Good, Ring, Index
  <1>2. /\ q \in Seq(Sample) /\ Len(q) = r.level
        /\ \A i \in 1..r.level : q[i] = b[Forward(s, r.read, i - 1)]
    BY FramesSequence
  <1>3. Taken(s, r).level = r.level - 1 /\ Taken(s, r).read = Forward(s, r.read, 1)
    BY DEF Taken, Good, Ring
  <1>4. /\ t \in Seq(Sample) /\ Len(t) = r.level - 1
        /\ \A i \in 1..r.level - 1 : t[i] = b[Forward(s, Forward(s, r.read, 1), i - 1)]
    BY <1>3, TakenGood, FramesSequence
  <1>5. \A i \in 1..r.level - 1 :
            Forward(s, Forward(s, r.read, 1), i - 1) = Forward(s, r.read, (i + 1) - 1)
    BY <1>1 DEF Forward
  <1>6. Forward(s, r.read, 1 - 1) = r.read
    BY <1>1 DEF Forward
  <1> HIDE DEF q, t
  <1>7. q # <<>> /\ Head(q) = b[r.read]
    BY <1>1, <1>2, <1>6
  <1>8. Tail(q) \in Seq(Sample) /\ Len(Tail(q)) = r.level - 1
    BY <1>1, <1>2
  <1>9. ASSUME NEW i \in 1..r.level - 1 PROVE Tail(q)[i] = t[i]
    <2>1. Tail(q)[i] = q[i + 1] /\ i + 1 \in 1..r.level
      BY <1>1, <1>2
    <2> QED BY <1>2, <1>4, <1>5, <2>1
  <1>10. Tail(q) = t
    BY <1>4, <1>8, <1>9
  <1> QED BY <1>7, <1>10 DEF q, t

\* Where the i-th frame lies after a write of n: it is an old one, n places or
\* more behind the old write position, or the (i - kept)-th of the new ones.
LEMMA Positions ==
    ASSUME NEW s \in Source, NEW read \in 0..Capacity[s] - 1, NEW L \in 0..Capacity[s],
           NEW n \in 0..Capacity[s], NEW kept \in 0..L, kept + n <= Capacity[s],
           NEW i \in 1..kept + n,
           NEW write, write = Forward(s, read, L),
           NEW first, first = Forward(s, read, L - kept)
    PROVE  LET p == Forward(s, first, i - 1)
               k == IF p >= write THEN p - write ELSE p + Capacity[s] - write
           IN  /\ p \in 0..Capacity[s] - 1
               /\ i <= kept => k >= n /\ p = Forward(s, read, (L - kept + i) - 1)
               /\ i > kept => k = i - 1 - kept
  <1> DEFINE c == Capacity[s]
             w == read + L
             f == read + (L - kept)
             g == first + (i - 1)
             p == IF g >= c THEN g - c ELSE g
  <1>1. c \in Nat \ {0}
    BY CapacityPositive
  <1>2. /\ write = IF w >= c THEN w - c ELSE w
        /\ first = IF f >= c THEN f - c ELSE f
        /\ Forward(s, first, i - 1) = p
    BY DEF Forward
  <1>3. p \in 0..c - 1
    BY <1>1, <1>2
  <1>4. ASSUME i <= kept
        PROVE  /\ (IF p >= write THEN p - write ELSE p + c - write) >= n
               /\ p = Forward(s, read, (L - kept + i) - 1)
    BY <1>1, <1>2, <1>4 DEF Forward
  <1>5. ASSUME i > kept
        PROVE  (IF p >= write THEN p - write ELSE p + c - write) = i - 1 - kept
    BY <1>1, <1>2, <1>5
  <1> QED BY <1>2, <1>3, <1>4, <1>5

\* What a write leaves of the ring: the frames kept, from the place the read
\* position moved to, and room for the new ones.
LEMMA RoomKeeps ==
    ASSUME NEW s \in Source, NEW r, Good(s, r), NEW n \in 0..Capacity[s]
    PROVE  LET room == RoomFor(s, r, n)
           IN  /\ room.level \in 0..r.level
               /\ room.level = IF Capacity[s] - r.level < n THEN Capacity[s] - n ELSE r.level
               /\ room.read = Forward(s, r.read, r.level - room.level)
               /\ room.write = r.write
               /\ Good(s, room)
  <1> DEFINE room == RoomFor(s, r, n)
  <1>1. /\ Capacity[s] \in Nat \ {0} /\ r.level \in 0..Capacity[s]
        /\ r.read \in 0..Capacity[s] - 1
    BY CapacityPositive DEF Good, Ring, Index
  <1>2. CASE Capacity[s] - r.level < n
    <2> DEFINE frames == n - (Capacity[s] - r.level)
    <2>1. frames \in 0..r.level
      BY <1>1, <1>2
    <2>2. room = DropOldest(s, r, frames)
      BY <1>2 DEF RoomFor
    <2>3. r.level - frames = Capacity[s] - n /\ frames = r.level - (Capacity[s] - n)
      BY <1>1
    <2> HIDE DEF frames, room
    <2>4. /\ Good(s, room) /\ room.level = r.level - frames /\ room.write = r.write
          /\ room.read = Forward(s, r.read, frames)
      BY <2>1, <2>2, DropGood
    <2>5. room.level \in 0..r.level
      BY <1>1, <2>1, <2>4
    <2>6. room.level = Capacity[s] - n
      BY <2>3, <2>4
    <2>7. room.read = Forward(s, r.read, r.level - room.level)
      BY <2>3, <2>4, <2>6
    <2> QED BY <1>2, <2>4, <2>5, <2>6, <2>7 DEF room
  <1>3. CASE ~(Capacity[s] - r.level < n)
    <2>1. room = r
      BY <1>3 DEF RoomFor
    <2>2. Forward(s, r.read, r.level - r.level) = r.read
      BY <1>1 DEF Forward
    <2> QED BY <1>1, <1>3, <2>1, <2>2
  <1> QED BY <1>2, <1>3

\* The newest frames of two sequences joined, by their place in either.
LEMMA NewestJoined ==
    ASSUME NEW S, NEW u \in Seq(S), NEW v \in Seq(S), NEW c \in Nat
    PROVE  LET q == Queue!Newest(u \o v, c)
               n == IF Len(u) + Len(v) > c THEN c ELSE Len(u) + Len(v)
               d == (Len(u) + Len(v)) - n
           IN  /\ q \in Seq(S) /\ Len(q) = n
               /\ \A i \in 1..n : q[i] = IF d + i <= Len(u) THEN u[d + i] ELSE v[(d + i) - Len(u)]
  <1> DEFINE all == u \o v
             len == Len(u) + Len(v)
             n == IF len > c THEN c ELSE len
             d == len - n
             q == Queue!Newest(all, c)
             at(i) == IF i <= Len(u) THEN u[i] ELSE v[i - Len(u)]
  <1>1. Len(u) \in Nat /\ Len(v) \in Nat
    BY LenProperties
  <1>2. all \in Seq(S) /\ Len(all) = len /\ \A i \in 1..len : all[i] = at(i)
    BY ConcatProperties
  <1>3. len \in Nat /\ n \in 0..len /\ d \in Nat /\ d + n = len
    BY <1>1
  <1>4. q = IF len > c THEN SubSeq(all, len - c + 1, len) ELSE all
    BY <1>2 DEF Queue!Newest
  <1>5. q \in Seq(S) /\ Len(q) = n /\ \A i \in 1..n : q[i] = all[d + i]
    <2>1. CASE len > c
      <3>1. n = c /\ d + 1 = len - c + 1
        BY <1>3, <2>1
      <3> HIDE DEF all, len, n, d, q
      <3>2. q = SubSeq(all, d + 1, len)
        BY <1>4, <2>1, <3>1
      <3>3. \A i \in d + 1..len : all[i] \in S
        BY <1>2, <1>3, ElementOfSeq
      <3>4. /\ q \in Seq(S)
            /\ Len(q) = IF d + 1 <= len THEN len - (d + 1) + 1 ELSE 0
            /\ \A i \in 1..len - (d + 1) + 1 : q[i] = all[(d + 1) + i - 1]
        BY <1>3, <3>2, <3>3, SubSeqProperties
      <3> QED BY <1>3, <3>4
    <2>2. CASE ~(len > c)
      <3>1. n = len /\ d = 0 /\ q = all
        BY <1>3, <1>4, <2>2
      <3> HIDE DEF all, len, n, d, q
      <3> QED BY <1>2, <1>3, <3>1
    <2> QED BY <2>1, <2>2
  <1>6. \A i \in 1..n : d + i \in 1..len
    BY <1>3
  <1> HIDE DEF all, len, n, d, q, at
  <1>7. \A i \in 1..n : q[i] = at(d + i)
    BY <1>2, <1>5, <1>6
  <1> QED BY <1>5, <1>7 DEF all, len, n, d, q, at

\* Writing appends to the queue and gives up the oldest frames beyond the
\* capacity, the first of the written ones too when there are too many.
LEMMA WrittenFrames ==
    ASSUME NEW s \in Source, NEW r, Good(s, r), r.active,
           NEW b \in [Index(s) -> Sample], NEW pcm \in Seq(Sample),
           NEW n, n = Kept(s, Len(pcm)),
           WrittenBuffer(s, b, r, n, pcm) \in [Index(s) -> Sample]
    PROVE  Frames(s, WrittenRing(s, r, n), WrittenBuffer(s, b, r, n, pcm))
               = Queue!Newest(Frames(s, r, b) \o pcm, Capacity[s])
  <1> DEFINE c == Capacity[s]
             m == Len(pcm)
             l == r.level
             room == RoomFor(s, r, n)
             kept == room.level
             new == WrittenRing(s, r, n)
             wb == WrittenBuffer(s, b, r, n, pcm)
             old == Frames(s, r, b)
             f == Frames(s, new, wb)
             q == Queue!Newest(old \o pcm, c)
             len == IF l + m > c THEN c ELSE l + m
             d == (l + m) - len
  <1>1. /\ c \in Nat \ {0} /\ m \in Nat
        /\ l \in 0..c /\ r.read \in 0..c - 1
        /\ r.write = Forward(s, r.read, l)
    BY CapacityPositive, LenProperties DEF Good, Ring, Index
  <1>2. n = (IF m > c THEN c ELSE m) /\ n \in 0..c
    BY <1>1 DEF Kept
  <1>3. /\ kept \in 0..l
        /\ kept = IF c - l < n THEN c - n ELSE l
        /\ room.read = Forward(s, r.read, l - kept)
        /\ Good(s, room)
    BY <1>2, RoomKeeps
  <1>4. new.read = room.read /\ new.level = kept + n
    BY <1>3 DEF WrittenRing, Good, Ring
  <1>5. Good(s, new)
    BY <1>2, WrittenGood
  <1>6. /\ f \in Seq(Sample) /\ Len(f) = kept + n
        /\ \A i \in 1..kept + n : f[i] = wb[Forward(s, room.read, i - 1)]
    BY <1>4, <1>5, FramesSequence
  <1>7. /\ old \in Seq(Sample) /\ Len(old) = l
        /\ \A i \in 1..l : old[i] = b[Forward(s, r.read, i - 1)]
    BY FramesSequence
  <1>8. \A i \in 0..c - 1 :
            LET k == IF i >= r.write THEN i - r.write ELSE i + Capacity[s] - r.write
            IN  wb[i] = IF k < n THEN pcm[m - n + k + 1] ELSE b[i]
    BY DEF WrittenBuffer, Index
  <1> HIDE DEF m, l, room, kept, new, wb, old, f, q, c
  <1>9. kept + n = len /\ len <= c
    BY <1>1, <1>2, <1>3
  <1>10. /\ q \in Seq(Sample) /\ Len(q) = len
         /\ \A i \in 1..len : q[i] = IF d + i <= l THEN old[d + i] ELSE pcm[(d + i) - l]
    <2>1. c \in Nat
      BY <1>1
    <2> QED BY <1>7, <2>1, NewestJoined DEF q, m
  <1>11. ASSUME NEW i \in 1..kept + n PROVE f[i] = q[i]
    <2> DEFINE p == Forward(s, room.read, i - 1)
               k == IF p >= r.write THEN p - r.write ELSE p + Capacity[s] - r.write
    <2>1. /\ p \in 0..c - 1
          /\ i <= kept => k >= n /\ p = Forward(s, r.read, (l - kept + i) - 1)
          /\ i > kept => k = i - 1 - kept
      <3>1. /\ r.read \in 0..Capacity[s] - 1 /\ l \in 0..Capacity[s]
            /\ n \in 0..Capacity[s] /\ kept + n <= Capacity[s]
        BY <1>1, <1>2, <1>9 DEF c
      <3>2. /\ kept \in 0..l
            /\ r.write = Forward(s, r.read, l) /\ room.read = Forward(s, r.read, l - kept)
        BY <1>1, <1>3
      <3>3. i \in 1..kept + n
        OBVIOUS
      <3>4. /\ p \in 0..Capacity[s] - 1
            /\ i <= kept => k >= n /\ p = Forward(s, r.read, (l - kept + i) - 1)
            /\ i > kept => k = i - 1 - kept
        BY <3>1, <3>2, <3>3, Positions, SMTT(60)
      <3> QED BY <3>4 DEF c
    <2>2. f[i] = IF k < n THEN pcm[m - n + k + 1] ELSE b[p]
      BY <1>6, <1>8, <2>1
    <2> HIDE DEF p, k
    <2>3. CASE i <= kept
      <3>1. n = m /\ d + i = l - kept + i /\ d + i \in 1..l /\ d + i <= l
        BY <1>1, <1>2, <1>3, <1>9, <2>3
      <3>2. k \in Int => ~(k < n)
        BY <1>2, <2>1, <2>3
      <3>3. k \in Int
        BY <1>1, <2>1 DEF k, c, Forward
      <3>4. f[i] = b[p] /\ p = Forward(s, r.read, (d + i) - 1)
        BY <2>1, <2>2, <2>3, <3>1, <3>2, <3>3
      <3>5. i \in 1..len
        BY <1>9
      <3> HIDE DEF d, len
      <3> QED BY <1>7, <1>10, <3>1, <3>4, <3>5
    <2>4. CASE i > kept
      <3>1. /\ k < n /\ m - n + k + 1 = (d + i) - l
            /\ ~(d + i <= l)
        <4>1. k = i - 1 - kept
          BY <2>1, <2>4
        <4>2. /\ i \in Int /\ kept \in 0..l /\ i <= kept + n /\ l \in 0..c
              /\ c \in Nat /\ m \in Nat /\ i > kept /\ n \in 0..c
          BY <1>1, <1>2, <1>3, <2>4
        <4>3. d = (l + m) - (kept + n)
          BY <1>9
        <4>5. m - n >= 0
          BY <1>1, <1>2
        <4> HIDE DEF d, len
        <4>6. k < n
          BY <4>1, <4>2
        <4>7. (d + i) - l = (m - n) + (i - kept)
          BY <4>2, <4>3, SMTT(30)
        <4>8. m - n + k + 1 = (m - n) + (i - kept)
          BY <4>1, <4>2
        <4>9. ~(d + i <= l)
          BY <4>2, <4>3, <4>5
        <4> QED BY <4>6, <4>7, <4>8, <4>9
      <3>2. i \in 1..len
        BY <1>9
      <3> HIDE DEF d, len
      <3> QED BY <1>10, <2>2, <3>1, <3>2
    <2>5. i \in Int /\ kept \in Int
      BY <1>2, <1>3
    <2> QED BY <2>3, <2>4, <2>5
  <1>12. f = q
    <2> HIDE DEF len, d
    <2> QED BY <1>6, <1>9, <1>10, <1>11, SeqEqual
  <1> QED BY <1>12 DEF f, q, new, wb, old, c

----------------------------------------------------------------------------
(* The steps.                                                               *)

\* What the writers may write, the silence of the prompt among it.
Writes == Pcm \union {Quiet(n) : n \in 1..Chunk}

\* Everything written is a sequence of samples.
LEMMA WritesTyped == Writes \subseteq Seq(Sample)
  <1>1. \A n \in Nat : Quiet(n) \in Seq(Sample)
    BY RingAssumption DEF RingAssumption, Quiet
  <1>2. \A n \in 1..Chunk : n \in Nat
    BY PromptAssumption DEF PromptAssumption
  <1> QED BY <1>1, <1>2, RingAssumption DEF RingAssumption, Writes

\* The queue sees the rings, their buffers and the last frame only.
LEMMA Stutters == UNCHANGED <<ring, buffer, out>> => UNCHANGED Queue!vars
  BY DEF Queue!vars

\* Empty rings are empty queues.
LEMMA InitMaps == Init => Queue!Init
  <1> SUFFICES ASSUME Init PROVE Queue!Init
    OBVIOUS
  <1>1. \A s \in Source : Frames(s, ring[s], buffer[s]) = <<>>
    BY NoFrames DEF Init, Empty
  <1>2. Active(ring) = {}
    BY DEF Active, Init, Empty
  <1> QED BY <1>1, <1>2 DEF Queue!Init, Init

\* A write to a ring is a write to the queue, which drops its oldest frames.
LEMMA WriteMaps ==
    ASSUME Inv, NEW s \in Source, NEW pcm \in Writes, WriteFrames(s, pcm)
    PROVE  Queue!Put(s, pcm)
  <1> DEFINE n == Kept(s, Len(pcm))
             q(t) == Frames(t, ring[t], buffer[t])
  <1>1. pcm \in Seq(Sample)
    BY WritesTyped
  <1>2. /\ ring' = [ring EXCEPT ![s] = WrittenRing(s, ring[s], n)]
        /\ buffer' = [buffer EXCEPT ![s] = WrittenBuffer(s, buffer[s], ring[s], n, pcm)]
        /\ ring[s].active /\ out' = out
    BY DEF WriteFrames
  <1>3. /\ Good(s, ring[s]) /\ buffer[s] \in [Index(s) -> Sample]
        /\ DOMAIN ring = Source /\ DOMAIN buffer = Source
    BY DEF Inv, RingsGood, BuffersTyped
  <1>4. BuffersTyped' /\ Active(ring') = Active(ring)
    BY <1>1, WriteKeeps
  <1>5. WrittenBuffer(s, buffer[s], ring[s], n, pcm) \in [Index(s) -> Sample]
    BY <1>2, <1>3, <1>4 DEF BuffersTyped
  <1>6. Frames(s, ring'[s], buffer'[s]) = Queue!Newest(q(s) \o pcm, Capacity[s])
    <2> HIDE DEF n
    <2>1. n = Kept(s, Len(pcm))
      BY DEF n
    <2>2. ring'[s] = WrittenRing(s, ring[s], n)
          /\ buffer'[s] = WrittenBuffer(s, buffer[s], ring[s], n, pcm)
      BY <1>2, <1>3
    <2>3. Frames(s, WrittenRing(s, ring[s], n), WrittenBuffer(s, buffer[s], ring[s], n, pcm))
              = Queue!Newest(Frames(s, ring[s], buffer[s]) \o pcm, Capacity[s])
      BY <1>1, <1>2, <1>3, <1>5, <2>1, WrittenFrames
    <2> QED BY <2>2, <2>3
  <1>7. \A t \in Source \ {s} : ring'[t] = ring[t] /\ buffer'[t] = buffer[t]
    BY <1>2, <1>3
  <1>8. s \in Active(ring)
    BY <1>2 DEF Active
  <1>9. [t \in Source |-> Frames(t, ring'[t], buffer'[t])]
            = [[t \in Source |-> q(t)] EXCEPT ![s] = Queue!Newest(q(s) \o pcm, Capacity[s])]
    BY <1>6, <1>7
  <1> QED BY <1>2, <1>4, <1>8, <1>9 DEF Queue!Put

\* A stop empties the queues of the sources it switches off.
LEMMA StopMaps ==
    ASSUME Inv, NEW S \in SUBSET Source, StopSources(S)
    PROVE  Queue!SwitchOff(S)
  <1>1. /\ ring' = [s \in Source |-> IF s \in S THEN Empty ELSE ring[s]]
        /\ buffer' = buffer /\ out' = out
    BY DEF StopSources
  <1>2. \A s \in S : Frames(s, Empty, buffer[s]) = <<>>
    BY NoFrames DEF Empty
  <1>3. Active(ring') = Active(ring) \ S
    BY <1>1 DEF Active, Empty
  <1>4. \A s \in Source : Frames(s, ring'[s], buffer'[s])
                              = IF s \in S THEN <<>> ELSE Frames(s, ring[s], buffer[s])
    BY <1>1, <1>2
  <1> QED BY <1>1, <1>3, <1>4 DEF Queue!SwitchOff

\* So does a start that is rolled back.
LEMMA RollbackMaps ==
    ASSUME Inv, RollbackStart
    PROVE  \E S \in SUBSET Source : Queue!SwitchOff(S)
  <1>1. /\ ring' = [ring EXCEPT ![starting] = Empty] /\ buffer' = buffer /\ out' = out
        /\ starting \in Source /\ DOMAIN ring = Source
    BY DEF RollbackStart, MutexFree, Inv, RestTyped, RingsGood
  <1>2. Frames(starting, Empty, buffer[starting]) = <<>>
    BY <1>1, NoFrames DEF Empty
  <1>3. Active(ring') = Active(ring) \ {starting}
    BY <1>1 DEF Active, Empty
  <1>4. \A s \in Source : Frames(s, ring'[s], buffer'[s])
                  = IF s \in {starting} THEN <<>> ELSE Frames(s, ring[s], buffer[s])
    BY <1>1, <1>2
  <1>5. Queue!SwitchOff({starting})
    BY <1>1, <1>3, <1>4 DEF Queue!SwitchOff
  <1> QED BY <1>1, <1>5

\* A source that was off starts with an empty queue; one that was on goes on.
LEMMA StartMaps ==
    ASSUME Inv, NEW s \in Source, StartSource(s)
    PROVE  Queue!SwitchOn(s) \/ UNCHANGED Queue!vars
  <1>1. /\ ring' = [ring EXCEPT ![s] = Started(s, ring[s])] /\ buffer' = buffer /\ out' = out
        /\ DOMAIN ring = Source
    BY DEF StartSource, Inv, RingsGood
  <1>2. CASE ring[s].active
    <2>1. \A t \in Source : ring'[t] = ring[t]
      BY <1>1, <1>2 DEF Started
    <2>2. Active(ring') = Active(ring)
      BY <2>1 DEF Active
    <2> QED BY <1>1, <2>1, <2>2 DEF Queue!vars
  <1>3. CASE ~ring[s].active
    <2>1. ring'[s].level = 0 /\ ring'[s].active
      BY <1>1, <1>3 DEF Started, Empty
    <2>2. Frames(s, ring'[s], buffer'[s]) = <<>>
      BY <2>1, NoFrames
    <2>3. \A t \in Source \ {s} : ring'[t] = ring[t]
      BY <1>1
    <2>4. Active(ring') = Active(ring) \union {s} /\ s \notin Active(ring)
      BY <1>3, <2>1, <2>3 DEF Active
    <2>5. [t \in Source |-> Frames(t, ring'[t], buffer'[t])]
              = [[t \in Source |-> Frames(t, ring[t], buffer[t])] EXCEPT ![s] = <<>>]
      BY <1>1, <2>2, <2>3
    <2> QED BY <1>1, <2>4, <2>5 DEF Queue!SwitchOn
  <1> QED BY <1>2, <1>3

\* Each rendered frame takes the head of every queue that is on.
LEMMA RenderMaps ==
    ASSUME Inv, RenderFrame
    PROVE  Queue!Play
  <1> DEFINE q(s) == Frames(s, ring[s], buffer[s])
  <1>1. /\ ring' = [s \in Source |-> IF HasFrame(s) THEN Taken(s, ring[s]) ELSE ring[s]]
        /\ out' = [s \in Source |-> IF HasFrame(s) THEN buffer[s][ring[s].read] ELSE Silence]
        /\ buffer' = buffer
    BY DEF RenderFrame
  <1>2. \A s \in Source : Good(s, ring[s]) /\ buffer[s] \in [Index(s) -> Sample]
    BY DEF Inv, RingsGood, BuffersTyped
  <1>3. ASSUME NEW s \in Source, HasFrame(s)
        PROVE  /\ s \in Active(ring) /\ q(s) # <<>>
               /\ Head(q(s)) = buffer[s][ring[s].read]
               /\ Tail(q(s)) = Frames(s, ring'[s], buffer'[s])
               /\ ring'[s].active
    <2>1. ring[s].active /\ ring[s].level > 0 /\ ring'[s] = Taken(s, ring[s])
      BY <1>1, <1>3 DEF HasFrame
    <2>2. Taken(s, ring[s]).active
      BY <1>2, <2>1, TakenGood
    <2>3. /\ q(s) # <<>>
          /\ Head(q(s)) = buffer[s][ring[s].read]
          /\ Tail(q(s)) = Frames(s, Taken(s, ring[s]), buffer[s])
      BY <1>2, <2>1, TakenFrames
    <2> QED BY <1>1, <2>1, <2>2, <2>3 DEF Active
  <1>4. ASSUME NEW s \in Source, ~HasFrame(s)
        PROVE  ring'[s] = ring[s] /\ (s \in Active(ring) => q(s) = <<>>)
    <2>1. ring'[s] = ring[s]
      BY <1>1, <1>4
    <2>2. s \in Active(ring) => ring[s].level = 0
      BY <1>2, <1>4 DEF HasFrame, Active, Good, Ring
    <2> QED BY <2>1, <2>2, NoFrames
  <1> HIDE DEF q
  <1>5. Active(ring') = Active(ring)
    BY <1>3, <1>4 DEF Active
  <1>6. \A s \in Source : HasFrame(s) <=> s \in Active(ring) /\ q(s) # <<>>
    BY <1>3, <1>4
  <1>7. \A s \in Source : Frames(s, ring'[s], buffer'[s])
            = IF s \in Active(ring) /\ q(s) # <<>> THEN Tail(q(s)) ELSE q(s)
    BY <1>1, <1>3, <1>4, <1>6 DEF q
  <1>8. out' = [s \in Source |-> IF s \in Active(ring) /\ q(s) # <<>> THEN Head(q(s)) ELSE Silence]
    BY <1>1, <1>3, <1>6
  <1> QED BY <1>5, <1>7, <1>8 DEF q, Queue!Play, Queue!Plays

\* Every step of the rings is a step of the queue or leaves it as it is.
LEMMA StepMaps == Inv /\ [Next]_vars => [Queue!Next]_Queue!vars
  <1> SUFFICES ASSUME Inv, [Next]_vars PROVE [Queue!Next]_Queue!vars
    OBVIOUS
  <1>1. ASSUME NEW s \in Source, NEW pcm \in Writes, WriteFrames(s, pcm)
        PROVE  Queue!Next
    BY <1>1, WriteMaps DEF Queue!Next, Writes
  <1>2. ASSUME NEW S \in SUBSET Source, StopSources(S)
        PROVE  Queue!Next
    BY <1>2, StopMaps DEF Queue!Next
  <1>3. ASSUME NEW s \in Source, StartSource(s)
        PROVE  [Queue!Next]_Queue!vars
    BY <1>3, StartMaps DEF Queue!Next
  <1>4. ASSUME NEW s \in Source, Write(s) \/ Start(s) \/ Notify(s)
        PROVE  [Queue!Next]_Queue!vars
    <2>1. CASE Write(s)
      BY <1>1, <2>1 DEF Write, Writes
    <2>2. CASE Start(s)
      BY <1>3, <2>2 DEF Start
    <2>3. CASE Notify(s)
      BY <2>3, Stutters DEF Notify
    <2> QED BY <1>4, <2>1, <2>2, <2>3
  <1>5. CASE RollbackStart
    BY <1>5, RollbackMaps DEF Queue!Next
  <1>6. CASE Stop
    BY <1>2, <1>6 DEF Stop, Source
  <1>7. CASE RenderFrame
    BY <1>7, RenderMaps DEF Queue!Next
  <1>8. CASE Prompt
    <2>1. CASE PromptStarts
      BY <1>3, <2>1 DEF PromptStarts, Source
    <2>2. ASSUME NEW at, NEW frames, NEW next, PromptWrites(at, frames, next)
          PROVE  [Queue!Next]_Queue!vars
      <3>1. CASE prompt.written >= frames
        BY <2>2, <3>1, Stutters DEF PromptWrites
      <3>2. CASE ~(prompt.written >= frames)
        BY <1>1, <2>2, <3>2 DEF PromptWrites, Writes, Source
      <3> QED BY <3>1, <3>2
    <2>3. CASE PromptStops
      BY <1>2, <2>3 DEF PromptStops, Source
    <2> QED BY <1>8, <2>1, <2>2, <2>3 DEF Prompt
  <1>9. CASE SinkStarted \/ Interrupt \/ PromptWaits \/ UNCHANGED vars
    BY <1>9, Stutters DEF SinkStarted, Interrupt, PromptWaits, vars
  <1> QED BY <1>4, <1>5, <1>6, <1>7, <1>8, <1>9 DEF Next

\* The rings of audio_mixer_write and audio_mixer_render_stereo play what was
\* written to them in order, each frame once, giving up only the oldest.
THEOREM RingsImplementQueue == Spec => PlaysInOrder
  <1>1. Init => Queue!Init
    BY InitMaps
  <1>2. Inv /\ [Next]_vars => [Queue!Next]_Queue!vars
    BY StepMaps
  <1>3. Spec => []Inv
    BY SpecInv
  <1> QED BY <1>1, <1>2, <1>3, PTL DEF Spec, PlaysInOrder, Queue!Spec
=============================================================================
