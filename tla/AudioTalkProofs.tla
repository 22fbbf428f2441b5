-------------------------- MODULE AudioTalkProofs --------------------------
(* Push to talk and the music: while nobody calls, a capture has the codec to *)
(* itself, and what the mixer's sessions and the capture ask for is what the  *)
(* codec does, for any number of codec failures and looks at the playback,    *)
(* and any priorities that let BTstack's thread run before the control        *)
(* thread.  Three threads work; the programs of each are outlined, and what   *)
(* the outline of one says of a state is kept by what the others may do.      *)
EXTENDS AudioRouteProofs

----------------------------------------------------------------------------
(* What may be seen of the codec and its users.  BTstack's thread is calm if  *)
(* what it still has to do stops a session at most.                           *)

View ==
    [playing : BOOLEAN, pending : BOOLEAN, dac : BOOLEAN, active : SUBSET Sources,
     dma : {"stopped", "playback", "duplex"}, capturing : BOOLEAN, adc : BOOLEAN,
     gate : BOOLEAN, replies : BOOLEAN, done : BOOLEAN, open : BOOLEAN, talking : BOOLEAN,
     bt : {"calm", "busy"}, mutex : Thread \union {"none"}]

\* Outlines that say nothing but that a program is one of these steps.
Tame == {"Lock", "Unlock", "PlayingOff", "DacOff", "PlaybackDmaOff", "Allow", "Deactivate"}
TameSets == SUBSET {0}
TameTable ==
    {q \in PlainStep \X TameSets \X TameSets \X TameSets :
        /\ q[3] = {} /\ q[4] = {0}
        /\ \/ q[1].do \in Tame /\ q[2] = {0}
           \/ q[1].do = "Fail" /\ q[2] = {}}
TameSteps == AllOf(TameSets, TameTable)
Harmless == OutlinedIn(TameSets, TameSteps, todo["bt"], 0, {0})

Now ==
    [playing |-> route.playing, pending |-> route.pending, dac |-> hw.dac, active |-> active,
     dma |-> route.dma, capturing |-> route.capturing, adc |-> hw.adc,
     gate |-> a2dp.enabled, replies |-> reply.enabled, done |-> reply.done,
     open |-> reply.open, talking |-> ptt.capturing,
     bt |-> IF Harmless THEN "calm" ELSE "busy", mutex |-> mutex]

SamePlay(s, z) ==
    /\ z.playing = s.playing /\ z.pending = s.pending /\ z.dac = s.dac
    /\ z.active = s.active /\ (z.dma = "playback" <=> s.dma = "playback")
SameMic(s, z) ==
    /\ z.capturing = s.capturing /\ z.adc = s.adc
    /\ z.dma = "duplex" <=> s.dma = "duplex"
SameUsers(s, z) ==
    /\ z.gate = s.gate /\ z.replies = s.replies /\ z.done = s.done
    /\ z.open = s.open /\ z.talking = s.talking
Same(s, z) == SamePlay(s, z) /\ SameMic(s, z) /\ SameUsers(s, z) /\ z.mutex = s.mutex

\* Playback only stops.
Shrinks(s, z) ==
    /\ z.playing => s.playing
    /\ z.pending => s.pending
    /\ z.dac => s.dac
    /\ z.active \subseteq s.active
    /\ z.dma = "playback" => s.dma = "playback"

\* Nobody records; the control thread has quietened everybody else.
Rested(s) == ~s.capturing /\ ~s.adc /\ s.dma # "duplex"
Alone(s)  == s.bt = "calm" /\ ~s.gate /\ ~s.replies /\ s.done

----------------------------------------------------------------------------
(* What the thread t may do to a state, for all that the others assume.       *)

Does(t, s, z) ==
    /\ \/ z.mutex = s.mutex
       \/ s.mutex = "none" /\ z.mutex = t
       \/ s.mutex = t /\ z.mutex = "none"
    /\ s.mutex # t => SamePlay(s, z)
    /\ t # "bt" => z.bt = s.bt
    /\ t # "rx" => z.open = s.open
    /\ t # "ctl" =>
         /\ z.gate = s.gate /\ z.talking = s.talking
         /\ z.replies => s.replies
         /\ ~s.replies /\ s.done => z.done
         /\ s.bt = "calm" /\ ~s.gate => z.bt = "calm"
         /\ Rested(s) => Rested(z)
         /\ Alone(s) => SameMic(s, z) /\ Shrinks(s, z)

\* Sessions, sink, path and DMA agree.
Coherent ==
    {s \in View : /\ s.playing <=> s.active # {}
                  /\ s.dac <=> s.playing
                  /\ s.pending => s.playing
                  /\ s.dma = "playback" <=> s.playing /\ ~s.pending}

\* What holds of every state.
Sound(s) ==
    /\ Rested(s) \/ Alone(s)
    /\ s.done => ~s.open
    /\ s.mutex = "none" => s \in Coherent

\* The assertions of t: kept by the others, and by t when it does nothing.
Quietly(t, s, z) == Same(s, z) /\ (t # "bt" => z.bt = s.bt)
Assertions(t) ==
    {a \in SUBSET View :
        \A s \in a, z \in View :
           /\ Quietly(t, s, z) => z \in a
           /\ \A u \in Thread \ {t} : Sound(s) /\ Sound(z) /\ Does(u, s, z) => z \in a}

\* Between its steps t has the mutex, with the playback in H, or has it not.
Has(t, K, H) == {s \in K \intersect H : s.mutex = t}
Free(t, K)   == {s \in K : s.mutex # t}

----------------------------------------------------------------------------
(* The contexts in which the threads work.                                    *)

Opened == {s \in View : s.open}

\* The control thread's way to a capture.
Open   == {s \in View : Rested(s) /\ ~s.talking}
Shut   == {s \in Open : ~s.gate}
Closed == {s \in Shut : s.bt = "calm"}
Hushed == {s \in Closed : ~s.replies}
Lone   == {s \in Hushed : s.done}

Contexts(t) ==
    CASE t = "bt"  -> {View}
      [] t = "rx"  -> {Opened}
      [] t = "ctl" -> {Open, Shut, Closed, Hushed, Lone}
\* Those in which t may start the playback.
Lively(t) == IF t = "ctl" THEN {Open} ELSE Contexts(t)

\* The playback, on its way to an end or a start for the source x.
Ending      == {s \in View : s.active = {}}
PlayingDone == {s \in Ending : ~s.playing /\ ~s.pending}
DacDone     == {s \in PlayingDone : ~s.dac}
Stopped     == {s \in DacDone : s.dma # "playback"}
Starting(x) == {s \in View : /\ s.active = {x} /\ ~s.playing /\ ~s.pending
                             /\ ~s.dac /\ s.dma # "playback"}
Started(x)  == {s \in Coherent : s.playing} \union Starting(x)
Arming(x)   == {s \in View : /\ s.active = {x} /\ s.playing /\ s.pending
                             /\ ~s.dac /\ s.dma # "playback"}
Notifying   == {s \in View : /\ s.active # {} /\ s.playing /\ ~s.pending
                             /\ s.dac /\ s.dma # "playback"}

Playbacks ==
    {Coherent, Ending, PlayingDone, DacDone, Stopped, Notifying}
    \union UNION {{Starting(x), Started(x), Arming(x)} : x \in Sources}

\* The control thread on its own with the codec, up to a capture.
Mine     == {s \in View : Alone(s) /\ s.mutex # "ctl" /\ s \in Stopped}
Silent   == {s \in Mine : Rested(s) /\ ~s.talking}
Duplexed == {s \in Mine : s.dma = "duplex" /\ ~s.adc /\ ~s.capturing /\ ~s.talking}
Miked    == {s \in Mine : s.dma = "duplex" /\ s.adc /\ ~s.capturing /\ ~s.talking}
Caught   == {s \in Mine : s.dma = "duplex" /\ s.adc /\ s.capturing /\ ~s.talking}
Talking  == {s \in Mine : s.dma = "duplex" /\ s.adc /\ s.capturing /\ s.talking}

\* Where t waits for its next event.
Rest(t) ==
    CASE t = "bt"  -> Free("bt", View)
      [] t = "rx"  -> Free("rx", View)
      [] t = "ctl" -> Free("ctl", Open) \union Talking

----------------------------------------------------------------------------
(* The assertions are assertions.                                             *)

LEMMA ThreadIs == Thread = {"bt", "rx", "ctl"} /\ "none" \notin Thread
BY ThreadAssumption

\* What an assertion of t has to be.
LEMMA AssertionIs ==
    ASSUME NEW t, NEW a \in SUBSET View,
           \A s \in a, z \in View : Quietly(t, s, z) => z \in a,
           \A u \in Thread \ {t}, s \in a, z \in View :
              Sound(s) /\ Sound(z) /\ Does(u, s, z) => z \in a
    PROVE  a \in Assertions(t)
BY DEF Assertions

LEMMA AssertionGives ==
    ASSUME NEW t, NEW a \in Assertions(t)
    PROVE  /\ a \in SUBSET View
           /\ \A s \in a, z \in View : Quietly(t, s, z) => z \in a
           /\ \A u \in Thread \ {t}, s \in a, z \in View :
                 Sound(s) /\ Sound(z) /\ Does(u, s, z) => z \in a
BY DEF Assertions

\* A context is left alone by the others, and by t as long as it leaves the
\* microphone and the users alone.
LEMMA ContextKept ==
    ASSUME NEW t \in Thread, NEW K \in Contexts(t) \union {View}, NEW s \in K, NEW z \in View
    PROVE  /\ \A u \in Thread \ {t} : Does(u, s, z) => z \in K
           /\ SameMic(s, z) /\ SameUsers(s, z) /\ (t # "bt" => z.bt = s.bt) => z \in K
<1>1. CASE K = View
  BY <1>1
<1>2. CASE K = Opened /\ t = "rx"
  <2>1. s.open
    BY <1>2 DEF Opened
  <2>2. \A u \in Thread \ {t} : Does(u, s, z) => z.open = s.open
    BY <1>2 DEF Does
  <2>3. SameUsers(s, z) => z.open = s.open
    BY DEF SameUsers
  <2> QED BY <1>2, <2>1, <2>2, <2>3 DEF Opened
<1>3. CASE K \in {Open, Shut, Closed, Hushed, Lone} /\ t = "ctl"
  <2>1. ASSUME NEW u \in Thread \ {t}, Does(u, s, z)
        PROVE  /\ z.gate = s.gate /\ z.talking = s.talking /\ (z.replies => s.replies)
               /\ (~s.replies /\ s.done => z.done)
               /\ (s.bt = "calm" /\ ~s.gate => z.bt = "calm")
               /\ (Rested(s) => Rested(z))
    BY <1>3, <2>1 DEF Does
  <2>2. ASSUME SameMic(s, z), SameUsers(s, z), t # "bt" => z.bt = s.bt
        PROVE  /\ z.gate = s.gate /\ z.talking = s.talking /\ (z.replies => s.replies)
               /\ (~s.replies /\ s.done => z.done)
               /\ (s.bt = "calm" /\ ~s.gate => z.bt = "calm")
               /\ (Rested(s) => Rested(z))
    <3>1. Rested(s) => Rested(z)
      BY <2>2 DEF SameMic, Rested
    <3> QED BY <1>3, <2>2, <3>1 DEF SameUsers
  <2>3. ASSUME z.gate = s.gate /\ z.talking = s.talking /\ (z.replies => s.replies),
               ~s.replies /\ s.done => z.done,
               s.bt = "calm" /\ ~s.gate => z.bt = "calm",
               Rested(s) => Rested(z)
        PROVE  z \in K
    BY <1>3, <2>3 DEF Open, Shut, Closed, Hushed, Lone
  <2> QED BY <2>1, <2>2, <2>3
<1>4. \/ K = View
      \/ K = Opened /\ t = "rx"
      \/ K \in {Open, Shut, Closed, Hushed, Lone} /\ t = "ctl"
  <2>1. CASE K \in Contexts(t)
    <3>1. t = "bt" \/ t = "rx" \/ t = "ctl"
      BY ThreadIs
    <3> QED BY <2>1, <3>1 DEF Contexts
  <2> QED BY <2>1
<1> QED BY <1>1, <1>2, <1>3, <1>4

LEMMA ContextIn ==
    ASSUME NEW t \in Thread, NEW K \in Contexts(t) \union {View}
    PROVE  K \in SUBSET View
BY ThreadIs DEF Contexts, Opened, Open, Shut, Closed, Hushed, Lone

LEMMA FreeIn ==
    ASSUME NEW t \in Thread, NEW K \in Contexts(t) \union {View}
    PROVE  Free(t, K) \in Assertions(t)
<1>1. Free(t, K) \in SUBSET View
  BY ContextIn DEF Free
<1>2. ASSUME NEW s \in Free(t, K), NEW z \in View, Quietly(t, s, z) PROVE z \in Free(t, K)
  <2>1. s \in K /\ s.mutex # t
    BY DEF Free
  <2> QED BY <1>2, <2>1, ContextKept DEF Quietly, Same, Free
<1>3. ASSUME NEW u \in Thread \ {t}, NEW s \in Free(t, K), NEW z \in View, Does(u, s, z)
      PROVE  z \in Free(t, K)
  <2>1. s \in K /\ s.mutex # t
    BY DEF Free
  <2>2. z.mutex # t
    BY <1>3, <2>1, ThreadIs DEF Does
  <2> QED BY <1>3, <2>1, <2>2, ContextKept DEF Free
<1> HIDE DEF Free
<1> QED BY <1>1, <1>2, <1>3, AssertionIs

\* The owner of the mutex has the playback to itself.
LEMMA PlaybackKept ==
    ASSUME NEW H \in Playbacks, NEW s \in H, NEW z \in View, SamePlay(s, z)
    PROVE  z \in H
<1>1. CASE H \in {Coherent, Ending, PlayingDone, DacDone, Stopped, Notifying}
  BY <1>1 DEF SamePlay, Coherent, Ending, PlayingDone, DacDone, Stopped, Notifying
<1>2. ASSUME NEW x \in Sources, H \in {Starting(x), Started(x), Arming(x)} PROVE z \in H
  BY <1>2 DEF SamePlay, Coherent, Starting, Started, Arming
<1> QED BY <1>1, <1>2 DEF Playbacks

LEMMA PlaybackIn ==
    ASSUME NEW H \in Playbacks
    PROVE  H \in SUBSET View
BY DEF Playbacks, Coherent, Ending, PlayingDone, DacDone, Stopped, Notifying, Starting, Started,
       Arming

LEMMA HasIn ==
    ASSUME NEW t \in Thread, NEW K \in Contexts(t), NEW H \in Playbacks
    PROVE  Has(t, K, H) \in Assertions(t)
<1>1. Has(t, K, H) \in SUBSET View
  BY ContextIn DEF Has
<1>2. ASSUME NEW s \in Has(t, K, H), NEW z \in View, Quietly(t, s, z) PROVE z \in Has(t, K, H)
  <2>1. s \in K /\ s \in H /\ s.mutex = t
    BY DEF Has
  <2>2. SameMic(s, z) /\ SameUsers(s, z) /\ (t # "bt" => z.bt = s.bt) /\ SamePlay(s, z)
        /\ z.mutex = t
    BY <1>2, <2>1 DEF Quietly, Same
  <2>3. z \in K /\ z \in H
    BY <2>1, <2>2, ContextKept, PlaybackKept
  <2> QED BY <2>2, <2>3 DEF Has
<1>3. ASSUME NEW u \in Thread \ {t}, NEW s \in Has(t, K, H), NEW z \in View, Does(u, s, z)
      PROVE  z \in Has(t, K, H)
  <2>1. s \in K /\ s \in H /\ s.mutex = t
    BY DEF Has
  <2>2. z.mutex = t /\ SamePlay(s, z)
    BY <1>3, <2>1, ThreadIs DEF Does
  <2>3. z \in K /\ z \in H
    BY <1>3, <2>1, <2>2, ContextKept, PlaybackKept
  <2> QED BY <2>2, <2>3 DEF Has
<1> HIDE DEF Has
<1> QED BY <1>1, <1>2, <1>3, AssertionIs

\* Nobody disturbs the control thread's capture.
LEMMA MineKept ==
    ASSUME NEW s \in Mine, NEW z \in View,
           \/ Quietly("ctl", s, z)
           \/ \E u \in Thread \ {"ctl"} : Does(u, s, z)
    PROVE  z \in Mine /\ SameMic(s, z) /\ z.talking = s.talking
<1>1. Alone(s) /\ s.mutex # "ctl" /\ s \in Stopped
  BY DEF Mine
<1>2. CASE Quietly("ctl", s, z)
  <2>1. Alone(z) /\ z.mutex # "ctl"
    BY <1>1, <1>2 DEF Quietly, Same, SameUsers, Alone
  <2>2. z \in Stopped
    BY <1>1, <1>2, PlaybackKept DEF Quietly, Same, Playbacks
  <2> QED BY <1>2, <2>1, <2>2 DEF Mine, Quietly, Same, SameUsers
<1>3. ASSUME NEW u \in Thread \ {"ctl"}, Does(u, s, z)
      PROVE  z \in Mine /\ SameMic(s, z) /\ z.talking = s.talking
  <2>1. /\ z.gate = s.gate /\ z.talking = s.talking /\ (z.replies => s.replies)
        /\ (~s.replies /\ s.done => z.done)
        /\ (s.bt = "calm" /\ ~s.gate => z.bt = "calm")
        /\ SameMic(s, z) /\ Shrinks(s, z)
    BY <1>1, <1>3 DEF Does
  <2>2. Alone(z)
    BY <1>1, <2>1 DEF Alone
  <2>3. z.mutex # "ctl"
    BY <1>1, <1>3, ThreadIs DEF Does
  <2>4. z \in Stopped
    BY <1>1, <2>1 DEF Shrinks, Stopped, DacDone, PlayingDone, Ending
  <2> QED BY <2>1, <2>2, <2>3, <2>4 DEF Mine
<1> QED BY <1>2, <1>3

LEMMA MineIn ==
    \A a \in {Silent, Duplexed, Miked, Caught, Talking} : a \in Assertions("ctl")
<1> SUFFICES ASSUME NEW a \in {Silent, Duplexed, Miked, Caught, Talking}
             PROVE  a \in Assertions("ctl")
  OBVIOUS
<1>1. a \in SUBSET View /\ a \subseteq Mine
  BY DEF Silent, Duplexed, Miked, Caught, Talking, Mine
<1>2. ASSUME NEW s \in a, NEW z \in View, z \in Mine, SameMic(s, z), z.talking = s.talking
      PROVE  z \in a
  BY <1>2 DEF Silent, Duplexed, Miked, Caught, Talking, SameMic, Rested
<1>3. ASSUME NEW s \in a, NEW z \in View, Quietly("ctl", s, z) PROVE z \in a
  BY <1>1, <1>2, <1>3, MineKept
<1>4. ASSUME NEW u \in Thread \ {"ctl"}, NEW s \in a, NEW z \in View, Does(u, s, z)
      PROVE  z \in a
  BY <1>1, <1>2, <1>4, MineKept
<1> QED BY <1>1, <1>3, <1>4, AssertionIs

----------------------------------------------------------------------------
(* What the steps do that put nothing in front of the rest: how the step r of *)
(* t goes on, and how it returns an error.                                    *)

PlayEnds(r, s, z) ==
    /\ SameMic(s, z) /\ SameUsers(s, z) /\ z.mutex = s.mutex
    /\ \/ /\ r.do = "PlayingOff" /\ ~z.playing /\ ~z.pending
          /\ z.dac = s.dac /\ z.active = s.active /\ z.dma = s.dma
       \/ /\ r.do = "DacOff" /\ ~z.dac /\ z.playing = s.playing /\ z.pending = s.pending
          /\ z.active = s.active /\ z.dma = s.dma
       \/ /\ r.do = "DacOn" /\ z.dac /\ z.playing = s.playing /\ z.pending = s.pending
          /\ z.active = s.active /\ z.dma = s.dma
       \/ /\ r.do = "PlaybackDmaOff" /\ z.dma # "playback" /\ z.dac = s.dac
          /\ z.playing = s.playing /\ z.pending = s.pending /\ z.active = s.active
       \/ /\ r.do = "PlaybackDmaOn" /\ z.dma = "playback" /\ z.dac = s.dac
          /\ z.playing = s.playing /\ z.pending = s.pending /\ z.active = s.active
       \/ /\ r.do = "Rollback" /\ z.active = s.active \ {r.arg} /\ z.dac = s.dac
          /\ z.playing = s.playing /\ z.pending = s.pending /\ z.dma = s.dma

MicEnds(r, s, z) ==
    /\ z.playing = s.playing /\ z.pending = s.pending /\ z.dac = s.dac /\ z.active = s.active
    /\ SameUsers(s, z) /\ z.mutex = s.mutex
    /\ \/ r.do = "CapturingOff" /\ ~z.capturing /\ z.adc = s.adc /\ z.dma = s.dma
       \/ r.do = "CapturingOn" /\ z.capturing /\ z.adc = s.adc /\ z.dma = s.dma
       \/ r.do = "AdcOff" /\ ~z.adc /\ z.capturing = s.capturing /\ z.dma = s.dma
       \/ r.do = "AdcOn" /\ z.adc /\ z.capturing = s.capturing /\ z.dma = s.dma
       \/ /\ r.do = "DuplexDmaOff" /\ z.adc = s.adc /\ z.capturing = s.capturing
          /\ z.dma = IF s.dma = "duplex" /\ ~s.playing THEN "stopped" ELSE s.dma
       \/ /\ r.do = "DuplexDmaOn" /\ s.dma # "playback" /\ z.dma = "duplex"
          /\ z.adc = s.adc /\ z.capturing = s.capturing
       \/ /\ r.do = "DmaOff" /\ z.dma = "stopped"
          /\ z.adc = s.adc /\ z.capturing = s.capturing

UserEnds(r, s, z) ==
    /\ SamePlay(s, z) /\ SameMic(s, z) /\ z.mutex = s.mutex
    /\ \/ /\ r.do = "Enable" /\ z.gate = r.arg /\ z.replies = s.replies
          /\ z.done = s.done /\ z.open = s.open /\ z.talking = s.talking
       \/ /\ r.do = "SetCapturing" /\ z.talking = r.arg /\ z.replies = s.replies
          /\ z.done = s.done /\ z.open = s.open /\ z.gate = s.gate
       \/ /\ r.do = "ReplyOn" /\ z.replies /\ ~z.done /\ z.open = s.open
          /\ z.gate = s.gate /\ z.talking = s.talking
       \/ /\ r.do = "ReplyOff" /\ ~z.replies /\ z.done = s.done /\ z.open = s.open
          /\ z.gate = s.gate /\ z.talking = s.talking
       \/ /\ r.do = "CloseUart" /\ ~z.open /\ z.done /\ z.replies = s.replies
          /\ z.gate = s.gate /\ z.talking = s.talking

\* The mutex is there for the control thread only when BTstack's waits for its
\* next event, as it is more urgent.
MutexEnds(t, r, s, z) ==
    /\ SamePlay(s, z) /\ SameMic(s, z) /\ SameUsers(s, z)
    /\ \/ /\ r.do = "Lock" /\ s.mutex = "none" /\ z.mutex = t
          /\ t = "ctl" => s.bt = "calm"
       \/ r.do = "Unlock" /\ s.mutex = t /\ z.mutex = "none"

Idling == {"Allow", "SetVoice", "UartStart", "UartStop", "Reconfigure"}

Ends(t, r, s, z) ==
    \/ r.do \in Idling /\ Same(s, z)
    \/ r.do = "WaitReplyDone" /\ s.done /\ Same(s, z)
    \/ PlayEnds(r, s, z) \/ MicEnds(r, s, z) \/ UserEnds(r, s, z) \/ MutexEnds(t, r, s, z)

Fails(r, s, z) ==
    /\ Same(s, z)
    /\ \/ r.do \in {"Fail", "UartStart", "DacOn", "AdcOn"}
       \/ r.do = "WaitReplyDone" /\ ~s.done
       \/ r.do = "PlaybackDmaOn" /\ s.dma = "duplex"
       \/ r.do = "DuplexDmaOn" /\ s.dma = "playback"

Simple ==
    Idling \union {"WaitReplyDone", "PlayingOff", "DacOff", "DacOn", "PlaybackDmaOff",
                   "PlaybackDmaOn", "Rollback", "CapturingOff", "CapturingOn", "AdcOff",
                   "AdcOn", "DuplexDmaOff", "DuplexDmaOn", "DmaOff", "Enable", "SetCapturing",
                   "ReplyOn", "ReplyOff", "CloseUart", "Lock", "Unlock", "Fail"}

\* BTstack's thread stays calm, and its steps are tame then.
BtKept(t, r, s, z) ==
    /\ t # "bt" => z.bt = s.bt
    /\ t = "bt" /\ s.bt = "calm" => r.do \in Tame /\ z.bt = "calm"

Good(t, s, z) == Does(t, s, z) /\ Sound(z)

Legal(t, r, a, e, b) ==
    \A s \in a, z \in View :
       Sound(s) /\ BtKept(t, r, s, z) =>
          /\ Ends(t, r, s, z) => z \in b /\ Good(t, s, z)
          /\ Fails(r, s, z)   => z \in e /\ Good(t, s, z)

\* BTstack's thread sleeps with the mutex only.
Sleeps == {"DacOn", "DacOff", "AdcOn", "AdcOff", "CodecRate",
           "WaitQuiet", "WaitReplyDone", "UartStart", "UartStop"}

\* The steps that put a program in front of the rest.
Branch(t, r, a, e, b) ==
    \/ \E K \in Contexts(t) :
         /\ a = Has(t, K, Coherent) /\ e = {} /\ r.do = "Deactivate"
         /\ IF r.arg = Sources THEN b = Has(t, K, Ending) ELSE b = a
    \/ \E K \in Lively(t) :
         \/ r.do = "Activate" /\ a = Has(t, K, Coherent) /\ e = a /\ b = a
         \/ /\ r.do = "StartSink" /\ a = Has(t, K, Started(r.arg))
            /\ e = Has(t, K, Coherent) /\ b = e
         \/ \E x \in Sources :
              /\ r.do \in {"StartPlayback", "ArmPlayback"} /\ a = Has(t, K, Starting(x))
              /\ e = a /\ b = Has(t, K, Coherent)
         \/ /\ r.do \in {"NotifyIfReady", "Notify"} /\ a = Has(t, K, Coherent)
            /\ e = {} /\ b = a
         \/ r.do = "WriteFrames" /\ a = Free(t, K) /\ e = {} /\ b = a
         \/ /\ t = "ctl" /\ r.do \in {"WaitQuiet", "ReadStream"}
            /\ a = Free(t, K) /\ e = {} /\ b = a
    \/ /\ t = "ctl" /\ a = Silent
       /\ \/ r.do = "SetRunMode" /\ r.arg = "idle" /\ e = {} /\ b = Silent
          \/ r.do = "SetRunMode" /\ r.arg = "capture" /\ e = Silent /\ b = Caught
          \/ r.do = "StartCapture" /\ e = Silent /\ b = Caught

\* The playback goes off when it has no session or has not gone on, and on when
\* it was asked for.
Careful(t, d, a) ==
    /\ t = "bt" /\ d \in Sleeps => \A s \in a : s.mutex = "bt"
    /\ d \in {"PlayingOff", "PlaybackDmaOff", "DmaOff"} =>
          \A s \in a : s.active = {} \/ s.dma # "playback"
    /\ d = "PlaybackDmaOn" => \E K \in Lively(t) : a \subseteq Has(t, K, Notifying)

Table(t) ==
    {q \in PlainStep \X Assertions(t) \X Assertions(t) \X Assertions(t) :
        \/ /\ q[1].do \in Simple /\ Legal(t, q[1], q[2], q[3], q[4])
           /\ Careful(t, q[1].do, q[2])
        \/ Branch(t, q[1], q[2], q[3], q[4])}
Steps(t) == AllOf(Assertions(t), Table(t))

\* What every thread still has to do has an outline.
Outlined(t) == OutlinedIn(Assertions(t), Steps(t), todo[t], Now, Rest(t))
TalkInv == IInv /\ Sound(Now) /\ \A t \in Thread : Outlined(t)

----------------------------------------------------------------------------
(* Steps that are fit for the others.                                         *)

LEMMA SameGood ==
    ASSUME NEW t \in Thread, NEW s \in View, NEW z \in View, Sound(s), Same(s, z),
           t # "bt" => z.bt = s.bt, s.bt = "calm" => z.bt = "calm"
    PROVE  Good(t, s, z)
<1>1. SamePlay(s, z) /\ SameMic(s, z) /\ SameUsers(s, z) /\ z.mutex = s.mutex
  BY DEF Same
<1>2. Shrinks(s, z)
  BY <1>1 DEF SamePlay, Shrinks
<1>3. Rested(s) => Rested(z)
  BY <1>1 DEF SameMic, Rested
<1>4. Alone(s) => Alone(z)
  BY <1>1 DEF SameUsers, Alone
<1>5. Does(t, s, z)
  BY <1>1, <1>2, <1>3 DEF Does, SameUsers
<1>6. s \in Coherent => z \in Coherent
  BY <1>1, PlaybackKept DEF Playbacks
<1>7. Sound(z)
  BY <1>1, <1>3, <1>4, <1>6 DEF Sound, SameUsers
<1> QED BY <1>5, <1>7 DEF Good

LEMMA PlayGood ==
    ASSUME NEW t \in Thread, NEW s \in View, NEW z \in View, Sound(s),
           s.mutex = t, z.mutex = t, SameMic(s, z), SameUsers(s, z),
           t # "bt" => z.bt = s.bt, s.bt = "calm" => z.bt = "calm",
           Shrinks(s, z) \/ ~Alone(s) \/ t = "ctl"
    PROVE  Good(t, s, z)
<1>1. Rested(s) => Rested(z)
  BY DEF SameMic, Rested
<1>2. Alone(s) => Alone(z)
  BY DEF SameUsers, Alone
<1>3. Does(t, s, z)
  BY <1>1 DEF Does, SameUsers
<1>4. Sound(z)
  BY <1>1, <1>2, ThreadIs DEF Sound, SameUsers
<1> QED BY <1>3, <1>4 DEF Good

\* With the mutex, the thread may start the playback.
LEMMA LivelyRests ==
    ASSUME NEW t \in Thread, NEW K \in Lively(t), NEW s \in K, Sound(s),
           t = "bt" => s.bt # "calm"
    PROVE  Rested(s) /\ (t # "ctl" => ~Alone(s)) /\ K \in Contexts(t)
<1>1. K \in Contexts(t) /\ (t = "ctl" => K = Open) /\ (t = "rx" => K = Opened)
  BY ThreadIs DEF Lively, Contexts
<1>2. CASE t = "bt"
  BY <1>1, <1>2 DEF Alone, Sound
<1>3. CASE t = "rx"
  BY <1>1, <1>3 DEF Opened, Alone, Sound
<1>4. CASE t = "ctl"
  BY <1>1, <1>4 DEF Open
<1> QED BY <1>1, <1>2, <1>3, <1>4, ThreadIs

\* The control thread's steps with the codec to itself.
LEMMA MineGood ==
    ASSUME NEW s \in Mine, NEW z \in View, Sound(s), z.mutex = s.mutex, SamePlay(s, z),
           z.gate = s.gate, z.replies = s.replies, z.done = s.done, z.open = s.open,
           z.bt = s.bt
    PROVE  z \in Mine /\ Good("ctl", s, z)
<1>1. s \in View /\ Alone(s) /\ s.mutex # "ctl" /\ s \in Stopped
  BY DEF Mine
<1>2. Alone(z)
  BY <1>1 DEF Alone
<1>3. z \in Stopped /\ (s \in Coherent => z \in Coherent)
  BY <1>1, PlaybackKept DEF Playbacks
<1>4. Does("ctl", s, z)
  BY DEF Does
<1>5. Sound(z)
  BY <1>2, <1>3 DEF Sound
<1> QED BY <1>1, <1>2, <1>3, <1>4, <1>5 DEF Mine, Good

----------------------------------------------------------------------------
(* The rows of the simple steps.                                              *)

PlaySteps == {"PlayingOff", "DacOff", "DacOn", "PlaybackDmaOff", "PlaybackDmaOn", "Rollback"}
MicSteps  == {"CapturingOff", "CapturingOn", "AdcOff", "AdcOn", "DuplexDmaOff", "DuplexDmaOn",
              "DmaOff"}
UserSteps == {"Enable", "SetCapturing", "ReplyOn", "ReplyOff", "CloseUart"}

LEMMA EndsAre ==
    ASSUME NEW t, NEW r, NEW s, NEW z, Ends(t, r, s, z)
    PROVE  /\ r.do \in PlaySteps => PlayEnds(r, s, z)
           /\ r.do \in MicSteps => MicEnds(r, s, z)
           /\ r.do \in UserSteps => UserEnds(r, s, z)
           /\ r.do \in {"Lock", "Unlock"} => MutexEnds(t, r, s, z)
           /\ r.do \in Idling \union {"WaitReplyDone"} => Same(s, z)
           /\ r.do = "WaitReplyDone" => s.done
           /\ r.do # "Fail"
BY DEF Ends, PlayEnds, MicEnds, UserEnds, MutexEnds, Idling, PlaySteps, MicSteps, UserSteps

LEMMA FailsAre ==
    ASSUME NEW r, NEW s, NEW z, Fails(r, s, z)
    PROVE  /\ Same(s, z)
           /\ r.do \in {"Fail", "UartStart", "DacOn", "AdcOn", "WaitReplyDone",
                        "PlaybackDmaOn", "DuplexDmaOn"}
           /\ r.do = "PlaybackDmaOn" => s.dma = "duplex"
           /\ r.do = "DuplexDmaOn" => s.dma = "playback"
BY DEF Fails

LEMMA BtKeptGives ==
    ASSUME NEW t, NEW r, NEW s, NEW z, BtKept(t, r, s, z), t = "bt" \/ z.bt = s.bt
    PROVE  /\ t # "bt" => z.bt = s.bt
           /\ s.bt = "calm" => z.bt = "calm"
           /\ t = "bt" /\ r.do \notin Tame => s.bt # "calm"
BY DEF BtKept

\* A step that changes nothing.
LEMMA SameLegal ==
    ASSUME NEW t \in Thread, NEW a \in Assertions(t), NEW b, NEW r
    PROVE  /\ r.do \in {"Allow", "SetVoice", "UartStop", "Reconfigure"} => Legal(t, r, a, {}, a)
           /\ r.do = "UartStart" => Legal(t, r, a, a, a)
           /\ r.do = "Fail" => Legal(t, r, a, a, b)
<1>1. ASSUME NEW s \in a, NEW z \in View, Sound(s), BtKept(t, r, s, z), Same(s, z)
      PROVE  z \in a /\ Good(t, s, z)
  <2>1. (t # "bt" => z.bt = s.bt) /\ (s.bt = "calm" => z.bt = "calm")
    BY <1>1 DEF BtKept
  <2>2. z \in a /\ s \in View
    BY <1>1, <2>1, AssertionGives DEF Quietly
  <2> QED BY <1>1, <2>1, <2>2, SameGood
<1>2. ASSUME NEW s, NEW z, Ends(t, r, s, z), r.do \in Idling \union {"Fail"}
      PROVE  Same(s, z) /\ r.do # "Fail"
  BY <1>2, EndsAre
<1>3. ASSUME NEW s, NEW z, Fails(r, s, z)
      PROVE  Same(s, z) /\ r.do \notin {"Allow", "SetVoice", "UartStop", "Reconfigure"}
  BY <1>3, FailsAre
<1>4. ASSUME r.do \in {"Allow", "SetVoice", "UartStop", "Reconfigure"}
      PROVE  Legal(t, r, a, {}, a)
  BY <1>1, <1>2, <1>3, <1>4 DEF Legal, Idling
<1>5. ASSUME r.do = "UartStart" PROVE Legal(t, r, a, a, a)
  BY <1>1, <1>2, <1>3, <1>5 DEF Legal, Idling
<1>6. ASSUME r.do = "Fail" PROVE Legal(t, r, a, a, b)
  BY <1>1, <1>2, <1>3, <1>6 DEF Legal
<1> QED BY <1>4, <1>5, <1>6

LEMMA WaitLegal ==
    ASSUME NEW r, r.do = "WaitReplyDone"
    PROVE  Legal("ctl", r, Free("ctl", Hushed), Free("ctl", Hushed), Free("ctl", Lone))
<1> SUFFICES ASSUME NEW s \in Free("ctl", Hushed), NEW z \in View, Sound(s),
                    BtKept("ctl", r, s, z)
             PROVE  /\ Ends("ctl", r, s, z) => z \in Free("ctl", Lone) /\ Good("ctl", s, z)
                    /\ Fails(r, s, z) => z \in Free("ctl", Hushed) /\ Good("ctl", s, z)
  BY DEF Legal
<1>1. z.bt = s.bt /\ s \in Hushed /\ s.mutex # "ctl" /\ "ctl" \in Thread
  BY ThreadIs DEF BtKept, Free
<1>2. s \in View /\ Hushed \in Contexts("ctl")
  BY <1>1 DEF Hushed, Closed, Shut, Open, Contexts
<1>3. ASSUME Same(s, z) PROVE z \in Free("ctl", Hushed) /\ Good("ctl", s, z) /\ z.done = s.done
  <2>1. z \in Hushed
    BY <1>1, <1>2, <1>3, ContextKept DEF Same
  <2>2. z.mutex # "ctl" /\ z.done = s.done
    BY <1>1, <1>3 DEF Same, SameUsers
  <2> QED BY <1>1, <1>2, <1>3, <2>1, <2>2, SameGood DEF Free
<1>4. Ends("ctl", r, s, z) => Same(s, z) /\ s.done
  BY EndsAre
<1> QED BY <1>3, <1>4, FailsAre DEF Free, Lone

\* The mutex is taken and released.
LEMMA LockLegal ==
    ASSUME NEW t \in Thread, NEW K \in Contexts(t), NEW r, r.do = "Lock"
    PROVE  /\ Legal(t, r, Free(t, K), {}, Has(t, K, Coherent))
           /\ t = "ctl" => Legal(t, r, Free(t, Shut), {}, Has(t, Closed, Coherent))
<1>1. ASSUME NEW J \in Contexts(t), NEW s \in Free(t, J), NEW z \in View, Sound(s),
             BtKept(t, r, s, z), Ends(t, r, s, z)
      PROVE  z \in Has(t, J, Coherent) /\ Good(t, s, z) /\ (t = "ctl" => z.bt = "calm")
  <2>1. /\ SamePlay(s, z) /\ SameMic(s, z) /\ SameUsers(s, z)
        /\ s.mutex = "none" /\ z.mutex = t /\ (t = "ctl" => s.bt = "calm")
    BY <1>1, EndsAre DEF MutexEnds
  <2>2. (t # "bt" => z.bt = s.bt) /\ (s.bt = "calm" => z.bt = "calm")
    BY <1>1 DEF BtKept
  <2>3. s \in J /\ s \in View /\ s \in Coherent
    BY <1>1, <2>1, ContextIn DEF Free, Sound
  <2>4. z \in J /\ z \in Coherent
    BY <2>1, <2>2, <2>3, ContextKept, PlaybackKept DEF Playbacks
  <2>5. Rested(s) => Rested(z)
    BY <2>1 DEF SameMic, Rested
  <2>6. Alone(s) => Alone(z)
    BY <2>1, <2>2 DEF SameUsers, Alone
  <2>7. Shrinks(s, z)
    BY <2>1 DEF SamePlay, Shrinks
  <2>8. Does(t, s, z)
    BY <2>1, <2>2, <2>5, <2>7 DEF Does, SameUsers
  <2>9. Sound(z)
    BY <1>1, <2>1, <2>5, <2>6, ThreadIs DEF Sound, SameUsers
  <2> QED BY <2>1, <2>2, <2>4, <2>8, <2>9 DEF Has, Good
<1>2. \A s, z : ~Fails(r, s, z)
  BY FailsAre
<1>3. Legal(t, r, Free(t, K), {}, Has(t, K, Coherent))
  BY <1>1, <1>2 DEF Legal
<1>4. ASSUME t = "ctl" PROVE Legal(t, r, Free(t, Shut), {}, Has(t, Closed, Coherent))
  <2> SUFFICES ASSUME NEW s \in Free(t, Shut), NEW z \in View, Sound(s),
                      BtKept(t, r, s, z), Ends(t, r, s, z)
               PROVE  z \in Has(t, Closed, Coherent) /\ Good(t, s, z)
    BY <1>2 DEF Legal
  <2>1. Shut \in Contexts(t)
    BY <1>4 DEF Contexts
  <2>2. z \in Has(t, Shut, Coherent) /\ Good(t, s, z) /\ z.bt = "calm"
    BY <1>1, <1>4, <2>1
  <2> QED BY <2>2 DEF Has, Closed
<1> QED BY <1>3, <1>4

LEMMA UnlockLegal ==
    ASSUME NEW t \in Thread, NEW K \in Contexts(t), NEW r, r.do = "Unlock"
    PROVE  /\ Legal(t, r, Has(t, K, Coherent), {}, Free(t, K))
           /\ t = "ctl" => Legal(t, r, Has(t, Lone, Stopped), {}, Silent)
<1>1. ASSUME NEW J \in Contexts(t), NEW s \in Has(t, J, Coherent), NEW z \in View, Sound(s),
             BtKept(t, r, s, z), Ends(t, r, s, z)
      PROVE  z \in Free(t, J) /\ Good(t, s, z) /\ z.mutex # "ctl" /\ SamePlay(s, z)
  <2>1. /\ SamePlay(s, z) /\ SameMic(s, z) /\ SameUsers(s, z)
        /\ s.mutex = t /\ z.mutex = "none"
    BY <1>1, EndsAre DEF MutexEnds
  <2>2. (t # "bt" => z.bt = s.bt) /\ (s.bt = "calm" => z.bt = "calm")
    BY <1>1 DEF BtKept
  <2>3. s \in J /\ s \in View /\ s \in Coherent
    BY <1>1, <2>1, ContextIn DEF Has
  <2>4. z \in J /\ z \in Coherent
    BY <2>1, <2>2, <2>3, ContextKept, PlaybackKept DEF Playbacks
  <2>5. Rested(s) => Rested(z)
    BY <2>1 DEF SameMic, Rested
  <2>6. Alone(s) => Alone(z)
    BY <2>1, <2>2 DEF SameUsers, Alone
  <2>7. Shrinks(s, z)
    BY <2>1 DEF SamePlay, Shrinks
  <2>8. Does(t, s, z)
    BY <2>1, <2>2, <2>5, <2>7 DEF Does, SameUsers
  <2>9. Sound(z)
    BY <1>1, <2>1, <2>4, <2>5, <2>6, ThreadIs DEF Sound, SameUsers
  <2> QED BY <2>1, <2>2, <2>4, <2>8, <2>9, ThreadIs DEF Free, Good
<1>2. \A s, z : ~Fails(r, s, z)
  BY FailsAre
<1>3. Legal(t, r, Has(t, K, Coherent), {}, Free(t, K))
  BY <1>1, <1>2 DEF Legal
<1>4. ASSUME t = "ctl" PROVE Legal(t, r, Has(t, Lone, Stopped), {}, Silent)
  <2> SUFFICES ASSUME NEW s \in Has(t, Lone, Stopped), NEW z \in View, Sound(s),
                      BtKept(t, r, s, z), Ends(t, r, s, z)
               PROVE  z \in Silent /\ Good(t, s, z)
    BY <1>2 DEF Legal
  <2>1. Lone \in Contexts(t) /\ s \in Stopped
    BY <1>4 DEF Contexts, Has
  <2>2. s \in Has(t, Lone, Coherent)
    BY DEF Has, Stopped, DacDone, PlayingDone, Ending, Coherent
  <2>3. z \in Free(t, Lone) /\ Good(t, s, z) /\ z.mutex # "ctl" /\ SamePlay(s, z)
    BY <1>1, <2>1, <2>2
  <2>4. z \in Stopped
    BY <2>1, <2>3, PlaybackKept DEF Playbacks
  <2> QED BY <2>3, <2>4 DEF Free, Silent, Mine, Lone, Hushed, Closed, Shut, Open, Alone
<1> QED BY <1>3, <1>4

\* A step of the playback under the mutex.
LEMMA PlayLegal ==
    ASSUME NEW t \in Thread, NEW K \in Contexts(t), NEW H \in Playbacks, NEW E, NEW G,
           NEW r, r.do \in PlaySteps, r.do \in Tame \/ K \in Lively(t),
           \A s \in H, z \in View : PlayEnds(r, s, z) => z \in G,
           \A s \in H, z \in View :
              Same(s, z) /\ s.dma # "duplex" /\ r.do = "DacOn" => z \in E
    PROVE  Legal(t, r, Has(t, K, H), Has(t, K, E), Has(t, K, G))
<1> SUFFICES ASSUME NEW s \in Has(t, K, H), NEW z \in View, Sound(s), BtKept(t, r, s, z)
             PROVE  /\ Ends(t, r, s, z) => z \in Has(t, K, G) /\ Good(t, s, z)
                    /\ Fails(r, s, z) => z \in Has(t, K, E) /\ Good(t, s, z)
  BY DEF Legal
<1>1. s \in K /\ s \in H /\ s.mutex = t /\ s \in View
  BY ContextIn DEF Has
<1>2. /\ (t # "bt" => z.bt = s.bt) /\ (s.bt = "calm" => z.bt = "calm")
      /\ t = "bt" /\ r.do \notin Tame => s.bt # "calm"
  BY DEF BtKept
<1>3. r.do \notin Tame => Rested(s) /\ (t # "ctl" => ~Alone(s))
  BY <1>1, <1>2, LivelyRests
<1>4. ASSUME Ends(t, r, s, z) PROVE z \in Has(t, K, G) /\ Good(t, s, z)
  <2>1. PlayEnds(r, s, z)
    BY <1>4, EndsAre
  <2>2. SameMic(s, z) /\ SameUsers(s, z) /\ z.mutex = t
    BY <1>1, <2>1 DEF PlayEnds
  <2>3. z \in K /\ z \in G
    BY <1>1, <1>2, <2>1, <2>2, ContextKept
  <2>4. r.do \in Tame => Shrinks(s, z)
    BY <2>1 DEF PlayEnds, Tame, Shrinks
  <2>5. Good(t, s, z)
    BY <1>1, <1>2, <1>3, <2>2, <2>4, PlayGood
  <2> QED BY <2>2, <2>3, <2>5 DEF Has
<1>5. ASSUME Fails(r, s, z) PROVE z \in Has(t, K, E) /\ Good(t, s, z)
  <2>1. Same(s, z) /\ r.do \notin Tame /\ s.dma # "duplex" /\ r.do = "DacOn"
    BY <1>3, <1>5, FailsAre DEF Rested, PlaySteps, Tame
  <2>2. z \in K /\ z \in E /\ z.mutex = t
    BY <1>1, <1>2, <2>1, ContextKept DEF Same
  <2>3. Good(t, s, z)
    BY <1>1, <1>2, <2>1, SameGood
  <2> QED BY <2>2, <2>3 DEF Has
<1> QED BY <1>4, <1>5

\* The control thread's way into a capture and out of it.
MicRow(r, a, e, b) ==
    \/ r.do = "CapturingOff" /\ a = Caught /\ e = {} /\ b = Miked
    \/ r.do = "AdcOff" /\ a = Miked /\ e = {} /\ b = Duplexed
    \/ r.do \in {"DuplexDmaOff", "DmaOff"} /\ a = Duplexed /\ e = {} /\ b = Silent
    \/ r.do = "DuplexDmaOn" /\ a = Silent /\ e = {} /\ b = Duplexed
    \/ r.do = "AdcOn" /\ a = Duplexed /\ e = Duplexed /\ b = Miked
    \/ r.do = "CapturingOn" /\ a = Miked /\ e = {} /\ b = Caught
    \/ r.do \in {"CapturingOff", "AdcOff", "DuplexDmaOff"} /\ a = Silent /\ e = {} /\ b = Silent

LEMMA MicLegal ==
    ASSUME NEW r, NEW a, NEW e, NEW b, MicRow(r, a, e, b)
    PROVE  Legal("ctl", r, a, e, b)
<1> SUFFICES ASSUME NEW s \in a, NEW z \in View, Sound(s), BtKept("ctl", r, s, z)
             PROVE  /\ Ends("ctl", r, s, z) => z \in b /\ Good("ctl", s, z)
                    /\ Fails(r, s, z) => z \in e /\ Good("ctl", s, z)
  BY DEF Legal
<1>1. r.do \in MicSteps /\ a \in {Silent, Duplexed, Miked, Caught}
  BY DEF MicRow, MicSteps
<1>2. s \in Mine /\ z.bt = s.bt
  BY <1>1 DEF Silent, Duplexed, Miked, Caught, BtKept
<1>3. s \in View /\ s.dma # "playback" /\ ~s.playing
  BY <1>2 DEF Mine, Stopped, DacDone, PlayingDone, Ending
<1>4. ASSUME Ends("ctl", r, s, z) PROVE z \in b /\ Good("ctl", s, z)
  <2>1. MicEnds(r, s, z)
    BY <1>1, <1>4, EndsAre
  <2>2. /\ z.gate = s.gate /\ z.replies = s.replies /\ z.done = s.done /\ z.open = s.open
        /\ z.talking = s.talking /\ z.mutex = s.mutex
    BY <2>1 DEF MicEnds, SameUsers
  <2>3. SamePlay(s, z)
    BY <1>3, <2>1 DEF MicEnds, SamePlay
  <2>4. z \in Mine /\ Good("ctl", s, z)
    BY <1>2, <2>2, <2>3, MineGood
  <2>5. z \in b
    BY <1>3, <2>1, <2>2, <2>4 DEF MicRow, MicEnds, Silent, Duplexed, Miked, Caught, Rested, View
  <2> QED BY <2>4, <2>5
<1>5. ASSUME Fails(r, s, z) PROVE z \in e /\ Good("ctl", s, z)
  <2>1. Same(s, z) /\ r.do \in {"AdcOn", "DuplexDmaOn"} /\ r.do # "DuplexDmaOn"
    BY <1>1, <1>3, <1>5, FailsAre DEF MicSteps
  <2>2. e = a /\ a = Duplexed
    BY <2>1 DEF MicRow
  <2>3. z \in Mine /\ Good("ctl", s, z)
    BY <1>2, <2>1, MineGood DEF Same, SameUsers
  <2> QED BY <2>1, <2>2, <2>3 DEF Duplexed, Same, SameMic, SameUsers
<1> QED BY <1>4, <1>5

\* With nothing played, the stop of the playback changes nothing.
LEMMA SilentLegal ==
    ASSUME NEW r, r.do \in {"PlayingOff", "DacOff", "PlaybackDmaOff"}
    PROVE  Legal("ctl", r, Silent, {}, Silent)
<1> SUFFICES ASSUME NEW s \in Silent, NEW z \in View, Sound(s), BtKept("ctl", r, s, z)
             PROVE  /\ Ends("ctl", r, s, z) => z \in Silent /\ Good("ctl", s, z)
                    /\ ~Fails(r, s, z)
  BY DEF Legal
<1>1. s \in Mine /\ z.bt = s.bt
  BY DEF Silent, BtKept
<1>2. s \in View /\ s.dma # "playback" /\ ~s.playing /\ ~s.dac /\ ~s.pending
  BY <1>1 DEF Mine, Stopped, DacDone, PlayingDone, Ending
<1>3. ~Fails(r, s, z)
  BY FailsAre
<1>4. ASSUME Ends("ctl", r, s, z) PROVE z \in Silent /\ Good("ctl", s, z)
  <2>1. PlayEnds(r, s, z)
    BY <1>4, EndsAre DEF PlaySteps
  <2>2. SameMic(s, z) /\ SameUsers(s, z) /\ z.mutex = s.mutex
    BY <2>1 DEF PlayEnds
  <2>3. SamePlay(s, z)
    BY <1>2, <2>1 DEF PlayEnds, SamePlay, View
  <2>4. z \in Mine /\ Good("ctl", s, z)
    BY <1>1, <2>2, <2>3, MineGood DEF SameUsers
  <2> QED BY <2>2, <2>4 DEF Silent, SameMic, SameUsers, Rested
<1> QED BY <1>3, <1>4

\* The gate, the replies and the capture's own flag.
UserRow(t, r, a, e, b) ==
    /\ e = {}
    /\ \/ /\ t = "ctl"
          /\ \/ r.do = "Enable" /\ r.arg = FALSE /\ a = Free(t, Open) /\ b = Free(t, Shut)
             \/ r.do \in {"Enable", "ReplyOn"} /\ a = Free(t, Open) /\ b = a
             \/ r.do = "ReplyOff" /\ a = Free(t, Closed) /\ b = Free(t, Hushed)
             \/ r.do = "SetCapturing" /\ r.arg = TRUE /\ a = Caught /\ b = Talking
             \/ r.do = "SetCapturing" /\ r.arg = FALSE /\ a = Talking /\ b = Caught
       \/ t = "rx" /\ r.do = "CloseUart" /\ a = Free(t, Opened) /\ b = Free(t, View)

LEMMA UserLegal ==
    ASSUME NEW t \in Thread, NEW r, NEW a, NEW e, NEW b, UserRow(t, r, a, e, b)
    PROVE  Legal(t, r, a, e, b)
<1> SUFFICES ASSUME NEW s \in a, NEW z \in View, Sound(s), BtKept(t, r, s, z)
             PROVE  /\ Ends(t, r, s, z) => z \in b /\ Good(t, s, z)
                    /\ ~Fails(r, s, z)
  BY DEF Legal
<1>1. r.do \in UserSteps /\ t \in {"ctl", "rx"} /\ ~Fails(r, s, z)
  BY FailsAre DEF UserRow, UserSteps
<1>2. z.bt = s.bt
  BY <1>1 DEF BtKept
<1>3. s \in View
  BY DEF UserRow, Free, Open, Closed, Shut, Caught, Talking, Mine, Opened
<1>4. ASSUME Ends(t, r, s, z) PROVE z \in b /\ Good(t, s, z)
  <2>1. UserEnds(r, s, z)
    BY <1>1, <1>4, EndsAre
  <2>2. /\ SamePlay(s, z) /\ SameMic(s, z) /\ z.mutex = s.mutex
        /\ Rested(s) => Rested(z)
        /\ s \in Coherent => z \in Coherent
        /\ s \in Stopped => z \in Stopped
    <3>1. SamePlay(s, z) /\ SameMic(s, z) /\ z.mutex = s.mutex
      BY <2>1 DEF UserEnds
    <3>2. Rested(s) => Rested(z)
      BY <3>1 DEF SameMic, Rested
    <3>3. Coherent \in Playbacks /\ Stopped \in Playbacks
      BY DEF Playbacks
    <3> QED BY <3>1, <3>2, <3>3, PlaybackKept
  <2>3. CASE t = "ctl" /\ r.do \in {"Enable", "ReplyOn"}
    <3>1. /\ a = Free(t, Open)
          /\ \/ b = a
             \/ b = Free(t, Shut) /\ r.do = "Enable" /\ r.arg = FALSE
      BY <2>3 DEF UserRow
    <3>2. s.mutex # t /\ Rested(s) /\ ~s.talking
      BY <3>1 DEF Free, Open
    <3>3. /\ ~z.talking /\ z.open = s.open /\ Rested(z)
          /\ z.done => s.done
          /\ r.do = "Enable" /\ r.arg = FALSE => ~z.gate
      BY <2>1, <2>2, <2>3, <3>2 DEF UserEnds
    <3>4. z \in Free(t, Open) /\ (r.do = "Enable" /\ r.arg = FALSE => z \in Free(t, Shut))
      BY <2>2, <3>2, <3>3 DEF Free, Shut, Open
    <3>5. Does(t, s, z) /\ Sound(z)
      BY <1>2, <2>2, <2>3, <3>3 DEF Does, Sound
    <3> QED BY <2>3, <3>1, <3>4, <3>5 DEF Good
  <2>4. CASE t = "ctl" /\ a = Free(t, Closed) /\ b = Free(t, Hushed) /\ r.do = "ReplyOff"
    <3>1. s.mutex # t /\ Rested(s) /\ ~s.talking /\ ~s.gate /\ s.bt = "calm"
      BY <2>4 DEF Free, Open, Shut, Closed
    <3>2. ~z.talking /\ z.open = s.open /\ Rested(z) /\ z.done = s.done /\ ~z.gate /\ ~z.replies
      BY <2>1, <2>2, <2>4, <3>1 DEF UserEnds
    <3>3. Does(t, s, z) /\ Sound(z)
      BY <1>2, <2>2, <2>4, <3>2 DEF Does, Sound
    <3> QED BY <1>2, <2>2, <2>4, <3>1, <3>2, <3>3 DEF Good, Free, Open, Shut, Closed, Hushed
  <2>5. CASE /\ t = "ctl" /\ r.do = "SetCapturing"
             /\ \/ r.arg = TRUE /\ a = Caught /\ b = Talking
                \/ r.arg = FALSE /\ a = Talking /\ b = Caught
    <3>1. s \in Mine /\ s.dma = "duplex" /\ s.adc /\ s.capturing
      BY <2>5 DEF Caught, Talking
    <3>2. /\ z.replies = s.replies /\ z.done = s.done /\ z.open = s.open /\ z.gate = s.gate
          /\ z.talking = r.arg /\ z.dma = "duplex" /\ z.adc /\ z.capturing
      BY <2>1, <2>2, <2>5, <3>1 DEF UserEnds, SameMic
    <3>3. z \in Mine /\ Good("ctl", s, z)
      BY <1>2, <2>2, <3>1, <3>2, MineGood
    <3> QED BY <2>5, <3>2, <3>3 DEF Caught, Talking
  <2>6. CASE t = "rx" /\ r.do = "CloseUart" /\ a = Free(t, Opened) /\ b = Free(t, View)
    <3>1. s.mutex # t /\ s.open /\ ~s.done /\ ~Alone(s) /\ Rested(s)
      BY <2>6 DEF Free, Opened, Sound, Alone
    <3>2. /\ ~z.open /\ z.done /\ z.replies = s.replies /\ z.gate = s.gate
          /\ z.talking = s.talking
      BY <2>1, <2>6 DEF UserEnds
    <3>3. Does(t, s, z)
      BY <1>2, <2>2, <2>6, <3>1, <3>2 DEF Does
    <3>4. Sound(z)
      BY <2>2, <3>1, <3>2 DEF Sound
    <3> QED BY <2>2, <2>6, <3>1, <3>3, <3>4 DEF Good, Free
  <2> QED BY <2>3, <2>4, <2>5, <2>6 DEF UserRow
<1> QED BY <1>1, <1>4

LEMMA LivelyIn ==
    ASSUME NEW t \in Thread, NEW K \in Lively(t)
    PROVE  K \in Contexts(t)
BY ThreadIs DEF Lively, Contexts

LEMMA PlaybackSets ==
    /\ {Coherent, Ending, PlayingDone, DacDone, Stopped, Notifying} \subseteq Playbacks
    /\ \A x \in Sources : {Starting(x), Started(x), Arming(x)} \subseteq Playbacks
BY DEF Playbacks

LEMMA EndLegal ==
    ASSUME NEW t \in Thread, NEW K \in Contexts(t), NEW r
    PROVE  /\ r.do = "PlayingOff" => Legal(t, r, Has(t, K, Ending), {}, Has(t, K, PlayingDone))
           /\ r.do = "DacOff" => Legal(t, r, Has(t, K, PlayingDone), {}, Has(t, K, DacDone))
           /\ r.do = "PlaybackDmaOff" => Legal(t, r, Has(t, K, DacDone), {}, Has(t, K, Stopped))
<1>1. {} = Has(t, K, {})
  BY DEF Has
<1>2. ASSUME NEW H \in Playbacks, NEW G, r.do \in Tame \cap PlaySteps,
             \A s \in H, z \in View : PlayEnds(r, s, z) => z \in G
      PROVE  Legal(t, r, Has(t, K, H), {}, Has(t, K, G))
  <2>1. \A s \in H, z \in View : ~(r.do = "DacOn")
    BY <1>2 DEF Tame
  <2> QED BY <1>1, <1>2, <2>1, PlayLegal
<1>3. ASSUME r.do = "PlayingOff"
      PROVE  Legal(t, r, Has(t, K, Ending), {}, Has(t, K, PlayingDone))
  <2>1. \A s \in Ending, z \in View : PlayEnds(r, s, z) => z \in PlayingDone
    BY <1>3 DEF PlayEnds, Ending, PlayingDone
  <2> QED BY <1>2, <1>3, <2>1, PlaybackSets DEF Tame, PlaySteps
<1>4. ASSUME r.do = "DacOff"
      PROVE  Legal(t, r, Has(t, K, PlayingDone), {}, Has(t, K, DacDone))
  <2>1. \A s \in PlayingDone, z \in View : PlayEnds(r, s, z) => z \in DacDone
    BY <1>4 DEF PlayEnds, Ending, PlayingDone, DacDone
  <2> QED BY <1>2, <1>4, <2>1, PlaybackSets DEF Tame, PlaySteps
<1>5. ASSUME r.do = "PlaybackDmaOff"
      PROVE  Legal(t, r, Has(t, K, DacDone), {}, Has(t, K, Stopped))
  <2>1. \A s \in DacDone, z \in View : PlayEnds(r, s, z) => z \in Stopped
    BY <1>5 DEF PlayEnds, Ending, PlayingDone, DacDone, Stopped
  <2> QED BY <1>2, <1>5, <2>1, PlaybackSets DEF Tame, PlaySteps
<1> QED BY <1>3, <1>4, <1>5

LEMMA StartLegal ==
    ASSUME NEW t \in Thread, NEW K \in Lively(t), NEW x \in Sources, NEW r
    PROVE  /\ r.do = "DacOn" =>
                Legal(t, r, Has(t, K, Arming(x)), Has(t, K, Arming(x)), Has(t, K, Coherent))
           /\ r.do = "PlayingOff" =>
                Legal(t, r, Has(t, K, Arming(x)), {}, Has(t, K, Starting(x)))
           /\ r.do = "Rollback" /\ r.arg = x =>
                Legal(t, r, Has(t, K, Starting(x)), {}, Has(t, K, Coherent))
           /\ r.do = "PlaybackDmaOn" =>
                Legal(t, r, Has(t, K, Notifying), {}, Has(t, K, Coherent))
<1>1. {} = Has(t, K, {}) /\ K \in Contexts(t)
  BY LivelyIn DEF Has
<1>2. ASSUME NEW H \in Playbacks, NEW G, r.do \in PlaySteps \ {"DacOn"},
             \A s \in H, z \in View : PlayEnds(r, s, z) => z \in G
      PROVE  Legal(t, r, Has(t, K, H), {}, Has(t, K, G))
  <2>1. \A s \in H, z \in View : ~(r.do = "DacOn")
    BY <1>2
  <2> QED BY <1>1, <1>2, <2>1, PlayLegal
<1>3. ASSUME r.do = "DacOn"
      PROVE  Legal(t, r, Has(t, K, Arming(x)), Has(t, K, Arming(x)), Has(t, K, Coherent))
  <2>1. \A s \in Arming(x), z \in View : PlayEnds(r, s, z) => z \in Coherent
    BY <1>3 DEF PlayEnds, Arming, Coherent
  <2>2. \A s \in Arming(x), z \in View : Same(s, z) => z \in Arming(x)
    BY PlaybackKept, PlaybackSets DEF Same
  <2> QED BY <1>1, <1>3, <2>1, <2>2, PlayLegal, PlaybackSets DEF PlaySteps
<1>4. ASSUME r.do = "PlayingOff"
      PROVE  Legal(t, r, Has(t, K, Arming(x)), {}, Has(t, K, Starting(x)))
  <2>1. \A s \in Arming(x), z \in View : PlayEnds(r, s, z) => z \in Starting(x)
    BY <1>4 DEF PlayEnds, Arming, Starting
  <2> QED BY <1>2, <1>4, <2>1, PlaybackSets DEF PlaySteps
<1>5. ASSUME r.do = "Rollback", r.arg = x
      PROVE  Legal(t, r, Has(t, K, Starting(x)), {}, Has(t, K, Coherent))
  <2>1. \A s \in Starting(x), z \in View : PlayEnds(r, s, z) => z \in Coherent
    BY <1>5 DEF PlayEnds, Starting, Coherent
  <2> QED BY <1>2, <1>5, <2>1, PlaybackSets DEF PlaySteps
<1>6. ASSUME r.do = "PlaybackDmaOn"
      PROVE  Legal(t, r, Has(t, K, Notifying), {}, Has(t, K, Coherent))
  <2>1. \A s \in Notifying, z \in View : PlayEnds(r, s, z) => z \in Coherent
    BY <1>6 DEF PlayEnds, Notifying, Coherent
  <2> QED BY <1>2, <1>6, <2>1, PlaybackSets DEF PlaySteps
<1> QED BY <1>3, <1>4, <1>5, <1>6

----------------------------------------------------------------------------
(* Programs of the thread t, with their calls nested as deep as needed.       *)

Rows(t)   == RowsOf(Assertions(t), Table(t))
Level1(t) == Deep1(ModesOver(Assertions(t)), Rows(t))
Level2(t) == Deep2(ModesOver(Assertions(t)), Rows(t))

\* p leads from a to b, or to an error in e.
Path(t, T, p, a, e, b) ==
    a \in Assertions(t) /\ e \in Assertions(t) /\ b \in Assertions(t)
    /\ PathIn(Assertions(t), T, p, a, e, b)

LEMMA NothingIn == \A t : {} \in Assertions(t)
BY DEF Assertions

LEMMA SimplePath ==
    ASSUME NEW t, NEW r \in PlainStep, r.do \in Simple,
           NEW a \in Assertions(t), NEW e \in Assertions(t), NEW b \in Assertions(t),
           Legal(t, r, a, e, b),
           t = "bt" /\ r.do \in Sleeps => \A s \in a : s.mutex = "bt",
           r.do \in {"PlayingOff", "PlaybackDmaOff", "DmaOff"} =>
              \A s \in a : s.active = {} \/ s.dma # "playback",
           r.do = "PlaybackDmaOn" => \E K \in Lively(t) : a \subseteq Has(t, K, Notifying)
    PROVE  Path(t, Rows(t), <<r>>, a, e, b)
<1>1. <<r, a, e, b>> \in Table(t)
  BY DEF Table, Careful
<1> QED BY <1>1, RowIn DEF Path, Rows

LEMMA BranchPath ==
    ASSUME NEW t, NEW r \in PlainStep,
           NEW a \in Assertions(t), NEW e \in Assertions(t), NEW b \in Assertions(t),
           Branch(t, r, a, e, b)
    PROVE  Path(t, Rows(t), <<r>>, a, e, b)
<1>1. <<r, a, e, b>> \in Table(t)
  BY DEF Table
<1> QED BY <1>1, RowIn DEF Path, Rows

LEMMA EmptyPath ==
    ASSUME NEW t, NEW T, NEW a \in Assertions(t), NEW e \in Assertions(t), NEW b \in Assertions(t),
           a \subseteq b
    PROVE  Path(t, T, <<>>, a, e, b)
BY EmptyIn DEF Path

LEMMA WeakenPath ==
    ASSUME NEW t, NEW T, NEW p, NEW b, NEW e1, NEW c, Path(t, T, p, b, e1, c),
           NEW a \in Assertions(t), NEW e \in Assertions(t), NEW d \in Assertions(t),
           a \subseteq b, c \subseteq d, e1 \subseteq e
    PROVE  Path(t, T, p, a, e, d)
BY WeakenIn DEF Path

LEMMA ThenPath ==
    ASSUME NEW t, NEW T, NEW p, NEW q, NEW a, NEW e1, NEW b, NEW c, NEW e2, NEW d,
           Path(t, T, p, a, e1, b), Path(t, T, q, c, e2, d), b \subseteq c
    PROVE  /\ \A e \in Assertions(t) :
                 e1 \subseteq e /\ e2 \subseteq e => Path(t, T, p \o q, a, e, d)
           /\ e1 = {} => Path(t, T, p \o q, a, e2, d)
           /\ e2 = {} => Path(t, T, p \o q, a, e1, d)
<1>1. ASSUME NEW e \in Assertions(t), e1 \subseteq e, e2 \subseteq e
      PROVE  Path(t, T, p \o q, a, e, d)
  BY <1>1, ThenIn DEF Path
<1> QED BY <1>1 DEF Path

LEMMA ProgramPath ==
    ASSUME NEW t, NEW T, NEW p, NEW a, NEW e, NEW b, Path(t, T, p, a, e, b)
    PROVE  p \in Programs(T)
BY ProgramIn DEF Path

LEMMA LiftPath ==
    ASSUME NEW t, NEW p, NEW a, NEW e, NEW b
    PROVE  /\ Path(t, Rows(t), p, a, e, b) => Path(t, Level1(t), p, a, e, b)
           /\ Path(t, Rows(t), p, a, e, b) => Path(t, Level2(t), p, a, e, b)
           /\ Path(t, Rows(t), p, a, e, b) => Path(t, Steps(t), p, a, e, b)
           /\ Path(t, Level1(t), p, a, e, b) => Path(t, Level2(t), p, a, e, b)
           /\ Path(t, Level1(t), p, a, e, b) => Path(t, Steps(t), p, a, e, b)
           /\ Path(t, Level2(t), p, a, e, b) => Path(t, Steps(t), p, a, e, b)
BY LiftIn DEF Path, Level1, Level2, Steps, Rows, AllOf

\* A call, one level down.
LEMMA TryPath ==
    ASSUME NEW t, NEW T, NEW U,
           <<T, U>> \in {<<Rows(t), Level1(t)>>, <<Level1(t), Level2(t)>>, <<Level2(t), Steps(t)>>},
           NEW body, NEW ok, NEW err, NEW a, NEW e1, NEW b, NEW b1, NEW e, NEW c,
           Path(t, T, body, a, e1, b), Path(t, T, ok, b1, e, c), b \subseteq b1,
           \/ Path(t, T, err, e1, e, c)
           \/ e1 = {} /\ err \in Programs(T)
    PROVE  Path(t, U, Try(body, ok, err), a, e, c)
<1> DEFINE A == Assertions(t)
<1>1. /\ a \in A /\ e1 \in A /\ b \in A /\ e \in A /\ c \in A
      /\ PathIn(A, T, body, a, e1, b) /\ PathIn(A, T, ok, b1, e, c)
      /\ e1 # {} => PathIn(A, T, err, e1, e, c)
  BY DEF Path
<1>2. PathIn(A, T, ok, b, e, c)
  BY <1>1, WeakenIn
<1>3. err \in Programs(T)
  BY ProgramPath
<1>4. U = Deeper(ModesOver(A), Rows(t), T)
  BY DEF Level1, Level2, Steps, AllOf, Deep1, Deep2, Deep3, Rows
<1> HIDE DEF A
<1>5. PathIn(A, Deeper(ModesOver(A), Rows(t), T), Try(body, ok, err), a, e, c)
  BY <1>1, <1>2, <1>3, TryIn
<1> QED BY <1>1, <1>4, <1>5 DEF A, Path

----------------------------------------------------------------------------
(* The steps of the code's programs.                                          *)

\* Those that change nothing that is seen.
LEMMA StillPaths ==
    ASSUME NEW t \in Thread, NEW a \in Assertions(t), NEW b \in Assertions(t)
    PROVE  /\ \A x \in BOOLEAN : Path(t, Rows(t), With("Allow", x), a, {}, a)
           /\ \A x \in BOOLEAN : Path(t, Rows(t), With("SetVoice", x), a, {}, a)
           /\ Path(t, Rows(t), With("Reconfigure", MusicRate), a, {}, a)
           /\ Path(t, Rows(t), Do("Fail"), a, a, b)
           /\ t # "bt" => Path(t, Rows(t), Do("UartStop"), a, {}, a)
           /\ t # "bt" => Path(t, Rows(t), Do("UartStart"), a, a, a)
<1>1. /\ \A x \in BOOLEAN, d \in {"Allow", "SetVoice"} : [do |-> d, arg |-> x] \in PlainStep
      /\ [do |-> "Reconfigure", arg |-> MusicRate] \in PlainStep
      /\ \A d \in {"Fail", "UartStop", "UartStart"} : [do |-> d] \in PlainStep
  BY DEF PlainStep, Bare, Calm, Risky, Rates
<1>2. {"Allow", "SetVoice", "Reconfigure", "Fail", "UartStop", "UartStart"} \subseteq Simple
      /\ {"Allow", "SetVoice", "Reconfigure", "Fail"} \cap Sleeps = {}
  BY DEF Simple, Idling, Sleeps
<1>3. ASSUME NEW x \in BOOLEAN, NEW d \in {"Allow", "SetVoice"}
      PROVE  Path(t, Rows(t), With(d, x), a, {}, a)
  <2>1. PICK r \in PlainStep : r = [do |-> d, arg |-> x]
    BY <1>1
  <2>2. r.do = d
    BY <2>1
  <2>3. Path(t, Rows(t), <<r>>, a, {}, a)
    BY <1>2, <2>2, SameLegal, SimplePath, NothingIn
  <2> QED BY <2>1, <2>3 DEF With
<1>4. Path(t, Rows(t), With("Reconfigure", MusicRate), a, {}, a)
  <2>1. PICK r \in PlainStep : r = [do |-> "Reconfigure", arg |-> MusicRate]
    BY <1>1
  <2>2. r.do = "Reconfigure"
    BY <2>1
  <2>3. Path(t, Rows(t), <<r>>, a, {}, a)
    BY <1>2, <2>2, SameLegal, SimplePath, NothingIn
  <2> QED BY <2>1, <2>3 DEF With
<1>5. ASSUME NEW d \in {"Fail", "UartStop", "UartStart"}, d # "Fail" => t # "bt",
             NEW e \in Assertions(t), NEW c \in Assertions(t),
             \A r : r.do = d => Legal(t, r, a, e, c)
      PROVE  Path(t, Rows(t), Do(d), a, e, c)
  <2>1. PICK r \in PlainStep : r = [do |-> d]
    BY <1>1
  <2>2. r.do = d
    BY <2>1
  <2>3. Path(t, Rows(t), <<r>>, a, e, c)
    BY <1>2, <1>5, <2>2, SimplePath
  <2> QED BY <2>1, <2>3 DEF Do
<1>6. Path(t, Rows(t), Do("Fail"), a, a, b)
  BY <1>5, SameLegal
<1>7. t # "bt" => Path(t, Rows(t), Do("UartStop"), a, {}, a)
  BY <1>5, SameLegal, NothingIn
<1>8. t # "bt" => Path(t, Rows(t), Do("UartStart"), a, a, a)
  BY <1>5, SameLegal
<1> QED BY <1>3, <1>4, <1>6, <1>7, <1>8

LEMMA DoPath ==
    ASSUME NEW t, NEW d \in Bare \cap Simple,
           NEW a \in Assertions(t), NEW e \in Assertions(t), NEW b \in Assertions(t),
           t = "bt" /\ d \in Sleeps => \A s \in a : s.mutex = "bt",
           d \in {"PlayingOff", "PlaybackDmaOff", "DmaOff"} =>
              \A s \in a : s.active = {} \/ s.dma # "playback",
           d = "PlaybackDmaOn" => \E K \in Lively(t) : a \subseteq Has(t, K, Notifying),
           \A r : r.do = d => Legal(t, r, a, e, b)
    PROVE  Path(t, Rows(t), Do(d), a, e, b)
<1>1. PICK r \in PlainStep : r = [do |-> d]
  BY DEF PlainStep
<1>2. r.do = d
  BY <1>1
<1>3. Path(t, Rows(t), <<r>>, a, e, b)
  BY <1>2, SimplePath
<1> QED BY <1>1, <1>3 DEF Do

LEMMA WithPath ==
    ASSUME NEW t, NEW d \in Simple \ Sleeps, NEW x, [do |-> d, arg |-> x] \in PlainStep,
           d \notin {"PlayingOff", "PlaybackDmaOff", "DmaOff", "PlaybackDmaOn"},
           NEW a \in Assertions(t), NEW e \in Assertions(t), NEW b \in Assertions(t),
           \A r : r.do = d /\ r.arg = x => Legal(t, r, a, e, b)
    PROVE  Path(t, Rows(t), With(d, x), a, e, b)
<1>1. PICK r \in PlainStep : r = [do |-> d, arg |-> x]
  OBVIOUS
<1>2. r.do = d /\ r.arg = x
  BY <1>1
<1>3. Path(t, Rows(t), <<r>>, a, e, b)
  BY <1>2, SimplePath
<1> QED BY <1>1, <1>3 DEF With

LEMMA BranchDo ==
    ASSUME NEW t, NEW d \in Bare,
           NEW a \in Assertions(t), NEW e \in Assertions(t), NEW b \in Assertions(t),
           \A r : r.do = d => Branch(t, r, a, e, b)
    PROVE  Path(t, Rows(t), Do(d), a, e, b)
<1>1. PICK r \in PlainStep : r = [do |-> d]
  BY DEF PlainStep
<1>2. r.do = d
  BY <1>1
<1>3. Path(t, Rows(t), <<r>>, a, e, b)
  BY <1>2, BranchPath
<1> QED BY <1>1, <1>3 DEF Do

LEMMA BranchWith ==
    ASSUME NEW t, NEW d, NEW x, [do |-> d, arg |-> x] \in PlainStep,
           NEW a \in Assertions(t), NEW e \in Assertions(t), NEW b \in Assertions(t),
           \A r : r.do = d /\ r.arg = x => Branch(t, r, a, e, b)
    PROVE  Path(t, Rows(t), With(d, x), a, e, b)
<1>1. PICK r \in PlainStep : r = [do |-> d, arg |-> x]
  OBVIOUS
<1>2. r.do = d /\ r.arg = x
  BY <1>1
<1>3. Path(t, Rows(t), <<r>>, a, e, b)
  BY <1>2, BranchPath
<1> QED BY <1>1, <1>3 DEF With

\* The mutex.
LEMMA MutexPaths ==
    ASSUME NEW t \in Thread, NEW K \in Contexts(t)
    PROVE  /\ Path(t, Rows(t), Do("Lock"), Free(t, K), {}, Has(t, K, Coherent))
           /\ Path(t, Rows(t), Do("Unlock"), Has(t, K, Coherent), {}, Free(t, K))
           /\ t = "ctl" =>
                /\ Path(t, Rows(t), Do("Lock"), Free(t, Shut), {}, Has(t, Closed, Coherent))
                /\ Path(t, Rows(t), Do("Unlock"), Has(t, Lone, Stopped), {}, Silent)
<1>1. {"Lock", "Unlock"} \subseteq (Bare \cap Simple) \ Sleeps
  BY DEF Bare, Simple, Sleeps
<1>2. /\ Free(t, K) \in Assertions(t) /\ Has(t, K, Coherent) \in Assertions(t)
      /\ {} \in Assertions(t)
      /\ t = "ctl" => /\ Free(t, Shut) \in Assertions(t) /\ Silent \in Assertions(t)
                      /\ Has(t, Closed, Coherent) \in Assertions(t)
                      /\ Has(t, Lone, Stopped) \in Assertions(t)
  <2>1. t = "ctl" => {Shut, Closed, Lone} \subseteq Contexts(t)
    BY DEF Contexts
  <2> QED BY <2>1, FreeIn, HasIn, MineIn, NothingIn, PlaybackSets
<1>3. Path(t, Rows(t), Do("Lock"), Free(t, K), {}, Has(t, K, Coherent))
  BY <1>1, <1>2, LockLegal, DoPath
<1>4. Path(t, Rows(t), Do("Unlock"), Has(t, K, Coherent), {}, Free(t, K))
  BY <1>1, <1>2, UnlockLegal, DoPath
<1>5. ASSUME t = "ctl"
      PROVE  Path(t, Rows(t), Do("Lock"), Free(t, Shut), {}, Has(t, Closed, Coherent))
  BY <1>1, <1>2, <1>5, LockLegal, DoPath
<1>6. ASSUME t = "ctl"
      PROVE  Path(t, Rows(t), Do("Unlock"), Has(t, Lone, Stopped), {}, Silent)
  BY <1>1, <1>2, <1>6, UnlockLegal, DoPath
<1> QED BY <1>3, <1>4, <1>5, <1>6

\* A program under the mutex; e1 is where it returns an error.
LEMMA LockedPath ==
    ASSUME NEW t \in Thread, NEW p, NEW a, NEW h, NEW e1, NEW k, NEW k1, NEW e, NEW b,
           Path(t, Rows(t), Do("Lock"), a, {}, h), Path(t, Rows(t), p, h, e1, k),
           k \subseteq k1, Path(t, Rows(t), Do("Unlock"), k1, {}, b),
           e1 = {} \/ Path(t, Rows(t), Do("Unlock"), e1, {}, e), e \in Assertions(t)
    PROVE  Path(t, Level1(t), Locked(p), a, e, b)
<1>1. a \in Assertions(t) /\ b \in Assertions(t) /\ e \in Assertions(t)
  BY DEF Path
<1>2. Path(t, Rows(t), Do("Fail"), b, b, b) /\ Path(t, Rows(t), Do("Fail"), e, e, b)
  BY <1>1, StillPaths
<1>3. Path(t, Rows(t), Do("Unlock") \o Do("Fail"), k1, b, b)
  BY <1>2, ThenPath
<1>4. Do("Unlock") \o Do("Fail") \in Programs(Rows(t))
  BY <1>3, ProgramPath
<1>5. e1 # {} => Path(t, Rows(t), Do("Unlock") \o Do("Fail"), e1, e, b)
  BY <1>2, ThenPath
<1>6. Path(t, Rows(t), Do("Unlock"), k1, e, b)
  BY <1>1, WeakenPath DEF Path
<1>7. Path(t, Level1(t), Try(p, Do("Unlock"), Do("Unlock") \o Do("Fail")), h, e, b)
  <2>1. <<Rows(t), Level1(t)>> \in {<<Rows(t), Level1(t)>>, <<Level1(t), Level2(t)>>,
                                     <<Level2(t), Steps(t)>>}
    OBVIOUS
  <2> QED BY <1>4, <1>5, <1>6, <2>1, TryPath
<1>8. Path(t, Level1(t), Do("Lock"), a, {}, h)
  BY LiftPath
<1> QED BY <1>7, <1>8, ThenPath DEF Locked

LEMMA StopPath ==
    ASSUME NEW t \in Thread, NEW K \in Contexts(t)
    PROVE  Path(t, Rows(t), StopPlayback, Has(t, K, Ending), {}, Has(t, K, Stopped))
<1>1. {"PlayingOff", "DacOff", "PlaybackDmaOff"} \subseteq Bare \cap Simple
  BY DEF Bare, Calm, Simple
<1>2. /\ Has(t, K, Ending) \in Assertions(t) /\ Has(t, K, PlayingDone) \in Assertions(t)
      /\ Has(t, K, DacDone) \in Assertions(t) /\ Has(t, K, Stopped) \in Assertions(t)
      /\ {} \in Assertions(t)
  BY HasIn, NothingIn, PlaybackSets
<1>3. /\ \A s \in Has(t, K, PlayingDone) : s.mutex = t
      /\ \A s \in Has(t, K, Ending) \union Has(t, K, DacDone) : s.active = {}
  BY DEF Has, Ending, PlayingDone, DacDone
<1>4. Path(t, Rows(t), Do("PlayingOff"), Has(t, K, Ending), {}, Has(t, K, PlayingDone))
  BY <1>1, <1>2, <1>3, EndLegal, DoPath DEF Sleeps
<1>5. Path(t, Rows(t), Do("DacOff"), Has(t, K, PlayingDone), {}, Has(t, K, DacDone))
  BY <1>1, <1>2, <1>3, EndLegal, DoPath
<1>6. Path(t, Rows(t), Do("PlaybackDmaOff"), Has(t, K, DacDone), {}, Has(t, K, Stopped))
  BY <1>1, <1>2, <1>3, EndLegal, DoPath DEF Sleeps
<1>7. Path(t, Rows(t), Do("PlayingOff") \o Do("DacOff"), Has(t, K, Ending), {},
           Has(t, K, DacDone))
  BY <1>4, <1>5, ThenPath
<1> QED BY <1>6, <1>7, ThenPath DEF StopPlayback

LEMMA DeactivatePaths ==
    ASSUME NEW t \in Thread, NEW K \in Contexts(t)
    PROVE  /\ \A x \in Sources : Path(t, Rows(t), With("Deactivate", {x}), Has(t, K, Coherent), {},
                                      Has(t, K, Coherent))
           /\ Path(t, Rows(t), With("Deactivate", Sources), Has(t, K, Coherent), {},
                   Has(t, K, Ending))
<1>1. /\ Has(t, K, Ending) \in Assertions(t) /\ Has(t, K, Coherent) \in Assertions(t)
      /\ {} \in Assertions(t)
  BY HasIn, NothingIn, PlaybackSets
<1>2. \A S \in SUBSET Sources : [do |-> "Deactivate", arg |-> S] \in PlainStep
  BY DEF PlainStep
<1>3. ASSUME NEW x \in Sources
      PROVE  Path(t, Rows(t), With("Deactivate", {x}), Has(t, K, Coherent), {}, Has(t, K, Coherent))
  <2>1. {x} \in SUBSET Sources /\ {x} # Sources
    BY DEF Sources
  <2>2. \A r : r.do = "Deactivate" /\ r.arg = {x} =>
          Branch(t, r, Has(t, K, Coherent), {}, Has(t, K, Coherent))
    BY <2>1 DEF Branch
  <2> QED BY <1>1, <1>2, <2>1, <2>2, BranchWith
<1>4. \A r : r.do = "Deactivate" /\ r.arg = Sources =>
        Branch(t, r, Has(t, K, Coherent), {}, Has(t, K, Ending))
  BY DEF Branch
<1>5. Path(t, Rows(t), With("Deactivate", Sources), Has(t, K, Coherent), {}, Has(t, K, Ending))
  BY <1>1, <1>2, <1>4, BranchWith
<1> QED BY <1>3, <1>5

\* audio_mixer_source_stop, and audio_mixer_stop_all.
LEMMA SourceStopPaths ==
    ASSUME NEW t \in Thread, NEW x \in Sources
    PROVE  /\ \A K \in Contexts(t) : Path(t, Level1(t), SourceStop(x), Free(t, K), {}, Free(t, K))
           /\ t = "ctl" => Path(t, Level1(t), SourceStop(x), Free(t, Shut), {}, Free(t, Closed))
<1>1. {} \in Assertions(t)
  BY NothingIn
<1>2. ASSUME NEW K \in Contexts(t)
      PROVE  Path(t, Level1(t), SourceStop(x), Free(t, K), {}, Free(t, K))
  <2>1. Path(t, Rows(t), With("Deactivate", {x}), Has(t, K, Coherent), {}, Has(t, K, Coherent))
    BY DeactivatePaths
  <2> QED BY <1>1, <2>1, MutexPaths, LockedPath DEF SourceStop
<1>3. ASSUME t = "ctl"
      PROVE  Path(t, Level1(t), SourceStop(x), Free(t, Shut), {}, Free(t, Closed))
  <2>1. Closed \in Contexts(t)
    BY <1>3 DEF Contexts
  <2>2. Path(t, Rows(t), With("Deactivate", {x}), Has(t, Closed, Coherent), {},
             Has(t, Closed, Coherent))
    BY <2>1, DeactivatePaths
  <2>3. Path(t, Rows(t), Do("Lock"), Free(t, Shut), {}, Has(t, Closed, Coherent))
    BY <1>3, <2>1, MutexPaths
  <2>4. Path(t, Rows(t), Do("Unlock"), Has(t, Closed, Coherent), {}, Free(t, Closed))
    BY <2>1, MutexPaths
  <2> QED BY <1>1, <2>2, <2>3, <2>4, LockedPath DEF SourceStop
<1> QED BY <1>2, <1>3

LEMMA StopAllPaths ==
    ASSUME NEW t \in Thread
    PROVE  /\ \A K \in Contexts(t) : Path(t, Level1(t), StopAll, Free(t, K), {}, Free(t, K))
           /\ t = "ctl" => Path(t, Level1(t), StopAll, Free(t, Lone), {}, Silent)
<1>1. {} \in Assertions(t)
  BY NothingIn
<1>2. ASSUME NEW K \in Contexts(t)
      PROVE  Path(t, Rows(t), With("Deactivate", Sources) \o StopPlayback, Has(t, K, Coherent), {},
                  Has(t, K, Stopped))
  BY DeactivatePaths, StopPath, ThenPath
<1>3. \A K : Has(t, K, Stopped) \subseteq Has(t, K, Coherent)
  BY DEF Has, Stopped, DacDone, PlayingDone, Ending, Coherent
<1>4. ASSUME NEW K \in Contexts(t)
      PROVE  Path(t, Level1(t), StopAll, Free(t, K), {}, Free(t, K))
  <2>1. Path(t, Rows(t), With("Deactivate", Sources) \o StopPlayback, Has(t, K, Coherent), {},
             Has(t, K, Stopped))
    BY <1>2
  <2> QED BY <1>1, <1>3, <2>1, MutexPaths, LockedPath DEF StopAll
<1>5. ASSUME t = "ctl" PROVE Path(t, Level1(t), StopAll, Free(t, Lone), {}, Silent)
  <2>1. Lone \in Contexts(t)
    BY <1>5 DEF Contexts
  <2>2. Path(t, Rows(t), With("Deactivate", Sources) \o StopPlayback, Has(t, Lone, Coherent), {},
             Has(t, Lone, Stopped))
    BY <1>2, <2>1
  <2>3. Path(t, Rows(t), Do("Lock"), Free(t, Lone), {}, Has(t, Lone, Coherent))
    BY <2>1, MutexPaths
  <2>4. Path(t, Rows(t), Do("Unlock"), Has(t, Lone, Stopped), {}, Silent)
    BY <1>5, <2>1, MutexPaths
  <2> QED BY <1>1, <2>2, <2>3, <2>4, LockedPath DEF StopAll
<1> QED BY <1>4, <1>5

\* The steps that start the playback.
LEMMA LivelySets ==
    ASSUME NEW t \in Thread, NEW K \in Lively(t)
    PROVE  /\ {} \in Assertions(t) /\ Free(t, K) \in Assertions(t)
           /\ Has(t, K, Coherent) \in Assertions(t) /\ Has(t, K, Notifying) \in Assertions(t)
           /\ \A x \in Sources : /\ Has(t, K, Started(x)) \in Assertions(t)
                                 /\ Has(t, K, Starting(x)) \in Assertions(t)
                                 /\ Has(t, K, Arming(x)) \in Assertions(t)
BY NothingIn, LivelyIn, FreeIn, HasIn, PlaybackSets

LEMMA StartRows ==
    ASSUME NEW t \in Thread, NEW K \in Lively(t), NEW x \in Sources
    PROVE  /\ Path(t, Rows(t), With("Activate", x), Has(t, K, Coherent), Has(t, K, Coherent),
                   Has(t, K, Coherent))
           /\ Path(t, Rows(t), With("StartSink", x), Has(t, K, Started(x)), Has(t, K, Coherent),
                   Has(t, K, Coherent))
           /\ Path(t, Rows(t), Do("StartPlayback"), Has(t, K, Starting(x)), Has(t, K, Starting(x)),
                   Has(t, K, Coherent))
           /\ Path(t, Rows(t), Do("ArmPlayback"), Has(t, K, Starting(x)), Has(t, K, Starting(x)),
                   Has(t, K, Coherent))
           /\ Path(t, Rows(t), Do("NotifyIfReady"), Has(t, K, Coherent), {}, Has(t, K, Coherent))
           /\ Path(t, Rows(t), Do("Notify"), Has(t, K, Coherent), {}, Has(t, K, Coherent))
           /\ Path(t, Rows(t), With("WriteFrames", x), Free(t, K), {}, Free(t, K))
<1>1. /\ \A d \in {"Activate", "StartSink", "WriteFrames"} : [do |-> d, arg |-> x] \in PlainStep
      /\ {"StartPlayback", "ArmPlayback", "NotifyIfReady", "Notify"} \subseteq Bare
  BY WithFacts DEF Bare, Calm, Risky
<1>2. Path(t, Rows(t), With("Activate", x), Has(t, K, Coherent), Has(t, K, Coherent),
           Has(t, K, Coherent))
  <2>1. \A r : r.do = "Activate" =>
          Branch(t, r, Has(t, K, Coherent), Has(t, K, Coherent), Has(t, K, Coherent))
    BY DEF Branch
  <2> QED BY <1>1, <2>1, LivelySets, BranchWith
<1>3. Path(t, Rows(t), With("StartSink", x), Has(t, K, Started(x)), Has(t, K, Coherent),
           Has(t, K, Coherent))
  <2>1. \A r : r.do = "StartSink" /\ r.arg = x =>
          Branch(t, r, Has(t, K, Started(x)), Has(t, K, Coherent), Has(t, K, Coherent))
    BY DEF Branch
  <2> QED BY <1>1, <2>1, LivelySets, BranchWith
<1>4. ASSUME NEW d \in {"StartPlayback", "ArmPlayback"}
      PROVE  Path(t, Rows(t), Do(d), Has(t, K, Starting(x)), Has(t, K, Starting(x)),
                  Has(t, K, Coherent))
  <2>1. \A r : r.do = d =>
          Branch(t, r, Has(t, K, Starting(x)), Has(t, K, Starting(x)), Has(t, K, Coherent))
    BY <1>4 DEF Branch
  <2> QED BY <1>1, <1>4, <2>1, LivelySets, BranchDo
<1>5. ASSUME NEW d \in {"NotifyIfReady", "Notify"}
      PROVE  Path(t, Rows(t), Do(d), Has(t, K, Coherent), {}, Has(t, K, Coherent))
  <2>1. \A r : r.do = d => Branch(t, r, Has(t, K, Coherent), {}, Has(t, K, Coherent))
    BY <1>5 DEF Branch
  <2> QED BY <1>1, <1>5, <2>1, LivelySets, BranchDo
<1>6. Path(t, Rows(t), With("WriteFrames", x), Free(t, K), {}, Free(t, K))
  <2>1. \A r : r.do = "WriteFrames" => Branch(t, r, Free(t, K), {}, Free(t, K))
    BY DEF Branch
  <2> QED BY <1>1, <2>1, LivelySets, BranchWith
<1> QED BY <1>2, <1>3, <1>4, <1>5, <1>6

LEMMA DacRows ==
    ASSUME NEW t \in Thread, NEW K \in Lively(t), NEW x \in Sources
    PROVE  /\ Path(t, Rows(t), Do("DacOn"), Has(t, K, Arming(x)), Has(t, K, Arming(x)),
                   Has(t, K, Coherent))
           /\ Path(t, Rows(t), Do("PlayingOff"), Has(t, K, Arming(x)), {}, Has(t, K, Starting(x)))
           /\ Path(t, Rows(t), With("Rollback", x), Has(t, K, Starting(x)), {},
                   Has(t, K, Coherent))
           /\ Path(t, Rows(t), Do("PlaybackDmaOn"), Has(t, K, Notifying), {}, Has(t, K, Coherent))
<1>1. /\ [do |-> "Rollback", arg |-> x] \in PlainStep
      /\ {"DacOn", "PlayingOff", "PlaybackDmaOn"} \subseteq Bare \cap Simple
      /\ "Rollback" \in Simple \ Sleeps /\ {"PlayingOff", "PlaybackDmaOn"} \cap Sleeps = {}
  BY WithFacts DEF Bare, Calm, Risky, Simple, Sleeps
<1>2. \A s \in Has(t, K, Arming(x)) : s.mutex = t /\ s.dma # "playback"
  BY DEF Has, Arming
<1>3. Path(t, Rows(t), Do("DacOn"), Has(t, K, Arming(x)), Has(t, K, Arming(x)),
           Has(t, K, Coherent))
  BY <1>1, <1>2, LivelySets, StartLegal, DoPath
<1>4. Path(t, Rows(t), Do("PlayingOff"), Has(t, K, Arming(x)), {}, Has(t, K, Starting(x)))
  BY <1>1, <1>2, LivelySets, StartLegal, DoPath
<1>5. Path(t, Rows(t), With("Rollback", x), Has(t, K, Starting(x)), {}, Has(t, K, Coherent))
  BY <1>1, LivelySets, StartLegal, WithPath
<1>6. Path(t, Rows(t), Do("PlaybackDmaOn"), Has(t, K, Notifying), {}, Has(t, K, Coherent))
  BY <1>1, LivelySets, StartLegal, DoPath
<1> QED BY <1>3, <1>4, <1>5, <1>6

\* What StartSink, ArmPlayback, Notify and WriteFrames call.
LEMMA StartPaths ==
    ASSUME NEW t \in Thread, NEW K \in Lively(t), NEW x \in Sources
    PROVE  /\ Path(t, Steps(t), Try(With("Reconfigure", MusicRate) \o Do("StartPlayback"), <<>>,
                                    With("Rollback", x) \o Do("Fail")),
                   Has(t, K, Starting(x)), Has(t, K, Coherent), Has(t, K, Coherent))
           /\ Path(t, Steps(t), Try(Do("DacOn"), <<>>, Do("PlayingOff") \o Do("Fail")),
                   Has(t, K, Arming(x)), Has(t, K, Starting(x)), Has(t, K, Coherent))
           /\ Path(t, Steps(t), Try(Do("PlaybackDmaOn"), <<>>, Do("PlayingOff") \o Do("Fail")),
                   Has(t, K, Notifying), {}, Has(t, K, Coherent))
           /\ Path(t, Steps(t), Ignore(Do("Notify")), Has(t, K, Coherent), {}, Has(t, K, Coherent))
           /\ Path(t, Level1(t), Locked(Do("NotifyIfReady")), Free(t, K), {}, Free(t, K))
<1>1. <<Rows(t), Level1(t)>> \in {<<Rows(t), Level1(t)>>, <<Level1(t), Level2(t)>>,
                                   <<Level2(t), Steps(t)>>}
  OBVIOUS
<1>2. \A e \in Assertions(t), b \in Assertions(t) : Path(t, Rows(t), <<>>, b, e, b)
  BY EmptyPath
<1>3. Path(t, Level1(t), Try(With("Reconfigure", MusicRate) \o Do("StartPlayback"), <<>>,
                             With("Rollback", x) \o Do("Fail")),
           Has(t, K, Starting(x)), Has(t, K, Coherent), Has(t, K, Coherent))
  <2>1. Path(t, Rows(t), With("Reconfigure", MusicRate), Has(t, K, Starting(x)), {},
             Has(t, K, Starting(x)))
    BY LivelySets, StillPaths
  <2>2. Path(t, Rows(t), With("Reconfigure", MusicRate) \o Do("StartPlayback"),
             Has(t, K, Starting(x)), Has(t, K, Starting(x)), Has(t, K, Coherent))
    BY <2>1, StartRows, ThenPath
  <2>3. Path(t, Rows(t), Do("Fail"), Has(t, K, Coherent), Has(t, K, Coherent), Has(t, K, Coherent))
    BY LivelySets, StillPaths
  <2>4. Path(t, Rows(t), With("Rollback", x) \o Do("Fail"), Has(t, K, Starting(x)),
             Has(t, K, Coherent), Has(t, K, Coherent))
    BY <2>3, DacRows, ThenPath
  <2> QED BY <1>1, <1>2, <2>2, <2>4, LivelySets, TryPath
<1>4. /\ Path(t, Rows(t), Do("PlayingOff") \o Do("Fail"), Has(t, K, Arming(x)),
              Has(t, K, Starting(x)), Has(t, K, Coherent))
      /\ Do("PlayingOff") \o Do("Fail") \in Programs(Rows(t))
  <2>1. Path(t, Rows(t), Do("Fail"), Has(t, K, Starting(x)), Has(t, K, Starting(x)),
             Has(t, K, Coherent))
    BY LivelySets, StillPaths
  <2>2. Path(t, Rows(t), Do("PlayingOff") \o Do("Fail"), Has(t, K, Arming(x)),
             Has(t, K, Starting(x)), Has(t, K, Coherent))
    BY <2>1, DacRows, ThenPath
  <2> QED BY <2>2, ProgramPath
<1>5. Path(t, Level1(t), Try(Do("DacOn"), <<>>, Do("PlayingOff") \o Do("Fail")),
           Has(t, K, Arming(x)), Has(t, K, Starting(x)), Has(t, K, Coherent))
  BY <1>1, <1>2, <1>4, LivelySets, DacRows, TryPath
<1>6. Path(t, Level1(t), Try(Do("PlaybackDmaOn"), <<>>, Do("PlayingOff") \o Do("Fail")),
           Has(t, K, Notifying), {}, Has(t, K, Coherent))
  BY <1>1, <1>2, <1>4, LivelySets, DacRows, TryPath
<1>7. Path(t, Level1(t), Ignore(Do("Notify")), Has(t, K, Coherent), {}, Has(t, K, Coherent))
  <2>1. /\ Path(t, Rows(t), <<>>, Has(t, K, Coherent), {}, Has(t, K, Coherent))
        /\ <<>> \in Programs(Rows(t))
    BY <1>2, LivelySets, ProgramPath
  <2>2. Path(t, Rows(t), Do("Notify"), Has(t, K, Coherent), {}, Has(t, K, Coherent))
    BY StartRows
  <2> QED BY <1>1, <2>1, <2>2, TryPath DEF Ignore
<1>8. Path(t, Level1(t), Locked(Do("NotifyIfReady")), Free(t, K), {}, Free(t, K))
  BY LivelySets, LivelyIn, StartRows, MutexPaths, LockedPath
<1> QED BY <1>3, <1>5, <1>6, <1>7, <1>8, LiftPath

\* audio_mixer_source_start, and bt_a2dp_sink_start_local_media.
LEMMA SourceStartPaths ==
    ASSUME NEW t \in Thread, NEW K \in Lively(t)
    PROVE  /\ \A x \in Sources :
                 Path(t, Level1(t), SourceStart(x), Free(t, K), Free(t, K), Free(t, K))
           /\ Path(t, Level2(t), Arm, Free(t, K), {}, Free(t, K))
           /\ Path(t, Steps(t), Ignore(Arm), Free(t, K), {}, Free(t, K))
<1>1. ASSUME NEW x \in Sources
      PROVE  Path(t, Level1(t), SourceStart(x), Free(t, K), Free(t, K), Free(t, K))
  <2>1. Path(t, Rows(t), With("Activate", x), Has(t, K, Coherent), Has(t, K, Coherent),
             Has(t, K, Coherent))
    BY StartRows
  <2>2. /\ Path(t, Rows(t), Do("Lock"), Free(t, K), {}, Has(t, K, Coherent))
        /\ Path(t, Rows(t), Do("Unlock"), Has(t, K, Coherent), {}, Free(t, K))
    BY LivelyIn, MutexPaths
  <2> QED BY <2>1, <2>2, LivelySets, LockedPath DEF SourceStart
<1>2. /\ <<Level1(t), Level2(t)>> \in {<<Rows(t), Level1(t)>>, <<Level1(t), Level2(t)>>,
                                        <<Level2(t), Steps(t)>>}
      /\ <<Level2(t), Steps(t)>> \in {<<Rows(t), Level1(t)>>, <<Level1(t), Level2(t)>>,
                                      <<Level2(t), Steps(t)>>}
  OBVIOUS
<1>3. \A x \in BOOLEAN : Path(t, Level1(t), With("Allow", x), Free(t, K), {}, Free(t, K))
  BY LivelySets, StillPaths, LiftPath
<1>4. Path(t, Level1(t), SourceStart("background"), Free(t, K), Free(t, K), Free(t, K))
  BY <1>1 DEF Sources
<1>5. Path(t, Level2(t), Arm, Free(t, K), {}, Free(t, K))
  <2>1. /\ Path(t, Level1(t), With("Allow", TRUE), Free(t, K), {}, Free(t, K))
        /\ Path(t, Level1(t), With("Allow", FALSE), Free(t, K), {}, Free(t, K))
    BY <1>3
  <2>2. Path(t, Level2(t), Try(SourceStart("background"), With("Allow", TRUE), With("Allow", FALSE)),
             Free(t, K), {}, Free(t, K))
    <3>1. PICK body : body = SourceStart("background")
      OBVIOUS
    <3>2. PICK ok : ok = With("Allow", TRUE)
      OBVIOUS
    <3>3. PICK err : err = With("Allow", FALSE)
      OBVIOUS
    <3>4. /\ Path(t, Level1(t), body, Free(t, K), Free(t, K), Free(t, K))
          /\ Path(t, Level1(t), ok, Free(t, K), {}, Free(t, K))
          /\ Path(t, Level1(t), err, Free(t, K), {}, Free(t, K))
      BY <1>4, <2>1, <3>1, <3>2, <3>3
    <3>5. Path(t, Level2(t), Try(body, ok, err), Free(t, K), {}, Free(t, K))
      BY <1>2, <3>4, TryPath
    <3> QED BY <3>1, <3>2, <3>3, <3>5
  <2> QED BY <2>2 DEF Arm
<1>6. Path(t, Level2(t), <<>>, Free(t, K), {}, Free(t, K))
  BY LivelySets, EmptyPath
<1>7. Path(t, Steps(t), Ignore(Arm), Free(t, K), {}, Free(t, K))
  <2>1. <<>> \in Programs(Level2(t))
    BY <1>6, ProgramPath
  <2> QED BY <1>2, <1>5, <1>6, <2>1, TryPath DEF Ignore
<1> QED BY <1>1, <1>5, <1>7

----------------------------------------------------------------------------
(* The control thread's programs.                                             *)

LEMMA CtlSets ==
    /\ "ctl" \in Thread /\ Open \in Lively("ctl") /\ {} \in Assertions("ctl")
    /\ \A K \in {Open, Shut, Closed, Hushed, Lone} :
          K \in Contexts("ctl") /\ Free("ctl", K) \in Assertions("ctl")
    /\ \A a \in {Silent, Duplexed, Miked, Caught, Talking} : a \in Assertions("ctl")
    /\ Rest("ctl") \in Assertions("ctl")
    /\ Rest("ctl") = Free("ctl", Open) \union Talking
<1>1. "ctl" \in Thread /\ Open \in Lively("ctl") /\ {} \in Assertions("ctl")
  BY ThreadIs, NothingIn DEF Lively
<1>2. ASSUME NEW K \in {Open, Shut, Closed, Hushed, Lone}
      PROVE  K \in Contexts("ctl") /\ Free("ctl", K) \in Assertions("ctl")
  <2>1. K \in Contexts("ctl")
    BY DEF Contexts
  <2> QED BY <1>1, <2>1, FreeIn
<1>3. \A a \in {Silent, Duplexed, Miked, Caught, Talking} : a \in Assertions("ctl")
  BY MineIn
<1>4. Rest("ctl") = Free("ctl", Open) \union Talking
  BY DEF Rest
<1>5. ASSUME NEW a \in Assertions("ctl"), NEW b \in Assertions("ctl")
      PROVE  a \union b \in Assertions("ctl")
  BY AssertionGives, AssertionIs
<1>6. Free("ctl", Open) \in Assertions("ctl") /\ Talking \in Assertions("ctl")
  BY <1>2, <1>3
<1> QED BY <1>1, <1>2, <1>3, <1>4, <1>5, <1>6

LEMMA CtlOrder ==
    /\ Silent \subseteq Free("ctl", Lone)
    /\ Free("ctl", Lone) \subseteq Free("ctl", Hushed)
    /\ Free("ctl", Hushed) \subseteq Free("ctl", Closed)
    /\ Free("ctl", Closed) \subseteq Free("ctl", Shut)
    /\ Free("ctl", Shut) \subseteq Free("ctl", Open)
    /\ Silent \subseteq Free("ctl", Open) /\ Free("ctl", Hushed) \subseteq Free("ctl", Open)
BY DEF Silent, Mine, Alone, Free, Lone, Hushed, Closed, Shut, Open

LEMMA UserPaths ==
    /\ Path("ctl", Rows("ctl"), With("Enable", FALSE), Free("ctl", Open), {}, Free("ctl", Shut))
    /\ Path("ctl", Rows("ctl"), With("Enable", TRUE), Free("ctl", Open), {}, Free("ctl", Open))
    /\ Path("ctl", Rows("ctl"), Do("ReplyOn"), Free("ctl", Open), {}, Free("ctl", Open))
    /\ Path("ctl", Rows("ctl"), Do("ReplyOff"), Free("ctl", Closed), {}, Free("ctl", Hushed))
    /\ Path("ctl", Rows("ctl"), With("SetCapturing", TRUE), Caught, {}, Talking)
    /\ Path("ctl", Rows("ctl"), With("SetCapturing", FALSE), Talking, {}, Caught)
    /\ Path("ctl", Rows("ctl"), Do("WaitReplyDone"), Free("ctl", Hushed), Free("ctl", Hushed),
            Free("ctl", Lone))
<1>1. /\ \A x \in BOOLEAN, d \in {"Enable", "SetCapturing"} : [do |-> d, arg |-> x] \in PlainStep
      /\ {"ReplyOn", "ReplyOff", "WaitReplyDone"} \subseteq Bare \cap Simple
      /\ {"Enable", "SetCapturing"} \subseteq Simple \ Sleeps
  BY WithFacts DEF Bare, Calm, Risky, Simple, Sleeps
<1>2. ASSUME NEW d \in {"ReplyOn", "ReplyOff"}, NEW a \in Assertions("ctl"),
             NEW b \in Assertions("ctl"), \A r : r.do = d => UserRow("ctl", r, a, {}, b)
      PROVE  Path("ctl", Rows("ctl"), Do(d), a, {}, b)
  <2>1. \A r : r.do = d => Legal("ctl", r, a, {}, b)
    BY <1>2, UserLegal, CtlSets
  <2> QED BY <1>1, <1>2, <2>1, DoPath, CtlSets
<1>3. ASSUME NEW d \in {"Enable", "SetCapturing"}, NEW x \in BOOLEAN,
             NEW a \in Assertions("ctl"), NEW b \in Assertions("ctl"),
             \A r : r.do = d /\ r.arg = x => UserRow("ctl", r, a, {}, b)
      PROVE  Path("ctl", Rows("ctl"), With(d, x), a, {}, b)
  <2>1. \A r : r.do = d /\ r.arg = x => Legal("ctl", r, a, {}, b)
    BY <1>3, UserLegal, CtlSets
  <2> QED BY <1>1, <1>3, <2>1, WithPath, CtlSets
<1>4. /\ Free("ctl", Open) \in Assertions("ctl") /\ Free("ctl", Shut) \in Assertions("ctl")
      /\ Free("ctl", Closed) \in Assertions("ctl") /\ Free("ctl", Hushed) \in Assertions("ctl")
      /\ Free("ctl", Lone) \in Assertions("ctl")
      /\ Caught \in Assertions("ctl") /\ Talking \in Assertions("ctl")
  BY CtlSets
<1>5. Path("ctl", Rows("ctl"), With("Enable", FALSE), Free("ctl", Open), {}, Free("ctl", Shut))
  <2>1. \A r : r.do = "Enable" /\ r.arg = FALSE =>
          UserRow("ctl", r, Free("ctl", Open), {}, Free("ctl", Shut))
    BY DEF UserRow
  <2> QED BY <1>3, <1>4, <2>1
<1>6. Path("ctl", Rows("ctl"), With("Enable", TRUE), Free("ctl", Open), {}, Free("ctl", Open))
  <2>1. \A r : r.do = "Enable" /\ r.arg = TRUE =>
          UserRow("ctl", r, Free("ctl", Open), {}, Free("ctl", Open))
    BY DEF UserRow
  <2> QED BY <1>3, <1>4, <2>1
<1>7. Path("ctl", Rows("ctl"), Do("ReplyOn"), Free("ctl", Open), {}, Free("ctl", Open))
  <2>1. \A r : r.do = "ReplyOn" => UserRow("ctl", r, Free("ctl", Open), {}, Free("ctl", Open))
    BY DEF UserRow
  <2> QED BY <1>2, <1>4, <2>1
<1>8. Path("ctl", Rows("ctl"), Do("ReplyOff"), Free("ctl", Closed), {}, Free("ctl", Hushed))
  <2>1. \A r : r.do = "ReplyOff" => UserRow("ctl", r, Free("ctl", Closed), {}, Free("ctl", Hushed))
    BY DEF UserRow
  <2> QED BY <1>2, <1>4, <2>1
<1>9. Path("ctl", Rows("ctl"), With("SetCapturing", TRUE), Caught, {}, Talking)
  <2>1. \A r : r.do = "SetCapturing" /\ r.arg = TRUE => UserRow("ctl", r, Caught, {}, Talking)
    BY DEF UserRow
  <2> QED BY <1>3, <1>4, <2>1
<1>10. Path("ctl", Rows("ctl"), With("SetCapturing", FALSE), Talking, {}, Caught)
  <2>1. \A r : r.do = "SetCapturing" /\ r.arg = FALSE => UserRow("ctl", r, Talking, {}, Caught)
    BY DEF UserRow
  <2> QED BY <1>3, <1>4, <2>1
<1>11. Path("ctl", Rows("ctl"), Do("WaitReplyDone"), Free("ctl", Hushed), Free("ctl", Hushed),
            Free("ctl", Lone))
  BY <1>1, <1>4, WaitLegal, DoPath
<1> QED BY <1>5, <1>6, <1>7, <1>8, <1>9, <1>10, <1>11

\* The local media gate, and one look at the playback.
LEMMA GatePaths ==
    /\ Path("ctl", Level1("ctl"), CloseGate, Free("ctl", Open), {}, Free("ctl", Closed))
    /\ Path("ctl", Rows("ctl"), OpenGate, Free("ctl", Open), {}, Free("ctl", Open))
    /\ \A k \in Nat : Path("ctl", Rows("ctl"), With("WaitQuiet", k), Free("ctl", Open), {},
                           Free("ctl", Open))
<1>1. Free("ctl", Open) \in Assertions("ctl") /\ Free("ctl", Shut) \in Assertions("ctl")
      /\ Free("ctl", Closed) \in Assertions("ctl") /\ {} \in Assertions("ctl")
  BY CtlSets
<1>2. Path("ctl", Level1("ctl"), CloseGate, Free("ctl", Open), {}, Free("ctl", Closed))
  <2>1. Path("ctl", Level1("ctl"), With("Enable", FALSE), Free("ctl", Open), {}, Free("ctl", Shut))
    BY UserPaths, LiftPath
  <2>2. Path("ctl", Rows("ctl"), With("Allow", FALSE), Free("ctl", Shut), {}, Free("ctl", Shut))
    BY <1>1, CtlSets, StillPaths
  <2>3. Path("ctl", Level1("ctl"), With("Allow", FALSE), Free("ctl", Shut), {}, Free("ctl", Shut))
    BY <2>2, LiftPath
  <2>4. "background" \in Sources
    BY DEF Sources
  <2>5. Path("ctl", Level1("ctl"), SourceStop("background"), Free("ctl", Shut), {},
             Free("ctl", Closed))
    BY <2>4, CtlSets, SourceStopPaths
  <2>6. Path("ctl", Level1("ctl"), With("Enable", FALSE) \o With("Allow", FALSE),
             Free("ctl", Open), {}, Free("ctl", Shut))
    BY <2>1, <2>3, ThenPath
  <2> QED BY <2>5, <2>6, ThenPath DEF CloseGate
<1>3. Path("ctl", Rows("ctl"), OpenGate, Free("ctl", Open), {}, Free("ctl", Open))
  <2>1. \A r : r.do = "ReadStream" =>
          Branch("ctl", r, Free("ctl", Open), {}, Free("ctl", Open))
    BY CtlSets DEF Branch
  <2>2. "ReadStream" \in Bare
    BY DEF Bare, Calm
  <2>3. Path("ctl", Rows("ctl"), Do("ReadStream"), Free("ctl", Open), {}, Free("ctl", Open))
    BY <1>1, <2>1, <2>2, BranchDo
  <2> QED BY <2>3, UserPaths, ThenPath DEF OpenGate
<1>4. ASSUME NEW k \in Nat
      PROVE  Path("ctl", Rows("ctl"), With("WaitQuiet", k), Free("ctl", Open), {},
                  Free("ctl", Open))
  <2>1. \A r : r.do = "WaitQuiet" => Branch("ctl", r, Free("ctl", Open), {}, Free("ctl", Open))
    BY CtlSets DEF Branch
  <2>2. [do |-> "WaitQuiet", arg |-> k] \in PlainStep
    BY WithFacts
  <2> QED BY <1>1, <2>1, <2>2, BranchWith
<1> QED BY <1>2, <1>3, <1>4

\* The codec's own steps into a capture and out of it.
LEMMA MicPaths ==
    /\ \A d \in {"CapturingOff", "AdcOff", "DuplexDmaOff", "PlayingOff", "DacOff",
                 "PlaybackDmaOff"} : Path("ctl", Rows("ctl"), Do(d), Silent, {}, Silent)
    /\ Path("ctl", Rows("ctl"), Do("CapturingOff"), Caught, {}, Miked)
    /\ Path("ctl", Rows("ctl"), Do("AdcOff"), Miked, {}, Duplexed)
    /\ Path("ctl", Rows("ctl"), Do("DuplexDmaOff"), Duplexed, {}, Silent)
    /\ Path("ctl", Rows("ctl"), Do("DmaOff"), Duplexed, {}, Silent)
    /\ Path("ctl", Rows("ctl"), Do("DuplexDmaOn"), Silent, {}, Duplexed)
    /\ Path("ctl", Rows("ctl"), Do("AdcOn"), Duplexed, Duplexed, Miked)
    /\ Path("ctl", Rows("ctl"), Do("CapturingOn"), Miked, {}, Caught)
<1> DEFINE D == {"CapturingOff", "AdcOff", "DuplexDmaOff", "DmaOff", "DuplexDmaOn", "AdcOn",
                 "CapturingOn", "PlayingOff", "DacOff", "PlaybackDmaOff"}
<1>1. D \subseteq Bare \cap Simple
  BY DEF Bare, Calm, Risky, Simple
<1>2. ASSUME NEW d \in D, NEW a \in {Silent, Duplexed, Miked, Caught}, NEW e \in Assertions("ctl"),
             NEW b \in Assertions("ctl"), \A r : r.do = d => Legal("ctl", r, a, e, b)
      PROVE  Path("ctl", Rows("ctl"), Do(d), a, e, b)
  <2>1. a \in Assertions("ctl") /\ \A s \in a : s.active = {}
    BY CtlSets DEF Silent, Duplexed, Miked, Caught, Mine, Stopped, DacDone, PlayingDone, Ending
  <2> QED BY <1>1, <1>2, <2>1, DoPath
<1>3. ASSUME NEW d \in D, NEW a \in {Silent, Duplexed, Miked, Caught}, NEW e \in Assertions("ctl"),
             NEW b \in Assertions("ctl"), \A r : r.do = d => MicRow(r, a, e, b)
      PROVE  Path("ctl", Rows("ctl"), Do(d), a, e, b)
  <2>1. a \in Assertions("ctl")
    BY CtlSets
  <2> QED BY <1>2, <1>3, <2>1, MicLegal
<1>4. /\ Silent \in Assertions("ctl") /\ Duplexed \in Assertions("ctl")
      /\ Miked \in Assertions("ctl") /\ Caught \in Assertions("ctl") /\ {} \in Assertions("ctl")
  BY CtlSets
<1>5. ASSUME NEW d \in {"PlayingOff", "DacOff", "PlaybackDmaOff"}
      PROVE  Path("ctl", Rows("ctl"), Do(d), Silent, {}, Silent)
  <2>1. \A r : r.do = d => Legal("ctl", r, Silent, {}, Silent)
    BY SilentLegal
  <2> QED BY <1>2, <1>4, <2>1
<1>6. ASSUME NEW d \in {"CapturingOff", "AdcOff", "DuplexDmaOff"}
      PROVE  Path("ctl", Rows("ctl"), Do(d), Silent, {}, Silent)
  <2>1. \A r : r.do = d => MicRow(r, Silent, {}, Silent)
    BY DEF MicRow
  <2> QED BY <1>3, <1>4, <2>1
<1>7. /\ \A r : r.do = "CapturingOff" => MicRow(r, Caught, {}, Miked)
      /\ \A r : r.do = "AdcOff" => MicRow(r, Miked, {}, Duplexed)
      /\ \A r : r.do = "DuplexDmaOff" => MicRow(r, Duplexed, {}, Silent)
      /\ \A r : r.do = "DmaOff" => MicRow(r, Duplexed, {}, Silent)
      /\ \A r : r.do = "DuplexDmaOn" => MicRow(r, Silent, {}, Duplexed)
      /\ \A r : r.do = "AdcOn" => MicRow(r, Duplexed, Duplexed, Miked)
      /\ \A r : r.do = "CapturingOn" => MicRow(r, Miked, {}, Caught)
  BY DEF MicRow
<1>8. Path("ctl", Rows("ctl"), Do("CapturingOff"), Caught, {}, Miked)
  BY <1>3, <1>4, <1>7
<1>9. Path("ctl", Rows("ctl"), Do("AdcOff"), Miked, {}, Duplexed)
  BY <1>3, <1>4, <1>7
<1>10. Path("ctl", Rows("ctl"), Do("DuplexDmaOff"), Duplexed, {}, Silent)
  BY <1>3, <1>4, <1>7
<1>11. Path("ctl", Rows("ctl"), Do("DmaOff"), Duplexed, {}, Silent)
  BY <1>3, <1>4, <1>7
<1>12. Path("ctl", Rows("ctl"), Do("DuplexDmaOn"), Silent, {}, Duplexed)
  BY <1>3, <1>4, <1>7
<1>13. Path("ctl", Rows("ctl"), Do("AdcOn"), Duplexed, Duplexed, Miked)
  BY <1>3, <1>4, <1>7
<1>14. Path("ctl", Rows("ctl"), Do("CapturingOn"), Miked, {}, Caught)
  BY <1>3, <1>4, <1>7
<1> QED BY <1>5, <1>6, <1>8, <1>9, <1>10, <1>11, <1>12, <1>13, <1>14

\* es8311_audio_set_run_mode, and the start of a capture.
LEMMA RunModePaths ==
    /\ Path("ctl", Rows("ctl"), With("SetRunMode", "idle"), Silent, {}, Silent)
    /\ Path("ctl", Rows("ctl"), With("SetRunMode", "capture"), Silent, Silent, Caught)
    /\ Path("ctl", Rows("ctl"), GoIdle, Silent, {}, Silent)
    /\ Path("ctl", Rows("ctl"), EnterMode(MusicRate, Do("StartCapture")), Silent, Silent, Caught)
    /\ Path("ctl", Level1("ctl"),
            Do("DuplexDmaOn") \o Try(Do("AdcOn"), Do("CapturingOn"), Do("DmaOff") \o Do("Fail")),
            Silent, Silent, Caught)
<1>1. /\ Silent \in Assertions("ctl") /\ Caught \in Assertions("ctl") /\ {} \in Assertions("ctl")
      /\ "ctl" \in Thread
  BY CtlSets
<1>2. Path("ctl", Rows("ctl"), With("SetRunMode", "idle"), Silent, {}, Silent)
  <2>1. \A r : r.do = "SetRunMode" /\ r.arg = "idle" => Branch("ctl", r, Silent, {}, Silent)
    BY DEF Branch
  <2> QED BY <1>1, <2>1, WithFacts, BranchWith
<1>3. Path("ctl", Rows("ctl"), With("SetRunMode", "capture"), Silent, Silent, Caught)
  <2>1. \A r : r.do = "SetRunMode" /\ r.arg = "capture" => Branch("ctl", r, Silent, Silent, Caught)
    BY DEF Branch
  <2> QED BY <1>1, <2>1, WithFacts, BranchWith
<1>4. Path("ctl", Rows("ctl"), Do("StartCapture"), Silent, Silent, Caught)
  <2>1. \A r : r.do = "StartCapture" => Branch("ctl", r, Silent, Silent, Caught)
    BY DEF Branch
  <2>2. "StartCapture" \in Bare
    BY DEF Bare, Risky
  <2> QED BY <1>1, <2>1, <2>2, BranchDo
<1>5. Path("ctl", Rows("ctl"), GoIdle, Silent, {}, Silent)
  <2>1. ASSUME NEW p, NEW q, Path("ctl", Rows("ctl"), p, Silent, {}, Silent),
               Path("ctl", Rows("ctl"), q, Silent, {}, Silent)
        PROVE  Path("ctl", Rows("ctl"), p \o q, Silent, {}, Silent)
    BY <2>1, ThenPath
  <2>2. /\ Path("ctl", Rows("ctl"), Do("PlayingOff"), Silent, {}, Silent)
        /\ Path("ctl", Rows("ctl"), Do("DacOff"), Silent, {}, Silent)
        /\ Path("ctl", Rows("ctl"), Do("PlaybackDmaOff"), Silent, {}, Silent)
        /\ Path("ctl", Rows("ctl"), Do("CapturingOff"), Silent, {}, Silent)
        /\ Path("ctl", Rows("ctl"), Do("AdcOff"), Silent, {}, Silent)
        /\ Path("ctl", Rows("ctl"), Do("DuplexDmaOff"), Silent, {}, Silent)
    BY MicPaths
  <2>3. Path("ctl", Rows("ctl"), StopPlayback, Silent, {}, Silent)
    BY <2>1, <2>2 DEF StopPlayback
  <2>4. Path("ctl", Rows("ctl"), StopCapture, Silent, {}, Silent)
    BY <2>1, <2>2 DEF StopCapture
  <2> QED BY <2>1, <2>3, <2>4 DEF GoIdle
<1>6. Path("ctl", Rows("ctl"), EnterMode(MusicRate, Do("StartCapture")), Silent, Silent, Caught)
  <2>1. Path("ctl", Rows("ctl"), With("Reconfigure", MusicRate), Silent, {}, Silent)
    BY <1>1, StillPaths
  <2>2. Path("ctl", Rows("ctl"), GoIdle \o With("Reconfigure", MusicRate), Silent, {}, Silent)
    BY <1>5, <2>1, ThenPath
  <2> QED BY <1>4, <2>2, ThenPath DEF EnterMode
<1>7. Path("ctl", Level1("ctl"),
           Do("DuplexDmaOn") \o Try(Do("AdcOn"), Do("CapturingOn"), Do("DmaOff") \o Do("Fail")),
           Silent, Silent, Caught)
  <2>1. <<Rows("ctl"), Level1("ctl")>> \in
          {<<Rows("ctl"), Level1("ctl")>>, <<Level1("ctl"), Level2("ctl")>>,
           <<Level2("ctl"), Steps("ctl")>>}
    OBVIOUS
  <2>2. Path("ctl", Rows("ctl"), Do("Fail"), Silent, Silent, Caught)
    BY <1>1, StillPaths
  <2>3. Path("ctl", Rows("ctl"), Do("DmaOff") \o Do("Fail"), Duplexed, Silent, Caught)
    BY <2>2, MicPaths, ThenPath
  <2>4. Path("ctl", Rows("ctl"), Do("CapturingOn"), Miked, Silent, Caught)
    BY <1>1, MicPaths, CtlSets, WeakenPath
  <2>5. Path("ctl", Rows("ctl"), Do("AdcOn"), Duplexed, Duplexed, Miked)
    BY MicPaths
  <2>6. Path("ctl", Level1("ctl"), Try(Do("AdcOn"), Do("CapturingOn"), Do("DmaOff") \o Do("Fail")),
             Duplexed, Silent, Caught)
    BY <2>1, <2>3, <2>4, <2>5, TryPath
  <2>7. Path("ctl", Level1("ctl"), Do("DuplexDmaOn"), Silent, {}, Duplexed)
    BY MicPaths, LiftPath
  <2> QED BY <2>6, <2>7, ThenPath
<1> QED BY <1>2, <1>3, <1>5, <1>6, <1>7

\* control_ptt_start and control_ptt_stop.
LEMMA TalkPaths ==
    /\ Path("ctl", Steps("ctl"), PttStart, Free("ctl", Open), {}, Rest("ctl"))
    /\ Path("ctl", Steps("ctl"), PttStop, Talking, {}, Rest("ctl"))
<1>1. /\ \A a \in {Silent, Duplexed, Miked, Caught, Talking} : a \in Assertions("ctl")
      /\ \A K \in {Open, Shut, Closed, Hushed, Lone} : Free("ctl", K) \in Assertions("ctl")
      /\ {} \in Assertions("ctl") /\ "ctl" \in Thread /\ Rest("ctl") \in Assertions("ctl")
      /\ Free("ctl", Open) \subseteq Rest("ctl") /\ Talking \subseteq Rest("ctl")
  BY CtlSets
<1>2. /\ <<Rows("ctl"), Level1("ctl")>> \in
           {<<Rows("ctl"), Level1("ctl")>>, <<Level1("ctl"), Level2("ctl")>>,
            <<Level2("ctl"), Steps("ctl")>>}
      /\ <<Level1("ctl"), Level2("ctl")>> \in
           {<<Rows("ctl"), Level1("ctl")>>, <<Level1("ctl"), Level2("ctl")>>,
            <<Level2("ctl"), Steps("ctl")>>}
  OBVIOUS
<1>3. Path("ctl", Rows("ctl"), OpenGate, Free("ctl", Open), {}, Rest("ctl"))
  BY <1>1, GatePaths, WeakenPath
<1>4. Path("ctl", Rows("ctl"), Do("UartStop"), Silent, {}, Silent)
  BY <1>1, StillPaths
<1>5. Path("ctl", Rows("ctl"), Do("UartStop") \o OpenGate, Silent, {}, Rest("ctl"))
  BY <1>3, <1>4, CtlOrder, ThenPath
<1>6. Path("ctl", Level1("ctl"), PttCapture, Free("ctl", Lone), {}, Rest("ctl"))
  <2>1. Path("ctl", Rows("ctl"), With("SetCapturing", TRUE), Caught, {}, Rest("ctl"))
    BY <1>1, UserPaths, WeakenPath
  <2>2. Path("ctl", Rows("ctl"), With("SetRunMode", "capture"), Silent, Silent, Caught)
    BY RunModePaths
  <2>3. Path("ctl", Level1("ctl"), Try(With("SetRunMode", "capture"), With("SetCapturing", TRUE),
                                       Do("UartStop") \o OpenGate), Silent, {}, Rest("ctl"))
    <3>1. ASSUME NEW body, NEW ok, NEW err,
                 Path("ctl", Rows("ctl"), body, Silent, Silent, Caught),
                 Path("ctl", Rows("ctl"), ok, Caught, {}, Rest("ctl")),
                 Path("ctl", Rows("ctl"), err, Silent, {}, Rest("ctl"))
          PROVE  Path("ctl", Level1("ctl"), Try(body, ok, err), Silent, {}, Rest("ctl"))
      BY <1>2, <3>1, TryPath
    <3> QED BY <1>5, <2>1, <2>2, <3>1
  <2>4. Path("ctl", Level1("ctl"), StopAll, Free("ctl", Lone), {}, Silent)
    BY <1>1, StopAllPaths
  <2> QED BY <2>3, <2>4, ThenPath DEF PttCapture
<1>7. Path("ctl", Level1("ctl"), Do("WaitReplyDone") \o Do("UartStart"), Free("ctl", Hushed),
           Free("ctl", Hushed), Free("ctl", Lone))
  <2>1. Path("ctl", Rows("ctl"), Do("UartStart"), Free("ctl", Lone), Free("ctl", Lone),
             Free("ctl", Lone))
    BY <1>1, StillPaths
  <2>2. Path("ctl", Rows("ctl"), Do("WaitReplyDone") \o Do("UartStart"), Free("ctl", Hushed),
             Free("ctl", Hushed), Free("ctl", Lone))
    BY <1>1, <2>1, UserPaths, CtlOrder, ThenPath
  <2> QED BY <2>2, LiftPath
<1>8. Path("ctl", Level2("ctl"), Try(Do("WaitReplyDone") \o Do("UartStart"), PttCapture, OpenGate),
           Free("ctl", Hushed), {}, Rest("ctl"))
  <2>1. Path("ctl", Level1("ctl"), OpenGate, Free("ctl", Open), {}, Rest("ctl"))
    BY <1>3, LiftPath
  <2>2. Path("ctl", Level1("ctl"), OpenGate, Free("ctl", Hushed), {}, Rest("ctl"))
    BY <1>1, <2>1, CtlOrder, WeakenPath
  <2> QED BY <1>2, <1>6, <1>7, <2>2, TryPath
<1>9. Path("ctl", Level2("ctl"), PttStart, Free("ctl", Open), {}, Rest("ctl"))
  <2>1. Path("ctl", Rows("ctl"), With("WaitQuiet", QuietRounds), Free("ctl", Open), {},
             Free("ctl", Open))
    BY RoundsAssumption, GatePaths
  <2>2. Path("ctl", Level2("ctl"), With("WaitQuiet", QuietRounds), Free("ctl", Open), {},
             Free("ctl", Open))
    BY <2>1, LiftPath
  <2>3. Path("ctl", Level2("ctl"), CloseGate, Free("ctl", Open), {}, Free("ctl", Closed))
    BY GatePaths, LiftPath
  <2>4. Path("ctl", Level2("ctl"), Do("ReplyOff"), Free("ctl", Closed), {}, Free("ctl", Hushed))
    BY UserPaths, LiftPath
  <2>5. Path("ctl", Level2("ctl"), With("WaitQuiet", QuietRounds) \o CloseGate,
             Free("ctl", Open), {}, Free("ctl", Closed))
    BY <2>2, <2>3, ThenPath
  <2>6. Path("ctl", Level2("ctl"), With("WaitQuiet", QuietRounds) \o CloseGate \o Do("ReplyOff"),
             Free("ctl", Open), {}, Free("ctl", Hushed))
    BY <2>4, <2>5, ThenPath
  <2> QED BY <1>8, <2>6, ThenPath DEF PttStart
<1>10. Path("ctl", Rows("ctl"), PttStop, Talking, {}, Rest("ctl"))
  <2>1. Path("ctl", Rows("ctl"), StopCapture, Caught, {}, Silent)
    <3>1. Path("ctl", Rows("ctl"), Do("CapturingOff") \o Do("AdcOff"), Caught, {}, Duplexed)
      BY MicPaths, ThenPath
    <3> QED BY <3>1, MicPaths, ThenPath DEF StopCapture
  <2>2. Path("ctl", Rows("ctl"), With("SetCapturing", FALSE) \o StopCapture, Talking, {}, Silent)
    BY <2>1, UserPaths, ThenPath
  <2>3. Path("ctl", Rows("ctl"), With("SetCapturing", FALSE) \o StopCapture \o Do("UartStop"),
             Talking, {}, Silent)
    BY <1>4, <2>2, ThenPath
  <2>4. Path("ctl", Rows("ctl"), With("SetCapturing", FALSE) \o StopCapture \o Do("UartStop")
                                   \o With("SetRunMode", "idle"), Talking, {}, Silent)
    BY <2>3, RunModePaths, ThenPath
  <2>5. Path("ctl", Rows("ctl"), With("SetCapturing", FALSE) \o StopCapture \o Do("UartStop")
                                   \o With("SetRunMode", "idle") \o OpenGate,
             Talking, {}, Free("ctl", Open))
    BY <2>4, GatePaths, CtlOrder, ThenPath
  <2>6. Path("ctl", Rows("ctl"), Do("ReplyOn"), Free("ctl", Open), {}, Rest("ctl"))
    BY <1>1, UserPaths, WeakenPath
  <2> QED BY <2>5, <2>6, ThenPath DEF PttStop
<1> QED BY <1>9, <1>10, LiftPath

----------------------------------------------------------------------------
(* The programs of the reply receiver and of BTstack's thread.                *)

LEMMA ReplyPaths ==
    /\ Path("rx", Steps("rx"), Speak, Free("rx", Opened), {}, Rest("rx"))
    /\ Path("rx", Steps("rx"), Try(SourceStart("voice"), With("SetVoice", TRUE) \o Speak, <<>>),
            Free("rx", Opened), {}, Rest("rx"))
    /\ Path("rx", Steps("rx"), Hush, Free("rx", Opened), {}, Rest("rx"))
    /\ Path("rx", Steps("rx"), Hush \o Do("CloseUart"), Free("rx", Opened), {}, Rest("rx"))
    /\ Path("rx", Steps("rx"), <<>> \o Do("CloseUart"), Free("rx", Opened), {}, Rest("rx"))
<1>1. /\ "rx" \in Thread /\ Opened \in Lively("rx") /\ Opened \in Contexts("rx")
      /\ "voice" \in Sources
  BY ThreadIs DEF Lively, Contexts, Sources
<1>2. /\ {} \in Assertions("rx") /\ Free("rx", Opened) \in Assertions("rx")
      /\ Free("rx", View) \in Assertions("rx")
  BY <1>1, NothingIn, FreeIn
<1>3. Rest("rx") = Free("rx", View) /\ Free("rx", Opened) \subseteq Rest("rx")
  BY DEF Rest, Free, Opened
<1>4. Path("rx", Rows("rx"), Speak, Free("rx", Opened), {}, Free("rx", Opened))
  BY <1>1, StartRows DEF Speak
<1>5. \A x \in BOOLEAN :
         Path("rx", Rows("rx"), With("SetVoice", x), Free("rx", Opened), {}, Free("rx", Opened))
  BY <1>1, <1>2, StillPaths
<1>6. Path("rx", Level2("rx"), Try(SourceStart("voice"), With("SetVoice", TRUE) \o Speak, <<>>),
           Free("rx", Opened), {}, Free("rx", Opened))
  <2>1. Path("rx", Level1("rx"), SourceStart("voice"), Free("rx", Opened), Free("rx", Opened),
             Free("rx", Opened))
    BY <1>1, SourceStartPaths
  <2>2. Path("rx", Rows("rx"), With("SetVoice", TRUE), Free("rx", Opened), {}, Free("rx", Opened))
    BY <1>5
  <2>3. Path("rx", Rows("rx"), With("SetVoice", TRUE) \o Speak, Free("rx", Opened), {},
             Free("rx", Opened))
    BY <1>4, <2>2, ThenPath
  <2>4. Path("rx", Level1("rx"), With("SetVoice", TRUE) \o Speak, Free("rx", Opened), {},
             Free("rx", Opened))
    BY <2>3, LiftPath
  <2>5. Path("rx", Level1("rx"), <<>>, Free("rx", Opened), {}, Free("rx", Opened))
    BY <1>2, EmptyPath
  <2>6. <<Level1("rx"), Level2("rx")>> \in
          {<<Rows("rx"), Level1("rx")>>, <<Level1("rx"), Level2("rx")>>,
           <<Level2("rx"), Steps("rx")>>}
    OBVIOUS
  <2>7. ASSUME NEW body, NEW ok, NEW err,
               Path("rx", Level1("rx"), body, Free("rx", Opened), Free("rx", Opened),
                    Free("rx", Opened)),
               Path("rx", Level1("rx"), ok, Free("rx", Opened), {}, Free("rx", Opened)),
               Path("rx", Level1("rx"), err, Free("rx", Opened), {}, Free("rx", Opened))
        PROVE  Path("rx", Level2("rx"), Try(body, ok, err), Free("rx", Opened), {},
                    Free("rx", Opened))
    BY <2>6, <2>7, TryPath
  <2> QED BY <2>1, <2>4, <2>5, <2>7
<1>7. Path("rx", Level1("rx"), Hush, Free("rx", Opened), {}, Free("rx", Opened))
  <2>1. Path("rx", Level1("rx"), SourceStop("voice"), Free("rx", Opened), {}, Free("rx", Opened))
    BY <1>1, SourceStopPaths
  <2>2. Path("rx", Rows("rx"), With("SetVoice", FALSE), Free("rx", Opened), {}, Free("rx", Opened))
    BY <1>5
  <2>3. Path("rx", Level1("rx"), With("SetVoice", FALSE), Free("rx", Opened), {},
             Free("rx", Opened))
    BY <2>2, LiftPath
  <2> QED BY <2>1, <2>3, ThenPath DEF Hush
<1>8. Path("rx", Rows("rx"), Do("CloseUart"), Free("rx", Opened), {}, Free("rx", View))
  <2>1. \A r : r.do = "CloseUart" => UserRow("rx", r, Free("rx", Opened), {}, Free("rx", View))
    BY DEF UserRow
  <2>2. "CloseUart" \in Bare \cap Simple
    BY DEF Bare, Calm, Simple
  <2> QED BY <1>1, <1>2, <2>1, <2>2, UserLegal, DoPath
<1>9. Path("rx", Level1("rx"), Hush \o Do("CloseUart"), Free("rx", Opened), {}, Free("rx", View))
  BY <1>7, <1>8, LiftPath, ThenPath
<1>10. Path("rx", Rows("rx"), <<>> \o Do("CloseUart"), Free("rx", Opened), {}, Free("rx", View))
  <2>1. Path("rx", Rows("rx"), <<>>, Free("rx", Opened), {}, Free("rx", Opened))
    BY <1>2, EmptyPath
  <2> QED BY <1>8, <2>1, ThenPath
<1>11. ASSUME NEW p, Path("rx", Steps("rx"), p, Free("rx", Opened), {}, Free("rx", Opened))
       PROVE  Path("rx", Steps("rx"), p, Free("rx", Opened), {}, Rest("rx"))
  BY <1>2, <1>3, <1>11, WeakenPath
<1>12. /\ Path("rx", Steps("rx"), Speak, Free("rx", Opened), {}, Free("rx", Opened))
       /\ Path("rx", Steps("rx"), Try(SourceStart("voice"), With("SetVoice", TRUE) \o Speak, <<>>),
               Free("rx", Opened), {}, Free("rx", Opened))
       /\ Path("rx", Steps("rx"), Hush, Free("rx", Opened), {}, Free("rx", Opened))
       /\ Path("rx", Steps("rx"), Hush \o Do("CloseUart"), Free("rx", Opened), {}, Free("rx", View))
       /\ Path("rx", Steps("rx"), <<>> \o Do("CloseUart"), Free("rx", Opened), {}, Free("rx", View))
  BY <1>4, <1>6, <1>7, <1>9, <1>10, LiftPath
<1> QED BY <1>3, <1>11, <1>12

LEMMA MusicPaths ==
    /\ Path("bt", Steps("bt"), Arm, Rest("bt"), {}, Rest("bt"))
    /\ Path("bt", Steps("bt"), With("Allow", FALSE), Rest("bt"), {}, Rest("bt"))
    /\ Path("bt", Steps("bt"), SourceStop("background"), Rest("bt"), {}, Rest("bt"))
    /\ Path("bt", Steps("bt"), With("WriteFrames", "background"), Rest("bt"), {}, Rest("bt"))
<1>1. /\ "bt" \in Thread /\ View \in Lively("bt") /\ View \in Contexts("bt")
      /\ "background" \in Sources
  BY ThreadIs DEF Lively, Contexts, Sources
<1>2. Rest("bt") = Free("bt", View) /\ Free("bt", View) \in Assertions("bt")
  BY <1>1, FreeIn DEF Rest
<1>3. Path("bt", Steps("bt"), Arm, Free("bt", View), {}, Free("bt", View))
  BY <1>1, SourceStartPaths, LiftPath
<1>4. Path("bt", Steps("bt"), With("Allow", FALSE), Free("bt", View), {}, Free("bt", View))
  <2>1. Path("bt", Rows("bt"), With("Allow", FALSE), Free("bt", View), {}, Free("bt", View))
    BY <1>1, <1>2, StillPaths
  <2> QED BY <2>1, LiftPath
<1>5. Path("bt", Steps("bt"), SourceStop("background"), Free("bt", View), {}, Free("bt", View))
  BY <1>1, SourceStopPaths, LiftPath
<1>6. Path("bt", Steps("bt"), With("WriteFrames", "background"), Free("bt", View), {},
           Free("bt", View))
  BY <1>1, StartRows, LiftPath
<1> QED BY <1>2, <1>3, <1>4, <1>5, <1>6

----------------------------------------------------------------------------
(* What BTstack's thread may do when it is calm.                              *)

TameRows   == RowsOf(TameSets, TameTable)
TameLevel1 == Deep1(ModesOver(TameSets), TameRows)

LEMMA TameRow ==
    ASSUME NEW r \in PlainStep
    PROVE  /\ r.do \in Tame => PathIn(TameSets, TameRows, <<r>>, {0}, {}, {0})
           /\ r.do = "Fail" => PathIn(TameSets, TameRows, <<r>>, {}, {}, {0})
<1>1. {0} \in TameSets /\ {} \in TameSets
  BY DEF TameSets
<1>2. /\ r.do \in Tame => <<r, {0}, {}, {0}>> \in TameTable
      /\ r.do = "Fail" => <<r, {}, {}, {0}>> \in TameTable
  BY <1>1 DEF TameTable
<1> QED BY <1>1, <1>2, RowIn DEF TameRows

LEMMA TamePaths ==
    /\ PathIn(TameSets, TameSteps, StopPlayback, {0}, {}, {0})
    /\ PathIn(TameSets, TameSteps, With("Allow", FALSE), {0}, {}, {0})
    /\ \A x \in Sources : PathIn(TameSets, TameSteps, SourceStop(x), {0}, {}, {0})
<1>1. {0} \in TameSets /\ {} \in TameSets
  BY DEF TameSets
<1>2. ASSUME NEW d \in {"Lock", "Unlock", "PlayingOff", "DacOff", "PlaybackDmaOff"}
      PROVE  PathIn(TameSets, TameRows, Do(d), {0}, {}, {0})
  <2>1. PICK r \in PlainStep : r = [do |-> d]
    BY DEF PlainStep, Bare, Calm
  <2>2. r.do \in Tame
    BY <2>1 DEF Tame
  <2> QED BY <2>1, <2>2, TameRow DEF Do
<1>3. PathIn(TameSets, TameRows, Do("Fail"), {}, {}, {0})
  <2>1. PICK r \in PlainStep : r = [do |-> "Fail"]
    BY DEF PlainStep, Bare, Risky
  <2> QED BY <2>1, TameRow DEF Do
<1>4. PathIn(TameSets, TameRows, With("Allow", FALSE), {0}, {}, {0})
  <2>1. PICK r \in PlainStep : r = [do |-> "Allow", arg |-> FALSE]
    BY WithFacts
  <2>2. r.do \in Tame
    BY <2>1 DEF Tame
  <2> QED BY <2>1, <2>2, TameRow DEF With
<1>5. ASSUME NEW S \in SUBSET Sources
      PROVE  PathIn(TameSets, TameRows, With("Deactivate", S), {0}, {}, {0})
  <2>1. PICK r \in PlainStep : r = [do |-> "Deactivate", arg |-> S]
    BY WithFacts
  <2>2. r.do \in Tame
    BY <2>1 DEF Tame
  <2> QED BY <2>1, <2>2, TameRow DEF With
<1>6. ASSUME NEW T, NEW p, NEW q, PathIn(TameSets, T, p, {0}, {}, {0}),
             PathIn(TameSets, T, q, {0}, {}, {0})
      PROVE  PathIn(TameSets, T, p \o q, {0}, {}, {0})
  BY <1>6, ThenIn
<1>7. PathIn(TameSets, TameRows, StopPlayback, {0}, {}, {0})
  BY <1>2, <1>6 DEF StopPlayback
<1>8. Do("Unlock") \o Do("Fail") \in Programs(TameRows)
  <2>1. PathIn(TameSets, TameRows, Do("Unlock"), {0}, {}, {0})
    BY <1>2
  <2>2. Do("Unlock") \in Programs(TameRows) /\ Do("Fail") \in Programs(TameRows)
    BY <1>1, <1>3, <2>1, ProgramIn
  <2> QED BY <2>2, ConcatProperties DEF Programs
<1>9. ASSUME NEW S \in SUBSET Sources
      PROVE  PathIn(TameSets, TameLevel1, Locked(With("Deactivate", S)), {0}, {}, {0})
  <2>1. TameLevel1 = Deeper(ModesOver(TameSets), TameRows, TameRows)
    BY DEF TameLevel1, Deep1
  <2>2. PathIn(TameSets, TameRows, Do("Unlock"), {0}, {}, {0})
    BY <1>2
  <2>3. ASSUME NEW body, NEW ok, NEW err \in Programs(TameRows),
               PathIn(TameSets, TameRows, body, {0}, {}, {0}),
               PathIn(TameSets, TameRows, ok, {0}, {}, {0})
        PROVE  PathIn(TameSets, TameLevel1, Try(body, ok, err), {0}, {}, {0})
    BY <1>1, <2>1, <2>3, TryIn
  <2>4. PathIn(TameSets, TameLevel1,
               Try(With("Deactivate", S), Do("Unlock"), Do("Unlock") \o Do("Fail")), {0}, {}, {0})
    BY <1>5, <1>8, <2>2, <2>3
  <2>5. PathIn(TameSets, TameRows, Do("Lock"), {0}, {}, {0})
    BY <1>2
  <2>6. PathIn(TameSets, TameLevel1, Do("Lock"), {0}, {}, {0})
    BY <2>5, LiftIn DEF TameLevel1
  <2> QED BY <1>6, <2>4, <2>6 DEF Locked
<1>10. ASSUME NEW p, PathIn(TameSets, TameRows, p, {0}, {}, {0})
                     \/ PathIn(TameSets, TameLevel1, p, {0}, {}, {0})
       PROVE  PathIn(TameSets, TameSteps, p, {0}, {}, {0})
  BY <1>10, LiftIn DEF TameSteps, TameLevel1, AllOf, TameRows
<1>11. \A x \in Sources : PathIn(TameSets, TameSteps, SourceStop(x), {0}, {}, {0})
  BY <1>9, <1>10 DEF SourceStop
<1> QED BY <1>4, <1>7, <1>10, <1>11

----------------------------------------------------------------------------
(* What is seen of a state and of the next one.                               *)

LEMMA NowIs ==
    ASSUME TypeOK, TypeOK', NEW s, s = Now, NEW z, z = Now'
    PROVE  /\ s \in View /\ z \in View
           /\ s.playing = route.playing /\ s.pending = route.pending /\ s.dac = hw.dac
           /\ s.active = active /\ s.dma = route.dma /\ s.capturing = route.capturing
           /\ s.adc = hw.adc /\ s.gate = a2dp.enabled /\ s.replies = reply.enabled
           /\ s.done = reply.done /\ s.open = reply.open /\ s.talking = ptt.capturing
           /\ s.mutex = mutex
           /\ z.playing = route'.playing /\ z.pending = route'.pending /\ z.dac = hw'.dac
           /\ z.active = active' /\ z.dma = route'.dma /\ z.capturing = route'.capturing
           /\ z.adc = hw'.adc /\ z.gate = a2dp'.enabled /\ z.replies = reply'.enabled
           /\ z.done = reply'.done /\ z.open = reply'.open /\ z.talking = ptt'.capturing
           /\ z.mutex = mutex'
<1>1. s \in View
  BY DEF Now, View, TypeOK, CoreTypeOK
<1>2. z \in View
  BY DEF Now, View, TypeOK, CoreTypeOK
<1> QED BY <1>1, <1>2 DEF Now

LEMMA CalmIs ==
    ASSUME NEW s, s = Now, NEW z, z = Now'
    PROVE  /\ s.bt \in {"calm", "busy"} /\ z.bt \in {"calm", "busy"}
           /\ s.bt = "calm" <=> Harmless
           /\ z.bt = "calm" <=> Harmless'
           /\ todo'["bt"] = todo["bt"] => z.bt = s.bt
<1>1. todo'["bt"] = todo["bt"] => (Harmless' <=> Harmless)
  BY DEF Harmless
<1>2. /\ s.bt \in {"calm", "busy"} /\ z.bt \in {"calm", "busy"}
      /\ s.bt = "calm" <=> Harmless
      /\ z.bt = "calm" <=> Harmless'
  BY DEF Now
<1> QED BY <1>1, <1>2

LEMMA TablesPlain ==
    /\ \A t : PlainTable(Assertions(t), Table(t))
    /\ PlainTable(TameSets, TameTable)
    /\ {} \in TameSets
<1>1. \A r \in PlainStep : r.do \notin {"Call", "Return"}
  BY DEF PlainStep, Bare, Calm, Risky
<1>2. ASSUME NEW t, NEW q \in Table(t)
      PROVE  /\ q = <<q[1], q[2], q[3], q[4]>> /\ q[2] \in Assertions(t)
             /\ q[3] \in Assertions(t) /\ q[4] \in Assertions(t)
             /\ q[1].do \notin {"Call", "Return"}
  <2>1. q \in PlainStep \X Assertions(t) \X Assertions(t) \X Assertions(t)
    BY DEF Table
  <2> QED BY <1>1, <2>1
<1>3. ASSUME NEW q \in TameTable
      PROVE  /\ q = <<q[1], q[2], q[3], q[4]>> /\ q[2] \in TameSets
             /\ q[3] \in TameSets /\ q[4] \in TameSets
             /\ q[1].do \notin {"Call", "Return"}
  BY <1>1, <1>3 DEF TameTable
<1>4. {} \in TameSets
  BY DEF TameSets
<1> QED BY <1>2, <1>3, <1>4 DEF PlainTable

\* The outlines, in the next state.
LEMMA NextHolds ==
    ASSUME NEW z, z = Now'
    PROVE  /\ \A t : Outlined(t)' <=> OutlinedIn(Assertions(t), Steps(t), todo'[t], z, Rest(t))
           /\ Harmless' <=> OutlinedIn(TameSets, TameSteps, todo'["bt"], 0, {0})
BY DEF Outlined, Harmless

\* A step of t that the others allow.
LEMMA StepKeeps ==
    ASSUME TalkInv, IInv', NEW s, s = Now, NEW z, z = Now', NEW t \in Thread, Good(t, s, z),
           OutlinedIn(Assertions(t), Steps(t), todo'[t], z, Rest(t)),
           \A u \in Thread \ {t} : todo'[u] = todo[u]
    PROVE  TalkInv'
<1>1. s \in View /\ z \in View
  BY NowIs DEF TalkInv, IInv
<1>2. Sound(s) /\ Sound(z) /\ Does(t, s, z)
  BY DEF TalkInv, Good
<1>3. ASSUME NEW u \in Thread \ {t}
      PROVE  OutlinedIn(Assertions(u), Steps(u), todo'[u], z, Rest(u))
  <2>1. OutlinedIn(Assertions(u), Steps(u), todo[u], s, Rest(u))
    BY DEF TalkInv, Outlined
  <2>2. \A a \in Assertions(u) : s \in a => z \in a
    BY <1>1, <1>2, AssertionGives
  <2>3. OutlinedIn(Assertions(u), Steps(u), todo[u], z, Rest(u))
    BY <2>1, <2>2, StableHolds
  <2> QED BY <2>3
<1>4. \A u \in Thread : Outlined(u)'
  BY <1>3, NextHolds
<1>5. Sound(Now)'
  BY <1>2 DEF Sound, Rested, Alone
<1> QED BY <1>4, <1>5 DEF TalkInv

\* A calm thread of BTstack's takes tame steps and stays calm.
LEMMA TameKeeps ==
    ASSUME IInv, NEW s, s = Now, NEW z, z = Now', s.bt = "calm",
           todo["bt"] # <<>>, Head(todo["bt"]).do \notin {"Call", "Return"},
           Head(todo["bt"]).do \in Tame => Go("bt", <<>>) \/ Go("bt", StopPlayback)
    PROVE  Head(todo["bt"]).do \in Tame /\ z.bt = "calm"
<1> DEFINE r == Head(todo["bt"])
<1>1. OutlinedIn(TameSets, TameSteps, todo["bt"], 0, {0})
  BY CalmIs DEF Harmless
<1>2. ASSUME NEW a \in TameSets, NEW e \in TameSets, NEW c \in TameSets,
             <<r, a, e, c>> \in TameTable, 0 \in a
      PROVE  r.do \in Tame /\ e = {} /\ c = {0}
  BY <1>2 DEF TameTable
<1>3. r.do \in Tame
  <2>1. PICK a \in TameSets, n \in ModesOver(TameSets) :
               /\ 0 \in a
               /\ \E e \in TameSets : e \subseteq n.guard /\ <<r, a, e, n.at>> \in TameTable
    BY <1>1, TablesPlain, HeadRow DEF TameSteps
  <2>2. n.at \in TameSets
    BY ModeOf
  <2> QED BY <1>2, <2>1, <2>2
<1>4. ASSUME NEW a \in TameSets, NEW e \in TameSets, NEW c \in TameSets,
             <<r, a, e, c>> \in TameTable, 0 \in a
      PROVE  Goes(TameSets, TameSteps, "bt", 0, e, c)
  <2>1. e = {} /\ c = {0} /\ {0} \in TameSets
    BY <1>2, <1>4 DEF TameSets
  <2>2. CASE Go("bt", <<>>)
    BY <2>1, <2>2 DEF Goes
  <2>3. CASE Go("bt", StopPlayback)
    BY <2>1, <2>3, TamePaths DEF Goes
  <2> QED BY <1>3, <2>2, <2>3
<1>5. todo \in [Thread -> Programs(Thrice)] /\ "bt" \in Thread
  BY ThreadIs DEF IInv, AllDisciplined
<1>6. OutlinedIn(TameSets, TameSteps, todo'["bt"], 0, {0})
  BY <1>1, <1>4, <1>5, TablesPlain, StepHolds DEF TameSteps
<1> QED BY <1>3, <1>6, NextHolds, CalmIs

\* A plain step of t keeps the invariant, once it is legal.
LEMMA PlainKeeps ==
    ASSUME TalkInv, IInv', NEW s, s = Now, NEW z, z = Now', NEW t \in Thread,
           todo[t] # <<>>, Head(todo[t]).do \notin {"Call", "Return"},
           \A a, e, c \in Assertions(t) :
              <<Head(todo[t]), a, e, c>> \in Table(t) /\ s \in a
                 => Goes(Assertions(t), Steps(t), t, z, e, c) /\ Good(t, s, z)
    PROVE  TalkInv'
<1> DEFINE r == Head(todo[t])
           A == Assertions(t)
<1>1. OutlinedIn(A, Steps(t), todo[t], s, Rest(t))
  BY DEF TalkInv, Outlined
<1>2. todo \in [Thread -> Programs(Thrice)]
  BY DEF TalkInv, IInv, AllDisciplined
<1>3. PlainTable(A, Table(t)) /\ {} \in A
  BY TablesPlain, NothingIn
<1>4. Good(t, s, z)
  <2>1. PICK a \in A, n \in ModesOver(A) :
               /\ s \in a
               /\ \E e \in A : e \subseteq n.guard /\ <<r, a, e, n.at>> \in Table(t)
    BY <1>1, <1>3, HeadRow DEF Steps
  <2>2. n.at \in A
    BY ModeOf
  <2> QED BY <2>1, <2>2
<1>5. /\ OutlinedIn(A, Steps(t), todo'[t], z, Rest(t))
      /\ \A u \in Thread \ {t} : todo'[u] = todo[u]
  BY <1>1, <1>2, <1>3, StepHolds DEF Steps
<1> QED BY <1>4, <1>5, StepKeeps

\* A simple step ends or fails as its rows say.
LEMMA SimpleKeeps ==
    ASSUME TalkInv, IInv', NEW s, s = Now, NEW z, z = Now', NEW t \in Thread,
           todo[t] # <<>>, NEW r, r = Head(todo[t]), r.do \in Simple,
           \/ Go(t, <<>>) /\ Ends(t, r, s, z)
           \/ Raise(t) /\ Fails(r, s, z)
    PROVE  TalkInv'
<1>1. s \in View /\ z \in View /\ Sound(s) /\ IInv
  BY NowIs DEF TalkInv, IInv
<1>2. r.do \notin {"Call", "Return"}
  BY DEF Simple, Idling
<1>3. BtKept(t, r, s, z)
  <2>1. CASE t # "bt"
    <3>1. todo \in [Thread -> Programs(Thrice)] /\ "bt" \in Thread
      BY <1>1, ThreadIs DEF IInv, AllDisciplined
    <3>2. todo'["bt"] = todo["bt"]
      BY <2>1, <3>1 DEF Go, Raise
    <3> QED BY <2>1, <3>2, CalmIs DEF BtKept
  <2>2. ASSUME t = "bt", s.bt = "calm" PROVE r.do \in Tame /\ z.bt = "calm"
    <3>1. Fails(r, s, z) => r.do \notin Tame
      BY FailsAre DEF Tame
    <3> QED BY <1>1, <1>2, <2>2, <3>1, TameKeeps
  <2> QED BY <2>1, <2>2 DEF BtKept
<1>4. ASSUME NEW a \in Assertions(t), NEW e \in Assertions(t), NEW c \in Assertions(t),
             <<r, a, e, c>> \in Table(t), s \in a
      PROVE  Goes(Assertions(t), Steps(t), t, z, e, c) /\ Good(t, s, z)
  <2>1. ~Branch(t, r, a, e, c)
    BY DEF Branch, Simple, Idling
  <2>2. Legal(t, r, a, e, c)
    BY <1>4, <2>1 DEF Table
  <2>3. /\ Ends(t, r, s, z) => z \in c /\ Good(t, s, z)
        /\ Fails(r, s, z) => z \in e /\ Good(t, s, z)
    BY <1>1, <1>3, <1>4, <2>2 DEF Legal
  <2> QED BY <2>3 DEF Goes
<1> QED BY <1>2, <1>4, PlainKeeps

----------------------------------------------------------------------------
(* The codec's steps.                                                         *)

LEMMA PathEnds ==
    ASSUME TypeOK, TypeOK', NEW s, s = Now, NEW z, z = Now', NEW t, NEW r, r = Head(todo[t]),
           DacOn(t) \/ DacOff(t) \/ AdcOn(t) \/ AdcOff(t), UNCHANGED <<mutex, mixVars, userVars>>
    PROVE  /\ r.do \in Simple
           /\ \/ Go(t, <<>>) /\ Ends(t, r, s, z)
              \/ Raise(t) /\ Fails(r, s, z)
<1>1. /\ s.playing = route.playing /\ s.pending = route.pending /\ s.dac = hw.dac
      /\ s.active = active /\ s.dma = route.dma /\ s.capturing = route.capturing
      /\ s.adc = hw.adc
      /\ z.playing = route'.playing /\ z.pending = route'.pending /\ z.dac = hw'.dac
      /\ z.active = active' /\ z.dma = route'.dma /\ z.capturing = route'.capturing
      /\ z.adc = hw'.adc
  BY NowIs
<1>2. SameUsers(s, z) /\ z.mutex = s.mutex /\ z.active = s.active
  BY NowIs DEF SameUsers, userVars, mixVars
<1>3. /\ z.playing = s.playing /\ z.pending = s.pending /\ z.dma = s.dma
      /\ z.capturing = s.capturing
  BY <1>1 DEF DacOn, DacOff, AdcOn, AdcOff, CodecFails
<1>4. hw \in [i2s : Rates, codec : Rates, dac : BOOLEAN, adc : BOOLEAN]
  BY DEF TypeOK, CoreTypeOK
<1>5. CASE DacOn(t)
  <2>1. r.do = "DacOn"
    BY <1>5 DEF DacOn, At
  <2>2. CASE CodecFails(t)
    <3>1. Raise(t) /\ z.dac = s.dac /\ z.adc = s.adc
      BY <1>1, <2>2 DEF CodecFails
    <3> QED BY <1>2, <1>3, <2>1, <3>1 DEF Fails, Same, SamePlay, SameMic, Simple
  <2>3. CASE Go(t, <<>>) /\ hw' = [hw EXCEPT !.dac = TRUE]
    <3>1. z.dac = TRUE /\ z.adc = s.adc
      BY <1>1, <1>4, <2>3
    <3>2. PlayEnds(r, s, z)
      BY <1>2, <1>3, <2>1, <3>1 DEF PlayEnds, SameMic
    <3> QED BY <2>1, <2>3, <3>2 DEF Ends, Simple
  <2> QED BY <1>5, <2>2, <2>3 DEF DacOn
<1>6. CASE DacOff(t)
  <2>1. r.do = "DacOff" /\ Go(t, <<>>)
    BY <1>6 DEF DacOff, At
  <2>2. z.dac = FALSE /\ z.adc = s.adc
    BY <1>1, <1>4, <1>6 DEF DacOff
  <2>3. PlayEnds(r, s, z)
    BY <1>2, <1>3, <2>1, <2>2 DEF PlayEnds, SameMic
  <2> QED BY <2>1, <2>3 DEF Ends, Simple
<1>7. CASE AdcOn(t)
  <2>1. r.do = "AdcOn"
    BY <1>7 DEF AdcOn, At
  <2>2. CASE CodecFails(t)
    <3>1. Raise(t) /\ z.dac = s.dac /\ z.adc = s.adc
      BY <1>1, <2>2 DEF CodecFails
    <3> QED BY <1>2, <1>3, <2>1, <3>1 DEF Fails, Same, SamePlay, SameMic, Simple
  <2>3. CASE Go(t, <<>>) /\ hw' = [hw EXCEPT !.adc = TRUE]
    <3>1. z.adc = TRUE /\ z.dac = s.dac
      BY <1>1, <1>4, <2>3
    <3>2. MicEnds(r, s, z)
      BY <1>2, <1>3, <2>1, <3>1 DEF MicEnds
    <3> QED BY <2>1, <2>3, <3>2 DEF Ends, Simple
  <2> QED BY <1>7, <2>2, <2>3 DEF AdcOn
<1>8. CASE AdcOff(t)
  <2>1. r.do = "AdcOff" /\ Go(t, <<>>)
    BY <1>8 DEF AdcOff, At
  <2>2. z.adc = FALSE /\ z.dac = s.dac
    BY <1>1, <1>4, <1>8 DEF AdcOff
  <2>3. MicEnds(r, s, z)
    BY <1>2, <1>3, <2>1, <2>2 DEF MicEnds
  <2> QED BY <2>1, <2>3 DEF Ends, Simple
<1> QED BY <1>5, <1>6, <1>7, <1>8

LEMMA FlagEnds ==
    ASSUME TypeOK, TypeOK', NEW s, s = Now, NEW z, z = Now', NEW t, NEW r, r = Head(todo[t]),
           \/ PlayingOff(t) \/ PlaybackDmaOff(t) \/ CapturingOff(t) \/ DuplexDmaOff(t)
           \/ CapturingOn(t) \/ DmaOff(t),
           UNCHANGED <<mutex, mixVars, userVars>>
    PROVE  r.do \in Simple /\ Go(t, <<>>) /\ Ends(t, r, s, z)
<1>1. /\ s.playing = route.playing /\ s.pending = route.pending /\ s.dac = hw.dac
      /\ s.active = active /\ s.dma = route.dma /\ s.capturing = route.capturing
      /\ s.adc = hw.adc
      /\ z.playing = route'.playing /\ z.pending = route'.pending /\ z.dac = hw'.dac
      /\ z.active = active' /\ z.dma = route'.dma /\ z.capturing = route'.capturing
      /\ z.adc = hw'.adc
  BY NowIs
<1>2. SameUsers(s, z) /\ z.mutex = s.mutex /\ z.active = s.active
  BY NowIs DEF SameUsers, userVars, mixVars
<1>3. Go(t, <<>>) /\ z.dac = s.dac /\ z.adc = s.adc
  BY <1>1 DEF PlayingOff, PlaybackDmaOff, CapturingOff, DuplexDmaOff, CapturingOn, DmaOff, Set
<1>4. route \in [dma : {"stopped", "playback", "duplex"}, playing : BOOLEAN,
                 capturing : BOOLEAN, pending : BOOLEAN, rate : Rates,
                 callRate : Rates, renderer : {"mixer", "hfp"}]
  BY DEF TypeOK, CoreTypeOK
<1>5. CASE PlayingOff(t)
  <2>1. /\ r.do = "PlayingOff" /\ ~z.playing /\ ~z.pending /\ z.dma = s.dma
        /\ z.capturing = s.capturing
    BY <1>1, <1>4, <1>5 DEF PlayingOff, Set, At
  <2>2. PlayEnds(r, s, z)
    BY <1>2, <1>3, <2>1 DEF PlayEnds, SameMic
  <2> QED BY <1>3, <2>1, <2>2 DEF Ends, Simple
<1>6. CASE PlaybackDmaOff(t)
  <2>1. /\ r.do = "PlaybackDmaOff" /\ z.playing = s.playing /\ z.pending = s.pending
        /\ z.capturing = s.capturing
        /\ z.dma = IF s.dma = "playback" THEN "stopped" ELSE s.dma
    BY <1>1, <1>4, <1>6 DEF PlaybackDmaOff, Set, At
  <2>2. z.dma # "playback" /\ (z.dma = "duplex" <=> s.dma = "duplex")
    BY <2>1
  <2>3. PlayEnds(r, s, z)
    BY <1>2, <1>3, <2>1, <2>2 DEF PlayEnds, SameMic
  <2> QED BY <1>3, <2>1, <2>3 DEF Ends, Simple
<1>7. CASE CapturingOff(t) \/ CapturingOn(t)
  <2>1. /\ \/ r.do = "CapturingOff" /\ ~z.capturing
           \/ r.do = "CapturingOn" /\ z.capturing
        /\ z.playing = s.playing /\ z.pending = s.pending /\ z.dma = s.dma
    BY <1>1, <1>4, <1>7 DEF CapturingOff, CapturingOn, Set, At
  <2>2. MicEnds(r, s, z)
    BY <1>2, <1>3, <2>1 DEF MicEnds
  <2> QED BY <1>3, <2>1, <2>2 DEF Ends, Simple
<1>8. CASE DuplexDmaOff(t)
  <2>1. /\ r.do = "DuplexDmaOff" /\ z.playing = s.playing /\ z.pending = s.pending
        /\ z.capturing = s.capturing
        /\ z.dma = IF s.dma = "duplex" /\ ~s.playing THEN "stopped" ELSE s.dma
    BY <1>1, <1>4, <1>8 DEF DuplexDmaOff, Set, At
  <2>2. MicEnds(r, s, z)
    BY <1>2, <1>3, <2>1 DEF MicEnds
  <2> QED BY <1>3, <2>1, <2>2 DEF Ends, Simple
<1>9. CASE DmaOff(t)
  <2>1. /\ r.do = "DmaOff" /\ z.playing = s.playing /\ z.pending = s.pending
        /\ z.capturing = s.capturing /\ z.dma = "stopped"
    BY <1>1, <1>4, <1>9 DEF DmaOff, Set, At
  <2>2. MicEnds(r, s, z)
    BY <1>2, <1>3, <2>1 DEF MicEnds
  <2> QED BY <1>3, <2>1, <2>2 DEF Ends, Simple
<1> QED BY <1>5, <1>6, <1>7, <1>8, <1>9

LEMMA DmaEnds ==
    ASSUME TypeOK, TypeOK', NEW s, s = Now, NEW z, z = Now', NEW t, NEW r, r = Head(todo[t]),
           PlaybackDmaOn(t) \/ DuplexDmaOn(t), UNCHANGED <<mutex, mixVars, userVars>>
    PROVE  /\ r.do \in Simple
           /\ \/ Go(t, <<>>) /\ Ends(t, r, s, z)
              \/ Raise(t) /\ Fails(r, s, z)
<1>1. /\ s.playing = route.playing /\ s.pending = route.pending /\ s.dac = hw.dac
      /\ s.active = active /\ s.dma = route.dma /\ s.capturing = route.capturing
      /\ s.adc = hw.adc
      /\ z.playing = route'.playing /\ z.pending = route'.pending /\ z.dac = hw'.dac
      /\ z.active = active' /\ z.dma = route'.dma /\ z.capturing = route'.capturing
      /\ z.adc = hw'.adc
  BY NowIs
<1>2. SameUsers(s, z) /\ z.mutex = s.mutex /\ z.active = s.active
  BY NowIs DEF SameUsers, userVars, mixVars
<1>3. z.dac = s.dac /\ z.adc = s.adc
  BY <1>1 DEF PlaybackDmaOn, DuplexDmaOn, DmaOn, Set, Refuse, coreVars
<1>4. route \in [dma : {"stopped", "playback", "duplex"}, playing : BOOLEAN,
                 capturing : BOOLEAN, pending : BOOLEAN, rate : Rates,
                 callRate : Rates, renderer : {"mixer", "hfp"}]
  BY DEF TypeOK, CoreTypeOK
<1>5. ASSUME NEW step, NEW mode \in {"playback", "duplex"}, DmaOn(t, step, mode)
      PROVE  /\ r.do = step /\ z.playing = s.playing /\ z.pending = s.pending
             /\ z.capturing = s.capturing
             /\ \/ Go(t, <<>>) /\ s.dma \in {"stopped", mode} /\ z.dma = mode
                \/ Raise(t) /\ s.dma \notin {"stopped", mode} /\ z.dma = s.dma
  <2>1. r.do = step
    BY <1>5 DEF DmaOn, At
  <2>2. CASE route.dma \in {"stopped", mode}
    <3>1. Go(t, <<>>) /\ route' = [route EXCEPT !.dma = mode]
      BY <1>5, <2>2 DEF DmaOn, Set
    <3> QED BY <1>1, <1>4, <2>1, <2>2, <3>1
  <2>3. CASE route.dma \notin {"stopped", mode}
    <3>1. Raise(t) /\ route' = route
      BY <1>5, <2>3 DEF DmaOn, Refuse, coreVars
    <3> QED BY <1>1, <2>1, <2>3, <3>1
  <2> QED BY <2>2, <2>3
<1>6. CASE PlaybackDmaOn(t)
  <2>1. /\ r.do = "PlaybackDmaOn" /\ z.playing = s.playing /\ z.pending = s.pending
        /\ z.capturing = s.capturing
        /\ \/ Go(t, <<>>) /\ s.dma \in {"stopped", "playback"} /\ z.dma = "playback"
           \/ Raise(t) /\ s.dma \notin {"stopped", "playback"} /\ z.dma = s.dma
    BY <1>5, <1>6 DEF PlaybackDmaOn
  <2>2. CASE Go(t, <<>>) /\ s.dma \in {"stopped", "playback"} /\ z.dma = "playback"
    <3>1. PlayEnds(r, s, z)
      BY <1>2, <1>3, <2>1, <2>2 DEF PlayEnds, SameMic
    <3> QED BY <2>1, <2>2, <3>1 DEF Ends, Simple
  <2>3. CASE Raise(t) /\ s.dma \notin {"stopped", "playback"} /\ z.dma = s.dma
    <3>1. s.dma = "duplex"
      BY <1>1, <1>4, <2>3
    <3> QED BY <1>2, <1>3, <2>1, <2>3, <3>1 DEF Fails, Same, SamePlay, SameMic, Simple
  <2> QED BY <2>1, <2>2, <2>3
<1>7. CASE DuplexDmaOn(t)
  <2>1. /\ r.do = "DuplexDmaOn" /\ z.playing = s.playing /\ z.pending = s.pending
        /\ z.capturing = s.capturing
        /\ \/ Go(t, <<>>) /\ s.dma \in {"stopped", "duplex"} /\ z.dma = "duplex"
           \/ Raise(t) /\ s.dma \notin {"stopped", "duplex"} /\ z.dma = s.dma
    BY <1>5, <1>7 DEF DuplexDmaOn
  <2>2. CASE Go(t, <<>>) /\ s.dma \in {"stopped", "duplex"} /\ z.dma = "duplex"
    <3>1. MicEnds(r, s, z)
      BY <1>2, <1>3, <2>1, <2>2 DEF MicEnds
    <3> QED BY <2>1, <2>2, <3>1 DEF Ends, Simple
  <2>3. CASE Raise(t) /\ s.dma \notin {"stopped", "duplex"} /\ z.dma = s.dma
    <3>1. s.dma = "playback"
      BY <1>1, <1>4, <2>3
    <3> QED BY <1>2, <1>3, <2>1, <2>3, <3>1 DEF Fails, Same, SamePlay, SameMic, Simple
  <2> QED BY <2>1, <2>2, <2>3
<1> QED BY <1>6, <1>7

\* With music only, the rate is the mixer's already.
LEMMA RateEnds ==
    ASSUME TypeOK, TypeOK', CallRates = {}, NEW s, s = Now, NEW z, z = Now', NEW t,
           NEW r \in PlainStep, r = Head(todo[t]), Reconfigure(t),
           UNCHANGED <<mutex, mixVars, userVars>>
    PROVE  r.do \in Simple /\ Go(t, <<>>) /\ Ends(t, r, s, z)
<1>1. r.do = "Reconfigure" /\ r.arg \in Rates
  BY Arguments DEF Reconfigure, At
<1>2. route.rate = Arg(t)
  BY <1>1 DEF Rates, Arg, TypeOK, CoreTypeOK
<1>3. Go(t, <<>>) /\ UNCHANGED <<route, hw>>
  BY <1>2 DEF Reconfigure, Keep, Set
<1>4. Same(s, z)
  BY <1>3, NowIs DEF Same, SamePlay, SameMic, SameUsers, userVars, mixVars
<1> QED BY <1>1, <1>3, <1>4 DEF Ends, Simple, Idling

----------------------------------------------------------------------------
(* The users' steps, and the mutex.                                           *)

LEMMA SwitchEnds ==
    ASSUME TypeOK, TypeOK', NEW s, s = Now, NEW z, z = Now', NEW t, NEW r, r = Head(todo[t]),
           \/ Enable(t) \/ SetCapturing(t) \/ ReplyOn(t) \/ ReplyOff(t) \/ CloseUart(t)
           \/ Allow(t) \/ SetVoice(t) \/ UartStop(t),
           UNCHANGED <<mutex, coreVars, mixVars>>
    PROVE  r.do \in Simple /\ Go(t, <<>>) /\ Ends(t, r, s, z)
<1>1. /\ s.gate = a2dp.enabled /\ s.replies = reply.enabled /\ s.done = reply.done
      /\ s.open = reply.open /\ s.talking = ptt.capturing
      /\ z.gate = a2dp'.enabled /\ z.replies = reply'.enabled /\ z.done = reply'.done
      /\ z.open = reply'.open /\ z.talking = ptt'.capturing
  BY NowIs
<1>2. SamePlay(s, z) /\ SameMic(s, z) /\ z.mutex = s.mutex
  BY NowIs DEF SamePlay, SameMic, coreVars, mixVars
<1>3. /\ a2dp \in [stream : BOOLEAN, enabled : BOOLEAN, allowed : BOOLEAN]
      /\ reply \in [enabled : BOOLEAN, done : BOOLEAN, open : BOOLEAN, voice : BOOLEAN]
      /\ ptt \in [held : BOOLEAN, capturing : BOOLEAN]
  BY DEF TypeOK
<1>4. Go(t, <<>>)
  BY DEF Enable, SetCapturing, ReplyOn, ReplyOff, CloseUart, Allow, SetVoice, UartStop, SetReply
<1>5. CASE Enable(t) \/ SetCapturing(t)
  <2>1. /\ \/ r.do = "Enable" /\ z.gate = r.arg /\ z.talking = s.talking
           \/ r.do = "SetCapturing" /\ z.talking = r.arg /\ z.gate = s.gate
        /\ z.replies = s.replies /\ z.done = s.done /\ z.open = s.open
    BY <1>1, <1>3, <1>5 DEF Enable, SetCapturing, At, Arg
  <2>2. UserEnds(r, s, z)
    BY <1>2, <2>1 DEF UserEnds
  <2> QED BY <1>4, <2>1, <2>2 DEF Ends, Simple
<1>6. CASE ReplyOn(t) \/ ReplyOff(t) \/ CloseUart(t)
  <2>1. z.gate = s.gate /\ z.talking = s.talking
    BY <1>1, <1>6 DEF ReplyOn, ReplyOff, CloseUart, SetReply
  <2>2. \/ r.do = "ReplyOn" /\ z.replies /\ ~z.done /\ z.open = s.open
        \/ r.do = "ReplyOff" /\ ~z.replies /\ z.done = s.done /\ z.open = s.open
        \/ r.do = "CloseUart" /\ ~z.open /\ z.done /\ z.replies = s.replies
    <3>1. CASE ReplyOn(t)
      <4>1. r.do = "ReplyOn" /\ reply' = [reply EXCEPT !.enabled = TRUE, !.done = FALSE]
        BY <3>1 DEF ReplyOn, SetReply, At
      <4> QED BY <1>1, <1>3, <4>1
    <3>2. CASE ReplyOff(t)
      <4>1. r.do = "ReplyOff" /\ reply' = [reply EXCEPT !.enabled = FALSE]
        BY <3>2 DEF ReplyOff, SetReply, At
      <4> QED BY <1>1, <1>3, <4>1
    <3>3. CASE CloseUart(t)
      <4>1. r.do = "CloseUart" /\ reply' = [reply EXCEPT !.open = FALSE, !.done = TRUE]
        BY <3>3 DEF CloseUart, SetReply, At
      <4> QED BY <1>1, <1>3, <4>1
    <3> QED BY <1>6, <3>1, <3>2, <3>3
  <2>3. UserEnds(r, s, z)
    BY <1>2, <2>1, <2>2 DEF UserEnds
  <2> QED BY <1>4, <2>2, <2>3 DEF Ends, Simple
<1>7. CASE Allow(t) \/ SetVoice(t) \/ UartStop(t)
  <2>1. r.do \in {"Allow", "SetVoice", "UartStop"}
    BY <1>7 DEF Allow, SetVoice, UartStop, At
  <2>2. SameUsers(s, z)
    BY <1>1, <1>3, <1>7 DEF Allow, SetVoice, UartStop, SetReply, userVars, SameUsers
  <2>3. Same(s, z)
    BY <1>2, <2>2 DEF Same
  <2> QED BY <1>4, <2>1, <2>3 DEF Ends, Simple, Idling
<1> QED BY <1>5, <1>6, <1>7

LEMMA WaitEnds ==
    ASSUME TypeOK, TypeOK', NEW s, s = Now, NEW z, z = Now', NEW t, NEW r, r = Head(todo[t]),
           \/ (UartStart(t) \/ WaitReplyDone(t)) /\ UNCHANGED <<mutex, coreVars, mixVars>>
           \/ Fail(t) /\ UNCHANGED <<coreVars, mixVars, userVars>>
    PROVE  /\ r.do \in Simple
           /\ \/ Go(t, <<>>) /\ Ends(t, r, s, z)
              \/ Raise(t) /\ Fails(r, s, z)
<1>1. UNCHANGED <<mutex, coreVars, mixVars, userVars>>
  BY DEF UartStart, WaitReplyDone, Fail
<1>2. Same(s, z)
  BY <1>1, NowIs DEF Same, SamePlay, SameMic, SameUsers, coreVars, mixVars, userVars
<1>3. CASE UartStart(t)
  BY <1>2, <1>3 DEF UartStart, At, Ends, Fails, Simple, Idling
<1>4. CASE WaitReplyDone(t)
  <2>1. r.do = "WaitReplyDone"
    BY <1>4 DEF WaitReplyDone, At
  <2>2. s.done = reply.done /\ s.done \in BOOLEAN
    BY NowIs DEF TypeOK
  <2> QED BY <1>2, <1>4, <2>1, <2>2 DEF WaitReplyDone, Ends, Fails, Simple
<1>5. CASE Fail(t)
  BY <1>2, <1>5 DEF Fail, At, Fails, Simple
<1> QED BY <1>3, <1>4, <1>5

LEMMA RollbackEnds ==
    ASSUME TypeOK, TypeOK', NEW s, s = Now, NEW z, z = Now', NEW t, NEW r, r = Head(todo[t]),
           Rollback(t), UNCHANGED <<mutex, coreVars, userVars>>
    PROVE  r.do \in Simple /\ Go(t, <<>>) /\ Ends(t, r, s, z)
<1>1. r.do = "Rollback" /\ Go(t, <<>>) /\ z.active = s.active \ {r.arg}
  <2>1. r.do = "Rollback" /\ Go(t, <<>>) /\ active' = active \ {r.arg}
    BY DEF Rollback, At, Arg
  <2> QED BY <2>1, NowIs
<1>2. /\ z.playing = s.playing /\ z.pending = s.pending /\ z.dma = s.dma /\ z.dac = s.dac
      /\ SameMic(s, z) /\ SameUsers(s, z) /\ z.mutex = s.mutex
  BY NowIs DEF SameMic, SameUsers, coreVars, userVars
<1>3. PlayEnds(r, s, z)
  BY <1>1, <1>2 DEF PlayEnds
<1> QED BY <1>1, <1>3 DEF Ends, Simple

LEMMA NothingIsTame == OutlinedIn(TameSets, TameSteps, <<>>, 0, {0})
<1>1. {0} \in TameSets /\ {} \in TameSets /\ 0 \in {0}
  BY DEF TameSets
<1>2. PathIn(TameSets, TameSteps, <<>>, {0}, {}, {0})
  BY <1>1, EmptyIn
<1> QED BY <1>1, <1>2, PathHolds

\* When the control thread finds the mutex free, BTstack's waits for its next
\* event: it is more urgent, and sleeps with the mutex only.
LEMMA CalmWhenFree ==
    ASSUME TalkInv, Priority["bt"] < Priority["ctl"], NEW s, s = Now, NEW z, z = Now',
           Runs("ctl", Asleep), mutex = "none"
    PROVE  s.bt = "calm"
<1>1. /\ "bt" \in Thread /\ "ctl" \in Thread /\ "bt" # "none" /\ "ctl" # "none"
      /\ Priority["bt"] \in Nat /\ Priority["ctl"] \in Nat
  BY ThreadIs, PriorityAssumption
<1>2. CASE Idle("bt")
  <2>1. todo["bt"] = <<>>
    BY <1>2 DEF Idle
  <2> QED BY <2>1, NothingIsTame, CalmIs DEF Harmless
<1>3. CASE ~Idle("bt") /\ "bt" \notin Asleep
  <2>1. Urgency("ctl") <= Urgency("bt")
    BY <1>1, <1>3 DEF Runs, Blocked
  <2>2. Urgency("ctl") = Priority["ctl"] /\ Urgency("bt") = Priority["bt"]
    BY <1>1 DEF Urgency
  <2> QED BY <1>1, <2>1, <2>2
<1>4. CASE ~Idle("bt") /\ "bt" \in Asleep
  <2> DEFINE r == Head(todo["bt"])
  <2>1. r.do \in Sleeps
    BY <1>4 DEF Asleep, InCodecDelay, CodecSteps, Waits, At, Sleeps
  <2>2. todo["bt"] # <<>> /\ r.do \notin {"Call", "Return"}
    BY <1>4, <2>1 DEF Idle, Sleeps
  <2>3. OutlinedIn(Assertions("bt"), Steps("bt"), todo["bt"], s, Rest("bt"))
    BY <1>1 DEF TalkInv, Outlined
  <2>4. PICK a \in Assertions("bt"), n \in ModesOver(Assertions("bt")) :
               /\ s \in a
               /\ \E e \in Assertions("bt") :
                     e \subseteq n.guard /\ <<r, a, e, n.at>> \in Table("bt")
    BY <2>2, <2>3, TablesPlain, HeadRow DEF Steps
  <2>5. PICK e \in Assertions("bt") : <<r, a, e, n.at>> \in Table("bt")
    BY <2>4
  <2>6. ~Branch("bt", r, a, e, n.at)
    BY <2>1 DEF Branch, Sleeps
  <2>7. s.mutex = "bt"
    BY <2>1, <2>4, <2>5, <2>6 DEF Table, Careful
  <2>8. s.mutex = mutex
    BY DEF Now
  <2> QED BY <1>1, <2>7, <2>8
<1> QED BY <1>2, <1>3, <1>4

LEMMA MutexKeeps ==
    ASSUME TalkInv, IInv', Priority["bt"] < Priority["ctl"], NEW t \in Thread,
           Runs(t, Asleep), Lock(t) \/ Unlock(t), UNCHANGED <<coreVars, mixVars, userVars>>
    PROVE  TalkInv'
<1>1. PICK s, z : s = Now /\ z = Now'
  OBVIOUS
<1>2. IInv /\ TypeOK /\ TypeOK'
  BY DEF TalkInv, IInv
<1>3. SamePlay(s, z) /\ SameMic(s, z) /\ SameUsers(s, z) /\ s.mutex = mutex /\ z.mutex = mutex'
  BY <1>1, <1>2, NowIs DEF SamePlay, SameMic, SameUsers, coreVars, mixVars, userVars
<1>4. PICK r : r = Head(todo[t])
  OBVIOUS
<1>5. CASE Lock(t)
  <2>1. /\ r.do = "Lock" /\ todo[t] # <<>> /\ Go(t, <<>>)
        /\ mutex = "none" /\ mutex' = t
    BY <1>4, <1>5 DEF Lock, At
  <2>2. t = "ctl" => s.bt = "calm"
    BY <1>1, <2>1, CalmWhenFree
  <2>3. Ends(t, r, s, z) /\ r.do \in Simple
    BY <1>3, <2>1, <2>2 DEF Ends, MutexEnds, Simple
  <2> QED BY <1>1, <1>4, <2>1, <2>3, SimpleKeeps
<1>6. CASE Unlock(t)
  <2>1. r.do = "Unlock" /\ todo[t] # <<>> /\ Go(t, <<>>) /\ mutex' = "none"
    BY <1>4, <1>6 DEF Unlock, At
  <2>2. mutex = t
    BY <1>2, <1>4, <2>1, HeldByOwner DEF SessionsUnderMutex
  <2>3. Ends(t, r, s, z) /\ r.do \in Simple
    BY <1>3, <2>1, <2>2 DEF Ends, MutexEnds, Simple
  <2> QED BY <1>1, <1>4, <2>1, <2>3, SimpleKeeps
<1> QED BY <1>5, <1>6

----------------------------------------------------------------------------
(* The steps that put a program in front of the rest.                         *)

\* t goes on with that program.
LEMMA GoesBy ==
    ASSUME NEW t, NEW p, NEW a, NEW e1, NEW b1, NEW z,
           \/ Path(t, Rows(t), p, a, e1, b1) \/ Path(t, Level1(t), p, a, e1, b1)
           \/ Path(t, Steps(t), p, a, e1, b1),
           z \in a, Go(t, p), NEW e \in Assertions(t), NEW b \in Assertions(t),
           e1 \subseteq e, b1 \subseteq b
    PROVE  Goes(Assertions(t), Steps(t), t, z, e, b)
<1>1. Path(t, Steps(t), p, a, e1, b1)
  BY LiftPath
<1>2. a \in Assertions(t)
  BY <1>1 DEF Path
<1>3. Path(t, Steps(t), p, a, e, b)
  BY <1>1, <1>2, WeakenPath
<1> QED BY <1>2, <1>3 DEF Goes, Path

\* Nothing that is seen changes.
LEMMA StillGood ==
    ASSUME NEW t \in Thread, NEW r, NEW s \in View, NEW z \in View, Sound(s), Same(s, z),
           BtKept(t, r, s, z)
    PROVE  /\ Good(t, s, z)
           /\ \A a \in Assertions(t) : s \in a => z \in a
<1>1. (t # "bt" => z.bt = s.bt) /\ (s.bt = "calm" => z.bt = "calm")
  BY DEF BtKept
<1>2. Good(t, s, z)
  BY <1>1, SameGood
<1>3. Quietly(t, s, z)
  BY <1>1 DEF Quietly
<1> QED BY <1>2, <1>3, AssertionGives

LEMMA BranchKeeps ==
    ASSUME TalkInv, IInv', NEW s, s = Now, NEW z, z = Now', NEW t \in Thread,
           todo[t] # <<>>, NEW r, r = Head(todo[t]), r.do \notin Simple \union {"Call", "Return"},
           (\E p : Go(t, p)) \/ Raise(t),
           r.do \in Tame => Go(t, <<>>) \/ Go(t, StopPlayback),
           \A a, e, b \in Assertions(t) :
              r \in PlainStep /\ Branch(t, r, a, e, b) /\ s \in a /\ BtKept(t, r, s, z)
                => Goes(Assertions(t), Steps(t), t, z, e, b) /\ Good(t, s, z)
    PROVE  TalkInv'
<1>1. IInv
  BY DEF TalkInv
<1>2. BtKept(t, r, s, z)
  <2>1. CASE t # "bt"
    <3>1. todo \in [Thread -> Programs(Thrice)] /\ "bt" \in Thread
      BY <1>1, ThreadIs DEF IInv, AllDisciplined
    <3>2. todo'["bt"] = todo["bt"]
      BY <2>1, <3>1 DEF Go, Raise
    <3> QED BY <2>1, <3>2, CalmIs DEF BtKept
  <2>2. ASSUME t = "bt", s.bt = "calm" PROVE r.do \in Tame /\ z.bt = "calm"
    BY <1>1, <2>2, TameKeeps
  <2> QED BY <2>1, <2>2 DEF BtKept
<1>3. ASSUME NEW a \in Assertions(t), NEW e \in Assertions(t), NEW c \in Assertions(t),
             <<r, a, e, c>> \in Table(t), s \in a
      PROVE  Goes(Assertions(t), Steps(t), t, z, e, c) /\ Good(t, s, z)
  <2>1. r \in PlainStep /\ Branch(t, r, a, e, c)
    BY <1>3 DEF Table
  <2> QED BY <1>2, <1>3, <2>1
<1> QED BY <1>3, PlainKeeps

LEMMA DeactivateKeeps ==
    ASSUME TalkInv, IInv', NEW t \in Thread, Deactivate(t), UNCHANGED <<mutex, coreVars, userVars>>
    PROVE  TalkInv'
<1>1. PICK s, z, r : s = Now /\ z = Now' /\ r = Head(todo[t])
  OBVIOUS
<1>2. s \in View /\ z \in View /\ Sound(s)
  BY <1>1, NowIs DEF TalkInv, IInv
<1>3. r.do = "Deactivate" /\ todo[t] # <<>>
  BY <1>1 DEF Deactivate, At
<1>4. /\ SameMic(s, z) /\ SameUsers(s, z) /\ z.mutex = s.mutex
      /\ z.playing = s.playing /\ z.pending = s.pending /\ z.dac = s.dac /\ z.dma = s.dma
  BY <1>1, NowIs DEF SameMic, SameUsers, coreVars, userVars, TalkInv, IInv
<1>5. z.active = s.active \ r.arg
  <2>1. active' = active \ r.arg
    BY <1>1 DEF Deactivate, Arg
  <2> QED BY <1>1, <2>1, NowIs DEF TalkInv, IInv
<1>6. Go(t, IF z.active = {} /\ r.arg # Sources THEN StopPlayback ELSE <<>>)
  <2>1. Go(t, IF active' = {} /\ r.arg # Sources THEN StopPlayback ELSE <<>>)
    BY <1>1 DEF Deactivate, Arg
  <2>2. z.active = active'
    BY <1>1, NowIs DEF TalkInv, IInv
  <2> QED BY <2>1, <2>2
<1>7. ASSUME NEW a \in Assertions(t), NEW e \in Assertions(t), NEW b \in Assertions(t),
             r \in PlainStep, Branch(t, r, a, e, b), s \in a, BtKept(t, r, s, z)
      PROVE  Goes(Assertions(t), Steps(t), t, z, e, b) /\ Good(t, s, z)
  <2>1. PICK K \in Contexts(t) :
              /\ a = Has(t, K, Coherent) /\ e = {}
              /\ IF r.arg = Sources THEN b = Has(t, K, Ending) ELSE b = a
    BY <1>3, <1>7 DEF Branch
  <2>2. s \in K /\ s \in Coherent /\ s.mutex = t
    BY <1>7, <2>1 DEF Has
  <2>3. (t # "bt" => z.bt = s.bt) /\ (s.bt = "calm" => z.bt = "calm")
    BY <1>7 DEF BtKept
  <2>4. Good(t, s, z)
    BY <1>2, <1>4, <1>5, <2>2, <2>3, PlayGood DEF Shrinks
  <2>5. z \in K /\ z.mutex = t
    BY <1>2, <1>4, <2>2, <2>3, ContextKept
  <2>6. CASE z.active = {}
    <3>1. z \in Has(t, K, Ending)
      BY <1>2, <2>5, <2>6 DEF Has, Ending
    <3>2. CASE r.arg = Sources
      BY <1>6, <2>1, <2>4, <3>1, <3>2 DEF Goes
    <3>3. CASE r.arg # Sources
      <4>1. Has(t, K, Stopped) \subseteq b
        BY <2>1, <3>3 DEF Has, Stopped, DacDone, PlayingDone, Ending, Coherent
      <4>2. Go(t, StopPlayback)
        BY <1>6, <2>6, <3>3
      <4>3. Path(t, Rows(t), StopPlayback, Has(t, K, Ending), {}, Has(t, K, Stopped))
        BY StopPath
      <4> QED BY <1>7, <2>4, <3>1, <4>1, <4>2, <4>3, GoesBy
    <3> QED BY <3>2, <3>3
  <2>7. CASE z.active # {}
    <3>1. Go(t, <<>>) /\ r.arg # Sources
      <4>1. s.active \subseteq Sources
        BY <1>2 DEF View
      <4> QED BY <1>5, <1>6, <2>7, <4>1
    <3>2. z \in Coherent
      BY <1>2, <1>4, <1>5, <2>2, <2>7 DEF Coherent
    <3>3. z \in b
      BY <2>1, <2>5, <3>1, <3>2 DEF Has
    <3> QED BY <2>4, <3>1, <3>3 DEF Goes
  <2> QED BY <2>6, <2>7
<1>8. /\ \E p : Go(t, p)
      /\ Go(t, <<>>) \/ Go(t, StopPlayback)
  BY <1>6
<1>9. r.do \notin Simple \union {"Call", "Return"}
  BY <1>3 DEF Simple, Idling
<1> QED BY <1>1, <1>3, <1>7, <1>8, <1>9, BranchKeeps

\* BTstack's thread starts nothing while it is calm.
LEMMA LivelyStep ==
    ASSUME NEW t \in Thread, NEW K \in Lively(t), NEW r, r.do \notin Tame, NEW s \in View,
           NEW z \in View, Sound(s), s \in K, BtKept(t, r, s, z)
    PROVE  /\ Rested(s) /\ (t # "ctl" => ~Alone(s)) /\ K \in Contexts(t)
           /\ (t # "bt" => z.bt = s.bt) /\ (s.bt = "calm" => z.bt = "calm")
BY LivelyRests DEF BtKept

\* A step of the mutex's owner that changes the playback.
LEMMA LivelyGood ==
    ASSUME NEW t \in Thread, NEW K \in Lively(t), NEW r, r.do \notin Tame, NEW s \in View,
           NEW z \in View, Sound(s), s \in K, BtKept(t, r, s, z), s.mutex = t, z.mutex = s.mutex,
           SameMic(s, z), SameUsers(s, z)
    PROVE  Good(t, s, z) /\ z \in K /\ \A H : z \in H => z \in Has(t, K, H)
<1>1. /\ t # "ctl" => ~Alone(s)
      /\ K \in Contexts(t)
      /\ (t # "bt" => z.bt = s.bt) /\ (s.bt = "calm" => z.bt = "calm")
  BY LivelyStep
<1>2. Good(t, s, z)
  BY <1>1, PlayGood
<1>3. z \in K
  BY <1>1, ContextKept
<1> QED BY <1>2, <1>3 DEF Has

LEMMA ActivateKeeps ==
    ASSUME TalkInv, IInv', NEW t \in Thread, Activate(t), UNCHANGED <<mutex, coreVars, userVars>>
    PROVE  TalkInv'
<1>1. PICK s, z, r : s = Now /\ z = Now' /\ r = Head(todo[t])
  OBVIOUS
<1>2. s \in View /\ z \in View /\ Sound(s) /\ TypeOK /\ TypeOK'
  BY <1>1, NowIs DEF TalkInv, IInv
<1>3. r.do = "Activate" /\ todo[t] # <<>>
  BY <1>1 DEF Activate, At
<1>4. /\ SameMic(s, z) /\ SameUsers(s, z) /\ z.mutex = s.mutex
      /\ z.playing = s.playing /\ z.pending = s.pending /\ z.dac = s.dac /\ z.dma = s.dma
  BY <1>1, <1>2, NowIs DEF SameMic, SameUsers, coreVars, userVars
<1>5. \/ s.capturing /\ Raise(t)
      \/ ~s.capturing /\ Go(t, With("StartSink", r.arg)) /\ z.active = s.active \union {r.arg}
  <2>1. \/ route.capturing /\ Raise(t)
        \/ /\ ~route.capturing /\ Go(t, With("StartSink", r.arg))
           /\ active' = active \union {r.arg}
    BY <1>1 DEF Activate, Arg
  <2>2. s.capturing = route.capturing /\ s.active = active /\ z.active = active'
    BY <1>1, <1>2, NowIs
  <2> QED BY <2>1, <2>2
<1>6. ASSUME NEW a \in Assertions(t), NEW e \in Assertions(t), NEW b \in Assertions(t),
             r \in PlainStep, Branch(t, r, a, e, b), s \in a, BtKept(t, r, s, z)
      PROVE  Goes(Assertions(t), Steps(t), t, z, e, b) /\ Good(t, s, z)
  <2>1. PICK K \in Lively(t) : a = Has(t, K, Coherent) /\ e = a /\ b = a
    BY <1>3, <1>6 DEF Branch
  <2>2. s \in K /\ s \in Coherent /\ s.mutex = t /\ r.arg \in Sources /\ r.do \notin Tame
    BY <1>3, <1>6, <2>1, Arguments DEF Has, Tame
  <2>3. /\ Good(t, s, z) /\ z \in K /\ \A H : z \in H => z \in Has(t, K, H)
        /\ Rested(s)
    BY <1>2, <1>4, <1>6, <2>2, LivelyGood, LivelyStep
  <2>4. Go(t, With("StartSink", r.arg)) /\ z.active = s.active \union {r.arg}
    BY <1>5, <2>3 DEF Rested
  <2>5. z \in Started(r.arg)
    <3>1. CASE s.active = {}
      <4>1. ~s.playing /\ ~s.pending /\ ~s.dac /\ s.dma # "playback" /\ z.active = {r.arg}
        BY <1>2, <2>2, <2>4, <3>1 DEF Coherent, View
      <4>2. z \in Starting(r.arg)
        BY <1>2, <1>4, <4>1 DEF Starting
      <4> QED BY <4>2 DEF Started
    <3>2. CASE s.active # {}
      <4>1. z.active # {} /\ s.playing
        BY <2>2, <2>4, <3>2 DEF Coherent
      <4>2. z \in Coherent /\ z.playing
        BY <1>2, <1>4, <2>2, <4>1 DEF Coherent
      <4> QED BY <4>2 DEF Started
    <3> QED BY <3>1, <3>2
  <2>6. Path(t, Rows(t), With("StartSink", r.arg), Has(t, K, Started(r.arg)),
             Has(t, K, Coherent), Has(t, K, Coherent))
    BY <2>2, StartRows
  <2>7. z \in Has(t, K, Started(r.arg))
    BY <2>3, <2>5
  <2>8. Goes(Assertions(t), Steps(t), t, z, e, b)
    BY <1>6, <2>1, <2>4, <2>6, <2>7, GoesBy
  <2> QED BY <2>3, <2>8
<1>7. (\E p : Go(t, p)) \/ Raise(t)
  BY <1>5
<1>8. r.do \notin Simple \union {"Call", "Return"} /\ r.do \notin Tame
  BY <1>3 DEF Simple, Idling, Tame
<1> QED BY <1>1, <1>3, <1>6, <1>7, <1>8, BranchKeeps

LEMMA StartSinkKeeps ==
    ASSUME TalkInv, IInv', NEW t \in Thread, StartSink(t), UNCHANGED <<mutex, coreVars, userVars>>
    PROVE  TalkInv'
<1>1. PICK s, z, r : s = Now /\ z = Now' /\ r = Head(todo[t])
  OBVIOUS
<1>2. s \in View /\ z \in View /\ Sound(s) /\ TypeOK /\ TypeOK'
  BY <1>1, NowIs DEF TalkInv, IInv
<1>3. r.do = "StartSink" /\ todo[t] # <<>>
  BY <1>1 DEF StartSink, At
<1>4. /\ SameMic(s, z) /\ SameUsers(s, z) /\ z.mutex = s.mutex /\ SamePlay(s, z)
  BY <1>1, <1>2, NowIs DEF StartSink, SameMic, SameUsers, SamePlay, coreVars, userVars, mixVars
<1>5. Go(t, IF s.playing THEN <<>>
            ELSE Try(With("Reconfigure", MusicRate) \o Do("StartPlayback"), <<>>,
                     With("Rollback", r.arg) \o Do("Fail")))
  <2>1. s.playing = route.playing
    BY <1>1, <1>2, NowIs
  <2> QED BY <1>1, <2>1 DEF StartSink, Arg
<1>6. ASSUME NEW a \in Assertions(t), NEW e \in Assertions(t), NEW b \in Assertions(t),
             r \in PlainStep, Branch(t, r, a, e, b), s \in a, BtKept(t, r, s, z)
      PROVE  Goes(Assertions(t), Steps(t), t, z, e, b) /\ Good(t, s, z)
  <2>1. PICK K \in Lively(t) :
              a = Has(t, K, Started(r.arg)) /\ e = Has(t, K, Coherent) /\ b = e
    BY <1>3, <1>6 DEF Branch
  <2>2. s \in K /\ s \in Started(r.arg) /\ s.mutex = t /\ r.arg \in Sources /\ r.do \notin Tame
    BY <1>3, <1>6, <2>1, Arguments DEF Has, Tame
  <2>3. Good(t, s, z) /\ z \in K /\ \A H : z \in H => z \in Has(t, K, H)
    BY <1>2, <1>4, <1>6, <2>2, LivelyGood
  <2>4. CASE s.playing
    <3>1. s \in Coherent
      BY <2>2, <2>4 DEF Started, Starting
    <3>2. z \in Coherent
      BY <1>2, <1>4, <3>1, PlaybackSets, PlaybackKept
    <3> QED BY <1>5, <2>1, <2>3, <2>4, <3>2 DEF Goes
  <2>5. CASE ~s.playing
    <3>1. s \in Starting(r.arg)
      BY <2>2, <2>5 DEF Started
    <3>2. z \in Starting(r.arg)
      BY <1>2, <1>4, <2>2, <3>1, PlaybackSets, PlaybackKept
    <3>3. PICK p : p = Try(With("Reconfigure", MusicRate) \o Do("StartPlayback"), <<>>,
                           With("Rollback", r.arg) \o Do("Fail"))
      OBVIOUS
    <3>4. Path(t, Steps(t), p, Has(t, K, Starting(r.arg)), Has(t, K, Coherent),
               Has(t, K, Coherent))
      BY <2>2, <3>3, StartPaths
    <3>5. Go(t, p) /\ z \in Has(t, K, Starting(r.arg))
      BY <1>5, <2>3, <2>5, <3>2, <3>3
    <3>6. Goes(Assertions(t), Steps(t), t, z, e, b)
      BY <1>6, <2>1, <3>4, <3>5, GoesBy
    <3> QED BY <2>3, <3>6
  <2> QED BY <2>4, <2>5
<1>7. \E p : Go(t, p)
  BY <1>5
<1>8. r.do \notin Simple \union {"Call", "Return"} /\ r.do \notin Tame
  BY <1>3 DEF Simple, Idling, Tame
<1> QED BY <1>1, <1>3, <1>6, <1>7, <1>8, BranchKeeps

\* Steps of the codec that start the playback.
LEMMA StartPlaybackKeeps ==
    ASSUME TalkInv, IInv', NEW t \in Thread, StartPlayback(t),
           UNCHANGED <<mutex, mixVars, userVars>>
    PROVE  TalkInv'
<1>1. PICK s, z, r : s = Now /\ z = Now' /\ r = Head(todo[t])
  OBVIOUS
<1>2. s \in View /\ z \in View /\ Sound(s) /\ TypeOK /\ TypeOK'
  BY <1>1, NowIs DEF TalkInv, IInv
<1>3. r.do = "StartPlayback" /\ todo[t] # <<>>
  BY <1>1 DEF StartPlayback, At
<1>4. SameMic(s, z) /\ SameUsers(s, z) /\ z.mutex = s.mutex /\ SamePlay(s, z)
  BY <1>1, <1>2, NowIs DEF StartPlayback, Keep, Set, SameMic, SameUsers, SamePlay, userVars, mixVars
<1>5. Go(t, (IF s.capturing THEN StopCapture ELSE <<>>) \o Do("ArmPlayback"))
  <2>1. s.capturing = route.capturing
    BY <1>1, <1>2, NowIs
  <2> QED BY <2>1 DEF StartPlayback, Keep, Set
<1>6. ASSUME NEW a \in Assertions(t), NEW e \in Assertions(t), NEW b \in Assertions(t),
             r \in PlainStep, Branch(t, r, a, e, b), s \in a, BtKept(t, r, s, z)
      PROVE  Goes(Assertions(t), Steps(t), t, z, e, b) /\ Good(t, s, z)
  <2>1. PICK K \in Lively(t), x \in Sources :
              a = Has(t, K, Starting(x)) /\ e = a /\ b = Has(t, K, Coherent)
    BY <1>3, <1>6 DEF Branch
  <2>2. s \in K /\ s \in Starting(x) /\ s.mutex = t /\ r.do \notin Tame
    BY <1>3, <1>6, <2>1 DEF Has, Tame
  <2>3. /\ Good(t, s, z) /\ z \in K /\ \A H : z \in H => z \in Has(t, K, H)
        /\ Rested(s)
    BY <1>2, <1>4, <1>6, <2>2, LivelyGood, LivelyStep
  <2>4. z \in Starting(x)
    BY <1>2, <1>4, <2>2, PlaybackSets, PlaybackKept
  <2>5. Path(t, Rows(t), Do("ArmPlayback"), a, a, b)
    BY <2>1, StartRows
  <2>6. Path(t, Rows(t), <<>>, a, {}, a)
    BY <1>6, NothingIn, EmptyPath
  <2>7. Path(t, Rows(t), <<>> \o Do("ArmPlayback"), a, a, b)
    BY <2>5, <2>6, ThenPath
  <2>8. Go(t, <<>> \o Do("ArmPlayback")) /\ z \in a
    BY <1>5, <2>1, <2>3, <2>4 DEF Rested
  <2>9. Goes(Assertions(t), Steps(t), t, z, e, b)
    BY <1>6, <2>1, <2>7, <2>8, GoesBy
  <2> QED BY <2>3, <2>9
<1>7. \E p : Go(t, p)
  BY <1>5
<1>8. r.do \notin Simple \union {"Call", "Return"} /\ r.do \notin Tame
  BY <1>3 DEF Simple, Idling, Tame
<1> QED BY <1>1, <1>3, <1>6, <1>7, <1>8, BranchKeeps

LEMMA ArmPlaybackKeeps ==
    ASSUME TalkInv, IInv', NEW t \in Thread, ArmPlayback(t),
           UNCHANGED <<mutex, mixVars, userVars>>
    PROVE  TalkInv'
<1>1. PICK s, z, r, p : /\ s = Now /\ z = Now' /\ r = Head(todo[t])
                        /\ p = Try(Do("DacOn"), <<>>, Do("PlayingOff") \o Do("Fail"))
  OBVIOUS
<1>2. s \in View /\ z \in View /\ Sound(s) /\ TypeOK /\ TypeOK'
  BY <1>1, NowIs DEF TalkInv, IInv
<1>3. r.do = "ArmPlayback" /\ todo[t] # <<>>
  BY <1>1 DEF ArmPlayback, At
<1>4. /\ SameUsers(s, z) /\ z.mutex = s.mutex /\ z.active = s.active /\ z.dac = s.dac
      /\ z.adc = s.adc
  BY <1>1, <1>2, NowIs DEF ArmPlayback, Keep, Set, SameUsers, userVars, mixVars
<1>5. /\ z.dma = s.dma /\ z.capturing = s.capturing
      /\ \/ s.playing /\ Go(t, <<>>)
         \/ ~s.playing /\ Go(t, p) /\ z.playing /\ z.pending
  <2>1. /\ s.playing = route.playing /\ z.playing = route'.playing
        /\ z.pending = route'.pending /\ s.dma = route.dma /\ z.dma = route'.dma
        /\ s.capturing = route.capturing /\ z.capturing = route'.capturing
    BY <1>1, <1>2, NowIs
  <2>2. \/ route.playing /\ Go(t, <<>>) /\ route' = route
        \/ /\ ~route.playing /\ Go(t, p)
           /\ route' = [route EXCEPT !.playing = TRUE, !.pending = TRUE]
    BY <1>1 DEF ArmPlayback, Keep, Set
  <2>3. route \in [dma : {"stopped", "playback", "duplex"}, playing : BOOLEAN,
                   capturing : BOOLEAN, pending : BOOLEAN, rate : Rates,
                   callRate : Rates, renderer : {"mixer", "hfp"}]
    BY <1>2 DEF TypeOK, CoreTypeOK
  <2> QED BY <2>1, <2>2, <2>3
<1>6. SameMic(s, z)
  BY <1>4, <1>5 DEF SameMic
<1>7. ASSUME NEW a \in Assertions(t), NEW e \in Assertions(t), NEW b \in Assertions(t),
             r \in PlainStep, Branch(t, r, a, e, b), s \in a, BtKept(t, r, s, z)
      PROVE  Goes(Assertions(t), Steps(t), t, z, e, b) /\ Good(t, s, z)
  <2>1. PICK K \in Lively(t), x \in Sources :
              a = Has(t, K, Starting(x)) /\ e = a /\ b = Has(t, K, Coherent)
    BY <1>3, <1>7 DEF Branch
  <2>2. s \in K /\ s \in Starting(x) /\ s.mutex = t /\ r.do \notin Tame
    BY <1>3, <1>7, <2>1 DEF Has, Tame
  <2>3. Good(t, s, z) /\ z \in K /\ \A H : z \in H => z \in Has(t, K, H)
    BY <1>2, <1>4, <1>6, <1>7, <2>2, LivelyGood
  <2>4. z \in Arming(x) /\ Go(t, p)
    BY <1>2, <1>4, <1>5, <2>2 DEF Starting, Arming
  <2>5. Path(t, Steps(t), p, Has(t, K, Arming(x)), Has(t, K, Starting(x)), Has(t, K, Coherent))
    BY <1>1, StartPaths
  <2>6. Goes(Assertions(t), Steps(t), t, z, e, b)
    BY <1>7, <2>1, <2>3, <2>4, <2>5, GoesBy
  <2> QED BY <2>3, <2>6
<1>8. \E q : Go(t, q)
  BY <1>5
<1>9. r.do \notin Simple \union {"Call", "Return"} /\ r.do \notin Tame
  BY <1>3 DEF Simple, Idling, Tame
<1> QED BY <1>1, <1>3, <1>7, <1>8, <1>9, BranchKeeps

LEMMA NotifyKeeps ==
    ASSUME TalkInv, IInv', NEW t \in Thread, Notify(t), UNCHANGED <<mutex, mixVars, userVars>>
    PROVE  TalkInv'
<1>1. PICK s, z, r, p : /\ s = Now /\ z = Now' /\ r = Head(todo[t])
                        /\ p = Try(Do("PlaybackDmaOn"), <<>>, Do("PlayingOff") \o Do("Fail"))
  OBVIOUS
<1>2. s \in View /\ z \in View /\ Sound(s) /\ TypeOK /\ TypeOK'
  BY <1>1, NowIs DEF TalkInv, IInv
<1>3. r.do = "Notify" /\ todo[t] # <<>>
  BY <1>1 DEF Notify, At
<1>4. /\ SameUsers(s, z) /\ z.mutex = s.mutex /\ z.active = s.active /\ z.dac = s.dac
      /\ z.adc = s.adc
  BY <1>1, <1>2, NowIs DEF Notify, Keep, Set, SameUsers, userVars, mixVars
<1>5. /\ z.dma = s.dma /\ z.capturing = s.capturing /\ z.playing = s.playing
      /\ \/ ~(s.playing /\ s.pending) /\ Go(t, <<>>) /\ z.pending = s.pending
         \/ s.playing /\ s.pending /\ Go(t, p) /\ ~z.pending
  <2>1. /\ s.playing = route.playing /\ z.playing = route'.playing
        /\ s.pending = route.pending
        /\ z.pending = route'.pending /\ s.dma = route.dma /\ z.dma = route'.dma
        /\ s.capturing = route.capturing /\ z.capturing = route'.capturing
    BY <1>1, <1>2, NowIs
  <2>2. \/ ~(route.playing /\ route.pending) /\ Go(t, <<>>) /\ route' = route
        \/ /\ route.playing /\ route.pending /\ Go(t, p)
           /\ route' = [route EXCEPT !.pending = FALSE]
    BY <1>1 DEF Notify, Keep, Set
  <2>3. route \in [dma : {"stopped", "playback", "duplex"}, playing : BOOLEAN,
                   capturing : BOOLEAN, pending : BOOLEAN, rate : Rates,
                   callRate : Rates, renderer : {"mixer", "hfp"}]
    BY <1>2 DEF TypeOK, CoreTypeOK
  <2> QED BY <2>1, <2>2, <2>3
<1>6. SameMic(s, z)
  BY <1>4, <1>5 DEF SameMic
<1>7. ASSUME NEW a \in Assertions(t), NEW e \in Assertions(t), NEW b \in Assertions(t),
             r \in PlainStep, Branch(t, r, a, e, b), s \in a, BtKept(t, r, s, z)
      PROVE  Goes(Assertions(t), Steps(t), t, z, e, b) /\ Good(t, s, z)
  <2>1. PICK K \in Lively(t) : a = Has(t, K, Coherent) /\ e = {} /\ b = a
    BY <1>3, <1>7 DEF Branch
  <2>2. s \in K /\ s \in Coherent /\ s.mutex = t /\ r.do \notin Tame
    BY <1>3, <1>7, <2>1 DEF Has, Tame
  <2>3. Good(t, s, z) /\ z \in K /\ \A H : z \in H => z \in Has(t, K, H)
    BY <1>2, <1>4, <1>6, <1>7, <2>2, LivelyGood
  <2>4. CASE ~(s.playing /\ s.pending) /\ Go(t, <<>>) /\ z.pending = s.pending
    <3>1. z \in Coherent
      BY <1>2, <1>4, <1>5, <2>2, <2>4 DEF Coherent
    <3> QED BY <2>1, <2>3, <2>4, <3>1 DEF Goes
  <2>5. CASE s.playing /\ s.pending /\ Go(t, p) /\ ~z.pending
    <3>1. z \in Notifying
      BY <1>2, <1>4, <1>5, <2>2, <2>5 DEF Coherent, Notifying
    <3>2. PICK x \in Sources : TRUE
      BY DEF Sources
    <3>3. Path(t, Steps(t), p, Has(t, K, Notifying), {}, Has(t, K, Coherent))
      BY <1>1, <3>2, StartPaths
    <3>4. Goes(Assertions(t), Steps(t), t, z, e, b)
      BY <1>7, <2>1, <2>3, <2>5, <3>1, <3>3, GoesBy
    <3> QED BY <2>3, <3>4
  <2> QED BY <1>5, <2>4, <2>5
<1>8. \E q : Go(t, q)
  BY <1>5
<1>9. r.do \notin Simple \union {"Call", "Return"} /\ r.do \notin Tame
  BY <1>3 DEF Simple, Idling, Tame
<1> QED BY <1>1, <1>3, <1>7, <1>8, <1>9, BranchKeeps

\* Steps that only look, and decide.
LEMMA LookKeeps ==
    ASSUME TalkInv, IInv', NEW s, s = Now, NEW z, z = Now', NEW t \in Thread,
           todo[t] # <<>>, NEW r, r = Head(todo[t]),
           r.do \notin Simple \union {"Call", "Return"} \union Tame,
           Same(s, z), NEW p, Go(t, p),
           \A a, e, b \in Assertions(t) :
              r \in PlainStep /\ Branch(t, r, a, e, b) /\ s \in a =>
                 \/ Path(t, Rows(t), p, a, e, b) \/ Path(t, Level1(t), p, a, e, b)
                 \/ Path(t, Steps(t), p, a, e, b)
    PROVE  TalkInv'
<1>1. s \in View /\ z \in View /\ Sound(s)
  BY NowIs DEF TalkInv, IInv
<1>2. ASSUME NEW a \in Assertions(t), NEW e \in Assertions(t), NEW b \in Assertions(t),
             r \in PlainStep, Branch(t, r, a, e, b), s \in a, BtKept(t, r, s, z)
      PROVE  Goes(Assertions(t), Steps(t), t, z, e, b) /\ Good(t, s, z)
  <2>1. Good(t, s, z) /\ z \in a
    BY <1>1, <1>2, StillGood
  <2>2. \/ Path(t, Rows(t), p, a, e, b) \/ Path(t, Level1(t), p, a, e, b)
        \/ Path(t, Steps(t), p, a, e, b)
    BY <1>2
  <2>3. Goes(Assertions(t), Steps(t), t, z, e, b)
    BY <1>2, <2>1, <2>2, GoesBy
  <2> QED BY <2>1, <2>3
<1> QED BY <1>2, BranchKeeps

LEMMA ReadyKeeps ==
    ASSUME TalkInv, IInv', NEW t \in Thread, NotifyIfReady(t) \/ WriteFrames(t),
           UNCHANGED <<mutex, coreVars, userVars>>
    PROVE  TalkInv'
<1>1. PICK s, z, r : s = Now /\ z = Now' /\ r = Head(todo[t])
  OBVIOUS
<1>2. TypeOK /\ TypeOK'
  BY DEF TalkInv, IInv
<1>3. active' = active
  BY DEF NotifyIfReady, WriteFrames, mixVars
<1>4. Same(s, z)
  BY <1>1, <1>2, <1>3, NowIs DEF Same, SameMic, SameUsers, SamePlay, coreVars, userVars
<1>5. r.do \in {"NotifyIfReady", "WriteFrames"} /\ todo[t] # <<>>
  BY <1>1 DEF NotifyIfReady, WriteFrames, At
<1>6. r.do \notin Simple \union {"Call", "Return"} \union Tame
  BY <1>5 DEF Simple, Idling, Tame
<1>7. PICK x \in Sources : TRUE
  BY DEF Sources
<1>8. CASE NotifyIfReady(t)
  <2>1. r.do = "NotifyIfReady"
    BY <1>1, <1>8 DEF NotifyIfReady, At
  <2>2. PICK p : Go(t, p) /\ p \in {<<>>, Ignore(Do("Notify"))}
    BY <1>8 DEF NotifyIfReady
  <2>3. ASSUME NEW a \in Assertions(t), NEW e \in Assertions(t), NEW b \in Assertions(t),
               Branch(t, r, a, e, b)
        PROVE  Path(t, Steps(t), p, a, e, b)
    <3>1. PICK K \in Lively(t) : a = Has(t, K, Coherent) /\ e = {} /\ b = a
      BY <2>1, <2>3 DEF Branch
    <3>2. Path(t, Steps(t), Ignore(Do("Notify")), a, e, b)
      BY <1>7, <3>1, StartPaths
    <3>3. Path(t, Steps(t), <<>>, a, e, b)
      BY <2>3, <3>1, EmptyPath
    <3> QED BY <2>2, <3>2, <3>3
  <2> QED BY <1>1, <1>4, <1>5, <1>6, <2>2, <2>3, LookKeeps
<1>9. CASE WriteFrames(t)
  <2>1. r.do = "WriteFrames"
    BY <1>1, <1>9 DEF WriteFrames, At
  <2>2. PICK p : Go(t, p) /\ p \in {<<>>, Locked(Do("NotifyIfReady"))}
    BY <1>9 DEF WriteFrames
  <2>3. ASSUME NEW a \in Assertions(t), NEW e \in Assertions(t), NEW b \in Assertions(t),
               Branch(t, r, a, e, b)
        PROVE  Path(t, Level1(t), p, a, e, b)
    <3>1. PICK K \in Lively(t) : a = Free(t, K) /\ e = {} /\ b = a
      BY <2>1, <2>3 DEF Branch
    <3>2. Path(t, Level1(t), Locked(Do("NotifyIfReady")), a, e, b)
      BY <1>7, <3>1, StartPaths
    <3>3. Path(t, Level1(t), <<>>, a, e, b)
      BY <2>3, <3>1, EmptyPath
    <3> QED BY <2>2, <3>2, <3>3
  <2> QED BY <1>1, <1>4, <1>5, <1>6, <2>2, <2>3, LookKeeps
<1> QED BY <1>8, <1>9

LEMMA GateKeeps ==
    ASSUME TalkInv, IInv', NEW t \in Thread, ReadStream(t) \/ WaitQuiet(t),
           UNCHANGED <<mutex, coreVars, mixVars>>
    PROVE  TalkInv'
<1>1. PICK s, z, r : s = Now /\ z = Now' /\ r = Head(todo[t])
  OBVIOUS
<1>2. TypeOK /\ TypeOK'
  BY DEF TalkInv, IInv
<1>3. UNCHANGED userVars
  BY DEF ReadStream, WaitQuiet
<1>4. Same(s, z)
  BY <1>1, <1>2, <1>3, NowIs DEF Same, SameMic, SameUsers, SamePlay, coreVars, mixVars, userVars
<1>5. r.do \in {"ReadStream", "WaitQuiet"} /\ todo[t] # <<>>
  BY <1>1 DEF ReadStream, WaitQuiet, At
<1>6. r.do \notin Simple \union {"Call", "Return"} \union Tame
  BY <1>5 DEF Simple, Idling, Tame
<1>7. ASSUME NEW a, NEW e, NEW b, Branch(t, r, a, e, b)
      PROVE  t = "ctl" /\ a = Free("ctl", Open) /\ e = {} /\ b = a
  <2>1. PICK K \in Lively(t) : t = "ctl" /\ a = Free(t, K) /\ e = {} /\ b = a
    BY <1>5, <1>7 DEF Branch
  <2> QED BY <2>1 DEF Lively
<1>8. Free("ctl", Open) \in Assertions("ctl") /\ Open \in Lively("ctl") /\ "ctl" \in Thread
      /\ Open \in Contexts("ctl") /\ {} \in Assertions("ctl")
  BY CtlSets
<1>9. CASE ReadStream(t)
  <2>1. PICK p : Go(t, p) /\ p \in {Ignore(Arm), With("Allow", FALSE)}
    BY <1>9 DEF ReadStream
  <2>2. Path("ctl", Steps("ctl"), Ignore(Arm), Free("ctl", Open), {}, Free("ctl", Open))
    BY <1>8, SourceStartPaths
  <2>3. Path("ctl", Rows("ctl"), With("Allow", FALSE), Free("ctl", Open), {}, Free("ctl", Open))
    BY <1>8, StillPaths
  <2>4. Path("ctl", Steps("ctl"), p, Free("ctl", Open), {}, Free("ctl", Open))
    BY <2>1, <2>2, <2>3, LiftPath
  <2>5. ASSUME NEW a \in Assertions(t), NEW e \in Assertions(t), NEW b \in Assertions(t),
               Branch(t, r, a, e, b)
        PROVE  Path(t, Steps(t), p, a, e, b)
    BY <1>7, <2>4, <2>5
  <2> QED BY <1>1, <1>4, <1>5, <1>6, <2>1, <2>5, LookKeeps
<1>10. CASE WaitQuiet(t)
  <2>1. r.do = "WaitQuiet"
    BY <1>1, <1>10 DEF WaitQuiet, At
  <2>2. PICK p, q : /\ Go(t, p \o q) /\ p \in {StopAll, <<>>}
                    /\ \/ q = <<>>
                       \/ r.arg # 0 /\ q = With("WaitQuiet", r.arg - 1)
    <3>1. PICK peerPlaying \in BOOLEAN :
             LET stopLocal == route.playing /\ (Arg(t) = 0 \/ ~peerPlaying)
                 quiet == ~peerPlaying /\ ~a2dp.stream /\ ~route.playing
             IN  Go(t, (IF stopLocal THEN StopAll ELSE <<>>)
                       \o (IF quiet \/ Arg(t) = 0 THEN <<>> ELSE With("WaitQuiet", Arg(t) - 1)))
      BY <1>10 DEF WaitQuiet
    <3>2. Arg(t) = r.arg
      BY <1>1 DEF Arg
    <3>3. PICK p, q : /\ Go(t, p \o q)
                      /\ p = StopAll \/ p = <<>>
                      /\ q = <<>> \/ (Arg(t) # 0 /\ q = With("WaitQuiet", Arg(t) - 1))
      BY <3>1, Zenon
    <3> QED BY <3>2, <3>3
  <2>3. ASSUME r \in PlainStep
        PROVE  Path("ctl", Level1("ctl"), p \o q, Free("ctl", Open), {}, Free("ctl", Open))
    <3>1. Path("ctl", Level1("ctl"), <<>>, Free("ctl", Open), {}, Free("ctl", Open))
      BY <1>8, EmptyPath
    <3>2. Path("ctl", Level1("ctl"), StopAll, Free("ctl", Open), {}, Free("ctl", Open))
      BY <1>8, StopAllPaths
    <3>3. CASE q = <<>>
      BY <2>2, <3>1, <3>2, <3>3, ThenPath
    <3>4. CASE r.arg # 0 /\ q = With("WaitQuiet", r.arg - 1)
      <4>1. r.arg - 1 \in Nat
        BY <2>1, <2>3, <3>4, Arguments
      <4>2. Path("ctl", Rows("ctl"), q, Free("ctl", Open), {}, Free("ctl", Open))
        BY <3>4, <4>1, GatePaths
      <4>3. Path("ctl", Level1("ctl"), q, Free("ctl", Open), {}, Free("ctl", Open))
        BY <4>2, LiftPath
      <4>4. Path("ctl", Level1("ctl"), p, Free("ctl", Open), {}, Free("ctl", Open))
        BY <2>2, <3>1, <3>2
      <4> QED BY <4>3, <4>4, ThenPath
    <3> QED BY <2>2, <3>3, <3>4
  <2>4. PICK w : w = p \o q
    OBVIOUS
  <2>5. Go(t, w)
    BY <2>2, <2>4
  <2>6. ASSUME NEW a \in Assertions(t), NEW e \in Assertions(t), NEW b \in Assertions(t),
               r \in PlainStep, Branch(t, r, a, e, b)
        PROVE  Path(t, Level1(t), w, a, e, b)
    <3>1. t = "ctl" /\ a = Free("ctl", Open) /\ e = {} /\ b = a
      BY <1>7, <2>6
    <3> QED BY <2>3, <2>4, <2>6, <3>1
  <2> QED BY <1>1, <1>4, <1>5, <1>6, <2>5, <2>6, LookKeeps
<1> QED BY <1>9, <1>10

LEMMA RunModeKeeps ==
    ASSUME TalkInv, IInv', NEW t \in Thread, SetRunMode(t), UNCHANGED <<mutex, mixVars, userVars>>
    PROVE  TalkInv'
<1>1. PICK s, z, r : s = Now /\ z = Now' /\ r = Head(todo[t])
  OBVIOUS
<1>2. TypeOK /\ TypeOK'
  BY DEF TalkInv, IInv
<1>3. Same(s, z)
  BY <1>1, <1>2, NowIs DEF SetRunMode, Keep, Set, Same, SameMic, SameUsers, SamePlay, mixVars,
     userVars
<1>4. r.do = "SetRunMode" /\ todo[t] # <<>>
  BY <1>1 DEF SetRunMode, At
<1>5. r.do \notin Simple \union {"Call", "Return"} \union Tame
  BY <1>4 DEF Simple, Idling, Tame
<1>6. s.capturing = route.capturing /\ s.playing = route.playing
  BY <1>1, <1>2, NowIs
<1>7. PICK p : /\ Go(t, p)
               /\ r.arg = "idle" => p = GoIdle
               /\ r.arg = "capture" /\ RunMode # "capture" =>
                     p = EnterMode(MusicRate, Do("StartCapture"))
  BY <1>1 DEF SetRunMode, Keep, Set, Arg
<1>8. ~s.capturing => RunMode # "capture"
  BY <1>6 DEF RunMode
<1>9. ASSUME NEW a \in Assertions(t), NEW e \in Assertions(t), NEW b \in Assertions(t),
             Branch(t, r, a, e, b), s \in a
      PROVE  Path(t, Rows(t), p, a, e, b)
  <2>1. /\ t = "ctl" /\ a = Silent
        /\ \/ r.arg = "idle" /\ e = {} /\ b = Silent
           \/ r.arg = "capture" /\ e = Silent /\ b = Caught
    BY <1>4, <1>9 DEF Branch
  <2>2. ~s.capturing
    BY <1>9, <2>1 DEF Silent, Rested
  <2> QED BY <1>7, <1>8, <2>1, <2>2, RunModePaths
<1> QED BY <1>1, <1>3, <1>4, <1>5, <1>7, <1>9, LookKeeps

LEMMA CaptureKeeps ==
    ASSUME TalkInv, IInv', NEW t \in Thread, StartCapture(t),
           UNCHANGED <<mutex, mixVars, userVars>>
    PROVE  TalkInv'
<1>1. PICK s, z, r, p : /\ s = Now /\ z = Now' /\ r = Head(todo[t])
                        /\ p = Try(Do("AdcOn"), Do("CapturingOn"), Do("DmaOff") \o Do("Fail"))
  OBVIOUS
<1>2. TypeOK /\ TypeOK'
  BY DEF TalkInv, IInv
<1>3. Same(s, z)
  BY <1>1, <1>2, NowIs DEF StartCapture, Keep, Set, Refuse, coreVars, Same, SameMic, SameUsers,
     SamePlay, mixVars, userVars
<1>4. r.do = "StartCapture" /\ todo[t] # <<>>
  BY <1>1 DEF StartCapture, At
<1>5. r.do \notin Simple \union {"Call", "Return"} \union Tame
  BY <1>4 DEF Simple, Idling, Tame
<1>6. s.dma = route.dma /\ s.playing = route.playing /\ s \in View
  BY <1>1, <1>2, NowIs
<1>7. ASSUME NEW a, NEW e, NEW b, Branch(t, r, a, e, b), s \in a
      PROVE  /\ t = "ctl" /\ a = Silent /\ e = Silent /\ b = Caught
             /\ ~s.playing /\ s.dma = "stopped"
  <2>1. t = "ctl" /\ a = Silent /\ e = Silent /\ b = Caught
    BY <1>4, <1>7 DEF Branch
  <2>2. ~s.playing /\ s.dma # "playback" /\ s.dma # "duplex"
    BY <1>7, <2>1 DEF Silent, Rested, Mine, Stopped, DacDone, PlayingDone
  <2>3. s.dma \in {"stopped", "playback", "duplex"}
    BY <1>6 DEF View
  <2> QED BY <2>1, <2>2, <2>3
<1>8. CASE route.playing
  <2>1. Raise(t)
    BY <1>8 DEF StartCapture, Refuse
  <2>2. \A a, e, b \in Assertions(t) : ~(Branch(t, r, a, e, b) /\ s \in a)
    BY <1>6, <1>7, <1>8
  <2> QED BY <1>1, <1>4, <1>5, <2>1, <2>2, BranchKeeps
<1>9. CASE ~route.playing
  <2>1. PICK w : w = (IF route.dma = "stopped" THEN Do("DuplexDmaOn") ELSE <<>>) \o p
    OBVIOUS
  <2>2. Go(t, w)
    BY <1>1, <1>9, <2>1 DEF StartCapture, Keep, Set
  <2>3. ASSUME NEW a \in Assertions(t), NEW e \in Assertions(t), NEW b \in Assertions(t),
               Branch(t, r, a, e, b), s \in a
        PROVE  Path(t, Level1(t), w, a, e, b)
    <3>1. /\ t = "ctl" /\ a = Silent /\ e = Silent /\ b = Caught
          /\ route.dma = "stopped"
      BY <1>6, <1>7, <2>3
    <3>2. w = Do("DuplexDmaOn") \o p
      BY <2>1, <3>1
    <3> QED BY <1>1, <3>1, <3>2, RunModePaths
  <2> QED BY <1>1, <1>3, <1>4, <1>5, <2>2, <2>3, LookKeeps
<1> QED BY <1>8, <1>9

----------------------------------------------------------------------------
(* Every step keeps the invariant.                                            *)

LEMMA CallKeeps ==
    ASSUME TalkInv, IInv', NEW t \in Thread, Call(t) \/ Return(t),
           UNCHANGED <<coreVars, mixVars, userVars>>
    PROVE  TalkInv'
<1>1. PICK s, z : s = Now /\ z = Now'
  OBVIOUS
<1>2. TypeOK /\ TypeOK' /\ s \in View /\ z \in View /\ Sound(s)
  BY <1>1, NowIs DEF TalkInv, IInv
<1>3. todo \in [Thread -> Programs(Thrice)]
  BY DEF TalkInv, IInv, AllDisciplined
<1>4. Same(s, z)
  BY <1>1, <1>2, NowIs DEF Call, Return, Same, SameMic, SameUsers, SamePlay, coreVars, mixVars,
     userVars
<1>5. OutlinedIn(Assertions(t), Steps(t), todo[t], s, Rest(t))
  BY <1>1 DEF TalkInv, Outlined
<1>6. /\ OutlinedIn(Assertions(t), Steps(t), todo'[t], s, Rest(t))
      /\ \A u \in Thread \ {t} : todo'[u] = todo[u]
  BY <1>3, <1>5, TablesPlain, CallHolds DEF Steps
<1>7. (t # "bt" => z.bt = s.bt) /\ (s.bt = "calm" => z.bt = "calm")
  <2>1. CASE t # "bt"
    BY <1>1, <1>6, <2>1, CalmIs, ThreadIs
  <2>2. CASE t = "bt" /\ s.bt = "calm"
    <3>1. OutlinedIn(TameSets, TameSteps, todo[t], 0, {0})
      BY <1>1, <2>2, CalmIs DEF Harmless
    <3>2. OutlinedIn(TameSets, TameSteps, todo'[t], 0, {0})
      BY <1>3, <3>1, TablesPlain, CallHolds DEF TameSteps
    <3> QED BY <1>1, <2>2, <3>2, NextHolds, CalmIs
  <2> QED BY <2>1, <2>2
<1>8. Good(t, s, z)
  BY <1>2, <1>4, <1>7, SameGood
<1>9. \A a \in Assertions(t) : s \in a => z \in a
  BY <1>2, <1>4, <1>7, AssertionGives DEF Quietly
<1>10. OutlinedIn(Assertions(t), Steps(t), todo'[t], z, Rest(t))
  BY <1>6, <1>9, StableHolds
<1> QED BY <1>1, <1>6, <1>8, <1>10, StepKeeps

LEMMA CoreKeeps ==
    ASSUME TalkInv, IInv', CallRates = {}, NEW t \in Thread, Head(todo[t]) \in PlainStep,
           CoreStep(t), UNCHANGED <<mutex, mixVars, userVars>>
    PROVE  TalkInv'
<1>1. PICK s, z, r : s = Now /\ z = Now' /\ r = Head(todo[t])
  OBVIOUS
<1>2. TypeOK /\ TypeOK'
  BY DEF TalkInv, IInv
<1>3. todo[t] # <<>> /\ r.do \notin {"Call", "Return"}
  BY <1>1, StepNames
<1>4. ASSUME r.do \in Simple, \/ Go(t, <<>>) /\ Ends(t, r, s, z)
                              \/ Raise(t) /\ Fails(r, s, z)
      PROVE  TalkInv'
  BY <1>1, <1>3, <1>4, SimpleKeeps
<1>5. CASE DacOn(t) \/ DacOff(t) \/ AdcOn(t) \/ AdcOff(t)
  BY <1>1, <1>2, <1>4, <1>5, PathEnds
<1>6. CASE \/ PlayingOff(t) \/ PlaybackDmaOff(t) \/ CapturingOff(t) \/ DuplexDmaOff(t)
           \/ CapturingOn(t) \/ DmaOff(t)
  BY <1>1, <1>2, <1>4, <1>6, FlagEnds
<1>7. CASE PlaybackDmaOn(t) \/ DuplexDmaOn(t)
  BY <1>1, <1>2, <1>4, <1>7, DmaEnds
<1>8. CASE Reconfigure(t)
  BY <1>1, <1>2, <1>4, <1>8, RateEnds
<1>9. CASE \/ StartPlayback(t) \/ ArmPlayback(t) \/ StartCapture(t) \/ SetRunMode(t) \/ Notify(t)
  BY <1>9, StartPlaybackKeeps, ArmPlaybackKeeps, CaptureKeeps, RunModeKeeps, NotifyKeeps
<1>10. CASE \/ CodecRate(t) \/ CallCheck(t) \/ CallFlagsOn(t) \/ CallFlagsOff(t)
            \/ SyncDac(t) \/ SyncAdc(t) \/ RestartDma(t) \/ RateBack(t)
            \/ SetRenderer(t) \/ SetCallRate(t)
  <2>1. r.do \in {"CodecRate", "CallCheck", "CallFlagsOn", "CallFlagsOff", "SyncDac", "SyncAdc",
                  "RestartDma", "RateBack", "SetRenderer", "SetCallRate"}
    BY <1>1, <1>10 DEF CodecRate, CallCheck, CallFlagsOn, CallFlagsOff, SyncDac, SyncAdc,
       RestartDma, RateBack, SetRenderer, SetCallRate, At
  <2>2. r.do \notin Simple /\ \A a, e, b : ~Branch(t, r, a, e, b)
    BY <2>1 DEF Simple, Idling, Branch
  <2>3. \A a, e, b : <<r, a, e, b>> \notin Table(t)
    BY <2>2 DEF Table
  <2> QED BY <1>1, <1>3, <2>3, PlainKeeps
<1> QED BY <1>5, <1>6, <1>7, <1>8, <1>9, <1>10 DEF CoreStep

LEMMA StepTalk ==
    ASSUME TalkInv, CallRates = {}, Priority["bt"] < Priority["ctl"], NEW t \in Thread, Step(t)
    PROVE  TalkInv'
<1>1. IInv /\ IInv' /\ TypeOK /\ TypeOK' /\ AllDisciplined
  BY StepInv DEF TalkInv, IInv
<1>2. CoreTypeOK
  BY <1>1, TypeParts
<1>3. PICK s, z, r : s = Now /\ z = Now' /\ r = Head(todo[t])
  OBVIOUS
<1>4. CASE (Lock(t) \/ Unlock(t)) /\ UNCHANGED <<coreVars, mixVars, userVars>>
  BY <1>1, <1>4, MutexKeeps DEF Step
<1>5. CASE (Call(t) \/ Return(t)) /\ UNCHANGED <<coreVars, mixVars, userVars>>
  BY <1>1, <1>5, CallKeeps
<1>6. CASE Fail(t) /\ UNCHANGED <<coreVars, mixVars, userVars>>
  <2>1. /\ r.do \in Simple
        /\ \/ Go(t, <<>>) /\ Ends(t, r, s, z)
           \/ Raise(t) /\ Fails(r, s, z)
    BY <1>1, <1>3, <1>6, WaitEnds
  <2>2. todo[t] # <<>>
    BY <1>6, StepNames
  <2> QED BY <1>1, <1>3, <2>1, <2>2, SimpleKeeps
<1>7. CASE CoreStep(t) /\ UNCHANGED <<mutex, mixVars, userVars>>
  <2>1. Head(todo[t]) \in PlainStep
    BY <1>1, <1>2, <1>7, StepNames, CoreGoesOn, PlainStepKeeps
  <2> QED BY <1>1, <1>7, <2>1, CoreKeeps
<1>8. CASE MixStep(t) /\ UNCHANGED <<coreVars, userVars>>
  <2>1. UNCHANGED mutex
    BY <1>8 DEF MixStep
  <2>2. CASE Rollback(t)
    <3>1. r.do \in Simple /\ Go(t, <<>>) /\ Ends(t, r, s, z)
      BY <1>1, <1>3, <1>8, <2>1, <2>2, RollbackEnds
    <3>2. todo[t] # <<>>
      BY <1>8, StepNames
    <3> QED BY <1>1, <1>3, <3>1, <3>2, SimpleKeeps
  <2>3. CASE \/ Activate(t) \/ StartSink(t) \/ Deactivate(t) \/ WriteFrames(t) \/ NotifyIfReady(t)
    BY <1>1, <1>8, <2>1, <2>3, ActivateKeeps, StartSinkKeeps, DeactivateKeeps, ReadyKeeps
  <2> QED BY <1>8, <2>2, <2>3 DEF MixStep
<1>9. CASE UserStep(t) /\ UNCHANGED <<coreVars, mixVars>>
  <2>1. UNCHANGED mutex
    BY <1>9 DEF UserStep
  <2>2. todo[t] # <<>>
    BY <1>9, StepNames
  <2>3. CASE \/ Enable(t) \/ SetCapturing(t) \/ ReplyOn(t) \/ ReplyOff(t) \/ CloseUart(t)
             \/ Allow(t) \/ SetVoice(t) \/ UartStop(t)
    <3>1. r.do \in Simple /\ Go(t, <<>>) /\ Ends(t, r, s, z)
      BY <1>1, <1>3, <1>9, <2>1, <2>3, SwitchEnds
    <3> QED BY <1>1, <1>3, <2>2, <3>1, SimpleKeeps
  <2>4. CASE UartStart(t) \/ WaitReplyDone(t)
    <3>1. /\ r.do \in Simple
          /\ \/ Go(t, <<>>) /\ Ends(t, r, s, z)
             \/ Raise(t) /\ Fails(r, s, z)
      BY <1>1, <1>3, <1>9, <2>1, <2>4, WaitEnds
    <3> QED BY <1>1, <1>3, <2>2, <3>1, SimpleKeeps
  <2>5. CASE ReadStream(t) \/ WaitQuiet(t)
    BY <1>1, <1>9, <2>1, <2>5, GateKeeps
  <2> QED BY <1>9, <2>3, <2>4, <2>5 DEF UserStep
<1> QED BY <1>4, <1>5, <1>6, <1>7, <1>8, <1>9 DEF Step

----------------------------------------------------------------------------
(* Events, and what is no step of a thread.                                   *)

\* A thread that waits for its next event is where it rests.
LEMMA RestsIdle ==
    ASSUME TalkInv, NEW t \in Thread, Idle(t), NEW s, s = Now
    PROVE  s \in Rest(t)
<1>1. OutlinedIn(Assertions(t), Steps(t), <<>>, s, Rest(t))
  BY DEF TalkInv, Outlined, Idle
<1> QED BY <1>1, IdleHolds

LEMMA BeginsKeeps ==
    ASSUME TalkInv, IInv', NEW s, s = Now, NEW z, z = Now', NEW t \in Thread,
           NEW p, todo' = [todo EXCEPT ![t] = p], NEW a, NEW b, Path(t, Steps(t), p, a, {}, b),
           b \subseteq Rest(t), z \in a, Good(t, s, z)
    PROVE  TalkInv'
<1>1. todo \in [Thread -> Programs(Thrice)]
  BY DEF TalkInv, IInv, AllDisciplined
<1>2. todo'[t] = p /\ \A u \in Thread \ {t} : todo'[u] = todo[u]
  BY <1>1
<1>3. a \in Assertions(t) /\ {} \in Assertions(t)
  BY NothingIn DEF Path
<1>4. OutlinedIn(Assertions(t), Steps(t), p, z, Rest(t))
  BY <1>3, PathHolds DEF Path
<1> QED BY <1>2, <1>4, StepKeeps

\* What the events of BTstack's thread change, is not seen, but that it works now.
LEMMA BtGood ==
    ASSUME NEW s \in View, NEW z \in View, Sound(s), Same(s, z),
           s.bt = "calm" /\ ~s.gate => z.bt = "calm"
    PROVE  Good("bt", s, z)
<1>1. SamePlay(s, z) /\ SameMic(s, z) /\ SameUsers(s, z) /\ z.mutex = s.mutex
  BY DEF Same
<1>2. Shrinks(s, z)
  BY <1>1 DEF SamePlay, Shrinks
<1>3. Rested(s) => Rested(z)
  BY <1>1 DEF SameMic, Rested
<1>4. Alone(s) => Alone(z)
  BY <1>1 DEF SameUsers, Alone
<1>5. Does("bt", s, z)
  BY <1>1, <1>2, <1>3 DEF Does, SameUsers
<1>6. s \in Coherent => z \in Coherent
  BY <1>1, PlaybackKept DEF Playbacks
<1>7. Sound(z)
  BY <1>1, <1>3, <1>4, <1>6 DEF Sound, SameUsers
<1> QED BY <1>5, <1>7 DEF Good

\* What the reply receiver does between its programs.
LEMMA RxGood ==
    ASSUME NEW s \in View, NEW z \in View, Sound(s), SamePlay(s, z), SameMic(s, z),
           z.mutex = s.mutex, z.bt = s.bt, z.gate = s.gate, z.talking = s.talking,
           z.replies => s.replies, ~s.replies /\ s.done => z.done, z.done => ~z.open
    PROVE  Good("rx", s, z)
<1>1. Shrinks(s, z)
  BY DEF SamePlay, Shrinks
<1>2. Rested(s) => Rested(z)
  BY DEF SameMic, Rested
<1>3. Alone(s) => Alone(z)
  BY DEF Alone
<1>4. Does("rx", s, z)
  BY <1>1, <1>2 DEF Does
<1>5. s \in Coherent => z \in Coherent
  BY PlaybackKept DEF Playbacks
<1>6. Sound(z)
  BY <1>2, <1>3, <1>5 DEF Sound
<1> QED BY <1>4, <1>6 DEF Good

LEMMA BtTalk ==
    ASSUME TalkInv, IInv', CallRates = {}, Event("bt", BtEvent)
    PROVE  TalkInv'
<1>1. PICK s, z : s = Now /\ z = Now'
  OBVIOUS
<1>2. TypeOK /\ TypeOK' /\ s \in View /\ z \in View /\ Sound(s) /\ "bt" \in Thread
  BY <1>1, NowIs, ThreadIs DEF TalkInv, IInv
<1>3. CASE StreamStarted \/ StreamEnded \/ MediaPacket
  <2>1. PICK p : /\ Begin("bt", p)
                 /\ \/ a2dp.enabled /\ p = Arm
                    \/ a2dp.enabled /\ p = With("WriteFrames", "background")
                    \/ p \in {With("Allow", FALSE), SourceStop("background")}
    BY <1>3 DEF StreamStarted, StreamEnded, MediaPacket
  <2>2. a2dp \in [stream : BOOLEAN, enabled : BOOLEAN, allowed : BOOLEAN]
    BY <1>2 DEF TypeOK
  <2>3. a2dp'.enabled = a2dp.enabled /\ UNCHANGED <<reply, ptt>>
    <3>1. CASE StreamStarted
      <4>1. a2dp' = [a2dp EXCEPT !.stream = TRUE] /\ UNCHANGED <<reply, ptt>>
        BY <3>1 DEF StreamStarted
      <4> QED BY <2>2, <4>1
    <3>2. CASE StreamEnded
      <4>1. a2dp' = [a2dp EXCEPT !.stream = FALSE, !.allowed = FALSE] /\ UNCHANGED <<reply, ptt>>
        BY <3>2 DEF StreamEnded
      <4> QED BY <2>2, <4>1
    <3>3. CASE MediaPacket
      BY <3>3 DEF MediaPacket, userVars
    <3> QED BY <1>3, <3>1, <3>2, <3>3
  <2>4. Same(s, z)
    BY <1>1, <1>2, <2>3, NowIs DEF Event, Same, SameMic, SameUsers, SamePlay, coreVars, mixVars
  <2>5. Idle("bt") /\ todo' = [todo EXCEPT !["bt"] = p]
    BY <2>1 DEF Begin
  <2>6. ~s.gate => p \in {With("Allow", FALSE), SourceStop("background")}
    BY <1>1, <1>2, <2>1, NowIs
  <2>7. ASSUME ~s.gate PROVE z.bt = "calm"
    <3>1. {0} \in TameSets /\ {} \in TameSets /\ "background" \in Sources
      BY DEF TameSets, Sources
    <3>2. PathIn(TameSets, TameSteps, p, {0}, {}, {0})
      BY <2>6, <2>7, <3>1, TamePaths
    <3>3. OutlinedIn(TameSets, TameSteps, p, 0, {0})
      BY <3>1, <3>2, PathHolds
    <3>4. todo \in [Thread -> Programs(Thrice)]
      BY DEF TalkInv, IInv, AllDisciplined
    <3>5. todo'["bt"] = p
      BY <1>2, <2>5, <3>4
    <3> QED BY <1>1, <3>3, <3>5, NextHolds, CalmIs
  <2>8. Good("bt", s, z)
    BY <1>2, <2>4, <2>7, BtGood
  <2>9. s \in Rest("bt") /\ z \in Rest("bt")
    <3>1. s \in Rest("bt")
      BY <1>1, <1>2, <2>5, RestsIdle
    <3> QED BY <1>2, <2>4, <3>1 DEF Rest, Free, Same
  <2>10. Path("bt", Steps("bt"), p, Rest("bt"), {}, Rest("bt"))
    BY <2>1, MusicPaths
  <2> QED BY <1>1, <1>2, <2>5, <2>8, <2>9, <2>10, BeginsKeeps
<1>4. CASE (\E rate \in CallRates : ScoEstablished(rate)) \/ ScoReleased
  <2>1. sco = "none"
    BY <1>2 DEF TypeOK
  <2> QED BY <1>4, <2>1 DEF ScoReleased
<1> QED BY <1>3, <1>4 DEF Event, BtEvent

LEMMA RxTalk ==
    ASSUME TalkInv, IInv', Event("rx", RxEvent)
    PROVE  TalkInv'
<1>1. PICK s, z : s = Now /\ z = Now'
  OBVIOUS
<1>2. TypeOK /\ TypeOK' /\ s \in View /\ z \in View /\ Sound(s)
  BY <1>1, NowIs DEF TalkInv, IInv
<1>3. todo \in [Thread -> Programs(Thrice)] /\ "rx" \in Thread
  BY ThreadIs DEF TalkInv, IInv, AllDisciplined
<1>4. /\ reply \in [enabled : BOOLEAN, done : BOOLEAN, open : BOOLEAN, voice : BOOLEAN]
      /\ route' = route /\ hw' = hw /\ active' = active /\ mutex' = mutex
  BY <1>2 DEF TypeOK, Event, coreVars, mixVars
<1>5. CASE ReplyPark \/ ReplyOpen
  <2>1. /\ Idle("rx") /\ todo' = todo /\ a2dp' = a2dp /\ ptt' = ptt
        /\ reply' \in {[reply EXCEPT !.done = TRUE],
                       [reply EXCEPT !.open = TRUE, !.done = FALSE],
                       [reply EXCEPT !.enabled = FALSE, !.done = TRUE]}
        /\ ~reply.open
        /\ ~reply.enabled => reply' = [reply EXCEPT !.done = TRUE]
    BY <1>5 DEF ReplyPark, ReplyOpen
  <2>2. /\ reply'.enabled => reply.enabled
        /\ ~reply.enabled /\ reply.done => reply'.done
        /\ reply'.done => ~reply'.open
    <3>1. CASE reply' = [reply EXCEPT !.done = TRUE]
      BY <1>4, <2>1, <3>1
    <3>2. CASE reply' = [reply EXCEPT !.open = TRUE, !.done = FALSE]
      BY <1>4, <2>1, <3>2
    <3>3. CASE reply' = [reply EXCEPT !.enabled = FALSE, !.done = TRUE]
      BY <1>4, <2>1, <3>3
    <3> QED BY <2>1, <3>1, <3>2, <3>3
  <2>3. /\ SamePlay(s, z) /\ SameMic(s, z) /\ z.mutex = s.mutex
        /\ z.gate = s.gate /\ z.talking = s.talking
    BY <1>1, <1>2, <1>4, <2>1, NowIs DEF SamePlay, SameMic
  <2>4. /\ z.replies => s.replies
        /\ ~s.replies /\ s.done => z.done
        /\ z.done => ~z.open
    BY <1>1, <1>2, <2>2, NowIs
  <2>5. z.bt = s.bt
    BY <1>1, <2>1, CalmIs
  <2>6. Good("rx", s, z)
    BY <1>2, <2>3, <2>4, <2>5, RxGood
  <2>7. z \in Rest("rx") /\ Rest("rx") \in Assertions("rx")
    <3>1. s \in Rest("rx")
      BY <1>1, <1>3, <2>1, RestsIdle
    <3>2. Rest("rx") = Free("rx", View)
      BY DEF Rest
    <3> QED BY <1>2, <1>3, <2>3, <3>1, <3>2, FreeIn DEF Free
  <2>8. Path("rx", Steps("rx"), <<>>, Rest("rx"), {}, Rest("rx"))
    BY <2>7, NothingIn, EmptyPath
  <2>9. todo' = [todo EXCEPT !["rx"] = <<>>]
    BY <1>3, <2>1 DEF Idle
  <2> QED BY <1>1, <1>3, <2>6, <2>7, <2>8, <2>9, BeginsKeeps
<1>6. CASE ReplyData \/ ReplyIdle \/ ReplyClose
  <2>1. PICK p : /\ Begin("rx", p)
                 /\ p \in {Speak,
                           Try(SourceStart("voice"), With("SetVoice", TRUE) \o Speak, <<>>),
                           Hush, Hush \o Do("CloseUart"), <<>> \o Do("CloseUart")}
    BY <1>6 DEF ReplyData, ReplyIdle, ReplyClose
  <2>2. reply.open /\ UNCHANGED userVars
    BY <1>6 DEF ReplyData, ReplyIdle, ReplyClose
  <2>3. Idle("rx") /\ todo' = [todo EXCEPT !["rx"] = p]
    BY <2>1 DEF Begin
  <2>4. Same(s, z)
    <3>1. a2dp' = a2dp /\ reply' = reply /\ ptt' = ptt
      BY <2>2 DEF userVars
    <3>2. SamePlay(s, z) /\ SameMic(s, z) /\ z.mutex = s.mutex
      BY <1>1, <1>2, <1>4, NowIs DEF SamePlay, SameMic
    <3>3. SameUsers(s, z)
      BY <1>1, <1>2, <3>1, NowIs DEF SameUsers
    <3> QED BY <3>2, <3>3 DEF Same
  <2>5. z.bt = s.bt
    BY <1>1, <1>3, <2>3, CalmIs
  <2>6. Good("rx", s, z)
    BY <1>2, <1>3, <2>4, <2>5, SameGood
  <2>7. z \in Free("rx", Opened)
    <3>1. s \in Free("rx", View)
      BY <1>1, <1>3, <2>3, RestsIdle DEF Rest
    <3>2. s.open
      BY <1>1, <1>2, <2>2, NowIs
    <3> QED BY <1>2, <2>4, <3>1, <3>2 DEF Free, Opened, Same, SameUsers
  <2>8. Path("rx", Steps("rx"), p, Free("rx", Opened), {}, Rest("rx"))
    BY <2>1, ReplyPaths
  <2> QED BY <1>1, <1>3, <2>3, <2>6, <2>7, <2>8, BeginsKeeps
<1> QED BY <1>5, <1>6 DEF Event, RxEvent

LEMMA CtlTalk ==
    ASSUME TalkInv, IInv', Event("ctl", CtlEvent)
    PROVE  TalkInv'
<1>1. PICK s, z : s = Now /\ z = Now'
  OBVIOUS
<1>2. TypeOK /\ TypeOK' /\ s \in View /\ z \in View /\ Sound(s)
  BY <1>1, NowIs DEF TalkInv, IInv
<1>3. /\ "ctl" \in Thread /\ Rest("ctl") = Free("ctl", Open) \union Talking
      /\ Free("ctl", Open) \in Assertions("ctl") /\ Talking \in Assertions("ctl")
      /\ Rest("ctl") \in Assertions("ctl")
  BY CtlSets
<1>4. PICK p : /\ Begin("ctl", p) /\ UNCHANGED <<a2dp, sco, reply>>
               /\ \E b \in BOOLEAN : ptt' = [ptt EXCEPT !.held = b]
               /\ \/ p = <<>>
                  \/ ~ptt.capturing /\ p = PttStart
                  \/ ptt.capturing /\ p = PttStop
  <2>1. CASE Press
    <3>1. PICK p : p = IF ptt.capturing THEN <<>> ELSE PttStart
      OBVIOUS
    <3>2. Begin("ctl", p) /\ ptt' = [ptt EXCEPT !.held = TRUE] /\ UNCHANGED <<a2dp, sco, reply>>
      BY <2>1, <3>1 DEF Press
    <3> QED BY <3>1, <3>2
  <2>2. CASE Release
    <3>1. PICK p : p = IF ptt.capturing THEN PttStop ELSE <<>>
      OBVIOUS
    <3>2. Begin("ctl", p) /\ ptt' = [ptt EXCEPT !.held = FALSE] /\ UNCHANGED <<a2dp, sco, reply>>
      BY <2>2, <3>1 DEF Release
    <3> QED BY <3>1, <3>2
  <2> QED BY <2>1, <2>2 DEF Event, CtlEvent
<1>5. ptt'.capturing = ptt.capturing
  BY <1>2, <1>4 DEF TypeOK
<1>6. Same(s, z)
  BY <1>1, <1>2, <1>4, <1>5, NowIs DEF Event, coreVars, mixVars, Same, SameMic, SameUsers, SamePlay
<1>7. Idle("ctl") /\ todo' = [todo EXCEPT !["ctl"] = p]
  BY <1>4 DEF Begin
<1>8. todo \in [Thread -> Programs(Thrice)]
  BY DEF TalkInv, IInv, AllDisciplined
<1>9. z.bt = s.bt
  BY <1>1, <1>7, <1>8, CalmIs, ThreadIs
<1>10. Good("ctl", s, z)
  BY <1>2, <1>3, <1>6, <1>9, SameGood
<1>11. \A a \in Assertions("ctl") : s \in a => z \in a
  BY <1>2, <1>6, <1>9, AssertionGives DEF Quietly
<1>12. s \in Rest("ctl") /\ s.talking = ptt.capturing
  BY <1>1, <1>2, <1>3, <1>7, RestsIdle, NowIs
<1>13. CASE p = <<>>
  <2>1. Path("ctl", Steps("ctl"), p, Rest("ctl"), {}, Rest("ctl"))
    BY <1>3, <1>13, NothingIn, EmptyPath
  <2>2. z \in Rest("ctl")
    BY <1>3, <1>11, <1>12
  <2> QED BY <1>1, <1>3, <1>7, <1>10, <2>1, <2>2, BeginsKeeps
<1>14. CASE ~ptt.capturing /\ p = PttStart
  <2>1. Path("ctl", Steps("ctl"), p, Free("ctl", Open), {}, Rest("ctl"))
    BY <1>14, TalkPaths
  <2>2. z \in Free("ctl", Open)
    <3>1. s \in Free("ctl", Open)
      BY <1>3, <1>12, <1>14 DEF Talking
    <3> QED BY <1>3, <1>11, <3>1
  <2> QED BY <1>1, <1>3, <1>7, <1>10, <2>1, <2>2, BeginsKeeps
<1>15. CASE ptt.capturing /\ p = PttStop
  <2>1. Path("ctl", Steps("ctl"), p, Talking, {}, Rest("ctl"))
    BY <1>15, TalkPaths
  <2>2. z \in Talking
    <3>1. s \in Talking
      BY <1>3, <1>12, <1>15 DEF Free, Open
    <3> QED BY <1>3, <1>11, <3>1
  <2> QED BY <1>1, <1>3, <1>7, <1>10, <2>1, <2>2, BeginsKeeps
<1> QED BY <1>4, <1>13, <1>14, <1>15

\* The mixer plays, or nothing happens.
LEMMA StillTalk ==
    ASSUME TalkInv, IInv', UNCHANGED <<todo, mutex, active, coreVars, userVars>>
    PROVE  TalkInv'
<1>1. PICK s, z : s = Now /\ z = Now'
  OBVIOUS
<1>2. TypeOK /\ TypeOK' /\ s \in View /\ z \in View /\ Sound(s)
  BY <1>1, NowIs DEF TalkInv, IInv
<1>3. Same(s, z) /\ z.bt = s.bt
  BY <1>1, <1>2, NowIs, CalmIs DEF coreVars, userVars, Same, SameMic, SameUsers, SamePlay
<1>4. "bt" \in Thread
  BY ThreadIs
<1>5. Good("bt", s, z)
  BY <1>2, <1>3, <1>4, SameGood
<1>6. \A a \in Assertions("bt") : s \in a => z \in a
  BY <1>2, <1>3, AssertionGives DEF Quietly
<1>7. OutlinedIn(Assertions("bt"), Steps("bt"), todo["bt"], s, Rest("bt"))
  BY <1>1, <1>4 DEF TalkInv, Outlined
<1>8. OutlinedIn(Assertions("bt"), Steps("bt"), todo'["bt"], z, Rest("bt"))
  BY <1>6, <1>7, StableHolds
<1> QED BY <1>1, <1>4, <1>5, <1>8, StepKeeps

----------------------------------------------------------------------------
(* The invariant.                                                             *)

LEMMA NextTalk ==
    ASSUME TalkInv, CallRates = {}, Priority["bt"] < Priority["ctl"], [Next]_vars
    PROVE  TalkInv'
<1>1. IInv'
  BY NextInv DEF TalkInv
<1>2. CASE \E t \in Thread : Step(t)
  BY <1>2, StepTalk
<1>3. CASE Event("bt", BtEvent) \/ Event("rx", RxEvent) \/ Event("ctl", CtlEvent)
  BY <1>1, <1>3, BtTalk, RxTalk, CtlTalk
<1>4. CASE (Render /\ UNCHANGED <<coreVars, userVars>>) \/ UNCHANGED vars
  <2>1. UNCHANGED <<todo, mutex, active, coreVars, userVars>>
    BY <1>4 DEF Render, vars, coreVars, userVars
  <2> QED BY <1>1, <2>1, StillTalk
<1> QED BY <1>2, <1>3, <1>4 DEF Next

LEMMA InitTalk == Init => TalkInv
<1> SUFFICES ASSUME Init PROVE TalkInv
  OBVIOUS
<1>1. IInv /\ TypeOK
  BY InitInv DEF IInv
<1>2. PICK s : s = Now
  OBVIOUS
<1>3. /\ ~s.playing /\ ~s.pending /\ ~s.dac /\ s.active = {} /\ s.dma = "stopped"
      /\ ~s.capturing /\ ~s.adc /\ ~s.open /\ ~s.talking /\ s.mutex = "none"
  BY <1>2 DEF Init, CoreInit, Now
<1>4. s \in View
  BY <1>1, <1>2 DEF Now, View, TypeOK, CoreTypeOK
<1>5. Sound(s)
  BY <1>3, <1>4 DEF Sound, Rested, Coherent
<1>6. ASSUME NEW t \in Thread PROVE Outlined(t)
  <2>1. s \in Rest(t) /\ Rest(t) \in Assertions(t)
    <3>1. CASE t = "bt" \/ t = "rx"
      <4>1. Rest(t) = Free(t, View)
        BY <3>1 DEF Rest
      <4> QED BY <1>3, <1>4, <4>1, FreeIn, ThreadIs DEF Free
    <3>2. CASE t = "ctl"
      <4>1. s \in Free("ctl", Open)
        BY <1>3, <1>4 DEF Free, Open, Rested
      <4> QED BY <3>2, <4>1, CtlSets
    <3> QED BY <3>1, <3>2, ThreadIs
  <2>2. PathIn(Assertions(t), Steps(t), <<>>, Rest(t), {}, Rest(t))
    BY <2>1, EmptyIn
  <2>3. OutlinedIn(Assertions(t), Steps(t), <<>>, s, Rest(t))
    BY <2>1, <2>2, NothingIn, PathHolds
  <2>4. todo[t] = <<>>
    BY DEF Init
  <2> QED BY <1>2, <2>3, <2>4 DEF Outlined
<1> QED BY <1>1, <1>2, <1>5, <1>6 DEF TalkInv

LEMMA TalkInvariance ==
    ASSUME CallRates = {}, Priority["bt"] < Priority["ctl"]
    PROVE  Spec => []TalkInv
<1>1. TalkInv /\ [Next]_vars => TalkInv'
  BY NextTalk
<1> QED BY <1>1, InitTalk, PTL DEF Spec

\* Where the control thread is between two keys, with a capture or without.
LEMMA CtlRests ==
    ASSUME TalkInv, Idle("ctl")
    PROVE  \/ ~ptt.capturing /\ ~route.capturing /\ ~hw.adc /\ route.dma # "duplex"
           \/ /\ ptt.capturing /\ route.capturing /\ hw.adc /\ route.dma = "duplex"
              /\ ~route.playing /\ active = {}
<1>1. PICK s : s = Now
  OBVIOUS
<1>2. s \in Free("ctl", Open) \/ s \in Talking
  BY <1>1, CtlSets, RestsIdle
<1>3. CASE s \in Free("ctl", Open)
  BY <1>1, <1>3 DEF Free, Open, Rested, Now
<1>4. CASE s \in Talking
  <2>1. /\ s.talking /\ s.capturing /\ s.adc /\ s.dma = "duplex"
        /\ ~s.playing /\ s.active = {}
    BY <1>4 DEF Talking, Mine, Stopped, DacDone, PlayingDone, Ending
  <2> QED BY <1>1, <2>1 DEF Now
<1> QED BY <1>2, <1>3, <1>4

\* Without calls, and with BTstack's thread before the control thread: while push
\* to talk captures, the microphone path and full-duplex DMA are on, and nobody
\* plays or holds a mixer session, whatever A2DP's events and the last reply
\* still did when the key was pressed (control_ptt_start).
THEOREM TalkHasTheCodec ==
    ASSUME CallRates = {}, Priority["bt"] < Priority["ctl"]
    PROVE  Spec => []CaptureExclusive
<1>1. TalkInv => CaptureExclusive
  BY CtlRests DEF CaptureExclusive
<1> QED BY <1>1, TalkInvariance, PTL

\* Without calls, and with BTstack's thread before the control thread: when every
\* thread is done, playback, paths and DMA are what the mixer's sessions and the
\* capture ask for, whichever start, stop or codec write failed on the way
\* (audio_mixer.c's sessions, es8311_audio.c's paths and DMA).
THEOREM CodecFollowsUsers ==
    ASSUME CallRates = {}, Priority["bt"] < Priority["ctl"]
    PROVE  Spec => []RouteFollowsUsers
<1>1. TalkInv => RouteFollowsUsers
  <2> SUFFICES ASSUME TalkInv, Settled
               PROVE  /\ route.playing <=> active # {}
                      /\ route.dma = "duplex" <=> route.capturing
                      /\ route.dma = "playback" <=> route.playing /\ ~route.pending
                      /\ hw.dac = route.playing /\ hw.adc = route.capturing
    BY DEF RouteFollowsUsers
  <2>1. \A t \in Thread : Idle(t) /\ mutex # t
    BY IdleIsFree DEF Settled, TalkInv, IInv
  <2>2. mutex = "none"
    BY <2>1 DEF TalkInv, IInv, TypeOK
  <2>3. PICK s : s = Now
    OBVIOUS
  <2>4. s \in Coherent
    <3>1. s.mutex = "none"
      BY <2>2, <2>3 DEF Now
    <3> QED BY <2>3, <3>1 DEF TalkInv, Sound
  <2>5. /\ route.playing <=> active # {}
        /\ hw.dac <=> route.playing
        /\ route.dma = "playback" <=> route.playing /\ ~route.pending
    BY <2>3, <2>4 DEF Coherent, Now
  <2>6. \/ ~route.capturing /\ ~hw.adc /\ route.dma # "duplex"
        \/ route.capturing /\ hw.adc /\ route.dma = "duplex"
    BY <2>1, CtlRests, ThreadIs
  <2>7. /\ route.playing \in BOOLEAN /\ route.capturing \in BOOLEAN
        /\ hw.dac \in BOOLEAN /\ hw.adc \in BOOLEAN
    BY DEF TalkInv, IInv, TypeOK, CoreTypeOK
  <2> QED BY <2>5, <2>6, <2>7
<1> QED BY <1>1, TalkInvariance, PTL

----------------------------------------------------------------------------
(* A start that audio_mixer_write asks for is owed until the sink has it.     *)

\* The steps on the way from the watermark to the playback.
Asks == {"NotifyIfReady", "Notify", "PlaybackDmaOn"}
AskCall(c) == c.do = "Call" /\ \E d \in Asks : c.body = Do(d)

\* The thread with this program is about to ask for the start.
Owes(p) ==
    /\ p # <<>>
    /\ \/ Head(p).do \in Asks \/ AskCall(Head(p))
       \/ Head(p).do = "Lock" /\ Tail(p) # <<>> /\ AskCall(Head(Tail(p)))

\* A source has enough data, and the playback is not on.
Going == route.playing /\ ~route.pending /\ route.dma = "playback"
Lag   == ready # {} /\ ~Going
Owed  == Lag => \E t \in Thread : Owes(todo[t])
StartInv == TalkInv /\ Owed

\* What the step of t has to do with what is owed.
Pays(t) == Lag' => Owes(todo'[t]) \/ (Lag /\ ~Owes(todo[t]))

LEMMA PaysIsOwed ==
    ASSUME Owed, NEW t \in Thread, Pays(t), \A u \in Thread \ {t} : todo'[u] = todo[u]
    PROVE  Owed'
<1> SUFFICES ASSUME Lag', ~Owes(todo'[t]) PROVE \E u \in Thread : Owes(todo'[u])
  BY DEF Owed
<1>1. Lag /\ ~Owes(todo[t])
  BY DEF Pays
<1>2. PICK u \in Thread : Owes(todo[u])
  BY <1>1 DEF Owed
<1>3. todo'[u] = todo[u]
  BY <1>1, <1>2
<1> QED BY <1>2, <1>3

\* The program in front of the rest owes, if its first steps do.
LEMMA GoOwes ==
    ASSUME todo \in [Thread -> Programs(Thrice)], NEW t \in Thread, todo[t] # <<>>,
           NEW d \in Asks, NEW ok, NEW err,
           \/ Go(t, Try(Do(d), ok, err)) \/ Go(t, Locked(Do(d)))
    PROVE  Owes(todo'[t])
<1> DEFINE c(x, y) == [do |-> "Call", body |-> Do(d), ok |-> x, err |-> y]
<1>1. PICK T : T = {x[1] : x \in Thrice}
  OBVIOUS
<1>2. todo[t] \in Seq(T)
  BY <1>1 DEF Programs
<1>3. PICK w : w = Tail(todo[t])
  OBVIOUS
<1>4. w \in Seq(T)
  BY <1>2, <1>3
<1>5. \A x, y : AskCall(c(x, y))
  BY DEF AskCall
<1>6. CASE Go(t, Try(Do(d), ok, err))
  <2>1. PICK k : k = c(ok, err)
    OBVIOUS
  <2>2. todo'[t] = <<k>> \o w
    BY <1>3, <1>6, <2>1 DEF Go, Try
  <2>3. todo'[t] # <<>> /\ Head(todo'[t]) = k
    BY <1>4, <2>2
  <2> QED BY <1>5, <2>1, <2>3 DEF Owes
<1>7. CASE Go(t, Locked(Do(d)))
  <2>1. PICK k, l : /\ k = c(Do("Unlock"), Do("Unlock") \o Do("Fail"))
                    /\ l = [do |-> "Lock"]
    OBVIOUS
  <2>2. todo'[t] = (<<l>> \o <<k>>) \o w
    BY <1>3, <1>7, <2>1 DEF Go, Locked, Try, Do
  <2>3. PICK X : X = T \union {k, l}
    OBVIOUS
  <2>4. w \in Seq(X) /\ k \in X /\ l \in X
    BY <1>4, <2>3
  <2>5. todo'[t] # <<>> /\ Head(todo'[t]) = l /\ Tail(todo'[t]) # <<>>
        /\ Head(Tail(todo'[t])) = k
    <3>1. PICK v : v = <<k>> \o w
      OBVIOUS
    <3>2. v \in Seq(X) /\ Len(w) \in Nat /\ Len(v) = 1 + Len(w) /\ v[1] = k
      BY <2>4, <3>1
    <3>3. PICK o : o = <<l>>
      OBVIOUS
    <3>4. o \in Seq(X) /\ <<k>> \in Seq(X) /\ Len(o) = 1 /\ o[1] = l
      BY <2>4, <3>3
    <3>5. todo'[t] = o \o v
      BY <2>2, <2>4, <3>1, <3>3, <3>4, ConcatAssociative
    <3>6. PICK p : p = o \o v
      OBVIOUS
    <3>7. /\ p \in Seq(X) /\ Len(p) = 1 + Len(v)
          /\ \A i \in 1 .. 1 + Len(v) : p[i] = IF i <= 1 THEN o[i] ELSE v[i - 1]
      <4>1. o \in Seq(X) /\ v \in Seq(X)
        BY <3>2, <3>4
      <4>2. /\ o \o v \in Seq(X)
            /\ Len(o \o v) = Len(o) + Len(v)
            /\ \A i \in 1 .. Len(o) + Len(v) :
                  (o \o v)[i] = IF i <= Len(o) THEN o[i] ELSE v[i - Len(o)]
        BY <4>1, ConcatProperties, Zenon
      <4> QED BY <3>4, <3>6, <4>2
    <3>8. Len(p) = 2 + Len(w) /\ p # <<>> /\ p[1] = l /\ p[2] = k
      <4>1. Len(p) = 2 + Len(w) /\ 1 \in 1 .. 1 + Len(v) /\ 2 \in 1 .. 1 + Len(v)
        BY <3>2, <3>7
      <4>2. p[1] = o[1]
        BY <3>7, <4>1
      <4>3. p[2] = v[1]
        BY <3>7, <4>1
      <4>4. p # <<>>
        BY <3>2, <3>7, <4>1, EmptySeq
      <4> QED BY <3>2, <3>4, <4>1, <4>2, <4>3, <4>4
    <3>9. Tail(p) \in Seq(X) /\ Len(Tail(p)) = 1 + Len(w) /\ Tail(p)[1] = p[2]
      BY <3>2, <3>7, <3>8, HeadTailProperties
    <3>10. Tail(p) # <<>>
      BY <3>2, <3>9, EmptySeq
    <3>11. Head(p) = l /\ Head(Tail(p)) = k
      BY <3>8, <3>9
    <3> QED BY <3>5, <3>6, <3>8, <3>10, <3>11
  <2> QED BY <1>5, <2>1, <2>5 DEF Owes
<1> QED BY <1>6, <1>7

\* The mutex, calls and returns leave the playback alone; who owes goes on to ask.
LEMMA FlowPays ==
    ASSUME IInv, NEW t \in Thread,
           Lock(t) \/ Unlock(t) \/ Call(t) \/ Return(t) \/ Fail(t),
           UNCHANGED <<coreVars, mixVars, userVars>>
    PROVE  Pays(t)
<1>1. Lag' => Lag
  BY DEF Lag, Going, coreVars, mixVars
<1>2. PICK T : T = {x[1] : x \in Thrice}
  OBVIOUS
<1>3. todo \in [Thread -> Seq(T)] /\ todo[t] \in Seq(T)
  BY <1>2 DEF IInv, AllDisciplined, Programs
<1>4. CASE Unlock(t) \/ Return(t) \/ Fail(t)
  <2>1. ~Owes(todo[t])
    BY <1>4 DEF Unlock, Return, Fail, At, Owes, Asks, AskCall
  <2> QED BY <1>1, <2>1 DEF Pays
<1>5. CASE Lock(t)
  <2>1. todo[t] # <<>> /\ Head(todo[t]).do = "Lock" /\ todo'[t] = <<>> \o Tail(todo[t])
    BY <1>3, <1>5 DEF Lock, At, Go
  <2>2. todo'[t] = Tail(todo[t])
    BY <1>3, <2>1
  <2>3. Owes(todo[t]) => Owes(todo'[t])
    BY <2>1, <2>2 DEF Owes, Asks, AskCall
  <2> QED BY <1>1, <2>3 DEF Pays
<1>6. CASE Call(t)
  <2>1. PICK c, w, r : /\ c = Head(todo[t]) /\ w = Tail(todo[t])
                       /\ r = [do |-> "Return", ok |-> c.ok, err |-> c.err]
    OBVIOUS
  <2>2. todo[t] # <<>> /\ c.do = "Call" /\ todo'[t] = Append(c.body, r) \o w /\ w \in Seq(T)
    BY <1>3, <1>6, <2>1 DEF Call, At, Go
  <2>3. ASSUME Owes(todo[t]) PROVE Owes(todo'[t])
    <3>1. PICK d \in Asks : c.body = Do(d)
      BY <2>1, <2>2, <2>3 DEF Owes, Asks, AskCall
    <3>2. PICK k : k = [do |-> d]
      OBVIOUS
    <3>3. Append(c.body, r) = <<k>> \o <<r>>
      BY <3>1, <3>2 DEF Do
    <3>4. PICK X : X = T \union {k, r}
      OBVIOUS
    <3>5. w \in Seq(X) /\ k \in X /\ r \in X
      BY <2>2, <3>4
    <3>6. todo'[t] # <<>> /\ Head(todo'[t]) = k
      BY <2>2, <3>3, <3>5
    <3> QED BY <3>2, <3>6 DEF Owes
  <2> QED BY <1>1, <2>3 DEF Pays
<1> QED BY <1>4, <1>5, <1>6

\* The mixer's steps: the watermark is followed by the request.
LEMMA MixPays ==
    ASSUME IInv, NEW t \in Thread, MixStep(t), UNCHANGED <<coreVars, userVars>>
    PROVE  Pays(t)
<1>1. ready' \subseteq ready => (Lag' => Lag)
  BY DEF Lag, Going, coreVars
<1>2. CASE Activate(t) \/ StartSink(t) \/ Rollback(t) \/ Deactivate(t)
  <2>1. ready' \subseteq ready
    BY <1>2 DEF Activate, StartSink, Rollback, Deactivate, mixVars
  <2>2. ~Owes(todo[t])
    BY <1>2 DEF Activate, StartSink, Rollback, Deactivate, At, Owes, Asks, AskCall
  <2> QED BY <1>1, <2>1, <2>2 DEF Pays
<1>3. todo \in [Thread -> Programs(Thrice)]
  BY DEF IInv, AllDisciplined
<1>4. CASE WriteFrames(t)
  <2>1. todo[t] # <<>> /\ ~Owes(todo[t])
    BY <1>4 DEF WriteFrames, At, Owes, Asks, AskCall
  <2>2. CASE ready' = ready
    BY <1>1, <2>1, <2>2 DEF Pays
  <2>3. CASE ready' # ready
    <3>1. ready' = {} \/ Go(t, Locked(Do("NotifyIfReady")))
      BY <1>4, <2>3 DEF WriteFrames
    <3>2. Go(t, Locked(Do("NotifyIfReady"))) => Owes(todo'[t])
      BY <1>3, <2>1, GoOwes DEF Asks
    <3> QED BY <3>1, <3>2 DEF Pays, Lag
  <2> QED BY <2>2, <2>3
<1>5. CASE NotifyIfReady(t)
  <2>1. ready' = ready /\ (ready = {} \/ Go(t, Try(Do("Notify"), <<>>, <<>>)))
    BY <1>5 DEF NotifyIfReady, mixVars, Ignore
  <2>2. todo[t] # <<>>
    BY <1>5 DEF NotifyIfReady, At
  <2>3. Go(t, Try(Do("Notify"), <<>>, <<>>)) => Owes(todo'[t])
    BY <1>3, <2>2, GoOwes DEF Asks
  <2> QED BY <2>1, <2>3 DEF Pays, Lag
<1> QED BY <1>2, <1>4, <1>5 DEF MixStep

LEMMA UserPays ==
    ASSUME NEW t, UserStep(t), UNCHANGED <<coreVars, mixVars>>
    PROVE  Pays(t)
<1>1. Lag' => Lag
  BY DEF Lag, Going, coreVars, mixVars
<1>2. ~Owes(todo[t])
  BY DEF UserStep, Enable, Allow, ReadStream, WaitQuiet, SetCapturing, UartStart, UartStop,
     ReplyOn, ReplyOff, WaitReplyDone, SetVoice, CloseUart, At, Owes, Asks, AskCall
<1> QED BY <1>1, <1>2 DEF Pays

\* What the next step of t is, is a row of its table that fits the state.
LEMMA NextRow ==
    ASSUME TalkInv, NEW s, s = Now, NEW t \in Thread,
           todo[t] # <<>>, Head(todo[t]).do \notin {"Call", "Return"}
    PROVE  \E a, e, b \in Assertions(t) : s \in a /\ <<Head(todo[t]), a, e, b>> \in Table(t)
<1>1. OutlinedIn(Assertions(t), Steps(t), todo[t], s, Rest(t))
  BY DEF TalkInv, Outlined
<1>2. PICK a \in Assertions(t), n \in ModesOver(Assertions(t)) :
             /\ s \in a
             /\ \E e \in Assertions(t) : e \subseteq n.guard
                                         /\ <<Head(todo[t]), a, e, n.at>> \in Table(t)
  BY <1>1, TablesPlain, HeadRow DEF Steps
<1>3. n.at \in Assertions(t)
  BY <1>2, ModeOf
<1> QED BY <1>2, <1>3

\* Steps of the codec that keep the playback going, if it goes.
LEMMA GoingSteps ==
    ASSUME TypeOK, NEW t,
           \/ DacOn(t) \/ DacOff(t) \/ AdcOn(t) \/ AdcOff(t) \/ CodecRate(t)
           \/ CapturingOff(t) \/ DuplexDmaOff(t) \/ CapturingOn(t) \/ DuplexDmaOn(t)
           \/ CallCheck(t) \/ CallFlagsOn(t) \/ SyncDac(t) \/ SyncAdc(t) \/ RateBack(t)
           \/ StartPlayback(t) \/ ArmPlayback(t) \/ StartCapture(t) \/ SetRunMode(t)
           \/ SetRenderer(t) \/ SetCallRate(t)
    PROVE  (Going => Going') /\ ~Owes(todo[t])
<1>1. route \in [dma : {"stopped", "playback", "duplex"}, playing : BOOLEAN,
                 capturing : BOOLEAN, pending : BOOLEAN, rate : Rates,
                 callRate : Rates, renderer : {"mixer", "hfp"}]
  BY DEF TypeOK, CoreTypeOK
<1>2. CASE DacOn(t) \/ DacOff(t) \/ AdcOn(t) \/ AdcOff(t) \/ CodecRate(t)
  <2>1. route' = route
    BY <1>2 DEF DacOn, DacOff, AdcOn, AdcOff, CodecRate, CodecFails
  <2>2. ~Owes(todo[t])
    BY <1>2 DEF DacOn, DacOff, AdcOn, AdcOff, CodecRate, At, Owes, Asks, AskCall
  <2> QED BY <2>1, <2>2 DEF Going
<1>3. CASE CapturingOff(t) \/ CapturingOn(t) \/ RateBack(t) \/ SetCallRate(t) \/ SetRenderer(t)
  <2>1. \/ route' = route
        \/ \E x : route' = [route EXCEPT !.capturing = x]
        \/ \E x : route' = [route EXCEPT !.rate = x]
        \/ \E x : route' = [route EXCEPT !.callRate = x]
        \/ \E x : route' = [route EXCEPT !.renderer = x]
    BY <1>3 DEF CapturingOff, CapturingOn, RateBack, SetCallRate, SetRenderer, Set, Refuse,
       coreVars
  <2>2. ~Owes(todo[t])
    BY <1>3 DEF CapturingOff, CapturingOn, RateBack, SetCallRate, SetRenderer, At, Owes, Asks,
       AskCall
  <2>3. route'.playing = route.playing /\ route'.pending = route.pending
        /\ route'.dma = route.dma
    BY <1>1, <2>1
  <2> QED BY <2>2, <2>3 DEF Going
<1>4. CASE \/ SyncDac(t) \/ SyncAdc(t) \/ StartPlayback(t) \/ StartCapture(t) \/ SetRunMode(t)
  <2>1. route' = route
    <3>1. CASE SyncDac(t) \/ SyncAdc(t) \/ StartPlayback(t) \/ SetRunMode(t)
      BY <3>1 DEF SyncDac, SyncAdc, StartPlayback, SetRunMode, Keep, Set
    <3>2. CASE StartCapture(t)
      BY <3>2 DEF StartCapture, Keep, Set, Refuse, coreVars
    <3> QED BY <1>4, <3>1, <3>2
  <2>2. ~Owes(todo[t])
    BY <1>4 DEF SyncDac, SyncAdc, StartPlayback, StartCapture, SetRunMode, At, Owes, Asks,
       AskCall
  <2> QED BY <2>1, <2>2 DEF Going
<1>5. CASE DuplexDmaOff(t) \/ DuplexDmaOn(t) \/ CallCheck(t) \/ CallFlagsOn(t) \/ ArmPlayback(t)
  <2>1. ~Owes(todo[t])
    BY <1>5 DEF DuplexDmaOff, DuplexDmaOn, DmaOn, CallCheck, CallFlagsOn, ArmPlayback, At, Owes,
       Asks, AskCall
  <2>2. ASSUME Going PROVE Going'
    <3>1. CASE DuplexDmaOff(t)
      <4>1. route' = [route EXCEPT !.dma = IF @ = "duplex" /\ ~route.playing
                                           THEN "stopped" ELSE @]
        BY <3>1 DEF DuplexDmaOff, Set
      <4> QED BY <1>1, <2>2, <4>1 DEF Going
    <3>2. CASE DuplexDmaOn(t) \/ CallCheck(t) \/ ArmPlayback(t)
      <4>1. route' = route
        BY <2>2, <3>2 DEF DuplexDmaOn, DmaOn, CallCheck, ArmPlayback, Keep, Set, Refuse,
           coreVars, Going
      <4> QED BY <2>2, <4>1 DEF Going
    <3>3. CASE CallFlagsOn(t)
      <4>1. route' = [route EXCEPT !.playing = TRUE, !.capturing = TRUE, !.pending = FALSE]
        BY <3>3 DEF CallFlagsOn, Set
      <4> QED BY <1>1, <2>2, <4>1 DEF Going
    <3> QED BY <1>5, <3>1, <3>2, <3>3
  <2> QED BY <2>1, <2>2
<1> QED BY <1>2, <1>3, <1>4, <1>5

\* The steps of the codec: a playback that goes is put out when no session is
\* left, and a request is seen through.
LEMMA CorePays ==
    ASSUME TalkInv, CallRates = {}, NEW t \in Thread, Head(todo[t]) \in PlainStep,
           CoreStep(t), TypeOK', UNCHANGED <<mutex, mixVars, userVars>>
    PROVE  Pays(t)
<1>1. PICK s, z, r : s = Now /\ z = Now' /\ r = Head(todo[t])
  OBVIOUS
<1>2. TypeOK /\ s \in View /\ z \in View /\ Sound(s)
  BY <1>1, NowIs DEF TalkInv, IInv
<1>3. /\ s.playing = route.playing /\ s.pending = route.pending /\ s.active = active
      /\ s.dma = route.dma /\ ready \subseteq active /\ ready' = ready
  BY <1>1, <1>2, NowIs DEF TypeOK, mixVars
<1>4. todo[t] # <<>> /\ r.do \notin {"Call", "Return"}
  BY <1>1, StepNames
<1>5. PICK a \in Assertions(t), e \in Assertions(t), b \in Assertions(t) :
             s \in a /\ <<r, a, e, b>> \in Table(t)
  BY <1>1, <1>4, NextRow
<1>6. /\ r.do \in Simple /\ Careful(t, r.do, a)
      \/ Branch(t, r, a, e, b)
  BY <1>5 DEF Table
<1>7. \/ DacOn(t) \/ DacOff(t) \/ AdcOn(t) \/ AdcOff(t) \/ CodecRate(t)
      \/ CapturingOff(t) \/ DuplexDmaOff(t) \/ CapturingOn(t) \/ DuplexDmaOn(t)
      \/ CallCheck(t) \/ CallFlagsOn(t) \/ SyncDac(t) \/ SyncAdc(t) \/ RateBack(t)
      \/ StartPlayback(t) \/ ArmPlayback(t) \/ StartCapture(t) \/ SetRunMode(t)
      \/ SetRenderer(t) \/ SetCallRate(t)
      \/ PlayingOff(t) \/ PlaybackDmaOff(t) \/ DmaOff(t) \/ CallFlagsOff(t) \/ RestartDma(t)
      \/ Reconfigure(t) \/ Notify(t) \/ PlaybackDmaOn(t)
  BY DEF CoreStep
<1>8. CASE \/ DacOn(t) \/ DacOff(t) \/ AdcOn(t) \/ AdcOff(t) \/ CodecRate(t)
           \/ CapturingOff(t) \/ DuplexDmaOff(t) \/ CapturingOn(t) \/ DuplexDmaOn(t)
           \/ CallCheck(t) \/ CallFlagsOn(t) \/ SyncDac(t) \/ SyncAdc(t) \/ RateBack(t)
           \/ StartPlayback(t) \/ ArmPlayback(t) \/ StartCapture(t) \/ SetRunMode(t)
           \/ SetRenderer(t) \/ SetCallRate(t)
  <2>1. (Going => Going') /\ ~Owes(todo[t])
    BY <1>2, <1>8, GoingSteps
  <2> QED BY <1>3, <2>1 DEF Pays, Lag
<1>9. CASE PlayingOff(t) \/ PlaybackDmaOff(t) \/ DmaOff(t)
  <2>1. r.do \in {"PlayingOff", "PlaybackDmaOff", "DmaOff"}
    BY <1>1, <1>9 DEF PlayingOff, PlaybackDmaOff, DmaOff, At
  <2>2. ~Owes(todo[t])
    BY <1>1, <2>1 DEF Owes, Asks, AskCall
  <2>3. ~Branch(t, r, a, e, b)
    BY <2>1 DEF Branch
  <2>4. s.active = {} \/ s.dma # "playback"
    BY <1>5, <1>6, <2>1, <2>3 DEF Careful
  <2> QED BY <1>3, <2>2, <2>4 DEF Pays, Lag, Going
<1>10. CASE CallFlagsOff(t) \/ RestartDma(t)
  <2>1. r.do \in {"CallFlagsOff", "RestartDma"}
    BY <1>1, <1>10 DEF CallFlagsOff, RestartDma, At
  <2>2. r.do \notin Simple /\ ~Branch(t, r, a, e, b)
    BY <2>1 DEF Simple, Idling, Branch
  <2> QED BY <1>6, <2>2
<1>11. CASE Reconfigure(t)
  <2>1. r.do = "Reconfigure" /\ r.arg \in Rates
    BY <1>1, <1>11, Arguments DEF Reconfigure, At
  <2>2. route.rate = Arg(t)
    BY <1>1, <1>2, <2>1 DEF Rates, Arg, TypeOK, CoreTypeOK
  <2>3. route' = route
    BY <1>11, <2>2 DEF Reconfigure, Keep, Set
  <2>4. ~Owes(todo[t])
    BY <1>1, <2>1 DEF Owes, Asks, AskCall
  <2> QED BY <1>3, <2>3, <2>4 DEF Pays, Lag, Going
<1>12. CASE Notify(t)
  <2>1. r.do = "Notify"
    BY <1>1, <1>12 DEF Notify, At
  <2>2. Branch(t, r, a, e, b)
    BY <1>6, <2>1 DEF Simple, Idling
  <2>3. PICK K \in Lively(t) : a = Has(t, K, Coherent)
    BY <2>1, <2>2 DEF Branch
  <2>4. s \in Coherent
    BY <1>5, <2>3 DEF Has
  <2>5. CASE route.playing /\ route.pending
    <3>1. Go(t, Try(Do("PlaybackDmaOn"), <<>>, Do("PlayingOff") \o Do("Fail")))
      BY <1>12, <2>5 DEF Notify, Set
    <3>2. todo \in [Thread -> Programs(Thrice)] /\ "PlaybackDmaOn" \in Asks
      BY DEF TalkInv, IInv, AllDisciplined, Asks
    <3>3. Owes(todo'[t])
      BY <1>4, <3>1, <3>2, GoOwes
    <3> QED BY <3>3 DEF Pays
  <2>6. CASE ~(route.playing /\ route.pending)
    <3>1. route' = route
      BY <1>12, <2>6 DEF Notify, Keep, Set
    <3>2. ready = {} \/ s.active # {}
      BY <1>3
    <3>3. s.active # {} => Going
      BY <1>3, <2>4, <2>6 DEF Coherent, Going
    <3> QED BY <1>3, <3>1, <3>2, <3>3 DEF Pays, Lag, Going
  <2> QED BY <2>5, <2>6
<1>13. CASE PlaybackDmaOn(t)
  <2>1. r.do = "PlaybackDmaOn"
    BY <1>1, <1>13 DEF PlaybackDmaOn, DmaOn, At
  <2>2. ~Branch(t, r, a, e, b)
    BY <2>1 DEF Branch
  <2>3. PICK K \in Lively(t) : a \subseteq Has(t, K, Notifying)
    BY <1>6, <2>1, <2>2 DEF Careful
  <2>4. s \in K /\ s \in Notifying
    BY <1>5, <2>3 DEF Has
  <2>5. t = "bt" => s.bt # "calm"
    <3> SUFFICES ASSUME t = "bt", s.bt = "calm" PROVE FALSE
      OBVIOUS
    <3>1. r.do \notin Tame /\ IInv
      BY <2>1 DEF Tame, TalkInv
    <3> QED BY <1>1, <1>4, <3>1, TameKeeps
  <2>6. Rested(s)
    BY <1>2, <2>4, <2>5, LivelyRests
  <2>7. route.dma \in {"stopped", "playback"}
    BY <1>2, <1>3, <2>6 DEF Rested, TypeOK, CoreTypeOK
  <2>8. route' = [route EXCEPT !.dma = "playback"]
    BY <1>13, <2>7 DEF PlaybackDmaOn, DmaOn, Set
  <2>9. route \in [dma : {"stopped", "playback", "duplex"}, playing : BOOLEAN,
                   capturing : BOOLEAN, pending : BOOLEAN, rate : Rates,
                   callRate : Rates, renderer : {"mixer", "hfp"}]
    BY <1>2 DEF TypeOK, CoreTypeOK
  <2>10. route'.dma = "playback" /\ route'.playing = route.playing
         /\ route'.pending = route.pending
    BY <2>8, <2>9
  <2>11. route.playing /\ ~route.pending
    BY <1>3, <2>4 DEF Notifying
  <2> QED BY <2>10, <2>11 DEF Pays, Lag, Going
<1> QED BY <1>7, <1>8, <1>9, <1>10, <1>11, <1>12, <1>13

\* A step of t is a step of t's program.
LEMMA OthersWait ==
    ASSUME IInv, NEW t \in Thread, Step(t)
    PROVE  \A u \in Thread \ {t} : todo'[u] = todo[u]
<1>1. AllDisciplined /\ CoreTypeOK /\ todo \in [Thread -> Programs(Thrice)]
  BY TypeParts DEF IInv, AllDisciplined
<1>2. ASSUME NEW p, Go(t, p) PROVE \A u \in Thread \ {t} : todo'[u] = todo[u]
  BY <1>1, <1>2 DEF Go
<1>3. ASSUME Raise(t) PROVE \A u \in Thread \ {t} : todo'[u] = todo[u]
  BY <1>1, <1>3 DEF Raise
<1>4. CASE Lock(t) \/ Unlock(t) \/ Call(t) \/ Return(t) \/ Fail(t)
  BY <1>2, <1>3, <1>4 DEF Lock, Unlock, Call, Return, Fail
<1>5. CASE CoreStep(t) \/ MixStep(t) \/ UserStep(t)
  <2>1. todo[t] # <<>> /\ Head(todo[t]).do \notin {"Call", "Return", "Lock", "Unlock"}
    BY <1>5, StepNames
  <2>2. PICK m \in Mode, n \in Mode : <<Head(todo[t]), m, n>> \in Thrice
    BY <1>1, <2>1, AtStep
  <2>3. Head(todo[t]) \in PlainStep /\ Fits(Head(todo[t]), m, n)
    BY <2>1, <2>2, StepFacts
  <2>4. n = m
    BY <2>1, <2>3 DEF Fits
  <2>5. GoesOn(t, m)
    BY <1>1, <1>5, <2>3, <2>4, CoreGoesOn, MixGoesOn, UserGoesOn
  <2> QED BY <1>2, <1>3, <2>5 DEF GoesOn
<1> QED BY <1>4, <1>5 DEF Step

LEMMA StepOwes ==
    ASSUME StartInv, CallRates = {}, Priority["bt"] < Priority["ctl"], NEW t \in Thread, Step(t)
    PROVE  Owed'
<1>1. IInv /\ IInv' /\ TypeOK /\ TypeOK' /\ AllDisciplined /\ TalkInv /\ Owed
  BY StepInv DEF StartInv, TalkInv, IInv
<1>2. Pays(t)
  <2>1. CASE /\ Lock(t) \/ Unlock(t) \/ Call(t) \/ Return(t) \/ Fail(t)
             /\ UNCHANGED <<coreVars, mixVars, userVars>>
    BY <1>1, <2>1, FlowPays
  <2>2. CASE CoreStep(t) /\ UNCHANGED <<mutex, mixVars, userVars>>
    <3>1. CoreTypeOK
      BY <1>1, TypeParts
    <3>2. Head(todo[t]) \in PlainStep
      BY <1>1, <2>2, <3>1, StepNames, CoreGoesOn, PlainStepKeeps
    <3> QED BY <1>1, <2>2, <3>2, CorePays
  <2>3. CASE MixStep(t) /\ UNCHANGED <<coreVars, userVars>>
    BY <1>1, <2>3, MixPays
  <2>4. CASE UserStep(t) /\ UNCHANGED <<coreVars, mixVars>>
    BY <2>4, UserPays
  <2> QED BY <2>1, <2>2, <2>3, <2>4 DEF Step
<1>3. \A u \in Thread \ {t} : todo'[u] = todo[u]
  BY <1>1, OthersWait
<1> QED BY <1>1, <1>2, <1>3, PaysIsOwed

\* An event finds its thread with nothing to do; nothing is lost by it.
LEMMA EventOwes ==
    ASSUME IInv, Owed, NEW t \in Thread,
           \/ t = "bt" /\ Event(t, BtEvent)
           \/ t = "rx" /\ Event(t, RxEvent)
           \/ t = "ctl" /\ Event(t, CtlEvent)
    PROVE  Owed'
<1>1. todo \in [Thread -> Programs(Thrice)]
  BY DEF IInv, AllDisciplined
<1>2. UNCHANGED <<coreVars, mixVars>>
  BY DEF Event
<1>3. Lag' => Lag
  BY <1>2 DEF Lag, Going, coreVars, mixVars
<1>4. UNCHANGED todo \/ \E p : Begin(t, p)
  <2>1. CASE t = "bt" /\ BtEvent
    BY <2>1 DEF BtEvent, StreamStarted, StreamEnded, MediaPacket, ScoEstablished, ScoReleased
  <2>2. CASE t = "rx" /\ RxEvent
    BY <2>2 DEF RxEvent, ReplyPark, ReplyOpen, ReplyData, ReplyIdle, ReplyClose
  <2>3. CASE t = "ctl" /\ CtlEvent
    BY <2>3 DEF CtlEvent, Press, Release
  <2> QED BY <2>1, <2>2, <2>3 DEF Event
<1>5. CASE UNCHANGED todo
  BY <1>3, <1>5 DEF Owed
<1>6. CASE \E p : Begin(t, p)
  <2>1. ~Owes(todo[t])
    BY <1>6 DEF Begin, Idle, Owes
  <2>2. \A u \in Thread \ {t} : todo'[u] = todo[u]
    BY <1>1, <1>6 DEF Begin
  <2> QED BY <1>3, <2>1, <2>2, PaysIsOwed DEF Pays
<1> QED BY <1>4, <1>5, <1>6

LEMMA NextOwes ==
    ASSUME StartInv, CallRates = {}, Priority["bt"] < Priority["ctl"], [Next]_vars
    PROVE  StartInv'
<1>1. TalkInv /\ IInv /\ Owed
  BY DEF StartInv, TalkInv
<1>2. Owed'
  <2>1. CASE \E t \in Thread : Step(t)
    BY <2>1, StepOwes
  <2>2. CASE Event("bt", BtEvent) \/ Event("rx", RxEvent) \/ Event("ctl", CtlEvent)
    BY <1>1, <2>2, EventOwes, ThreadIs
  <2>3. CASE (Render /\ UNCHANGED <<coreVars, userVars>>) \/ UNCHANGED vars
    <3>1. UNCHANGED <<todo, route>> /\ ready' \subseteq ready
      BY <2>3 DEF Render, vars, coreVars
    <3>2. Lag' => Lag
      BY <3>1 DEF Lag, Going
    <3> QED BY <1>1, <3>1, <3>2 DEF Owed
  <2> QED BY <2>1, <2>2, <2>3 DEF Next
<1>3. TalkInv'
  BY <1>1, NextTalk
<1> QED BY <1>2, <1>3 DEF StartInv

LEMMA StartInvariance ==
    ASSUME CallRates = {}, Priority["bt"] < Priority["ctl"]
    PROVE  Spec => []StartInv
<1>1. Init => StartInv
  <2>1. Init => Owed
    BY DEF Init, Owed, Lag
  <2> QED BY <2>1, InitTalk DEF StartInv
<1>2. StartInv /\ [Next]_vars => StartInv'
  BY NextOwes
<1> QED BY <1>1, <1>2, PTL DEF Spec

\* Without calls, and with BTstack's thread before the control thread: when every
\* thread is done and a source has enough data, it plays; no stop, start or
\* interrupt between the writer that passes the watermark and the request for
\* the start loses it (audio_mixer_write, es8311_audio_notify_playback_ready).
THEOREM StartsAreMade ==
    ASSUME CallRates = {}, Priority["bt"] < Priority["ctl"]
    PROVE  Spec => []NoLostStart
<1>1. StartInv => NoLostStart
  <2> SUFFICES ASSUME StartInv, Settled, ready # {}
               PROVE  route.dma = "playback" /\ ~route.pending
    BY DEF NoLostStart
  <2>1. \A t \in Thread : ~Owes(todo[t])
    BY DEF Settled, Idle, Owes
  <2>2. ~Lag
    BY <2>1 DEF StartInv, Owed
  <2> QED BY <2>2 DEF Lag, Going
<1> QED BY <1>1, StartInvariance, PTL

\* Without calls, and with BTstack's thread before the control thread: after the
\* talk nothing records and full-duplex DMA is off, though the codec failed or a
\* start was refused on the way (control_ptt_stop, es8311_audio_start_capture).
THEOREM TalkIsReleased ==
    ASSUME CallRates = {}, Priority["bt"] < Priority["ctl"]
    PROVE  Spec => []CaptureReleased
<1>1. TalkInv => CaptureReleased
  <2> SUFFICES ASSUME TalkInv, Settled, ~ptt.capturing
               PROVE  ~route.capturing /\ route.dma # "duplex" /\ route.rate = MusicRate
    BY DEF CaptureReleased
  <2>1. ~route.capturing /\ route.dma # "duplex"
    BY CtlRests, ThreadIs DEF Settled
  <2>2. route.rate = MusicRate
    BY DEF TalkInv, IInv, TypeOK, CoreTypeOK, Rates
  <2> QED BY <2>1, <2>2
<1> QED BY <1>1, TalkInvariance, PTL
=============================================================================
