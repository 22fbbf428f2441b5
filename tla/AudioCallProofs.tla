-------------------------- MODULE AudioCallProofs --------------------------
(* What a call does to the codec when nobody talks: for every set of call     *)
(* rates, any number of codec failures and any priorities, a call has its own *)
(* way of the codec or none, and after it everything is as the music wants.   *)
(* Only BTstack's thread works then; its programs are outlined step by step.  *)
EXTENDS AudioRouteProofs

----------------------------------------------------------------------------
(* Assertions are sets of states of the codec.                                *)

State ==
    [route : [dma : {"stopped", "playback", "duplex"}, playing : BOOLEAN,
              capturing : BOOLEAN, pending : BOOLEAN, rate : Rates,
              callRate : Rates, renderer : {"mixer", "hfp"}],
     hw : [i2s : Rates, codec : Rates, dac : BOOLEAN, adc : BOOLEAN],
     faults : Nat]

Now == [route |-> route, hw |-> hw, faults |-> faults]
Modes == ModesOver(SUBSET State)

\* The codec is at the rate that is noted and, unless it has failed, the I2S too.
InSync(s) == s.hw.codec = s.route.rate /\ (s.faults = 0 => s.hw.i2s = s.route.rate)
AtMusicRate(s) == s.route.playing \/ s.faults = 0 => s.route.rate = MusicRate
Silent(s) == ~s.route.playing /\ ~s.route.capturing

AnyTime == {s \in State : InSync(s)}
Quiet   == {s \in AnyTime : ~s.route.playing}
Still   == {s \in AnyTime : Silent(s)}

\* Without a call; Failed when the codec has failed before, Tuned when playback
\* may start.
MusicOn == {s \in AnyTime : s.route.renderer = "mixer" /\ ~s.route.capturing /\ AtMusicRate(s)}
Failed  == {s \in MusicOn : s.faults > 0}
Tuned   == {s \in MusicOn : s.route.rate = MusicRate}

\* The codec has refused a rate and is still at y.
Slip(who, y) == {s \in State : /\ Silent(s) /\ s.route.renderer = who
                               /\ s.hw.codec = y /\ s.faults > 0}

\* On the way back from a call, before, inside and after the change of the rate
\* (from y, where the codec is until it has taken the new one).
Back       == {s \in Still : s.route.renderer = "mixer"}
BackSwitch(y) == {s \in State : /\ Silent(s) /\ s.route.renderer = "mixer"
                                /\ s.route.dma = "stopped" /\ s.route.rate = MusicRate
                                /\ s.faults = 0 => s.hw.i2s = MusicRate
                                /\ s.hw.codec = y}
BackSync   == {s \in Tuned : ~s.route.playing /\ s.route.dma = "stopped"}

\* On the way into a call of rate x.
Hfp           == {s \in Still : s.route.renderer = "hfp" /\ AtMusicRate(s)}
HfpRate(x)    == {s \in Hfp : s.route.callRate = x}
HfpQuiet(x)   == {s \in HfpRate(x) : s.route.dma # "playback"}
HfpStopped(x) == {s \in HfpRate(x) : s.route.dma = "stopped"}
CallSwitch(x, y) == {s \in State : /\ Silent(s) /\ s.route.renderer = "hfp"
                                   /\ s.route.dma = "stopped" /\ s.route.rate = x
                                   /\ s.faults = 0 => s.hw.i2s = x
                                   /\ s.hw.codec = y}
CallReady(x)  == {s \in Still : /\ s.route.renderer = "hfp" /\ s.route.rate = x
                                /\ s.route.dma = "stopped"}
CallAdc(x)    == {s \in CallReady(x) : s.hw.adc}
CallFlags(x)  == {s \in AnyTime : /\ s.route.renderer = "hfp" /\ s.route.rate = x
                                  /\ s.route.dma = "stopped" /\ s.route.capturing
                                  /\ ~s.route.pending /\ s.hw.adc}

\* In a call of rate x, and when its set-up has failed.
InCall(x) == {s \in AnyTime : /\ s.route.renderer = "hfp" /\ s.route.rate = x
                              /\ s.route.dma = "duplex" /\ s.route.capturing
                              /\ ~s.route.pending /\ s.hw.adc}
Lost      == {s \in Still : s.route.renderer = "hfp" /\ s.faults > 0}

----------------------------------------------------------------------------
(* What each step does with them: r leads from a to b, or to an error in e.   *)

Stops == {"PlayingOff", "DacOff", "PlaybackDmaOff", "CapturingOff", "AdcOff", "DuplexDmaOff"}
Shared == {"Lock", "Unlock", "Allow", "Deactivate", "WriteFrames", "NotifyIfReady"}

MusicRow(r, a, e, b) ==
    \/ /\ a = MusicOn /\ e = {} /\ b = MusicOn
       /\ \/ r.do \in Shared \union Stops \union {"Rollback"}
          \/ r.do = "SetRunMode" /\ r.arg = "idle"
    \/ /\ a = MusicOn /\ e = MusicOn /\ b = MusicOn
       /\ \/ r.do \in {"Activate", "StartSink", "Notify", "DacOn", "PlaybackDmaOn"}
          \/ r.do = "SetRunMode" /\ r.arg = "playback"
    \/ a = MusicOn /\ e = Failed /\ b = Tuned /\ r.do = "Reconfigure" /\ r.arg = MusicRate
    \/ a = Tuned /\ e = MusicOn /\ b = MusicOn /\ r.do \in {"StartPlayback", "ArmPlayback"}

BackRow(r, a, e, b) ==
    \/ a = AnyTime /\ e = {} /\ b = Still /\ r.do = "SetRunMode" /\ r.arg = "idle"
    \/ a = AnyTime /\ e = {} /\ b = Quiet /\ r.do = "PlayingOff"
    \/ a = Quiet /\ e = {} /\ b = Quiet /\ r.do \in {"DacOff", "PlaybackDmaOff"}
    \/ a = Quiet /\ e = {} /\ b = Still /\ r.do = "CapturingOff"
    \/ a = Still /\ e = {} /\ b = Still /\ r.do \in {"AdcOff", "DuplexDmaOff"}
    \/ a = Still /\ e = {} /\ b = Back /\ r.do = "SetRenderer" /\ r.arg = "mixer"
    \/ a = Back /\ e = MusicOn /\ b = MusicOn /\ r.do = "SetRunMode" /\ r.arg = "playback"
    \/ a = Back /\ e = {} /\ b = Back /\ r.do \in Stops
    \/ a = Back /\ e = Failed /\ b = Tuned /\ r.do = "Reconfigure" /\ r.arg = MusicRate
    \/ \E y \in Rates :
          \/ a = BackSwitch(y) /\ e = Slip("mixer", y) /\ b = BackSync /\ r.do = "CodecRate"
          \/ a = Slip("mixer", y) /\ e = {} /\ b = Failed /\ r.do = "RateBack" /\ r.arg = y
    \/ /\ a = BackSync /\ e = {} /\ b = BackSync
       /\ r.do \in {"SyncDac", "SyncAdc", "DacOff", "AdcOff", "RestartDma"}

EnterRow(x, r, a, e, b) ==
    \/ a = MusicOn /\ e = MusicOn /\ b = Hfp /\ r.do = "SetRenderer" /\ r.arg = "hfp"
    \/ a = Hfp /\ e = {} /\ b = HfpRate(x) /\ r.do = "SetCallRate" /\ r.arg = x
    \/ a = HfpRate(x) /\ e = Lost /\ b = InCall(x) /\ r.do = "SetRunMode" /\ r.arg = "duplex"
    \/ a = HfpRate(x) /\ e = {} /\ b = HfpRate(x) /\ r.do \in {"PlayingOff", "DacOff"}
    \/ a = HfpRate(x) /\ e = {} /\ b = HfpQuiet(x) /\ r.do = "PlaybackDmaOff"
    \/ a = HfpQuiet(x) /\ e = {} /\ b = HfpQuiet(x) /\ r.do \in {"CapturingOff", "AdcOff"}
    \/ a = HfpQuiet(x) /\ e = {} /\ b = HfpStopped(x) /\ r.do = "DuplexDmaOff"
    \/ a = HfpStopped(x) /\ e = Lost /\ b = CallReady(x) /\ r.do = "Reconfigure" /\ r.arg = x
    \/ \E y \in Rates : /\ a = CallSwitch(x, y) /\ e = Slip("hfp", y) /\ b = CallReady(x)
                        /\ r.do = "CodecRate"
    \/ /\ a = CallReady(x) /\ e = {} /\ b = CallReady(x)
       /\ r.do \in {"SyncDac", "SyncAdc", "DacOff", "AdcOff", "RestartDma", "CallCheck"}
    \/ a = CallReady(x) /\ e = Lost /\ b = CallReady(x) /\ r.do = "DacOn"
    \/ a = CallReady(x) /\ e = Lost /\ b = CallAdc(x) /\ r.do = "AdcOn"
    \/ a = CallAdc(x) /\ e = {} /\ b = CallFlags(x) /\ r.do = "CallFlagsOn"
    \/ a = CallFlags(x) /\ e = {} /\ b = InCall(x) /\ r.do = "DuplexDmaOn"

CallRow(x, r, a, e, b) ==
    \/ /\ a = InCall(x) /\ e = {} /\ b = InCall(x)
       /\ r.do \in Shared \union {"PlayingOff", "DacOff", "PlaybackDmaOff"}
    \/ a = InCall(x) /\ e = InCall(x) /\ b = InCall(x) /\ r.do \in {"Activate", "Notify"}

LostRow(r, a, e, b) ==
    \/ /\ a = Lost /\ e = {} /\ b = Lost
       /\ r.do \in {"CallFlagsOff", "AdcOff", "DacOff"}
    \/ \E y \in Rates :
          a = Slip("hfp", y) /\ e = {} /\ b = Lost /\ r.do = "RateBack" /\ r.arg = y
    \/ a = Lost /\ e = {} /\ b = Failed /\ r.do = "SetRenderer" /\ r.arg = "mixer"

Row(r, a, e, b) ==
    \/ r.do = "Fail" /\ e = a
    \/ MusicRow(r, a, e, b) \/ BackRow(r, a, e, b) \/ LostRow(r, a, e, b)
    \/ \E x \in CallRates : EnterRow(x, r, a, e, b) \/ CallRow(x, r, a, e, b)

Rows == {x \in PlainStep \X Modes \X Modes :
            /\ x[3].guard = x[2].guard
            /\ \E e \in SUBSET State : e \subseteq x[2].guard /\ Row(x[1], x[2].at, e, x[3].at)}

\* The program p leads from a to b, or to an error in e.
Path(T, p, a, e, b) ==
    \A g \in SUBSET State : e \subseteq g => Outline(Modes, T, p, Mk(a, g), Mk(b, g))

----------------------------------------------------------------------------
(* How paths are put together.                                                *)

LEMMA ModeIn == \A a, g \in SUBSET State : /\ Mk(a, g) \in Modes
                                           /\ Mk(a, g).at = a /\ Mk(a, g).guard = g
BY DEF Mk, Modes, ModesOver

LEMMA ModesAre == \A m \in Modes : m = Mk(m.at, m.guard) /\ m.at \in SUBSET State
                                   /\ m.guard \in SUBSET State
BY DEF Mk, Modes, ModesOver

LEMMA RowsPlain == PlainOver(Modes, Rows)
<1> SUFFICES ASSUME NEW x \in Rows
             PROVE  /\ x = <<x[1], x[2], x[3]>> /\ x[2] \in Modes /\ x[3] \in Modes
                    /\ x[1].do \notin {"Call", "Return"} /\ x[3].guard = x[2].guard
  BY DEF PlainOver
<1>1. x \in PlainStep \X Modes \X Modes /\ x[3].guard = x[2].guard
  BY DEF Rows
<1>2. x[1].do \notin {"Call", "Return"}
  BY <1>1 DEF PlainStep, Bare, Calm, Risky
<1> QED BY <1>1, <1>2

LEMMA RowPath ==
    ASSUME NEW r \in PlainStep, NEW a \in SUBSET State, NEW e \in SUBSET State,
           NEW b \in SUBSET State, Row(r, a, e, b)
    PROVE  Path(Rows, <<r>>, a, e, b)
<1> SUFFICES ASSUME NEW g \in SUBSET State, e \subseteq g
             PROVE  Outline(Modes, Rows, <<r>>, Mk(a, g), Mk(b, g))
  BY DEF Path
<1>1. <<r, Mk(a, g), Mk(b, g)>> \in Rows
  BY ModeIn DEF Rows
<1> QED BY <1>1, ModeIn, StepOutline

LEMMA EmptyPath ==
    ASSUME NEW T, NEW a \in SUBSET State, NEW b \in SUBSET State, a \subseteq b, NEW e
    PROVE  Path(T, <<>>, a, e, b)
<1> SUFFICES ASSUME NEW g \in SUBSET State
             PROVE  Outline(Modes, T, <<>>, Mk(a, g), Mk(b, g))
  BY DEF Path
<1>1. Within(Mk(a, g), Mk(b, g))
  BY ModeIn DEF Within
<1> QED BY <1>1, ModeIn, EmptyOutline

LEMMA ThenPath ==
    ASSUME NEW T, NEW p, NEW q, NEW a, NEW b, NEW c, NEW d, NEW e, NEW e1, NEW e2,
           Path(T, p, a, e1, b), Path(T, q, c, e2, d), b \subseteq c,
           b \in SUBSET State, c \in SUBSET State, e1 \subseteq e, e2 \subseteq e
    PROVE  Path(T, p \o q, a, e, d)
<1> SUFFICES ASSUME NEW g \in SUBSET State, e \subseteq g
             PROVE  Outline(Modes, T, p \o q, Mk(a, g), Mk(d, g))
  BY DEF Path
<1>1. Outline(Modes, T, p, Mk(a, g), Mk(b, g)) /\ Outline(Modes, T, q, Mk(c, g), Mk(d, g))
  BY DEF Path
<1>2. Within(Mk(b, g), Mk(c, g)) /\ Within(Mk(d, g), Mk(d, g))
  BY DEF Within, Mk
<1>3. Outline(Modes, T, q, Mk(b, g), Mk(d, g))
  BY <1>1, <1>2, WeakenOutline
<1> QED BY <1>1, <1>3, ThenOutline

LEMMA WeakenPath ==
    ASSUME NEW T, NEW p, NEW a, NEW b, NEW c, NEW d, NEW e, NEW e1,
           Path(T, p, b, e1, c), a \subseteq b, c \subseteq d, e1 \subseteq e
    PROVE  Path(T, p, a, e, d)
<1> SUFFICES ASSUME NEW g \in SUBSET State, e \subseteq g
             PROVE  Outline(Modes, T, p, Mk(a, g), Mk(d, g))
  BY DEF Path
<1>1. Outline(Modes, T, p, Mk(b, g), Mk(c, g))
  BY DEF Path
<1>2. Within(Mk(a, g), Mk(b, g)) /\ Within(Mk(c, g), Mk(d, g))
  BY DEF Within, Mk
<1> QED BY <1>1, <1>2, WeakenOutline

LEMMA TryPath ==
    ASSUME NEW T, NEW body, NEW ok, NEW err, NEW a \in SUBSET State, NEW e1 \in SUBSET State,
           NEW b \in SUBSET State, NEW e, NEW c \in SUBSET State,
           Path(T, body, a, e1, b), Path(T, ok, b, e, c),
           e1 # {} => Path(T, err, e1, e, c), err \in Programs(T)
    PROVE  Path(Deeper(Modes, Rows, T), Try(body, ok, err), a, e, c)
<1> SUFFICES ASSUME NEW g \in SUBSET State, e \subseteq g
             PROVE  Outline(Modes, Deeper(Modes, Rows, T), Try(body, ok, err), Mk(a, g), Mk(c, g))
  BY DEF Path
<1>1. /\ Outline(Modes, T, body, Mk(a, e1), Mk(b, e1))
      /\ Outline(Modes, T, ok, Mk(b, g), Mk(c, g))
      /\ e1 # {} => Outline(Modes, T, err, Mk(e1, g), Mk(c, g))
  BY DEF Path
<1>2. /\ Mk(a, g) \in Modes /\ Mk(c, g) \in Modes /\ Mk(b, e1) \in Modes
      /\ Mk(a, g).at = a /\ Mk(a, g).guard = g /\ Mk(c, g).guard = g
      /\ Mk(b, e1).at = b /\ Mk(b, e1).guard = e1
  BY ModeIn
<1> QED BY <1>1, <1>2, TryOutline

LEMMA PathSteps ==
    ASSUME NEW T, NEW p, NEW a, NEW e, NEW b, Path(T, p, a, e, b), e \in SUBSET State
    PROVE  p \in Programs(T)
BY DEF Path, Outline

LEMMA LiftPath ==
    ASSUME NEW p, NEW a, NEW e, NEW b
    PROVE  /\ Path(Rows, p, a, e, b) => Path(Deep1(Modes, Rows), p, a, e, b)
           /\ Path(Deep1(Modes, Rows), p, a, e, b) => Path(Deep2(Modes, Rows), p, a, e, b)
           /\ Path(Deep2(Modes, Rows), p, a, e, b) => Path(Deep3(Modes, Rows), p, a, e, b)
BY Depths, MoreOutline DEF Path

----------------------------------------------------------------------------
(* The paths of the code's programs.                                          *)

LEMMA Assertions ==
    /\ {} \in SUBSET State
    /\ AnyTime \in SUBSET State /\ Quiet \in SUBSET State /\ Still \in SUBSET State
    /\ MusicOn \in SUBSET State /\ Failed \in SUBSET State /\ Back \in SUBSET State
    /\ BackSync \in SUBSET State /\ Hfp \in SUBSET State
    /\ Lost \in SUBSET State /\ Tuned \in SUBSET State
    /\ \A y : /\ BackSwitch(y) \in SUBSET State
              /\ Slip("mixer", y) \in SUBSET State /\ Slip("hfp", y) \in SUBSET State
    /\ Failed \subseteq MusicOn /\ Tuned \subseteq MusicOn /\ BackSync \subseteq Tuned
BY DEF AnyTime, Quiet, Still, MusicOn, Failed, Tuned, Slip, Back, BackSwitch, BackSync, Hfp,
       Lost

LEMMA CallAssertions ==
    ASSUME NEW x
    PROVE  /\ HfpRate(x) \in SUBSET State /\ HfpQuiet(x) \in SUBSET State
           /\ HfpStopped(x) \in SUBSET State /\ \A y : CallSwitch(x, y) \in SUBSET State
           /\ CallReady(x) \in SUBSET State /\ CallAdc(x) \in SUBSET State
           /\ CallFlags(x) \in SUBSET State /\ InCall(x) \in SUBSET State
           /\ CallAdc(x) \subseteq CallReady(x) /\ MusicOn \subseteq AnyTime
           /\ InCall(x) \subseteq AnyTime
BY DEF AnyTime, Still, MusicOn, Hfp, HfpRate, HfpQuiet, HfpStopped, CallSwitch, CallReady,
       CallAdc, CallFlags, InCall

LEMMA DoPath ==
    ASSUME NEW d \in Bare, NEW a \in SUBSET State, NEW e \in SUBSET State,
           NEW b \in SUBSET State, Row([do |-> d], a, e, b)
    PROVE  Path(Rows, Do(d), a, e, b)
<1>1. [do |-> d] \in PlainStep
  BY DEF PlainStep
<1> QED BY <1>1, RowPath DEF Do

LEMMA WithPath ==
    ASSUME NEW d, NEW z, [do |-> d, arg |-> z] \in PlainStep, NEW a \in SUBSET State,
           NEW e \in SUBSET State, NEW b \in SUBSET State, Row([do |-> d, arg |-> z], a, e, b)
    PROVE  Path(Rows, With(d, z), a, e, b)
BY RowPath DEF With

LEMMA FailPath ==
    ASSUME NEW a \in SUBSET State, NEW b \in SUBSET State
    PROVE  Path(Rows, Do("Fail"), a, a, b)
BY DoPath DEF Row, Bare, Risky

LEMMA BareSteps ==
    {"PlayingOff", "DacOff", "PlaybackDmaOff", "CapturingOff", "AdcOff", "DuplexDmaOff",
     "Lock", "Unlock", "Fail", "NotifyIfReady", "Notify", "DacOn", "AdcOn", "CodecRate",
     "SyncDac", "SyncAdc", "StartPlayback", "ArmPlayback", "PlaybackDmaOn", "DuplexDmaOn",
     "CallCheck", "CallFlagsOn", "CallFlagsOff"} \subseteq Bare
BY DEF Bare, Calm, Risky

\* A rate change after its first step.
LEMMA RatePath ==
    ASSUME NEW a \in SUBSET State, NEW e \in SUBSET State, NEW b \in SUBSET State,
           NEW out \in SUBSET State,
           NEW rate \in Rates, NEW dma \in {"stopped", "playback", "duplex"},
           Row([do |-> "CodecRate"], a, e, b), Row([do |-> "SyncDac"], b, {}, b),
           Row([do |-> "SyncAdc"], b, {}, b), Row([do |-> "RestartDma", arg |-> dma], b, {}, b),
           Row([do |-> "RateBack", arg |-> rate], e, {}, out)
    PROVE  Path(Deep1(Modes, Rows),
                Try(Do("CodecRate") \o Do("SyncDac") \o Do("SyncAdc") \o With("RestartDma", dma),
                    <<>>, With("RateBack", rate) \o Do("Fail")), a, out, b)
<1>1. /\ [do |-> "RestartDma", arg |-> dma] \in PlainStep
      /\ [do |-> "RateBack", arg |-> rate] \in PlainStep
  BY DEF PlainStep
<1>2. /\ Path(Rows, Do("CodecRate"), a, e, b) /\ Path(Rows, Do("SyncDac"), b, {}, b)
      /\ Path(Rows, Do("SyncAdc"), b, {}, b)
  BY Assertions, BareSteps, DoPath
<1>3. /\ Path(Rows, With("RestartDma", dma), b, {}, b)
      /\ Path(Rows, With("RateBack", rate), e, {}, out)
  BY <1>1, Assertions, WithPath
<1>4. Path(Rows, Do("CodecRate") \o Do("SyncDac"), a, e, b)
  BY <1>2, ThenPath
<1>5. Path(Rows, Do("CodecRate") \o Do("SyncDac") \o Do("SyncAdc"), a, e, b)
  BY <1>2, <1>4, ThenPath
<1> DEFINE body == Do("CodecRate") \o Do("SyncDac") \o Do("SyncAdc") \o With("RestartDma", dma)
           undo == With("RateBack", rate) \o Do("Fail")
<1>6. Path(Rows, body, a, e, b)
  BY <1>3, <1>5, ThenPath
<1>7. Path(Rows, undo, e, out, b)
  BY <1>3, FailPath, ThenPath
<1> HIDE DEF body, undo
<1>8. Path(Rows, <<>>, b, out, b)
  BY EmptyPath
<1>9. undo \in Programs(Rows)
  BY <1>7, PathSteps
<1>10. Path(Deep1(Modes, Rows), Try(body, <<>>, undo), a, out, b)
  BY <1>6, <1>7, <1>8, <1>9, TryPath DEF Deep1
<1> QED BY <1>10 DEF body, undo

\* Playback and capture stop.
LEMMA StopPath ==
    ASSUME NEW d1 \in Bare, NEW d2 \in Bare, NEW d3 \in Bare,
           NEW a \in SUBSET State, NEW b \in SUBSET State, NEW c \in SUBSET State,
           Row([do |-> d1], a, {}, b), Row([do |-> d2], b, {}, b), Row([do |-> d3], b, {}, c)
    PROVE  Path(Rows, Do(d1) \o Do(d2) \o Do(d3), a, {}, c)
<1>1. Path(Rows, Do(d1), a, {}, b) /\ Path(Rows, Do(d2), b, {}, b) /\ Path(Rows, Do(d3), b, {}, c)
  BY Assertions, DoPath
<1>2. Path(Rows, Do(d1) \o Do(d2), a, {}, b)
  BY <1>1, ThenPath
<1> QED BY <1>1, <1>2, ThenPath

\* A program under the mutex, with or without an error to return.
LEMMA LockedPath ==
    ASSUME NEW a \in SUBSET State, NEW e \in SUBSET State, e \in {{}, a},
           NEW body, Path(Rows, body, a, e, a),
           Row([do |-> "Lock"], a, {}, a), Row([do |-> "Unlock"], a, {}, a)
    PROVE  Path(Deep1(Modes, Rows), Locked(body), a, e, a)
<1>1. Path(Rows, Do("Lock"), a, {}, a) /\ Path(Rows, Do("Unlock"), a, {}, a)
  BY Assertions, BareSteps, DoPath
<1>2. Path(Rows, Do("Unlock") \o Do("Fail"), a, a, a)
  BY <1>1, FailPath, ThenPath
<1>3. (Do("Unlock") \o Do("Fail")) \in Programs(Rows)
  BY <1>2, PathSteps
<1>4. Path(Rows, Do("Unlock"), a, e, a)
  BY <1>1, WeakenPath
<1> DEFINE undo == Do("Unlock") \o Do("Fail")
           fin == Do("Unlock")
<1> HIDE DEF undo, fin
<1>5. /\ Path(Rows, fin, a, e, a) /\ undo \in Programs(Rows)
      /\ e # {} => Path(Rows, undo, e, e, a)
  BY <1>2, <1>3, <1>4 DEF undo, fin
<1>6. Path(Deep1(Modes, Rows), Try(body, fin, undo), a, e, a)
  BY <1>5, TryPath DEF Deep1
<1>7. Path(Deep1(Modes, Rows), Do("Lock"), a, {}, a)
  BY <1>1, LiftPath
<1>8. Path(Deep1(Modes, Rows), Do("Lock") \o Try(body, fin, undo), a, e, a)
  BY <1>6, <1>7, ThenPath
<1> QED BY <1>8 DEF Locked, undo, fin

\* A call whose result is thrown away.
LEMMA IgnorePath ==
    ASSUME NEW T, NEW body, NEW a \in SUBSET State, NEW e \in SUBSET State,
           NEW b \in SUBSET State, e \subseteq b, Path(T, body, a, e, b)
    PROVE  Path(Deeper(Modes, Rows, T), Ignore(body), a, {}, b)
<1>1. Path(T, <<>>, b, {}, b) /\ Path(T, <<>>, e, {}, b)
  BY EmptyPath
<1>2. <<>> \in Programs(T)
  BY <1>1, Assertions, PathSteps
<1>3. Path(Deeper(Modes, Rows, T), Try(body, <<>>, <<>>), a, {}, b)
  BY <1>1, <1>2, TryPath
<1> QED BY <1>3 DEF Ignore

\* A call that undoes one thing and fails when its body does.
LEMMA UndoPath ==
    ASSUME NEW body, NEW undo, NEW a \in SUBSET State, NEW e \in SUBSET State,
           NEW b \in SUBSET State, NEW e1 \in SUBSET State, e1 \subseteq e,
           Path(Rows, body, a, e1, b), Path(Rows, undo, e1, {}, e1)
    PROVE  Path(Deep1(Modes, Rows), Try(body, <<>>, undo \o Do("Fail")), a, e, b)
<1>1. Path(Rows, <<>>, b, e, b)
  BY EmptyPath
<1>2. Path(Rows, undo \o Do("Fail"), e1, e, b)
  BY FailPath, ThenPath
<1>3. (undo \o Do("Fail")) \in Programs(Rows)
  BY <1>2, PathSteps
<1> QED BY <1>1, <1>2, <1>3, TryPath DEF Deep1

LEMMA StopPaths ==
    /\ Path(Rows, StopPlayback, MusicOn, {}, MusicOn)
    /\ \A x \in CallRates : Path(Rows, StopPlayback, InCall(x), {}, InCall(x))
    /\ Path(Rows, GoIdle, MusicOn, {}, MusicOn)
    /\ Path(Rows, GoIdle, Back, {}, Back)
    /\ Path(Rows, GoIdle, AnyTime, {}, Still)
    /\ \A x \in CallRates : Path(Rows, GoIdle, HfpRate(x), {}, HfpStopped(x))
<1>1. ASSUME NEW a \in {MusicOn, Back}, NEW d \in Stops
      PROVE  Row([do |-> d], a, {}, a)
  BY DEF Row, MusicRow, BackRow
<1>2. ASSUME NEW a \in {MusicOn, Back}
      PROVE  Path(Rows, StopPlayback, a, {}, a) /\ Path(Rows, GoIdle, a, {}, a)
  <2>1. Path(Rows, StopPlayback, a, {}, a)
    BY <1>1, BareSteps, Assertions, StopPath DEF StopPlayback, Stops
  <2>2. Path(Rows, StopCapture, a, {}, a)
    BY <1>1, BareSteps, Assertions, StopPath DEF StopCapture, Stops
  <2> QED BY <2>1, <2>2, Assertions, ThenPath DEF GoIdle
<1>3. ASSUME NEW x \in CallRates PROVE Path(Rows, StopPlayback, InCall(x), {}, InCall(x))
  <2>1. ASSUME NEW d \in {"PlayingOff", "DacOff", "PlaybackDmaOff"}
        PROVE  Row([do |-> d], InCall(x), {}, InCall(x))
    BY DEF Row, CallRow
  <2> QED BY <2>1, BareSteps, CallAssertions, StopPath DEF StopPlayback
<1>4. Path(Rows, GoIdle, AnyTime, {}, Still)
  <2>1. /\ Row([do |-> "PlayingOff"], AnyTime, {}, Quiet)
        /\ Row([do |-> "DacOff"], Quiet, {}, Quiet)
        /\ Row([do |-> "PlaybackDmaOff"], Quiet, {}, Quiet)
        /\ Row([do |-> "CapturingOff"], Quiet, {}, Still)
        /\ Row([do |-> "AdcOff"], Still, {}, Still)
        /\ Row([do |-> "DuplexDmaOff"], Still, {}, Still)
    BY DEF Row, BackRow
  <2>2. Path(Rows, StopPlayback, AnyTime, {}, Quiet)
    BY <2>1, BareSteps, Assertions, StopPath DEF StopPlayback
  <2>3. Path(Rows, StopCapture, Quiet, {}, Still)
    BY <2>1, BareSteps, Assertions, StopPath DEF StopCapture
  <2> QED BY <2>2, <2>3, Assertions, ThenPath DEF GoIdle
<1>5. ASSUME NEW x \in CallRates PROVE Path(Rows, GoIdle, HfpRate(x), {}, HfpStopped(x))
  <2>1. /\ Row([do |-> "PlayingOff"], HfpRate(x), {}, HfpRate(x))
        /\ Row([do |-> "DacOff"], HfpRate(x), {}, HfpRate(x))
        /\ Row([do |-> "PlaybackDmaOff"], HfpRate(x), {}, HfpQuiet(x))
        /\ Row([do |-> "CapturingOff"], HfpQuiet(x), {}, HfpQuiet(x))
        /\ Row([do |-> "AdcOff"], HfpQuiet(x), {}, HfpQuiet(x))
        /\ Row([do |-> "DuplexDmaOff"], HfpQuiet(x), {}, HfpStopped(x))
    BY DEF Row, EnterRow
  <2>2. Path(Rows, StopPlayback, HfpRate(x), {}, HfpQuiet(x))
    BY <2>1, BareSteps, CallAssertions, StopPath DEF StopPlayback
  <2>3. Path(Rows, StopCapture, HfpQuiet(x), {}, HfpStopped(x))
    BY <2>1, BareSteps, CallAssertions, StopPath DEF StopCapture
  <2> QED BY <2>2, <2>3, CallAssertions, ThenPath DEF GoIdle
<1> QED BY <1>2, <1>3, <1>4, <1>5

\* es8311_audio_set_run_mode, to playback.
LEMMA MusicModePaths ==
    ASSUME NEW a \in {MusicOn, Back}
    PROVE  Path(Rows, EnterMode(MusicRate, Do("StartPlayback")), a, MusicOn, MusicOn)
<1>1. /\ [do |-> "Reconfigure", arg |-> MusicRate] \in PlainStep
      /\ a \in SUBSET State /\ MusicOn \in SUBSET State /\ Failed \in SUBSET State
      /\ Tuned \in SUBSET State /\ Failed \subseteq MusicOn
  BY Assertions DEF PlainStep, Rates
<1>2. Path(Rows, With("Reconfigure", MusicRate), a, Failed, Tuned)
  <2>1. Row([do |-> "Reconfigure", arg |-> MusicRate], a, Failed, Tuned)
    BY DEF Row, MusicRow, BackRow
  <2> QED BY <2>1, <1>1, WithPath
<1>3. Path(Rows, Do("StartPlayback"), Tuned, MusicOn, MusicOn)
  BY <1>1, BareSteps, DoPath DEF Row, MusicRow
<1>4. Path(Rows, GoIdle, a, {}, a)
  BY StopPaths
<1>5. Path(Rows, GoIdle \o With("Reconfigure", MusicRate), a, Failed, Tuned)
  BY <1>1, <1>2, <1>4, ThenPath
<1> QED BY <1>1, <1>3, <1>5, ThenPath DEF EnterMode

\* es8311_audio_start_call_duplex.
LEMMA StartCallPath ==
    ASSUME NEW x \in CallRates
    PROVE  Path(Deep1(Modes, Rows), StartCallDuplex, CallReady(x), Lost, InCall(x))
<1>1. /\ CallReady(x) \in SUBSET State /\ CallAdc(x) \in SUBSET State
      /\ CallFlags(x) \in SUBSET State /\ InCall(x) \in SUBSET State
      /\ Lost \in SUBSET State /\ {} \in SUBSET State
  BY Assertions, CallAssertions
<1>2. /\ Row([do |-> "CallCheck"], CallReady(x), {}, CallReady(x))
      /\ Row([do |-> "DacOn"], CallReady(x), Lost, CallReady(x))
      /\ Row([do |-> "AdcOn"], CallReady(x), Lost, CallAdc(x))
      /\ Row([do |-> "CallFlagsOn"], CallAdc(x), {}, CallFlags(x))
      /\ Row([do |-> "DuplexDmaOn"], CallFlags(x), {}, InCall(x))
  BY DEF Row, EnterRow
<1>3. /\ Row([do |-> "DacOff"], Lost, {}, Lost) /\ Row([do |-> "AdcOff"], Lost, {}, Lost)
      /\ Row([do |-> "CallFlagsOff"], Lost, {}, Lost)
  BY DEF Row, LostRow
<1>4. /\ Path(Rows, Do("CallCheck"), CallReady(x), {}, CallReady(x))
      /\ Path(Rows, Do("DacOn"), CallReady(x), Lost, CallReady(x))
      /\ Path(Rows, Do("AdcOn"), CallReady(x), Lost, CallAdc(x))
      /\ Path(Rows, Do("CallFlagsOn"), CallAdc(x), {}, CallFlags(x))
      /\ Path(Rows, Do("DuplexDmaOn"), CallFlags(x), {}, InCall(x))
      /\ Path(Rows, Do("DacOff"), Lost, {}, Lost) /\ Path(Rows, Do("AdcOff"), Lost, {}, Lost)
      /\ Path(Rows, Do("CallFlagsOff"), Lost, {}, Lost)
  BY <1>1, <1>2, <1>3, BareSteps, DoPath
<1>5. Path(Deep1(Modes, Rows), Try(Do("AdcOn"), <<>>, Do("DacOff") \o Do("Fail")),
           CallReady(x), Lost, CallAdc(x))
  BY <1>1, <1>4, UndoPath
<1> DEFINE undo == Do("CallFlagsOff") \o Do("AdcOff") \o Do("DacOff") \o Do("Fail")
<1>6. undo \in Programs(Rows)
  <2>1. Path(Rows, Do("CallFlagsOff") \o Do("AdcOff"), Lost, {}, Lost)
    BY <1>1, <1>4, ThenPath
  <2>2. Path(Rows, Do("CallFlagsOff") \o Do("AdcOff") \o Do("DacOff"), Lost, {}, Lost)
    BY <1>1, <1>4, <2>1, ThenPath
  <2>3. Path(Rows, undo, Lost, Lost, Lost)
    BY <1>1, <2>2, FailPath, ThenPath
  <2> QED BY <1>1, <2>3, PathSteps
<1> HIDE DEF undo
<1>7. Path(Deep1(Modes, Rows), Try(Do("DuplexDmaOn"), <<>>, undo), CallFlags(x), {}, InCall(x))
  <2>1. Path(Rows, <<>>, InCall(x), {}, InCall(x))
    BY <1>1, EmptyPath
  <2> QED BY <1>1, <1>4, <1>6, <2>1, TryPath DEF Deep1
<1>8. Path(Rows, Do("CallCheck") \o Do("DacOn"), CallReady(x), Lost, CallReady(x))
  BY <1>1, <1>4, ThenPath
<1> DEFINE s1 == Do("CallCheck") \o Do("DacOn")
           s2 == Try(Do("AdcOn"), <<>>, Do("DacOff") \o Do("Fail"))
           s3 == Try(Do("DuplexDmaOn"), <<>>, undo)
<1>9. /\ Path(Deep1(Modes, Rows), s1, CallReady(x), Lost, CallReady(x))
      /\ Path(Deep1(Modes, Rows), Do("CallFlagsOn"), CallAdc(x), {}, CallFlags(x))
  BY <1>4, <1>8, LiftPath
<1> HIDE DEF s1, s2, s3
<1>10. Path(Deep1(Modes, Rows), s1 \o s2, CallReady(x), Lost, CallAdc(x))
  BY <1>1, <1>5, <1>9, ThenPath DEF s2
<1>11. Path(Deep1(Modes, Rows), s1 \o s2 \o Do("CallFlagsOn"), CallReady(x), Lost, CallFlags(x))
  BY <1>1, <1>9, <1>10, ThenPath
<1>12. Path(Deep1(Modes, Rows), s1 \o s2 \o Do("CallFlagsOn") \o s3, CallReady(x), Lost, InCall(x))
  BY <1>1, <1>7, <1>11, ThenPath DEF s3
<1> QED BY <1>12 DEF StartCallDuplex, s1, s2, s3, undo

LEMMA CallModePath ==
    ASSUME NEW x \in CallRates
    PROVE  Path(Deep1(Modes, Rows), EnterMode(x, StartCallDuplex), HfpRate(x), Lost, InCall(x))
<1>1. /\ [do |-> "Reconfigure", arg |-> x] \in PlainStep
      /\ HfpStopped(x) \in SUBSET State /\ CallReady(x) \in SUBSET State
      /\ Lost \in SUBSET State
  BY Assertions, CallAssertions DEF PlainStep, Rates
<1>2. Row([do |-> "Reconfigure", arg |-> x], HfpStopped(x), Lost, CallReady(x))
  BY DEF Row, EnterRow
<1>3. Path(Rows, With("Reconfigure", x), HfpStopped(x), Lost, CallReady(x))
  BY <1>1, <1>2, WithPath
<1>4. Path(Rows, GoIdle \o With("Reconfigure", x), HfpRate(x), Lost, CallReady(x))
  BY <1>1, <1>3, StopPaths, ThenPath
<1>5. Path(Deep1(Modes, Rows), GoIdle \o With("Reconfigure", x), HfpRate(x), Lost, CallReady(x))
  BY <1>4, LiftPath
<1> QED BY <1>1, <1>5, StartCallPath, ThenPath DEF EnterMode

----------------------------------------------------------------------------
(* The paths of the events' programs.                                         *)

AnyDepth == Deep3(Modes, Rows)

LEMMA AnyDepthPath ==
    ASSUME NEW p, NEW a, NEW e, NEW b,
           \/ Path(Rows, p, a, e, b) \/ Path(Deep1(Modes, Rows), p, a, e, b)
           \/ Path(Deep2(Modes, Rows), p, a, e, b)
    PROVE  Path(AnyDepth, p, a, e, b)
BY LiftPath DEF AnyDepth

LEMMA WithSteps ==
    /\ \A mode \in {"idle", "playback", "capture", "duplex"} :
          [do |-> "SetRunMode", arg |-> mode] \in PlainStep
    /\ \A who \in {"mixer", "hfp"} : [do |-> "SetRenderer", arg |-> who] \in PlainStep
    /\ \A x \in CallRates : [do |-> "SetCallRate", arg |-> x] \in PlainStep
    /\ \A d \in {"Activate", "StartSink", "Rollback", "WriteFrames"}, s \in Sources :
          [do |-> d, arg |-> s] \in PlainStep
    /\ \A s \in SUBSET Sources : [do |-> "Deactivate", arg |-> s] \in PlainStep
    /\ \A f \in BOOLEAN : [do |-> "Allow", arg |-> f] \in PlainStep
BY DEF PlainStep, Rates

\* The way back to the music, thrown away if it fails.
LEMMA PlaybackModePath ==
    ASSUME NEW a \in {MusicOn, Back}
    PROVE  Path(Deep1(Modes, Rows), Ignore(With("SetRunMode", "playback")), a, {}, MusicOn)
<1>1. Row([do |-> "SetRunMode", arg |-> "playback"], a, MusicOn, MusicOn)
  BY DEF Row, MusicRow, BackRow
<1>2. a \in SUBSET State /\ MusicOn \in SUBSET State
  BY Assertions
<1>3. Path(Rows, With("SetRunMode", "playback"), a, MusicOn, MusicOn)
  BY <1>1, <1>2, WithSteps, WithPath
<1> QED BY <1>2, <1>3, IgnorePath DEF Deep1

LEMMA LeaveCallPath == Path(AnyDepth, LeaveCall, AnyTime, {}, MusicOn)
<1> USE Assertions
<1>1. /\ Row([do |-> "SetRunMode", arg |-> "idle"], AnyTime, {}, Still)
      /\ Row([do |-> "SetRenderer", arg |-> "mixer"], Still, {}, Back)
  BY DEF Row, BackRow
<1>2. /\ Path(Rows, With("SetRunMode", "idle"), AnyTime, {}, Still)
      /\ Path(Rows, With("SetRenderer", "mixer"), Still, {}, Back)
  BY <1>1, WithSteps, WithPath
<1> DEFINE back == Ignore(With("SetRunMode", "playback"))
<1>3. Path(Deep1(Modes, Rows), back, Back, {}, MusicOn)
  BY PlaybackModePath
<1> HIDE DEF back
<1>4. <<>> \in Programs(Deep1(Modes, Rows))
  BY EmptyPath, PathSteps
<1>5. Path(Deep1(Modes, Rows), With("SetRenderer", "mixer"), Still, {}, Back)
  BY <1>2, LiftPath
<1>6. Path(Deep2(Modes, Rows), Try(With("SetRenderer", "mixer"), back, <<>>), Still, {}, MusicOn)
  BY <1>3, <1>4, <1>5, TryPath DEF Deep2
<1>7. /\ Path(AnyDepth, With("SetRunMode", "idle"), AnyTime, {}, Still)
      /\ Path(AnyDepth, Try(With("SetRenderer", "mixer"), back, <<>>), Still, {}, MusicOn)
  BY <1>2, <1>6, AnyDepthPath
<1> DEFINE try == Try(With("SetRenderer", "mixer"), back, <<>>)
<1> HIDE DEF try
<1>8. Path(AnyDepth, With("SetRunMode", "idle") \o try, AnyTime, {}, MusicOn)
  BY <1>7, ThenPath DEF try
<1> QED BY <1>8 DEF LeaveCall, try, back

LEMMA EnterCallPath ==
    ASSUME NEW x \in CallRates
    PROVE  Path(AnyDepth, EnterCall(x), MusicOn, {}, MusicOn \union InCall(x))
<1> DEFINE end == MusicOn \union InCall(x)
<1>1. /\ MusicOn \in SUBSET State /\ Hfp \in SUBSET State /\ HfpRate(x) \in SUBSET State
      /\ Lost \in SUBSET State /\ InCall(x) \in SUBSET State /\ Failed \in SUBSET State
      /\ {} \in SUBSET State /\ Failed \subseteq MusicOn /\ end \in SUBSET State
      /\ MusicOn \subseteq end /\ InCall(x) \subseteq end
  BY Assertions, CallAssertions
<1> HIDE DEF end
<1>2. /\ Row([do |-> "SetRunMode", arg |-> "idle"], MusicOn, {}, MusicOn)
      /\ Row([do |-> "SetRenderer", arg |-> "hfp"], MusicOn, MusicOn, Hfp)
      /\ Row([do |-> "SetCallRate", arg |-> x], Hfp, {}, HfpRate(x))
      /\ Row([do |-> "SetRunMode", arg |-> "duplex"], HfpRate(x), Lost, InCall(x))
      /\ Row([do |-> "SetRenderer", arg |-> "mixer"], Lost, {}, Failed)
  BY DEF Row, MusicRow, EnterRow, LostRow
<1>3. /\ Path(Rows, With("SetRunMode", "idle"), MusicOn, {}, MusicOn)
      /\ Path(Rows, With("SetRenderer", "hfp"), MusicOn, MusicOn, Hfp)
      /\ Path(Rows, With("SetCallRate", x), Hfp, {}, HfpRate(x))
      /\ Path(Rows, With("SetRunMode", "duplex"), HfpRate(x), Lost, InCall(x))
      /\ Path(Rows, With("SetRenderer", "mixer"), Lost, {}, Failed)
  BY <1>1, <1>2, WithSteps, WithPath
<1> DEFINE undo == Ignore(With("SetRenderer", "mixer")) \o Ignore(With("SetRunMode", "playback"))
           inner == Try(With("SetRunMode", "duplex"), <<>>, undo)
           ok == With("SetCallRate", x) \o inner
           outer == Try(With("SetRenderer", "hfp"), ok, <<>>)
<1>4. Path(Deep1(Modes, Rows), undo, Lost, {}, end)
  <2>1. Path(Deep1(Modes, Rows), Ignore(With("SetRenderer", "mixer")), Lost, {}, Failed)
    BY <1>1, <1>3, IgnorePath DEF Deep1
  <2>2. Path(Deep1(Modes, Rows), Ignore(With("SetRunMode", "playback")), MusicOn, {}, MusicOn)
    BY PlaybackModePath
  <2>3. Path(Deep1(Modes, Rows), undo, Lost, {}, MusicOn)
    BY <1>1, <2>1, <2>2, ThenPath
  <2> QED BY <1>1, <2>3, WeakenPath
<1>5. Path(Deep2(Modes, Rows), inner, HfpRate(x), {}, end)
  <2> HIDE DEF undo
  <2>1. undo \in Programs(Deep1(Modes, Rows))
    BY <1>1, <1>4, PathSteps
  <2>2. Path(Deep1(Modes, Rows), With("SetRunMode", "duplex"), HfpRate(x), Lost, InCall(x))
    BY <1>3, LiftPath
  <2>3. Path(Deep1(Modes, Rows), <<>>, InCall(x), {}, end)
    BY <1>1, EmptyPath
  <2> QED BY <1>1, <1>4, <2>1, <2>2, <2>3, TryPath DEF Deep2
<1> HIDE DEF inner
<1>6. Path(Deep2(Modes, Rows), ok, Hfp, {}, end)
  <2>1. Path(Deep2(Modes, Rows), With("SetCallRate", x), Hfp, {}, HfpRate(x))
    BY <1>3, LiftPath
  <2> QED BY <1>1, <1>5, <2>1, ThenPath
<1> HIDE DEF ok
<1>7. Path(AnyDepth, outer, MusicOn, {}, end)
  <2>1. Path(Deep2(Modes, Rows), With("SetRenderer", "hfp"), MusicOn, MusicOn, Hfp)
    BY <1>3, LiftPath
  <2>2. Path(Deep2(Modes, Rows), <<>>, MusicOn, {}, end)
    BY <1>1, EmptyPath
  <2>3. <<>> \in Programs(Deep2(Modes, Rows))
    BY <1>1, <2>2, PathSteps
  <2> QED BY <1>1, <1>6, <2>1, <2>2, <2>3, TryPath DEF AnyDepth, Deep3
<1> HIDE DEF outer
<1>8. Path(AnyDepth, With("SetRunMode", "idle"), MusicOn, {}, MusicOn)
  BY <1>3, AnyDepthPath
<1>9. Path(AnyDepth, With("SetRunMode", "idle") \o outer, MusicOn, {}, end)
  BY <1>1, <1>7, <1>8, ThenPath
<1> QED BY <1>9 DEF EnterCall, outer, ok, inner, undo, end

\* What A2DP asks of the mixer, in a call or without one.
AtRest(a) == a = MusicOn \/ \E x \in CallRates : a = InCall(x)

LEMMA SharedPaths ==
    ASSUME NEW a, AtRest(a)
    PROVE  /\ a \in SUBSET State
           /\ \A d \in Shared : \A r : r.do = d => Row(r, a, {}, a)
           /\ Path(AnyDepth, With("Allow", FALSE), a, {}, a)
           /\ Path(AnyDepth, With("WriteFrames", "background"), a, {}, a)
           /\ Path(AnyDepth, SourceStop("background"), a, {}, a)
           /\ Path(AnyDepth, Arm, a, {}, a)
<1>1. a \in SUBSET State /\ {} \in SUBSET State
  BY Assertions, CallAssertions DEF AtRest
<1>2. ASSUME NEW r, r.do \in Shared PROVE Row(r, a, {}, a)
  BY <1>2 DEF AtRest, Row, MusicRow, CallRow
<1>3. ASSUME NEW f \in BOOLEAN PROVE Path(Rows, With("Allow", f), a, {}, a)
  <2>1. Row([do |-> "Allow", arg |-> f], a, {}, a)
    BY <1>2 DEF Shared
  <2> QED BY <1>1, <2>1, WithSteps, WithPath
<1>4. Path(Rows, With("WriteFrames", "background"), a, {}, a)
  <2>1. Row([do |-> "WriteFrames", arg |-> "background"], a, {}, a)
    BY <1>2 DEF Shared
  <2> QED BY <1>1, <2>1, WithSteps, WithPath DEF Sources
<1>5. Row([do |-> "Lock"], a, {}, a) /\ Row([do |-> "Unlock"], a, {}, a)
  BY <1>2 DEF Shared
<1>6. Path(Deep1(Modes, Rows), SourceStop("background"), a, {}, a)
  <2>1. Row([do |-> "Deactivate", arg |-> {"background"}], a, {}, a)
    BY <1>2 DEF Shared
  <2>2. {"background"} \in SUBSET Sources
    BY DEF Sources
  <2>3. Path(Rows, With("Deactivate", {"background"}), a, {}, a)
    BY <1>1, <2>1, <2>2, WithSteps, WithPath
  <2> QED BY <1>1, <1>5, <2>3, LockedPath DEF SourceStop
<1>7. Path(Deep1(Modes, Rows), SourceStart("background"), a, a, a)
  <2>1. Row([do |-> "Activate", arg |-> "background"], a, a, a)
    BY DEF AtRest, Row, MusicRow, CallRow
  <2>2. Path(Rows, With("Activate", "background"), a, a, a)
    BY <1>1, <2>1, WithSteps, WithPath DEF Sources
  <2> QED BY <1>1, <1>5, <2>2, LockedPath DEF SourceStart
<1>8. Path(Deep2(Modes, Rows), Arm, a, {}, a)
  <2>1. /\ Path(Deep1(Modes, Rows), With("Allow", TRUE), a, {}, a)
        /\ Path(Deep1(Modes, Rows), With("Allow", FALSE), a, {}, a)
    BY <1>3, LiftPath
  <2>2. With("Allow", FALSE) \in Programs(Deep1(Modes, Rows))
    BY <1>1, <2>1, PathSteps
  <2> QED BY <1>1, <1>7, <2>1, <2>2, TryPath DEF Arm, Deep2
<1> QED BY <1>1, <1>2, <1>3, <1>4, <1>6, <1>8, AnyDepthPath

----------------------------------------------------------------------------
(* What the steps do.                                                         *)

\* t goes on within b, or its step returns an error within e.
Moves(t, e, b) ==
    \/ Go(t, <<>>) /\ Now' \in b
    \/ Raise(t) /\ Now' \in e
    \/ \E p, a : /\ a \in SUBSET State /\ Go(t, p) /\ Now' \in a
                 /\ Path(AnyDepth, p, a, e, b)

\* The steps that change the codec's paths only.
LEMMA PathsOff ==
    ASSUME NEW r, NEW a, NEW e, NEW b, Row(r, a, e, b), r.do \in {"DacOff", "AdcOff"}
    PROVE  /\ b = a
           /\ \/ a \in {MusicOn, Failed, Quiet, Still, Back, BackSync, Lost}
              \/ \E x \in CallRates : a \in {HfpRate(x), HfpQuiet(x), CallReady(x)}
              \/ r.do = "DacOff" /\ \E x \in CallRates : a = InCall(x)
BY DEF Row, MusicRow, BackRow, EnterRow, CallRow, LostRow, Shared, Stops

LEMMA PathsKeep ==
    ASSUME NEW s \in State, NEW z \in State, z.route = s.route, z.faults = s.faults,
           z.hw.i2s = s.hw.i2s, z.hw.codec = s.hw.codec
    PROVE  /\ \A a \in {MusicOn, Failed, Quiet, Still, Back, BackSync, Lost} : s \in a => z \in a
           /\ \A x \in CallRates :
                /\ \A a \in {HfpRate(x), HfpQuiet(x), CallReady(x)} : s \in a => z \in a
                /\ z.hw.adc = s.hw.adc => \A a \in {CallAdc(x), InCall(x)} : s \in a => z \in a
<1>1. InSync(s) <=> InSync(z)
  BY DEF InSync
<1>2. AtMusicRate(s) <=> AtMusicRate(z)
  BY DEF AtMusicRate
<1>3. Silent(s) <=> Silent(z)
  BY DEF Silent
<1> QED BY <1>1, <1>2, <1>3 DEF AnyTime, Quiet, Still, MusicOn, Failed, Tuned, Back, BackSync,
           Hfp, HfpRate, HfpQuiet, HfpStopped, CallReady, CallAdc, CallFlags, InCall, Lost

LEMMA PathsMove ==
    ASSUME NEW t, NEW a, NEW e, NEW b, Row(Head(todo[t]), a, e, b),
           Now \in a, Now \in State, Now' \in State, DacOff(t) \/ AdcOff(t)
    PROVE  Moves(t, e, b)
<1>1. /\ Go(t, <<>>) /\ UNCHANGED <<route, faults>>
      /\ hw'.i2s = hw.i2s /\ hw'.codec = hw.codec
      /\ Head(todo[t]).do \in {"DacOff", "AdcOff"}
      /\ Head(todo[t]).do = "DacOff" => hw'.adc = hw.adc
  BY DEF DacOff, AdcOff, At, Now, State
<1>2. PICK s \in State : s = Now
  OBVIOUS
<1>3. PICK z \in State : z = Now'
  OBVIOUS
<1>4. /\ z.route = s.route /\ z.faults = s.faults
      /\ z.hw.i2s = s.hw.i2s /\ z.hw.codec = s.hw.codec
      /\ Head(todo[t]).do = "DacOff" => z.hw.adc = s.hw.adc
  BY <1>1, <1>2, <1>3 DEF Now
<1>5. z \in b
  BY <1>1, <1>2, <1>4, PathsOff, PathsKeep
<1> QED BY <1>1, <1>3, <1>5 DEF Moves

LEMMA PathsOn ==
    ASSUME NEW r, NEW a, NEW e, NEW b, Row(r, a, e, b), r.do \in {"DacOn", "AdcOn", "CodecRate"}
    PROVE  \/ a = MusicOn /\ e = MusicOn /\ b = MusicOn /\ r.do = "DacOn"
           \/ \E y \in Rates :
                 a = BackSwitch(y) /\ e = Slip("mixer", y) /\ b = BackSync /\ r.do = "CodecRate"
           \/ \E x \in CallRates :
                 \/ \E y \in Rates : /\ a = CallSwitch(x, y) /\ e = Slip("hfp", y)
                                     /\ b = CallReady(x) /\ r.do = "CodecRate"
                 \/ a = CallReady(x) /\ e = Lost /\ b = CallReady(x) /\ r.do = "DacOn"
                 \/ a = CallReady(x) /\ e = Lost /\ b = CallAdc(x) /\ r.do = "AdcOn"
BY DEF Row, MusicRow, BackRow, EnterRow, CallRow, LostRow, Shared, Stops

\* A failure of the codec.
LEMMA FailureKeeps ==
    ASSUME NEW s \in State, NEW z \in State, z.route = s.route, z.hw = s.hw,
           z.faults = s.faults + 1
    PROVE  /\ s \in MusicOn => z \in MusicOn
           /\ \A y \in Rates : s \in BackSwitch(y) => z \in Slip("mixer", y)
           /\ \A x \in CallRates : /\ s \in CallReady(x) => z \in Lost
                                   /\ \A y \in Rates : s \in CallSwitch(x, y) => z \in Slip("hfp", y)
<1>1. z.faults # 0 /\ z.faults > 0
  BY DEF State
<1>2. InSync(s) => InSync(z)
  BY <1>1 DEF InSync
<1>3. AtMusicRate(s) => AtMusicRate(z)
  BY <1>1 DEF AtMusicRate
<1>4. Silent(s) <=> Silent(z)
  BY DEF Silent
<1>5. s \in MusicOn => z \in MusicOn
  BY <1>2, <1>3 DEF AnyTime, MusicOn
<1>6. ASSUME NEW y \in Rates, s \in BackSwitch(y) PROVE z \in Slip("mixer", y)
  BY <1>1, <1>4, <1>6 DEF BackSwitch, Slip
<1>7. ASSUME NEW x \in CallRates, s \in CallReady(x) PROVE z \in Lost
  BY <1>1, <1>2, <1>4, <1>7 DEF AnyTime, Still, CallReady, Lost
<1>8. ASSUME NEW x \in CallRates, NEW y \in Rates, s \in CallSwitch(x, y)
      PROVE  z \in Slip("hfp", y)
  BY <1>1, <1>4, <1>8 DEF CallSwitch, Slip
<1> QED BY <1>5, <1>6, <1>7, <1>8

\* The codec takes the rate that is noted.
LEMMA CodecFollows ==
    ASSUME NEW s \in State, NEW z \in State, z.route = s.route, z.faults = s.faults,
           z.hw.i2s = s.hw.i2s, z.hw.codec = s.route.rate, NEW y \in Rates
    PROVE  /\ s \in BackSwitch(y) => z \in BackSync
           /\ \A x \in CallRates : s \in CallSwitch(x, y) => z \in CallReady(x)
<1>1. Silent(s) <=> Silent(z)
  BY DEF Silent
<1>2. s \in BackSwitch(y) => z \in BackSync
  BY <1>1 DEF BackSwitch, BackSync, Tuned, MusicOn, AnyTime, InSync, AtMusicRate, Silent
<1>3. ASSUME NEW x \in CallRates, s \in CallSwitch(x, y) PROVE z \in CallReady(x)
  BY <1>1, <1>3 DEF CallSwitch, CallReady, Still, AnyTime, InSync
<1> QED BY <1>2, <1>3

LEMMA CodecMoves ==
    ASSUME NEW t, NEW a, NEW e, NEW b, Row(Head(todo[t]), a, e, b),
           Now \in a, Now \in State, Now' \in State, DacOn(t) \/ AdcOn(t) \/ CodecRate(t)
    PROVE  Moves(t, e, b)
<1>1. Head(todo[t]).do \in {"DacOn", "AdcOn", "CodecRate"}
  BY DEF DacOn, AdcOn, CodecRate, At
<1>2. PICK s \in State : s = Now
  OBVIOUS
<1>3. PICK z \in State : z = Now'
  OBVIOUS
<1>4. CASE CodecFails(t)
  <2>1. Raise(t) /\ z.route = s.route /\ z.hw = s.hw /\ z.faults = s.faults + 1
    BY <1>2, <1>3, <1>4 DEF CodecFails, Now
  <2>2. z \in e
    BY <1>1, <1>2, <2>1, PathsOn, FailureKeeps
  <2> QED BY <1>3, <2>1, <2>2 DEF Moves
<1>5. CASE ~CodecFails(t)
  <2>1. /\ Go(t, <<>>) /\ z.route = s.route /\ z.faults = s.faults /\ z.hw.i2s = s.hw.i2s
        /\ Head(todo[t]).do # "CodecRate" => z.hw.codec = s.hw.codec
        /\ Head(todo[t]).do = "CodecRate" => z.hw.codec = s.route.rate
        /\ Head(todo[t]).do = "AdcOn" => z.hw.adc
    BY <1>2, <1>3, <1>5 DEF DacOn, AdcOn, CodecRate, Now, State, At
  <2>2. CASE Head(todo[t]).do = "CodecRate"
    <3>1. z \in b
      BY <1>2, <2>1, <2>2, PathsOn, CodecFollows
    <3> QED BY <1>3, <2>1, <3>1 DEF Moves
  <2>3. CASE Head(todo[t]).do # "CodecRate"
    <3>1. z \in a
      BY <1>1, <1>2, <2>1, <2>3, PathsOn, PathsKeep
    <3>2. z \in b
      BY <1>1, <2>1, <2>3, <3>1, PathsOn DEF CallAdc
    <3> QED BY <1>3, <2>1, <3>2 DEF Moves
  <2> QED BY <2>2, <2>3
<1> QED BY <1>4, <1>5

\* The steps that change flags and the DMA only, and start nothing.
LEMMA RouteKeeps ==
    ASSUME NEW s \in State, NEW z \in State, z.hw = s.hw, z.faults = s.faults,
           z.route.rate = s.route.rate, z.route.renderer = s.route.renderer,
           z.route.callRate = s.route.callRate,
           z.route.playing => s.route.playing, z.route.capturing => s.route.capturing
    PROVE  /\ \A a \in {AnyTime, Quiet, Still, MusicOn, Failed, Back, Lost} : s \in a => z \in a
           /\ s \in AnyTime /\ ~z.route.playing => z \in Quiet
           /\ s \in AnyTime /\ ~z.route.playing /\ ~z.route.capturing => z \in Still
           /\ \A x \in CallRates :
                /\ s \in HfpRate(x) => z \in HfpRate(x)
                /\ s \in HfpRate(x) /\ z.route.dma # "playback" => z \in HfpQuiet(x)
                /\ s \in HfpRate(x) /\ z.route.dma = "stopped" => z \in HfpStopped(x)
                /\ s \in CallReady(x) /\ z.route.dma = "stopped" => z \in CallReady(x)
                /\ (s \in InCall(x) /\ z.route.dma = "duplex" /\ z.route.capturing
                     /\ ~z.route.pending) => z \in InCall(x)
<1>1. InSync(s) <=> InSync(z)
  BY DEF InSync
<1>2. AtMusicRate(s) => AtMusicRate(z)
  BY DEF AtMusicRate
<1>3. Silent(s) => Silent(z)
  BY DEF Silent
<1>4. \A a \in {AnyTime, Quiet, Still, MusicOn, Failed, Back, Lost} : s \in a => z \in a
  BY <1>1, <1>2, <1>3 DEF AnyTime, Quiet, Still, MusicOn, Failed, Back, Lost
<1>5. /\ s \in AnyTime /\ ~z.route.playing => z \in Quiet
      /\ s \in AnyTime /\ ~z.route.playing /\ ~z.route.capturing => z \in Still
  BY <1>1 DEF AnyTime, Quiet, Still, Silent
<1>6. ASSUME NEW x \in CallRates
      PROVE  /\ s \in HfpRate(x) => z \in HfpRate(x)
             /\ s \in HfpRate(x) /\ z.route.dma # "playback" => z \in HfpQuiet(x)
             /\ s \in HfpRate(x) /\ z.route.dma = "stopped" => z \in HfpStopped(x)
             /\ s \in CallReady(x) /\ z.route.dma = "stopped" => z \in CallReady(x)
             /\ (s \in InCall(x) /\ z.route.dma = "duplex" /\ z.route.capturing
                  /\ ~z.route.pending) => z \in InCall(x)
  BY <1>1, <1>2, <1>3 DEF AnyTime, Still, Hfp, HfpRate, HfpQuiet, HfpStopped, CallReady, InCall
<1> QED BY <1>4, <1>5, <1>6

LEMMA InCallKeeps ==
    ASSUME NEW x \in CallRates, NEW s \in InCall(x), NEW z \in State, z.hw = s.hw,
           z.faults = s.faults, z.route.rate = s.route.rate,
           z.route.renderer = s.route.renderer, z.route.dma = "duplex",
           z.route.capturing, ~z.route.pending
    PROVE  z \in InCall(x)
BY DEF InCall, AnyTime, InSync

LEMMA StopRows ==
    ASSUME NEW r, NEW a, NEW e, NEW b, Row(r, a, e, b)
    PROVE  /\ r.do = "PlayingOff" =>
                \/ b = a /\ a \in {MusicOn, Back}
                \/ a = AnyTime /\ b = Quiet
                \/ \E x \in CallRates : b = a /\ a \in {HfpRate(x), InCall(x)}
           /\ r.do = "PlaybackDmaOff" =>
                \/ b = a /\ a \in {MusicOn, Back, Quiet}
                \/ \E x \in CallRates : \/ a = HfpRate(x) /\ b = HfpQuiet(x)
                                        \/ a = InCall(x) /\ b = a
           /\ r.do = "CapturingOff" =>
                \/ b = a /\ a \in {MusicOn, Back}
                \/ a = Quiet /\ b = Still
                \/ \E x \in CallRates : b = a /\ a = HfpQuiet(x)
           /\ r.do = "DuplexDmaOff" =>
                \/ b = a /\ a \in {MusicOn, Back, Still}
                \/ \E x \in CallRates : a = HfpQuiet(x) /\ b = HfpStopped(x)
BY DEF Row, MusicRow, BackRow, EnterRow, CallRow, LostRow, Shared, Stops

\* What the assertions say of the flags.
LEMMA AssertionsSay ==
    ASSUME NEW s \in State
    PROVE  /\ s \in Quiet => s \in AnyTime /\ ~s.route.playing
           /\ \A a \in {Still, Back, Hfp, Lost} :
                 s \in a => s \in AnyTime /\ ~s.route.playing /\ ~s.route.capturing
           /\ s \in BackSync => /\ s \in MusicOn /\ ~s.route.playing /\ ~s.route.capturing
                               /\ s.route.dma = "stopped"
           /\ s \in Tuned => s \in MusicOn /\ s.route.rate = MusicRate
           /\ s \in MusicOn => ~s.route.capturing
BY DEF AnyTime, Quiet, Still, Silent, MusicOn, Tuned, Back, BackSync, Hfp, Lost

LEMMA CallAssertionsSay ==
    ASSUME NEW s \in State, NEW x \in CallRates
    PROVE  /\ \A a \in {HfpRate(x), HfpQuiet(x), HfpStopped(x), CallReady(x), CallAdc(x)} :
                 s \in a => ~s.route.playing /\ ~s.route.capturing
           /\ s \in HfpQuiet(x) => s \in HfpRate(x) /\ s.route.dma # "playback"
           /\ s \in CallReady(x) => s.route.dma = "stopped"
           /\ s \in CallFlags(x) => s.route.dma = "stopped"
           /\ s \in InCall(x) => s.route.dma = "duplex" /\ s.route.capturing /\ ~s.route.pending
<1>1. s \in Hfp => ~s.route.playing /\ ~s.route.capturing
  BY AssertionsSay
<1>2. s \in Still => ~s.route.playing /\ ~s.route.capturing
  BY AssertionsSay
<1>3. s \in HfpRate(x) => ~s.route.playing /\ ~s.route.capturing
  BY <1>1 DEF HfpRate
<1>4. s \in CallReady(x) => ~s.route.playing /\ ~s.route.capturing /\ s.route.dma = "stopped"
  BY <1>2 DEF CallReady
<1>5. /\ s \in HfpQuiet(x) => s \in HfpRate(x) /\ s.route.dma # "playback"
      /\ s \in HfpStopped(x) => s \in HfpRate(x)
      /\ s \in CallAdc(x) => s \in CallReady(x)
  BY DEF HfpQuiet, HfpStopped, CallAdc
<1>6. /\ s \in CallFlags(x) => s.route.dma = "stopped"
      /\ s \in InCall(x) => s.route.dma = "duplex" /\ s.route.capturing /\ ~s.route.pending
  BY DEF CallFlags, InCall
<1> QED BY <1>3, <1>4, <1>5, <1>6

LEMMA StopMoves ==
    ASSUME NEW t, NEW a, NEW e, NEW b, Row(Head(todo[t]), a, e, b),
           Now \in a, Now \in State, Now' \in State,
           PlayingOff(t) \/ PlaybackDmaOff(t) \/ CapturingOff(t) \/ DuplexDmaOff(t)
    PROVE  Moves(t, e, b)
<1>1. PICK s \in State : s = Now
  OBVIOUS
<1>2. PICK z \in State : z = Now'
  OBVIOUS
<1> DEFINE r == Head(todo[t])
<1>3. /\ Go(t, <<>>) /\ r.do \in {"PlayingOff", "PlaybackDmaOff", "CapturingOff", "DuplexDmaOff"}
      /\ z.hw = s.hw /\ z.faults = s.faults
      /\ z.route = CASE r.do = "PlayingOff" ->
                          [s.route EXCEPT !.playing = FALSE, !.pending = FALSE]
                     [] r.do = "PlaybackDmaOff" ->
                          [s.route EXCEPT !.dma = IF @ = "playback" THEN "stopped" ELSE @]
                     [] r.do = "CapturingOff" -> [s.route EXCEPT !.capturing = FALSE]
                     [] r.do = "DuplexDmaOff" ->
                          [s.route EXCEPT !.dma = IF @ = "duplex" /\ ~s.route.playing
                                                  THEN "stopped" ELSE @]
  BY <1>1, <1>2 DEF PlayingOff, PlaybackDmaOff, CapturingOff, DuplexDmaOff, At, Set, Now
<1>4. s.route \in [dma : {"stopped", "playback", "duplex"}, playing : BOOLEAN,
                   capturing : BOOLEAN, pending : BOOLEAN, rate : Rates,
                   callRate : Rates, renderer : {"mixer", "hfp"}]
  BY DEF State
<1> HIDE DEF r
<1>5. /\ z.route.rate = s.route.rate /\ z.route.renderer = s.route.renderer
      /\ z.route.callRate = s.route.callRate
      /\ (z.route.playing => s.route.playing) /\ (z.route.capturing => s.route.capturing)
      /\ r.do = "PlayingOff" => /\ ~z.route.playing /\ ~z.route.pending
                                /\ z.route.dma = s.route.dma
                                /\ z.route.capturing = s.route.capturing
      /\ r.do = "PlaybackDmaOff" => /\ z.route.dma # "playback"
                                    /\ s.route.dma = "duplex" => z.route.dma = "duplex"
                                    /\ z.route.pending = s.route.pending
                                    /\ z.route.capturing = s.route.capturing
      /\ r.do = "CapturingOff" => ~z.route.capturing /\ z.route.dma = s.route.dma
      /\ (r.do = "DuplexDmaOff" /\ ~s.route.playing /\ s.route.dma # "playback")
           => z.route.dma = "stopped"
  BY <1>3, <1>4
<1>6. z \in b
  <2>1. s \in a /\ Row(r, a, e, b)
    BY <1>1 DEF r
  <2>2. CASE r.do = "PlayingOff"
    <3>1. \/ b = a /\ a \in {MusicOn, Back}
          \/ a = AnyTime /\ b = Quiet
          \/ \E x \in CallRates : b = a /\ a \in {HfpRate(x), InCall(x)}
      BY <2>1, <2>2, StopRows
    <3>2. CASE b = a /\ a \in {MusicOn, Back}
      BY <1>3, <1>5, <2>1, <3>2, RouteKeeps
    <3>3. CASE a = AnyTime /\ b = Quiet
      BY <1>3, <1>5, <2>1, <2>2, <3>3, RouteKeeps
    <3>4. ASSUME NEW x \in CallRates, b = a, a \in {HfpRate(x), InCall(x)} PROVE z \in b
      <4>1. CASE a = HfpRate(x)
        BY <1>3, <1>5, <2>1, <3>4, <4>1, RouteKeeps
      <4>2. CASE a = InCall(x)
        <5>1. s.route.dma = "duplex" /\ s.route.capturing
          BY <2>1, <4>2, CallAssertionsSay
        <5>2. z.route.dma = "duplex" /\ z.route.capturing /\ ~z.route.pending
          BY <1>5, <2>2, <5>1
        <5> QED BY <1>3, <1>5, <2>1, <3>4, <4>2, <5>2, InCallKeeps
      <4> QED BY <3>4, <4>1, <4>2
    <3> QED BY <3>1, <3>2, <3>3, <3>4
  <2>3. CASE r.do = "PlaybackDmaOff"
    <3>1. \/ b = a /\ a \in {MusicOn, Back, Quiet}
          \/ \E x \in CallRates : \/ a = HfpRate(x) /\ b = HfpQuiet(x)
                                  \/ a = InCall(x) /\ b = a
      BY <2>1, <2>3, StopRows
    <3> QED BY <1>3, <1>5, <2>1, <2>3, <3>1, RouteKeeps, AssertionsSay, CallAssertionsSay
  <2>4. CASE r.do = "CapturingOff"
    <3>1. \/ b = a /\ a \in {MusicOn, Back}
          \/ a = Quiet /\ b = Still
          \/ \E x \in CallRates : b = a /\ a = HfpQuiet(x)
      BY <2>1, <2>4, StopRows
    <3> QED BY <1>3, <1>5, <2>1, <2>4, <3>1, RouteKeeps, AssertionsSay, CallAssertionsSay
  <2>5. CASE r.do = "DuplexDmaOff"
    <3>1. \/ b = a /\ a \in {MusicOn, Back, Still}
          \/ \E x \in CallRates : a = HfpQuiet(x) /\ b = HfpStopped(x)
      BY <2>1, <2>5, StopRows
    <3> QED BY <1>3, <1>5, <2>1, <2>5, <3>1, RouteKeeps, AssertionsSay, CallAssertionsSay
  <2> QED BY <1>3, <2>2, <2>3, <2>4, <2>5
<1> QED BY <1>2, <1>3, <1>6 DEF Moves

LEMMA FlagRows ==
    ASSUME NEW r, NEW a, NEW e, NEW b, Row(r, a, e, b)
    PROVE  /\ r.do \notin {"CapturingOn", "DmaOff", "StartCapture"}
           /\ r.do = "CallCheck" => \E x \in CallRates : a = CallReady(x) /\ b = a
           /\ r.do = "CallFlagsOn" => \E x \in CallRates : a = CallAdc(x) /\ b = CallFlags(x)
           /\ r.do = "DuplexDmaOn" => \E x \in CallRates : a = CallFlags(x) /\ b = InCall(x)
           /\ r.do = "CallFlagsOff" => a = Lost /\ b = Lost
           /\ r.do = "PlaybackDmaOn" => a = MusicOn /\ b = MusicOn /\ e = MusicOn
           /\ r.do = "RateBack" =>
                \E y \in Rates : /\ r.arg = y
                                 /\ \/ a = Slip("mixer", y) /\ b = Failed
                                    \/ a = Slip("hfp", y) /\ b = Lost
           /\ r.do = "SetCallRate" => \E x \in CallRates : a = Hfp /\ b = HfpRate(x) /\ r.arg = x
           /\ r.do = "SetRenderer" =>
                \/ a = Still /\ b = Back /\ r.arg = "mixer"
                \/ a = Lost /\ b = Failed /\ r.arg = "mixer"
                \/ a = MusicOn /\ e = MusicOn /\ b = Hfp /\ r.arg = "hfp"
BY DEF Row, MusicRow, BackRow, EnterRow, CallRow, LostRow, Shared, Stops

LEMMA RouteIs ==
    ASSUME NEW s \in State
    PROVE  s.route \in [dma : {"stopped", "playback", "duplex"}, playing : BOOLEAN,
                        capturing : BOOLEAN, pending : BOOLEAN, rate : Rates,
                        callRate : Rates, renderer : {"mixer", "hfp"}]
BY DEF State

LEMMA SlipBack ==
    ASSUME NEW s \in State, NEW z \in State, NEW y \in Rates, z.hw = s.hw,
           z.faults = s.faults, z.route = [s.route EXCEPT !.rate = y]
    PROVE  /\ s \in Slip("mixer", y) => z \in Failed
           /\ s \in Slip("hfp", y) => z \in Lost
<1>1. /\ z.route.playing = s.route.playing /\ z.route.capturing = s.route.capturing
      /\ z.route.renderer = s.route.renderer /\ z.route.rate = y
  BY RouteIs
<1>2. ASSUME s.faults > 0, s.hw.codec = y PROVE InSync(z)
  BY <1>1, <1>2 DEF State, InSync
<1>3. ASSUME s.faults > 0, Silent(s) PROVE AtMusicRate(z) /\ Silent(z)
  BY <1>1, <1>3 DEF State, AtMusicRate, Silent
<1> QED BY <1>1, <1>2, <1>3 DEF Slip, Failed, Lost, MusicOn, Still, AnyTime, Silent

LEMMA CallFlagsMove ==
    ASSUME NEW t, NEW a, NEW e, NEW b, Row(Head(todo[t]), a, e, b),
           Now \in a, Now \in State, Now' \in State,
           CallCheck(t) \/ CallFlagsOn(t) \/ DuplexDmaOn(t)
    PROVE  Moves(t, e, b)
<1>1. PICK s \in State : s = Now
  OBVIOUS
<1>2. PICK z \in State : z = Now'
  OBVIOUS
<1>3. s \in a /\ route = s.route /\ route' = z.route /\ hw' = z.hw /\ hw = s.hw
      /\ faults = s.faults /\ faults' = z.faults
  BY <1>1, <1>2 DEF Now
<1>4. CASE CallCheck(t)
  <2>1. PICK x \in CallRates : a = CallReady(x) /\ b = a
    BY <1>4, FlagRows DEF CallCheck, At
  <2>2. ~s.route.playing /\ ~s.route.capturing /\ s.route.dma = "stopped"
    BY <1>3, <2>1, CallAssertionsSay
  <2>3. /\ Go(t, <<>>) /\ z.hw = s.hw /\ z.faults = s.faults
        /\ z.route = [s.route EXCEPT !.pending = FALSE]
    BY <1>3, <1>4, <2>2 DEF CallCheck, Set
  <2>4. z \in CallReady(x)
    BY <1>3, <2>1, <2>2, <2>3, RouteIs, RouteKeeps
  <2> QED BY <1>2, <2>1, <2>3, <2>4 DEF Moves
<1>5. CASE CallFlagsOn(t)
  <2>1. PICK x \in CallRates : a = CallAdc(x) /\ b = CallFlags(x)
    BY <1>5, FlagRows DEF CallFlagsOn, At
  <2>2. /\ Go(t, <<>>) /\ z.hw = s.hw /\ z.faults = s.faults
        /\ z.route = [s.route EXCEPT !.playing = TRUE, !.capturing = TRUE, !.pending = FALSE]
    BY <1>3, <1>5 DEF CallFlagsOn, Set
  <2>3. z \in CallFlags(x)
    BY <1>3, <2>1, <2>2, RouteIs DEF CallAdc, CallReady, CallFlags, Still, AnyTime, InSync
  <2> QED BY <1>2, <2>1, <2>2, <2>3 DEF Moves
<1>6. CASE DuplexDmaOn(t)
  <2>1. PICK x \in CallRates : a = CallFlags(x) /\ b = InCall(x)
    BY <1>6, FlagRows DEF DuplexDmaOn, DmaOn, At
  <2>2. s.route.dma = "stopped"
    BY <1>3, <2>1, CallAssertionsSay
  <2>3. /\ Go(t, <<>>) /\ z.hw = s.hw /\ z.faults = s.faults
        /\ z.route = [s.route EXCEPT !.dma = "duplex"]
    BY <1>3, <1>6, <2>2 DEF DuplexDmaOn, DmaOn, Set
  <2>4. z \in InCall(x)
    BY <1>3, <2>1, <2>3, RouteIs DEF CallFlags, InCall, AnyTime, InSync
  <2> QED BY <1>2, <2>1, <2>3, <2>4 DEF Moves
<1> QED BY <1>4, <1>5, <1>6

LEMMA FlagsMove ==
    ASSUME NEW t, NEW a, NEW e, NEW b, Row(Head(todo[t]), a, e, b),
           Now \in a, Now \in State, Now' \in State,
           CallFlagsOff(t) \/ PlaybackDmaOn(t) \/ RateBack(t)
    PROVE  Moves(t, e, b)
<1>1. PICK s \in State : s = Now
  OBVIOUS
<1>2. PICK z \in State : z = Now'
  OBVIOUS
<1>3. s \in a /\ route = s.route /\ route' = z.route /\ hw' = z.hw /\ hw = s.hw
      /\ faults = s.faults /\ faults' = z.faults
  BY <1>1, <1>2 DEF Now
<1>4. CASE CallFlagsOff(t)
  <2>1. a = Lost /\ b = Lost
    BY <1>4, FlagRows DEF CallFlagsOff, At
  <2>2. /\ Go(t, <<>>) /\ z.hw = s.hw /\ z.faults = s.faults
        /\ z.route = [s.route EXCEPT !.playing = FALSE, !.capturing = FALSE, !.pending = FALSE]
    BY <1>3, <1>4 DEF CallFlagsOff, Set
  <2>3. z \in Lost
    BY <1>3, <2>1, <2>2, RouteIs, RouteKeeps
  <2> QED BY <1>2, <2>1, <2>2, <2>3 DEF Moves
<1>5. CASE PlaybackDmaOn(t)
  <2>1. a = MusicOn /\ b = MusicOn /\ e = MusicOn
    BY <1>5, FlagRows DEF PlaybackDmaOn, DmaOn, At
  <2>2. \/ Raise(t) /\ z.route = s.route /\ z.hw = s.hw /\ z.faults = s.faults
        \/ /\ Go(t, <<>>) /\ z.hw = s.hw /\ z.faults = s.faults
           /\ z.route = [s.route EXCEPT !.dma = "playback"]
    BY <1>3, <1>5 DEF PlaybackDmaOn, DmaOn, Set, Refuse, coreVars
  <2>3. z \in MusicOn
    BY <1>3, <2>1, <2>2, RouteIs, RouteKeeps
  <2> QED BY <1>2, <2>1, <2>2, <2>3 DEF Moves
<1>6. CASE RateBack(t)
  <2>1. PICK y \in Rates : /\ Arg(t) = y
                          /\ \/ a = Slip("mixer", y) /\ b = Failed
                             \/ a = Slip("hfp", y) /\ b = Lost
    BY <1>6, FlagRows DEF RateBack, At, Arg
  <2>2. /\ Go(t, <<>>) /\ z.hw = s.hw /\ z.faults = s.faults
        /\ z.route = [s.route EXCEPT !.rate = y]
    BY <1>3, <1>6, <2>1 DEF RateBack, Set
  <2>3. z \in b
    BY <1>3, <2>1, <2>2, SlipBack
  <2> QED BY <1>2, <2>2, <2>3 DEF Moves
<1> QED BY <1>4, <1>5, <1>6

\* The renderer and the call's rate.
LEMMA OwnersMove ==
    ASSUME NEW t, NEW a, NEW e, NEW b, Row(Head(todo[t]), a, e, b),
           Now \in a, Now \in State, Now' \in State, SetRenderer(t) \/ SetCallRate(t)
    PROVE  Moves(t, e, b)
<1>1. PICK s \in State : s = Now
  OBVIOUS
<1>2. PICK z \in State : z = Now'
  OBVIOUS
<1>3. s \in a /\ route = s.route /\ route' = z.route /\ hw' = z.hw /\ hw = s.hw
      /\ faults = s.faults /\ faults' = z.faults
  BY <1>1, <1>2 DEF Now
<1>4. CASE SetCallRate(t)
  <2>1. PICK x \in CallRates : a = Hfp /\ b = HfpRate(x) /\ Arg(t) = x
    BY <1>4, FlagRows DEF SetCallRate, At, Arg
  <2>2. /\ Go(t, <<>>) /\ z.hw = s.hw /\ z.faults = s.faults
        /\ z.route = [s.route EXCEPT !.callRate = x]
    BY <1>3, <1>4, <2>1 DEF SetCallRate, Set
  <2>3. z \in HfpRate(x)
    BY <1>3, <2>1, <2>2, RouteIs
       DEF Hfp, HfpRate, Still, AnyTime, InSync, AtMusicRate, Silent
  <2> QED BY <1>2, <2>1, <2>2, <2>3 DEF Moves
<1>5. CASE SetRenderer(t)
  <2>1. \/ a = Still /\ b = Back /\ Arg(t) = "mixer"
        \/ a = Lost /\ b = Failed /\ Arg(t) = "mixer"
        \/ a = MusicOn /\ e = MusicOn /\ b = Hfp /\ Arg(t) = "hfp"
    BY <1>5, FlagRows DEF SetRenderer, At, Arg
  <2>2. CASE ~s.route.playing
    <3>1. /\ Go(t, <<>>) /\ z.hw = s.hw /\ z.faults = s.faults
          /\ z.route = [s.route EXCEPT !.renderer = Arg(t)]
      BY <1>3, <1>5, <2>2 DEF SetRenderer, Set
    <3>2. /\ z.route.playing = s.route.playing /\ z.route.capturing = s.route.capturing
          /\ z.route.renderer = Arg(t) /\ z.route.rate = s.route.rate
      BY <3>1, RouteIs
    <3>3. z \in b
      <4>1. CASE a = Still /\ b = Back /\ Arg(t) = "mixer"
        BY <1>3, <3>1, <3>2, <4>1 DEF Still, Back, AnyTime, InSync, Silent
      <4>2. CASE a = Lost /\ b = Failed /\ Arg(t) = "mixer"
        BY <1>3, <3>1, <3>2, <4>2
           DEF Still, Lost, Failed, MusicOn, AnyTime, InSync, AtMusicRate, Silent, State
      <4>3. CASE a = MusicOn /\ e = MusicOn /\ b = Hfp /\ Arg(t) = "hfp"
        BY <1>3, <2>2, <3>1, <3>2, <4>3
           DEF Still, Hfp, MusicOn, AnyTime, InSync, AtMusicRate, Silent
      <4> QED BY <2>1, <4>1, <4>2, <4>3
    <3> QED BY <1>2, <3>1, <3>3 DEF Moves
  <2>3. CASE s.route.playing
    <3>1. a = MusicOn /\ e = MusicOn
      BY <1>3, <2>1, <2>3, AssertionsSay
    <3>2. Raise(t) /\ z.route = s.route /\ z.hw = s.hw /\ z.faults = s.faults
      BY <1>3, <1>5, <2>3 DEF SetRenderer, Refuse, coreVars
    <3>3. z \in MusicOn
      BY <1>3, <3>1, <3>2, RouteKeeps
    <3> QED BY <1>2, <3>1, <3>2, <3>3 DEF Moves
  <2> QED BY <2>2, <2>3
<1> QED BY <1>4, <1>5

----------------------------------------------------------------------------
(* Steps that go on with a program.                                           *)

LEMMA RatePaths ==
    ASSUME NEW rate \in Rates, NEW dma \in {"stopped", "playback", "duplex"}, NEW p,
           p = Try(Do("CodecRate") \o Do("SyncDac") \o Do("SyncAdc") \o With("RestartDma", dma),
                   <<>>, With("RateBack", rate) \o Do("Fail"))
    PROVE  /\ Path(AnyDepth, p, BackSwitch(rate), Failed, BackSync)
           /\ \A x \in CallRates : Path(AnyDepth, p, CallSwitch(x, rate), Lost, CallReady(x))
<1>1. Path(Deep1(Modes, Rows), p, BackSwitch(rate), Failed, BackSync)
  <2>1. /\ Row([do |-> "CodecRate"], BackSwitch(rate), Slip("mixer", rate), BackSync)
        /\ Row([do |-> "SyncDac"], BackSync, {}, BackSync)
        /\ Row([do |-> "SyncAdc"], BackSync, {}, BackSync)
        /\ Row([do |-> "RestartDma", arg |-> dma], BackSync, {}, BackSync)
        /\ Row([do |-> "RateBack", arg |-> rate], Slip("mixer", rate), {}, Failed)
    BY DEF Row, BackRow
  <2>2. /\ BackSwitch(rate) \in SUBSET State /\ Slip("mixer", rate) \in SUBSET State
        /\ BackSync \in SUBSET State /\ Failed \in SUBSET State
    BY Assertions
  <2> QED BY <2>1, <2>2, RatePath
<1>2. ASSUME NEW x \in CallRates
      PROVE  Path(Deep1(Modes, Rows), p, CallSwitch(x, rate), Lost, CallReady(x))
  <2>1. /\ Row([do |-> "CodecRate"], CallSwitch(x, rate), Slip("hfp", rate), CallReady(x))
        /\ Row([do |-> "SyncDac"], CallReady(x), {}, CallReady(x))
        /\ Row([do |-> "SyncAdc"], CallReady(x), {}, CallReady(x))
        /\ Row([do |-> "RestartDma", arg |-> dma], CallReady(x), {}, CallReady(x))
        /\ Row([do |-> "RateBack", arg |-> rate], Slip("hfp", rate), {}, Lost)
    BY DEF Row, EnterRow, LostRow
  <2>2. /\ Lost \in SUBSET State /\ CallSwitch(x, rate) \in SUBSET State
        /\ CallReady(x) \in SUBSET State /\ Slip("hfp", rate) \in SUBSET State
    BY Assertions, CallAssertions
  <2> QED BY <2>1, <2>2, RatePath
<1> QED BY <1>1, <1>2, AnyDepthPath

LEMMA RateRows ==
    ASSUME NEW r, NEW a, NEW e, NEW b, Row(r, a, e, b)
    PROVE  /\ r.do = "Reconfigure" =>
                \/ a \in {MusicOn, Back} /\ e = Failed /\ b = Tuned /\ r.arg = MusicRate
                \/ \E x \in CallRates : /\ a = HfpStopped(x) /\ e = Lost /\ b = CallReady(x)
                                        /\ r.arg = x
           /\ r.do \in {"SyncDac", "SyncAdc", "RestartDma"} =>
                \/ a = BackSync /\ e = {} /\ b = BackSync
                \/ \E x \in CallRates : a = CallReady(x) /\ e = {} /\ b = CallReady(x)
BY DEF Row, MusicRow, BackRow, EnterRow, CallRow, LostRow, Shared, Stops

\* The rate that is noted changes, and the I2S clock with it.
LEMMA ClockChanges ==
    ASSUME NEW s \in State, NEW z \in State, NEW y \in Rates, s.route.rate # y,
           z.route = [s.route EXCEPT !.rate = y, !.dma = "stopped"],
           z.hw.i2s = y, z.hw.codec = s.hw.codec, z.faults = s.faults
    PROVE  /\ s \in MusicOn \union Back /\ y = MusicRate => z \in BackSwitch(s.route.rate)
           /\ \A x \in CallRates :
                 s \in HfpStopped(x) /\ y = x => z \in CallSwitch(x, s.route.rate)
<1>1. /\ z.route.playing = s.route.playing /\ z.route.capturing = s.route.capturing
      /\ z.route.renderer = s.route.renderer /\ z.route.rate = y /\ z.route.dma = "stopped"
  BY RouteIs
<1>2. ASSUME s \in MusicOn, y = MusicRate PROVE z \in BackSwitch(s.route.rate)
  <2>1. ~s.route.playing /\ ~s.route.capturing /\ s.hw.codec = s.route.rate
    BY <1>2 DEF MusicOn, AtMusicRate, AnyTime, InSync
  <2> QED BY <1>1, <1>2, <2>1 DEF MusicOn, BackSwitch, Silent
<1>3. ASSUME s \in Back, y = MusicRate PROVE z \in BackSwitch(s.route.rate)
  BY <1>1, <1>3 DEF Back, Still, AnyTime, InSync, Silent, BackSwitch
<1>4. ASSUME NEW x \in CallRates, s \in HfpStopped(x), y = x
      PROVE  z \in CallSwitch(x, s.route.rate)
  BY <1>1, <1>4 DEF HfpStopped, HfpRate, Hfp, Still, AnyTime, InSync, Silent, CallSwitch
<1> QED BY <1>2, <1>3, <1>4

LEMMA ReconfigureMoves ==
    ASSUME NEW t, NEW a, NEW e, NEW b, Row(Head(todo[t]), a, e, b),
           Now \in a, Now \in State, Now' \in State, Reconfigure(t)
    PROVE  Moves(t, e, b)
<1>1. PICK s \in State : s = Now
  OBVIOUS
<1>2. PICK z \in State : z = Now'
  OBVIOUS
<1>3. s \in a /\ route = s.route /\ route' = z.route /\ hw' = z.hw /\ hw = s.hw
      /\ faults = s.faults /\ faults' = z.faults
  BY <1>1, <1>2 DEF Now
<1>4. PICK y : y = Arg(t)
  OBVIOUS
<1>5. \/ a \in {MusicOn, Back} /\ e = Failed /\ b = Tuned /\ y = MusicRate
      \/ \E x \in CallRates : a = HfpStopped(x) /\ e = Lost /\ b = CallReady(x) /\ y = x
  BY <1>4, RateRows DEF Reconfigure, At, Arg
<1>6. y \in Rates
  BY <1>5 DEF Rates
<1>7. CASE s.route.rate = y
  <2>1. Go(t, <<>>) /\ z.route = s.route /\ z.hw = s.hw /\ z.faults = s.faults
    BY <1>3, <1>4, <1>7 DEF Reconfigure, Keep, Set
  <2>2. z \in a
    <3>1. z = s
      BY <2>1, <1>1, <1>2 DEF Now
    <3> QED BY <1>3, <3>1
  <2>3. z \in b
    <3>1. CASE a = MusicOn /\ b = Tuned /\ y = MusicRate
      BY <1>7, <2>1, <2>2, <3>1 DEF Tuned
    <3>2. CASE a = Back /\ b = Tuned /\ y = MusicRate
      BY <1>7, <2>1, <2>2, <3>2 DEF Back, Still, Silent, AnyTime, Tuned, MusicOn, AtMusicRate
    <3>3. ASSUME NEW x \in CallRates, a = HfpStopped(x), b = CallReady(x), y = x PROVE z \in b
      BY <1>7, <2>1, <2>2, <3>3 DEF HfpStopped, HfpRate, Hfp, CallReady, Still
    <3> QED BY <1>5, <3>1, <3>2, <3>3
  <2> QED BY <1>2, <2>1, <2>3 DEF Moves
<1>8. CASE s.route.rate # y
  <2>1. s.route.rate \in Rates /\ s.route.dma \in {"stopped", "playback", "duplex"}
    BY RouteIs
  <2>2. PICK p : p = Try(Do("CodecRate") \o Do("SyncDac") \o Do("SyncAdc")
                           \o With("RestartDma", s.route.dma),
                         <<>>, With("RateBack", s.route.rate) \o Do("Fail"))
    OBVIOUS
  <2>3. /\ Go(t, p) /\ z.faults = s.faults /\ z.hw = [s.hw EXCEPT !.i2s = y]
        /\ z.route = [s.route EXCEPT !.rate = y, !.dma = "stopped"]
    BY <1>3, <1>4, <1>8, <2>2 DEF Reconfigure
  <2>4. z.hw.i2s = y /\ z.hw.codec = s.hw.codec
    BY <2>3 DEF State
  <2>5. \E c \in SUBSET State : z \in c /\ Path(AnyDepth, p, c, e, b)
    <3>1. CASE a \in {MusicOn, Back} /\ e = Failed /\ b = Tuned /\ y = MusicRate
      <4>1. Path(AnyDepth, p, BackSwitch(s.route.rate), Failed, Tuned)
        BY <2>1, <2>2, RatePaths, WeakenPath, Assertions
      <4>2. z \in BackSwitch(s.route.rate)
        BY <1>3, <1>6, <1>8, <2>3, <2>4, <3>1, ClockChanges
      <4> QED BY <3>1, <4>1, <4>2, Assertions
    <3>3. ASSUME NEW x \in CallRates, a = HfpStopped(x), e = Lost, b = CallReady(x), y = x
          PROVE  \E c \in SUBSET State : z \in c /\ Path(AnyDepth, p, c, e, b)
      <4>1. Path(AnyDepth, p, CallSwitch(x, s.route.rate), Lost, CallReady(x))
        BY <2>1, <2>2, RatePaths
      <4>2. z \in CallSwitch(x, s.route.rate)
        BY <1>3, <1>6, <1>8, <2>3, <2>4, <3>3, ClockChanges
      <4> QED BY <3>3, <4>1, <4>2, CallAssertions
    <3> QED BY <1>5, <3>1, <3>3
  <2> QED BY <1>2, <2>3, <2>5 DEF Moves
<1> QED BY <1>7, <1>8

LEMMA SyncMoves ==
    ASSUME NEW t, NEW a, NEW e, NEW b, Row(Head(todo[t]), a, e, b),
           Now \in a, Now \in State, Now' \in State, SyncDac(t) \/ SyncAdc(t)
    PROVE  Moves(t, e, b)
<1>1. PICK s \in State : s = Now
  OBVIOUS
<1>2. \/ a = BackSync /\ e = {} /\ b = BackSync
      \/ \E x \in CallRates : a = CallReady(x) /\ e = {} /\ b = CallReady(x)
  BY RateRows DEF SyncDac, SyncAdc, At
<1>3. s \in a /\ route = s.route /\ Now' = s
  BY <1>1 DEF SyncDac, SyncAdc, Keep, Set, Now
<1>4. /\ ~s.route.capturing /\ ~s.route.playing
      /\ a \in SUBSET State /\ e \in SUBSET State /\ b \in SUBSET State
  BY <1>2, <1>3, Assertions, CallAssertions, AssertionsSay, CallAssertionsSay
<1>5. Go(t, Do("DacOff")) \/ Go(t, Do("AdcOff"))
  BY <1>3, <1>4 DEF SyncDac, SyncAdc, Keep, Set
<1>6. Row([do |-> "DacOff"], a, e, b) /\ Row([do |-> "AdcOff"], a, e, b)
  BY <1>2 DEF Row, BackRow, EnterRow
<1>7. Path(AnyDepth, Do("DacOff"), a, e, b) /\ Path(AnyDepth, Do("AdcOff"), a, e, b)
  BY <1>4, <1>6, BareSteps, DoPath, AnyDepthPath
<1> QED BY <1>3, <1>4, <1>5, <1>7 DEF Moves

LEMMA RestartMoves ==
    ASSUME NEW t, NEW a, NEW e, NEW b, Row(Head(todo[t]), a, e, b),
           Now \in a, Now \in State, Now' \in State, RestartDma(t)
    PROVE  Moves(t, e, b)
<1>1. PICK s \in State : s = Now
  OBVIOUS
<1>2. s \in a /\ route = s.route
  BY <1>1 DEF Now
<1>3. \/ a = BackSync /\ b = BackSync
      \/ \E x \in CallRates : a = CallReady(x) /\ b = CallReady(x)
  BY RateRows DEF RestartDma, At
<1>4. ~s.route.playing /\ ~s.route.capturing /\ b = a
  BY <1>2, <1>3, AssertionsSay, CallAssertionsSay
<1>5. Go(t, <<>>) /\ Now' = Now
  BY <1>2, <1>4 DEF RestartDma, Keep, Set, Now
<1> QED BY <1>4, <1>5 DEF Moves

LEMMA PlaybackRows ==
    ASSUME NEW r, NEW a, NEW e, NEW b, Row(r, a, e, b)
    PROVE  /\ r.do \in {"StartPlayback", "ArmPlayback"} =>
                a = Tuned /\ e = MusicOn /\ b = MusicOn
           /\ r.do = "Notify" =>
                \/ a = MusicOn /\ e = MusicOn /\ b = MusicOn
                \/ \E x \in CallRates : a = InCall(x) /\ e = InCall(x) /\ b = InCall(x)
           /\ r.do = "SetRunMode" =>
                \/ a = MusicOn /\ e = {} /\ b = MusicOn /\ r.arg = "idle"
                \/ a = AnyTime /\ e = {} /\ b = Still /\ r.arg = "idle"
                \/ a \in {MusicOn, Back} /\ e = MusicOn /\ b = MusicOn /\ r.arg = "playback"
                \/ \E x \in CallRates : /\ a = HfpRate(x) /\ e = Lost /\ b = InCall(x)
                                        /\ r.arg = "duplex"
BY DEF Row, MusicRow, BackRow, EnterRow, CallRow, LostRow, Shared, Stops

LEMMA PlaybackMoves ==
    ASSUME NEW t, NEW a, NEW e, NEW b, Row(Head(todo[t]), a, e, b),
           Now \in a, Now \in State, Now' \in State,
           StartPlayback(t) \/ ArmPlayback(t) \/ Notify(t)
    PROVE  Moves(t, e, b)
<1>1. PICK s \in State : s = Now
  OBVIOUS
<1>2. PICK z \in State : z = Now'
  OBVIOUS
<1>3. s \in a /\ route = s.route /\ route' = z.route /\ hw' = z.hw /\ hw = s.hw
      /\ faults = s.faults /\ faults' = z.faults
  BY <1>1, <1>2 DEF Now
<1>4. \/ a = Tuned /\ e = MusicOn /\ b = MusicOn /\ (StartPlayback(t) \/ ArmPlayback(t))
      \/ a = MusicOn /\ e = MusicOn /\ b = MusicOn /\ Notify(t)
      \/ Notify(t) /\ \E x \in CallRates : a = InCall(x) /\ e = InCall(x) /\ b = InCall(x)
  BY PlaybackRows DEF StartPlayback, ArmPlayback, Notify, At
<1>5. CASE Go(t, <<>>) /\ z.route = s.route /\ z.hw = s.hw /\ z.faults = s.faults
  <2>1. z = s
    BY <1>1, <1>2, <1>5 DEF Now
  <2> QED BY <1>2, <1>3, <1>4, <1>5, <2>1, Assertions DEF Moves
<1>6. CASE a = Tuned /\ e = MusicOn /\ b = MusicOn /\ StartPlayback(t)
  <2>1. ~s.route.capturing
    BY <1>3, <1>6, AssertionsSay
  <2>2. Go(t, <<>> \o Do("ArmPlayback")) /\ Now' = Now
    BY <1>3, <1>6, <2>1 DEF StartPlayback, Keep, Set, Now
  <2>3. Path(Rows, Do("ArmPlayback"), Tuned, MusicOn, MusicOn)
    BY Assertions, BareSteps, DoPath DEF Row, MusicRow
  <2>4. Path(Rows, <<>>, Tuned, MusicOn, Tuned)
    BY Assertions, EmptyPath
  <2>5. Path(AnyDepth, <<>> \o Do("ArmPlayback"), Tuned, MusicOn, MusicOn)
    BY <2>3, <2>4, Assertions, ThenPath, AnyDepthPath
  <2> QED BY <1>6, <2>2, <2>5, Assertions DEF Moves
<1>7. CASE /\ e = MusicOn /\ b = MusicOn
           /\ (a = Tuned /\ ArmPlayback(t)) \/ (a = MusicOn /\ Notify(t))
           /\ ~(Go(t, <<>>) /\ z.route = s.route /\ z.hw = s.hw /\ z.faults = s.faults)
  <2>1. /\ \E d \in {"DacOn", "PlaybackDmaOn"} :
              Go(t, Try(Do(d), <<>>, Do("PlayingOff") \o Do("Fail")))
        /\ z.hw = s.hw /\ z.faults = s.faults
        /\ \/ a = Tuned /\ z.route = [s.route EXCEPT !.playing = TRUE, !.pending = TRUE]
           \/ a = MusicOn /\ z.route = [s.route EXCEPT !.pending = FALSE]
    BY <1>3, <1>7 DEF ArmPlayback, Notify, Keep, Set
  <2>2. PICK d \in {"DacOn", "PlaybackDmaOn"} :
              Go(t, Try(Do(d), <<>>, Do("PlayingOff") \o Do("Fail")))
    BY <2>1
  <2>3. /\ z.route.rate = s.route.rate /\ z.route.renderer = s.route.renderer
        /\ z.route.capturing = s.route.capturing
        /\ a = Tuned \/ (a = MusicOn /\ z.route.playing = s.route.playing)
    BY <2>1, RouteIs
  <2>4. z \in MusicOn
    <3>1. CASE a = Tuned
      BY <1>3, <2>1, <2>3, <3>1 DEF Tuned, MusicOn, AnyTime, InSync, AtMusicRate
    <3>2. CASE a = MusicOn /\ z.route.playing = s.route.playing
      BY <1>3, <2>1, <2>3, <3>2 DEF MusicOn, AnyTime, InSync, AtMusicRate
    <3> QED BY <2>3, <3>1, <3>2
  <2>5. /\ Row([do |-> d], MusicOn, MusicOn, MusicOn)
        /\ Row([do |-> "PlayingOff"], MusicOn, {}, MusicOn)
    BY DEF Row, MusicRow, Stops
  <2>6. /\ Path(Rows, Do(d), MusicOn, MusicOn, MusicOn)
        /\ Path(Rows, Do("PlayingOff"), MusicOn, {}, MusicOn)
    BY <2>5, Assertions, BareSteps, DoPath
  <2>7. Path(AnyDepth, Try(Do(d), <<>>, Do("PlayingOff") \o Do("Fail")),
             MusicOn, MusicOn, MusicOn)
    BY <2>6, Assertions, UndoPath, AnyDepthPath
  <2> QED BY <1>2, <1>7, <2>2, <2>4, <2>7, Assertions DEF Moves
<1>8. ASSUME Notify(t), NEW x \in CallRates, a = InCall(x) PROVE Go(t, <<>>) /\ z.route = s.route
                                             /\ z.hw = s.hw /\ z.faults = s.faults
  <2>1. ~s.route.pending
    BY <1>3, <1>8, CallAssertionsSay
  <2> QED BY <1>3, <1>8, <2>1 DEF Notify, Keep, Set
<1> QED BY <1>4, <1>5, <1>6, <1>7, <1>8

LEMMA RunModeMoves ==
    ASSUME NEW t, NEW a, NEW e, NEW b, Row(Head(todo[t]), a, e, b),
           Now \in a, Now \in State, Now' \in State, SetRunMode(t)
    PROVE  Moves(t, e, b)
<1>1. PICK s \in State : s = Now
  OBVIOUS
<1>2. s \in a /\ route = s.route /\ Now' = s
  BY <1>1 DEF SetRunMode, Keep, Set, Now
<1>3. \/ a = MusicOn /\ e = {} /\ b = MusicOn /\ Arg(t) = "idle"
      \/ a = AnyTime /\ e = {} /\ b = Still /\ Arg(t) = "idle"
      \/ a \in {MusicOn, Back} /\ e = MusicOn /\ b = MusicOn /\ Arg(t) = "playback"
      \/ \E x \in CallRates : a = HfpRate(x) /\ e = Lost /\ b = InCall(x) /\ Arg(t) = "duplex"
  BY PlaybackRows DEF SetRunMode, At, Arg
<1>4. CASE a \in {MusicOn, AnyTime} /\ e = {} /\ Arg(t) = "idle"
  <2>1. Go(t, GoIdle)
    BY <1>4 DEF SetRunMode, Keep, Set
  <2>2. Path(AnyDepth, GoIdle, a, e, b) /\ a \in SUBSET State
    <3>1. \/ a = MusicOn /\ b = MusicOn
          \/ a = AnyTime /\ b = Still
      BY <1>3, <1>4
    <3> QED BY <1>4, <3>1, StopPaths, AnyDepthPath, Assertions
  <2> QED BY <1>2, <2>1, <2>2 DEF Moves
<1>5. CASE a \in {MusicOn, Back} /\ e = MusicOn /\ b = MusicOn /\ Arg(t) = "playback"
  <2>1. ~s.route.capturing /\ a \in SUBSET State
    BY <1>2, <1>5, AssertionsSay, Assertions
  <2>2. CASE s.route.playing
    <3>1. a = MusicOn
      BY <1>2, <1>5, <2>2, AssertionsSay
    <3>2. RunMode = "playback"
      BY <1>2, <2>1, <2>2 DEF RunMode
    <3>3. Go(t, <<>>)
      BY <1>5, <3>2 DEF SetRunMode, Keep, Set
    <3> QED BY <1>2, <1>5, <3>1, <3>3 DEF Moves
  <2>3. CASE ~s.route.playing
    <3>1. RunMode # "playback"
      BY <1>2, <2>1, <2>3 DEF RunMode
    <3>2. Go(t, EnterMode(MusicRate, Do("StartPlayback")))
      BY <1>5, <3>1 DEF SetRunMode, Keep, Set
    <3>3. Path(AnyDepth, EnterMode(MusicRate, Do("StartPlayback")), a, MusicOn, MusicOn)
      BY <1>5, MusicModePaths, AnyDepthPath
    <3> QED BY <1>2, <1>5, <2>1, <3>2, <3>3 DEF Moves
  <2> QED BY <2>2, <2>3
<1>6. ASSUME NEW x \in CallRates, a = HfpRate(x), e = Lost, b = InCall(x), Arg(t) = "duplex"
      PROVE  Moves(t, e, b)
  <2>1. ~s.route.playing /\ ~s.route.capturing
    BY <1>2, <1>6, CallAssertionsSay
  <2>2. RunMode # "duplex" /\ route.callRate = x
    <3>1. RunMode = "idle"
      BY <1>2, <2>1 DEF RunMode
    <3> QED BY <1>2, <1>6, <3>1 DEF HfpRate
  <2>3. Go(t, EnterMode(x, StartCallDuplex))
    BY <1>6, <2>2 DEF SetRunMode, Keep, Set
  <2>4. Path(AnyDepth, EnterMode(x, StartCallDuplex), a, e, b) /\ a \in SUBSET State
    BY <1>6, CallModePath, AnyDepthPath, CallAssertions
  <2> QED BY <1>2, <2>3, <2>4 DEF Moves
<1> QED BY <1>3, <1>4, <1>5, <1>6

\* Every step of the codec.
LEMMA CoreMoves ==
    ASSUME NEW t, NEW a, NEW e, NEW b, Row(Head(todo[t]), a, e, b),
           Now \in a, Now \in State, Now' \in State, CoreStep(t)
    PROVE  Moves(t, e, b)
<1>1. ~(CapturingOn(t) \/ DmaOff(t) \/ StartCapture(t))
  BY FlagRows DEF CapturingOn, DmaOff, StartCapture, At
<1>2. CASE DacOn(t) \/ DacOff(t) \/ AdcOn(t) \/ AdcOff(t) \/ CodecRate(t)
  BY <1>2, PathsMove, CodecMoves
<1>3. CASE PlayingOff(t) \/ PlaybackDmaOff(t) \/ CapturingOff(t) \/ DuplexDmaOff(t)
  BY <1>3, StopMoves
<1>4. CASE \/ PlaybackDmaOn(t) \/ DuplexDmaOn(t) \/ CallCheck(t) \/ CallFlagsOn(t)
           \/ CallFlagsOff(t) \/ RateBack(t) \/ SetRenderer(t) \/ SetCallRate(t)
  BY <1>4, CallFlagsMove, FlagsMove, OwnersMove
<1>5. CASE Reconfigure(t) \/ SyncDac(t) \/ SyncAdc(t) \/ RestartDma(t)
  BY <1>5, ReconfigureMoves, SyncMoves, RestartMoves
<1>6. CASE StartPlayback(t) \/ ArmPlayback(t) \/ SetRunMode(t) \/ Notify(t)
  BY <1>6, PlaybackMoves, RunModeMoves
<1> QED BY <1>1, <1>2, <1>3, <1>4, <1>5, <1>6 DEF CoreStep

----------------------------------------------------------------------------
(* The mixer's and A2DP's steps.                                              *)

LEMMA MixRows ==
    ASSUME NEW r, NEW a, NEW e, NEW b, Row(r, a, e, b)
    PROVE  /\ r.do \in {"Deactivate", "WriteFrames", "NotifyIfReady", "Allow"} =>
                \/ a = MusicOn /\ e = {} /\ b = MusicOn
                \/ \E x \in CallRates : a = InCall(x) /\ e = {} /\ b = InCall(x)
           /\ r.do = "Rollback" => a = MusicOn /\ e = {} /\ b = MusicOn
           /\ r.do = "StartSink" => a = MusicOn /\ e = MusicOn /\ b = MusicOn
           /\ r.do = "Activate" =>
                \/ a = MusicOn /\ e = MusicOn /\ b = MusicOn
                \/ \E x \in CallRates : a = InCall(x) /\ e = InCall(x) /\ b = InCall(x)
           /\ r.do \in {"Lock", "Unlock"} => b = a
           /\ r.do = "Fail" => e = a
           /\ r.do \notin {"ReadStream", "Enable", "WaitQuiet", "SetCapturing", "UartStart",
                           "UartStop", "ReplyOn", "ReplyOff", "WaitReplyDone", "SetVoice",
                           "CloseUart"}
BY DEF Row, MusicRow, BackRow, EnterRow, CallRow, LostRow, Shared, Stops

LEMMA MixPaths ==
    ASSUME NEW a, AtRest(a)
    PROVE  /\ Path(AnyDepth, StopPlayback, a, {}, a)
           /\ Path(AnyDepth, Ignore(Do("Notify")), a, {}, a)
           /\ Path(AnyDepth, Locked(Do("NotifyIfReady")), a, {}, a)
<1>1. a \in SUBSET State /\ {} \in SUBSET State
  BY SharedPaths, Assertions
<1>2. Path(Rows, StopPlayback, a, {}, a)
  BY StopPaths DEF AtRest
<1>3. Row([do |-> "Notify"], a, a, a)
  BY DEF AtRest, Row, MusicRow, CallRow
<1>4. Path(Deep1(Modes, Rows), Ignore(Do("Notify")), a, {}, a)
  <2>1. Path(Rows, Do("Notify"), a, a, a)
    BY <1>1, <1>3, BareSteps, DoPath
  <2> QED BY <1>1, <2>1, IgnorePath DEF Deep1
<1>5. Path(Deep1(Modes, Rows), Locked(Do("NotifyIfReady")), a, {}, a)
  <2>1. /\ Row([do |-> "NotifyIfReady"], a, {}, a) /\ Row([do |-> "Lock"], a, {}, a)
        /\ Row([do |-> "Unlock"], a, {}, a)
    BY SharedPaths DEF Shared
  <2>2. Path(Rows, Do("NotifyIfReady"), a, {}, a)
    BY <1>1, <2>1, BareSteps, DoPath
  <2> QED BY <1>1, <2>1, <2>2, LockedPath
<1> QED BY <1>2, <1>4, <1>5, AnyDepthPath

LEMMA StartSinkPath ==
    ASSUME NEW src \in Sources
    PROVE  Path(AnyDepth, Try(With("Reconfigure", MusicRate) \o Do("StartPlayback"), <<>>,
                              With("Rollback", src) \o Do("Fail")), MusicOn, MusicOn, MusicOn)
<1>1. /\ Row([do |-> "Reconfigure", arg |-> MusicRate], MusicOn, Failed, Tuned)
      /\ Row([do |-> "StartPlayback"], Tuned, MusicOn, MusicOn)
      /\ Row([do |-> "Rollback", arg |-> src], MusicOn, {}, MusicOn)
  BY DEF Row, MusicRow
<1>2. [do |-> "Reconfigure", arg |-> MusicRate] \in PlainStep
  BY DEF PlainStep, Rates
<1>3. /\ Path(Rows, With("Reconfigure", MusicRate), MusicOn, Failed, Tuned)
      /\ Path(Rows, Do("StartPlayback"), Tuned, MusicOn, MusicOn)
      /\ Path(Rows, With("Rollback", src), MusicOn, {}, MusicOn)
  BY <1>1, <1>2, WithSteps, WithPath, BareSteps, DoPath, Assertions
<1>4. Path(Rows, With("Reconfigure", MusicRate) \o Do("StartPlayback"),
           MusicOn, MusicOn, MusicOn)
  BY <1>3, Assertions, ThenPath
<1> QED BY <1>3, <1>4, Assertions, UndoPath, AnyDepthPath

LEMMA MixMoves ==
    ASSUME NEW t, NEW a, NEW e, NEW b, Row(Head(todo[t]), a, e, b), Head(todo[t]) \in PlainStep,
           Now \in a, Now \in State, MixStep(t) \/ Allow(t), UNCHANGED coreVars
    PROVE  Moves(t, e, b)
<1>1. PICK s \in State : s = Now
  OBVIOUS
<1>2. s \in a /\ Now' = s /\ route = s.route
  BY <1>1 DEF Now, coreVars
<1>3. PICK r : r = Head(todo[t])
  OBVIOUS
<1>4. Row(r, a, e, b) /\ r \in PlainStep /\ Now' \in a
  BY <1>2, <1>3
<1>5. CASE Deactivate(t) \/ WriteFrames(t) \/ NotifyIfReady(t) \/ Allow(t)
  <2>1. r.do \in {"Deactivate", "WriteFrames", "NotifyIfReady", "Allow"}
    BY <1>3, <1>5 DEF Deactivate, WriteFrames, NotifyIfReady, Allow, At
  <2>2. e = {} /\ b = a /\ AtRest(a)
    BY <1>4, <2>1, MixRows DEF AtRest
  <2>3. \/ Go(t, <<>>) \/ Go(t, StopPlayback) \/ Go(t, Ignore(Do("Notify")))
        \/ Go(t, Locked(Do("NotifyIfReady")))
    BY <1>5 DEF Deactivate, WriteFrames, NotifyIfReady, Allow
  <2> QED BY <1>4, <2>2, <2>3, MixPaths, SharedPaths DEF Moves
<1>6. CASE Rollback(t)
  <2>1. a = b
    BY <1>3, <1>4, <1>6, MixRows DEF Rollback, At
  <2> QED BY <1>4, <1>6, <2>1 DEF Rollback, Moves
<1>7. CASE StartSink(t)
  <2>1. a = MusicOn /\ e = MusicOn /\ b = MusicOn /\ r.do = "StartSink"
    BY <1>3, <1>4, <1>7, MixRows DEF StartSink, At
  <2>2. PICK src \in Sources : src = Arg(t)
    BY <1>3, <1>4, <2>1, Arguments DEF Arg
  <2>3. \/ Go(t, <<>>)
        \/ Go(t, Try(With("Reconfigure", MusicRate) \o Do("StartPlayback"), <<>>,
                     With("Rollback", src) \o Do("Fail")))
    BY <1>7, <2>2 DEF StartSink
  <2> QED BY <1>4, <2>1, <2>3, StartSinkPath, Assertions DEF Moves
<1>8. CASE Activate(t)
  <2>1. /\ r.do = "Activate"
        /\ \/ a = MusicOn /\ e = MusicOn /\ b = MusicOn
           \/ \E x \in CallRates : a = InCall(x) /\ e = InCall(x) /\ b = InCall(x)
    BY <1>3, <1>4, <1>8, MixRows DEF Activate, At
  <2>2. CASE a = MusicOn /\ e = MusicOn /\ b = MusicOn
    <3>1. PICK src \in Sources : src = Arg(t)
      BY <1>3, <1>4, <2>1, Arguments DEF Arg
    <3>2. ~s.route.capturing
      BY <1>2, <2>2, AssertionsSay
    <3>3. Go(t, With("StartSink", src))
      BY <1>2, <1>8, <3>1, <3>2 DEF Activate
    <3>4. Row([do |-> "StartSink", arg |-> src], MusicOn, MusicOn, MusicOn)
      BY DEF Row, MusicRow
    <3>5. Path(AnyDepth, With("StartSink", src), MusicOn, MusicOn, MusicOn)
      BY <3>4, WithSteps, WithPath, Assertions, AnyDepthPath
    <3> QED BY <1>4, <2>2, <3>3, <3>5, Assertions DEF Moves
  <2>3. ASSUME NEW x \in CallRates, a = InCall(x), e = InCall(x) PROVE Moves(t, e, b)
    <3>1. s.route.capturing
      BY <1>2, <2>3, CallAssertionsSay
    <3>2. Raise(t)
      BY <1>2, <1>8, <3>1 DEF Activate
    <3> QED BY <1>4, <2>3, <3>2 DEF Moves
  <2> QED BY <2>1, <2>2, <2>3
<1> QED BY <1>5, <1>6, <1>7, <1>8 DEF MixStep

----------------------------------------------------------------------------
(* The invariant: only bt works, and its program is outlined.                 *)

\* Between the events the music has the codec, or the call of the SCO link may.
Rest == Mk(IF sco = "none" THEN MusicOn ELSE MusicOn \union InCall(sco), {})

OnlyBt ==
    /\ Idle("rx") /\ Idle("ctl")
    /\ reply = [enabled |-> FALSE, done |-> TRUE, open |-> FALSE, voice |-> FALSE]
    /\ ptt = [held |-> FALSE, capturing |-> FALSE]

Outlined == \E m \in Modes : Now \in m.at /\ Outline(Modes, AnyDepth, todo["bt"], m, Rest)

CallInv == IInv /\ OnlyBt /\ Outlined

LEMMA NowTyped ==
    /\ CoreTypeOK => Now \in State
    /\ CoreTypeOK' => Now' \in State
<1>1. 0 .. MaxFaults \subseteq Nat
  BY FaultsAssumption
<1> QED BY <1>1 DEF CoreTypeOK, Now, State

LEMMA RestIs == /\ Rest.guard = {}
                /\ sco = "none" => Rest.at = MusicOn
                /\ sco # "none" => Rest.at = MusicOn \union InCall(sco)
BY DEF Rest, Mk

\* A program that leads to Rest is one.
LEMMA PathOutlined ==
    ASSUME NEW p, NEW a \in SUBSET State, NEW b \in SUBSET State, Path(AnyDepth, p, a, {}, b),
           Now' \in a, b \subseteq (Rest.at)', todo'["bt"] = p
    PROVE  Outlined'
<1>1. Outline(Modes, AnyDepth, p, Mk(a, {}), Mk(b, {}))
  BY DEF Path
<1>2. /\ Mk(a, {}) \in Modes /\ Mk(a, {}).at = a
      /\ Mk(b, {}).at = b /\ Mk(b, {}).guard = {}
  BY Assertions, ModeIn
<1>3. PICK r : r = Rest'
  OBVIOUS
<1>4. r.guard = {} /\ b \subseteq r.at
  <2>1. r = Mk(IF sco' = "none" THEN MusicOn ELSE MusicOn \union InCall(sco'), {})
    BY <1>3 DEF Rest
  <2> QED BY <2>1, <1>3 DEF Mk
<1>5. Within(Mk(b, {}), r) /\ Within(Mk(a, {}), Mk(a, {}))
  BY <1>2, <1>4 DEF Within
<1>6. Outline(Modes, AnyDepth, p, Mk(a, {}), r)
  BY <1>1, <1>5, WeakenOutline
<1> QED BY <1>2, <1>3, <1>6 DEF Outlined

\* Where bt waits for an event, Rest holds.
LEMMA IdleRest ==
    ASSUME Outlined, Idle("bt")
    PROVE  Now \in Rest.at
<1>1. PICK m \in Modes : Now \in m.at /\ Outline(Modes, AnyDepth, <<>>, m, Rest)
  BY DEF Outlined, Idle
<1>2. PICK f \in [1 .. Len(<<>>) + 1 -> Modes] :
          Within(m, f[1]) /\ Within(f[Len(<<>>) + 1], Rest)
  BY <1>1 DEF Outline
<1>3. Within(m, f[1]) /\ Within(f[1], Rest)
  BY <1>2
<1> QED BY <1>1, <1>3 DEF Within

\* A step that is no call keeps to the outline.
LEMMA StepOutlined ==
    ASSUME "bt" \in Thread, todo \in [Thread -> Programs(Thrice)], Outlined, todo["bt"] # <<>>,
           Head(todo["bt"]).do \notin {"Call", "Return"}, UNCHANGED sco,
           \A a, e, b : Row(Head(todo["bt"]), a, e, b) /\ Now \in a => Moves("bt", e, b)
    PROVE  Outlined' /\ \A u \in Thread \ {"bt"} : todo'[u] = todo[u]
<1>1. PICK m \in Modes : Now \in m.at /\ Outline(Modes, AnyDepth, todo["bt"], m, Rest)
  BY DEF Outlined
<1>2. PICK a \in Modes, n \in Modes :
          /\ Within(m, a) /\ <<Head(todo["bt"]), a, n>> \in AnyDepth
          /\ Outline(Modes, AnyDepth, Tail(todo["bt"]), n, Rest)
  BY <1>1, RestOutline
<1>3. <<Head(todo["bt"]), a, n>> \in Rows
  BY <1>2, StepOf, RowsPlain DEF AnyDepth
<1>4. PICK e \in SUBSET State : e \subseteq a.guard /\ Row(Head(todo["bt"]), a.at, e, n.at)
  BY <1>3 DEF Rows
<1>5. n.guard = a.guard
  BY <1>3 DEF Rows
<1>6. Moves("bt", e, n.at)
  BY <1>1, <1>2, <1>4 DEF Within
<1>7. PICK o : o = Rest
  OBVIOUS
<1>8. Rest' = o /\ o.guard = {}
  BY <1>7, RestIs DEF Rest
<1>9. Outline(Modes, AnyDepth, Tail(todo["bt"]), n, o)
  BY <1>2, <1>7
<1>10. n = Mk(n.at, n.guard) /\ n.at \in SUBSET State /\ n.guard \in SUBSET State
  BY ModesAre
<1>11. CASE Go("bt", <<>>) /\ Now' \in n.at
  <2>1. Outline(Modes, AnyDepth, <<>>, n, n)
    BY EmptyOutline DEF Within
  <2>2. Outline(Modes, AnyDepth, todo'["bt"], n, o)
    BY <1>9, <1>11, <2>1, GoOutline
  <2> QED BY <1>8, <1>11, <2>2 DEF Outlined, Go
<1>12. CASE Raise("bt") /\ Now' \in e
  <2>1. n.guard # {} /\ Now' \in n.guard
    BY <1>4, <1>5, <1>12
  <2>2. PICK k \in Modes : Outline(Modes, AnyDepth, todo'["bt"], Mk(n.guard, k.guard), o)
    BY <1>8, <1>9, <1>12, <2>1, RaiseOutline, RowsPlain DEF AnyDepth
  <2>3. k.guard \in SUBSET State
    BY ModesAre
  <2>4. Mk(n.guard, k.guard) \in Modes /\ Mk(n.guard, k.guard).at = n.guard
    BY <1>10, <2>3, ModeIn
  <2> QED BY <1>8, <1>12, <2>1, <2>2, <2>4 DEF Outlined, Raise
<1>13. ASSUME NEW p, NEW c \in SUBSET State, Go("bt", p), Now' \in c,
              Path(AnyDepth, p, c, e, n.at)
       PROVE  Outlined' /\ \A u \in Thread \ {"bt"} : todo'[u] = todo[u]
  <2>1. Outline(Modes, AnyDepth, p, Mk(c, n.guard), n)
    BY <1>4, <1>5, <1>10, <1>13 DEF Path
  <2>2. Outline(Modes, AnyDepth, todo'["bt"], Mk(c, n.guard), o)
    BY <1>9, <1>13, <2>1, GoOutline
  <2>3. Mk(c, n.guard) \in Modes /\ Mk(c, n.guard).at = c
    BY <1>10, ModeIn
  <2> QED BY <1>8, <1>13, <2>2, <2>3 DEF Outlined, Go
<1> QED BY <1>6, <1>11, <1>12, <1>13 DEF Moves

\* A step of bt.
LEMMA BtStepKeeps ==
    ASSUME CallInv, CoreTypeOK', "bt" \in Thread, Step("bt"), todo["bt"] # <<>>
    PROVE  /\ Outlined' /\ UNCHANGED <<sco, reply, ptt>>
           /\ \A u \in Thread \ {"bt"} : todo'[u] = todo[u]
<1>1. Now \in State /\ Now' \in State
  BY NowTyped DEF CallInv, IInv, TypeOK
<1>2. todo \in [Thread -> Programs(Thrice)] /\ Outlined
  BY DEF CallInv, IInv, AllDisciplined
<1>3. CASE (Call("bt") \/ Return("bt")) /\ UNCHANGED <<coreVars, mixVars, userVars>>
  <2>1. PICK m \in Modes : Now \in m.at /\ Outline(Modes, AnyDepth, todo["bt"], m, Rest)
    BY <1>2 DEF Outlined
  <2>2. \A a, b \in Modes : Mk(a.at, b.guard) \in Modes
    BY ModeIn, ModesAre
  <2>3. PICK n \in Modes : m.at \subseteq n.at /\ Outline(Modes, AnyDepth, todo'["bt"], n, Rest)
    BY <1>2, <1>3, <2>1, <2>2, CallOutline, RowsPlain DEF AnyDepth
  <2>4. Now' = Now /\ UNCHANGED <<sco, reply, ptt>>
    BY <1>3 DEF Now, coreVars, userVars
  <2>5. Rest' = Rest
    BY <2>4 DEF Rest
  <2>6. Outlined'
    BY <2>1, <2>3, <2>4, <2>5 DEF Outlined
  <2>7. \A u \in Thread \ {"bt"} : todo'[u] = todo[u]
    BY <1>2, <1>3 DEF Call, Return, Go
  <2> QED BY <2>4, <2>6, <2>7
<1>4. CASE (Lock("bt") \/ Unlock("bt") \/ Fail("bt")) /\ UNCHANGED <<coreVars, mixVars, userVars>>
  <2>1. Now' = Now /\ UNCHANGED <<sco, reply, ptt>>
    BY <1>4 DEF Now, coreVars, userVars
  <2>2. \/ Head(todo["bt"]).do \in {"Lock", "Unlock"} /\ Go("bt", <<>>)
        \/ Head(todo["bt"]).do = "Fail" /\ Raise("bt")
    BY <1>4 DEF Lock, Unlock, Fail, At
  <2>3. ASSUME NEW a, NEW e, NEW b, Row(Head(todo["bt"]), a, e, b), Now \in a
        PROVE  Moves("bt", e, b)
    <3>1. /\ Head(todo["bt"]).do \in {"Lock", "Unlock"} => b = a
          /\ Head(todo["bt"]).do = "Fail" => e = a
      BY <2>3, MixRows
    <3> QED BY <2>1, <2>2, <2>3, <3>1 DEF Moves
  <2> QED BY <1>2, <2>1, <2>2, <2>3, StepOutlined
<1>5. CASE CoreStep("bt") /\ UNCHANGED <<mutex, mixVars, userVars>>
  <2>1. \A a, e, b : Row(Head(todo["bt"]), a, e, b) /\ Now \in a => Moves("bt", e, b)
    BY <1>1, <1>5, CoreMoves
  <2>2. Head(todo["bt"]).do \notin {"Call", "Return"} /\ UNCHANGED <<sco, reply, ptt>>
    BY <1>5, StepNames DEF userVars
  <2> QED BY <1>2, <2>1, <2>2, StepOutlined
<1>6. CASE (MixStep("bt") \/ UserStep("bt")) /\ UNCHANGED coreVars
           /\ (MixStep("bt") => UNCHANGED userVars)
  <2>1. Head(todo["bt"]).do \notin {"Call", "Return"}
    BY <1>6, StepNames
  <2>2. PICK m \in Modes, n \in Modes : <<Head(todo["bt"]), m, n>> \in AnyDepth
    BY <1>2, RestOutline DEF Outlined
  <2>3. <<Head(todo["bt"]), m, n>> \in Rows
    BY <2>1, <2>2, StepOf, RowsPlain DEF AnyDepth
  <2>4. PICK e : Head(todo["bt"]) \in PlainStep /\ Row(Head(todo["bt"]), m.at, e, n.at)
    BY <2>3 DEF Rows
  <2>5. MixStep("bt") \/ Allow("bt")
    BY <1>6, <2>4, MixRows DEF UserStep, Enable, ReadStream, WaitQuiet, SetCapturing, UartStart,
       UartStop, ReplyOn, ReplyOff, WaitReplyDone, SetVoice, CloseUart, At
  <2>6. \A a, d, b : Row(Head(todo["bt"]), a, d, b) /\ Now \in a => Moves("bt", d, b)
    BY <1>1, <1>6, <2>4, <2>5, MixMoves
  <2>7. UNCHANGED <<sco, reply, ptt>>
    BY <1>6, <2>5 DEF Allow, userVars
  <2> QED BY <1>2, <2>1, <2>6, <2>7, StepOutlined
<1>7. UserStep("bt") /\ MixStep("bt") => FALSE
  BY DEF UserStep, MixStep, Enable, Allow, ReadStream, WaitQuiet, SetCapturing, UartStart,
     UartStop, ReplyOn, ReplyOff, WaitReplyDone, SetVoice, CloseUart, Activate, StartSink,
     Rollback, Deactivate, WriteFrames, NotifyIfReady, At
<1> QED BY <1>3, <1>4, <1>5, <1>6, <1>7 DEF Step

\* Only bt has steps to take.
LEMMA StepsOfBt ==
    ASSUME OnlyBt, NEW t \in Thread, Step(t)
    PROVE  t = "bt" /\ todo["bt"] # <<>>
<1>1. todo[t] # <<>>
  BY StepNames DEF Step, Lock, Unlock, Call, Return, At
<1> QED BY <1>1, ThreadAssumption DEF OnlyBt, Idle

LEMMA BeginOutlined ==
    ASSUME "bt" \in Thread, todo \in [Thread -> Programs(Thrice)], NEW p, Begin("bt", p),
           UNCHANGED coreVars, NEW a \in SUBSET State, NEW b \in SUBSET State,
           Path(AnyDepth, p, a, {}, b), Now \in a, b \subseteq (Rest.at)'
    PROVE  Outlined' /\ \A u \in Thread \ {"bt"} : todo'[u] = todo[u]
<1>1. todo'["bt"] = p /\ \A u \in Thread \ {"bt"} : todo'[u] = todo[u]
  BY DEF Begin
<1>2. Now' \in a
  BY DEF Now, coreVars
<1> QED BY <1>1, <1>2, PathOutlined

\* A2DP's events, in a call or without one.
LEMMA MusicEventKeeps ==
    ASSUME CallInv, "bt" \in Thread, StreamStarted \/ StreamEnded \/ MediaPacket,
           UNCHANGED coreVars
    PROVE  Outlined' /\ \A u \in Thread \ {"bt"} : todo'[u] = todo[u]
<1>1. todo \in [Thread -> Programs(Thrice)] /\ Outlined /\ sco \in CallRates \union {"none"}
  BY DEF CallInv, IInv, AllDisciplined, TypeOK
<1>2. Idle("bt") /\ sco' = sco
  BY DEF StreamStarted, StreamEnded, MediaPacket, Begin, userVars
<1>3. Now \in Rest.at
  BY <1>1, <1>2, IdleRest
<1>4. PICK a : AtRest(a) /\ Now \in a /\ a \subseteq Rest.at
  <2>1. CASE sco = "none"
    BY <1>3, <2>1, RestIs DEF AtRest
  <2>2. CASE sco # "none"
    BY <1>1, <1>3, <2>2, RestIs DEF AtRest
  <2> QED BY <2>1, <2>2
<1>5. (Rest.at)' = Rest.at
  BY <1>2 DEF Rest
<1>6. \E p : /\ Begin("bt", p)
             /\ p \in {Arm, With("Allow", FALSE), SourceStop("background"),
                       With("WriteFrames", "background")}
  BY DEF StreamStarted, StreamEnded, MediaPacket
<1>7. \A p \in {Arm, With("Allow", FALSE), SourceStop("background"),
                With("WriteFrames", "background")} : Path(AnyDepth, p, a, {}, a)
  BY <1>4, SharedPaths
<1>8. a \in SUBSET State
  BY <1>4, SharedPaths
<1> QED BY <1>1, <1>4, <1>5, <1>6, <1>7, <1>8, BeginOutlined

\* HFP's events.
LEMMA CallEventKeeps ==
    ASSUME CallInv, "bt" \in Thread, UNCHANGED coreVars,
           ScoReleased \/ \E rate \in CallRates : ScoEstablished(rate)
    PROVE  Outlined' /\ \A u \in Thread \ {"bt"} : todo'[u] = todo[u]
<1>1. todo \in [Thread -> Programs(Thrice)] /\ Outlined /\ sco \in CallRates \union {"none"}
  BY DEF CallInv, IInv, AllDisciplined, TypeOK
<1>2. Idle("bt")
  BY DEF ScoReleased, ScoEstablished, Begin
<1>3. Now \in Rest.at
  BY <1>1, <1>2, IdleRest
<1>4. CASE ScoReleased
  <2>1. Now \in AnyTime
    BY <1>1, <1>3, RestIs, CallAssertions
  <2>2. MusicOn \subseteq (Rest.at)'
    BY <1>4 DEF ScoReleased, Rest, Mk
  <2>3. Begin("bt", LeaveCall)
    BY <1>4 DEF ScoReleased
  <2> QED BY <1>1, <2>1, <2>2, <2>3, LeaveCallPath, Assertions, BeginOutlined
<1>5. ASSUME NEW rate \in CallRates, ScoEstablished(rate)
      PROVE  Outlined' /\ \A u \in Thread \ {"bt"} : todo'[u] = todo[u]
  <2>1. Now \in MusicOn
    BY <1>3, <1>5, RestIs DEF ScoEstablished
  <2>2. MusicOn \union InCall(rate) \subseteq (Rest.at)'
    <3>1. sco' = rate /\ sco' # "none"
      BY <1>5, LinkAssumption DEF ScoEstablished
    <3>2. Rest' = Mk(IF sco' = "none" THEN MusicOn ELSE MusicOn \union InCall(sco'), {})
      BY DEF Rest
    <3> QED BY <3>1, <3>2 DEF Mk
  <2>3. Begin("bt", EnterCall(rate))
    BY <1>5 DEF ScoEstablished
  <2>4. MusicOn \union InCall(rate) \in SUBSET State
    BY Assertions, CallAssertions
  <2> QED BY <1>1, <2>1, <2>2, <2>3, <2>4, EnterCallPath, Assertions, BeginOutlined
<1> QED BY <1>4, <1>5

\* The reply receiver stays parked, nobody presses the key.
LEMMA NobodyTalks ==
    ASSUME OnlyBt, ~Talk
    PROVE  ~RxEvent /\ ~CtlEvent
BY DEF OnlyBt, RxEvent, CtlEvent, ReplyPark, ReplyOpen, ReplyData, ReplyIdle, ReplyClose,
       Press, Release

----------------------------------------------------------------------------
(* Nothing breaks the invariant.                                              *)

LEMMA CallInvInit ==
    ASSUME ~Listening, Init
    PROVE  CallInv
<1>1. IInv /\ CoreTypeOK
  BY InitInv DEF IInv, TypeOK
<1>2. OnlyBt
  <2>1. Listening = FALSE /\ (~Listening) = TRUE
    BY UsersAssumption
  <2> QED BY <2>1, ThreadAssumption DEF Init, OnlyBt, Idle
<1>3. Now \in MusicOn
  <2>1. Now \in State
    BY <1>1, NowTyped
  <2> QED BY <2>1 DEF Init, CoreInit, Now, MusicOn, AnyTime, InSync, AtMusicRate
<1>4. Outlined
  <2>1. Mk(MusicOn, {}) \in Modes /\ Mk(MusicOn, {}).at = MusicOn
    BY Assertions, ModeIn
  <2>2. Rest = Mk(MusicOn, {}) /\ todo["bt"] = <<>>
    BY ThreadAssumption DEF Rest, Init
  <2>3. Outline(Modes, AnyDepth, <<>>, Mk(MusicOn, {}), Mk(MusicOn, {}))
    BY <2>1, EmptyOutline DEF Within
  <2> QED BY <1>3, <2>1, <2>2, <2>3 DEF Outlined
<1> QED BY <1>1, <1>2, <1>4 DEF CallInv

LEMMA CallInvNext ==
    ASSUME ~Talk, CallInv, [Next]_vars
    PROVE  CallInv'
<1>1. IInv' /\ CoreTypeOK'
  BY NextInv DEF CallInv, IInv, TypeOK
<1>2. "bt" \in Thread /\ OnlyBt
  BY ThreadAssumption DEF CallInv
<1>3. ASSUME Outlined', UNCHANGED <<reply, ptt>>, \A u \in Thread \ {"bt"} : todo'[u] = todo[u]
      PROVE  CallInv'
  BY <1>1, <1>2, <1>3, ThreadAssumption DEF CallInv, OnlyBt, Idle
<1>4. ASSUME NEW t \in Thread, Step(t) PROVE CallInv'
  BY <1>1, <1>2, <1>3, <1>4, StepsOfBt, BtStepKeeps
<1>5. CASE Event("bt", BtEvent)
  <2>1. BtEvent /\ UNCHANGED coreVars
    BY <1>5 DEF Event
  <2>2. UNCHANGED <<reply, ptt>>
    BY <2>1 DEF BtEvent, StreamStarted, StreamEnded, MediaPacket, ScoEstablished, ScoReleased,
       userVars
  <2> QED BY <1>2, <1>3, <2>1, <2>2, MusicEventKeeps, CallEventKeeps DEF BtEvent
<1>6. ~Event("rx", RxEvent) /\ ~Event("ctl", CtlEvent)
  BY <1>2, NobodyTalks DEF Event
<1>7. CASE (Render /\ UNCHANGED <<coreVars, userVars>>) \/ UNCHANGED vars
  <2>1. UNCHANGED <<todo, coreVars, sco, reply, ptt>>
    BY <1>7 DEF Render, userVars, coreVars, vars
  <2>2. Now' = Now /\ Rest' = Rest
    BY <2>1 DEF Now, Rest, coreVars
  <2>3. Outlined'
    BY <2>1, <2>2 DEF CallInv, Outlined
  <2> QED BY <1>3, <2>1, <2>3
<1> QED BY <1>4, <1>5, <1>6, <1>7 DEF Next

LEMMA CallInvariance ==
    ASSUME ~Talk, ~Listening
    PROVE  Spec => []CallInv
<1>1. Init => CallInv
  BY CallInvInit
<1>2. CallInv /\ [Next]_vars => CallInv'
  BY CallInvNext
<1> QED BY <1>1, <1>2, PTL DEF Spec

\* When every thread is done, the codec is the music's or the call's.
LEMMA SettledRest ==
    ASSUME CallInv, Settled
    PROVE  /\ sco = "none" => Now \in MusicOn
           /\ sco # "none" => Now \in MusicOn \union InCall(sco)
<1>1. Idle("bt") /\ Outlined
  BY ThreadAssumption DEF Settled, CallInv
<1> QED BY <1>1, IdleRest, RestIs

----------------------------------------------------------------------------
(* The theorems.                                                              *)

\* When nobody talks, the renderer is the mixer's after every call, whichever
\* codec access, DMA start or mode change of its set-up or its way back failed
\* (bt_hfp_hf_packet_handler's AUDIO_CONNECTION_ESTABLISHED and _RELEASED).
THEOREM RendererComesBack ==
    ASSUME ~Talk, ~Listening
    PROVE  Spec => []RendererRestored
<1>1. CallInv => RendererRestored
  BY SettledRest DEF RendererRestored, MusicOn, Now
<1> QED BY <1>1, CallInvariance, PTL

\* When nobody talks, a call whose set-up succeeded keeps its full-duplex DMA,
\* its rate and the microphone, whatever A2DP's events do to the mixer during
\* the call (audio_mixer_source_start, _stop and _write on BTstack's thread).
THEOREM CallKeepsCodec ==
    ASSUME ~Talk, ~Listening
    PROVE  Spec => []CallUndisturbed
<1>1. CallInv => CallUndisturbed
  <2> SUFFICES ASSUME CallInv, Settled, sco # "none", route.renderer = "hfp"
               PROVE  /\ route.dma = "duplex" /\ route.rate = sco
                      /\ faults = 0 => hw.i2s = sco /\ hw.codec = sco
                      /\ route.capturing /\ hw.adc
    BY DEF CallUndisturbed
  <2>1. Now \in MusicOn \union InCall(sco)
    BY SettledRest
  <2> QED BY <2>1 DEF MusicOn, InCall, AnyTime, InSync, Now
<1> QED BY <1>1, CallInvariance, PTL

\* When nobody talks, after every call, however it failed, the codec is at the rate
\* that is noted and nothing plays at another than the music's; and unless the
\* codec has failed before, both clocks are at the music's rate
\* (es8311_audio_set_run_mode's playback, es8311_audio_i2s_reconfigure).
THEOREM MusicComesBack ==
    ASSUME ~Talk, ~Listening
    PROVE  Spec => []ClocksBack
<1>1. CallInv => ClocksBack
  <2> SUFFICES ASSUME CallInv, Settled, sco = "none"
               PROVE  /\ hw.codec = route.rate
                      /\ route.playing => route.rate = MusicRate
                      /\ faults = 0 => route.rate = MusicRate /\ hw.i2s = MusicRate
    BY DEF ClocksBack
  <2>1. Now \in MusicOn
    BY SettledRest
  <2> QED BY <2>1 DEF MusicOn, AnyTime, InSync, AtMusicRate, Now
<1> QED BY <1>1, CallInvariance, PTL
=============================================================================
