----------------------------- MODULE CodecCore -----------------------------
(* es8311_audio.c: the state shared by everyone who plays or records, and the *)
(* steps that change it.  Left out: the sample buffers and the startup ramp,  *)
(* the master volume, the initialisation (everything is inited), and failures *)
(* of the HAL, which is called with constant parameters only.                 *)
EXTENDS Threads

CONSTANTS MusicRate,    \* ES8311_AUDIO_DEFAULT_SAMPLE_RATE, the mixer's rate
          CallRates,    \* CVSD and mSBC rates of the calls of a run
          I2cRetries,   \* whether register accesses may be retried after a delay
          MaxFaults     \* how many codec starts may fail in a behaviour

ASSUME RatesAssumption == MusicRate \notin CallRates
ASSUME FaultsAssumption == I2cRetries \in BOOLEAN /\ MaxFaults \in Nat

VARIABLES route,    \* es8311_audio_ctx
          hw,       \* I2S clock, codec clock, the codec's DAC and ADC paths
          faults    \* codec failures so far

Rates == CallRates \union {MusicRate}

coreVars == <<route, hw, faults>>

CoreTypeOK ==
    /\ route \in [dma : {"stopped", "playback", "duplex"}, playing : BOOLEAN,
                  capturing : BOOLEAN, pending : BOOLEAN, rate : Rates,
                  callRate : Rates, renderer : {"mixer", "hfp"}]
    /\ hw \in [i2s : Rates, codec : Rates, dac : BOOLEAN, adc : BOOLEAN]
    /\ faults \in 0..MaxFaults

CoreInit ==
    /\ route = [dma |-> "stopped", playing |-> FALSE, capturing |-> FALSE,
                pending |-> FALSE, rate |-> MusicRate, callRate |-> MusicRate,
                renderer |-> "mixer"]
    /\ hw = [i2s |-> MusicRate, codec |-> MusicRate, dac |-> FALSE, adc |-> FALSE]
    /\ faults = 0

RunMode ==
    CASE route.playing /\ route.capturing -> "duplex"
      [] ~route.playing /\ route.capturing -> "capture"
      [] route.playing /\ ~route.capturing -> "playback"
      [] OTHER -> "idle"

----------------------------------------------------------------------------
(* The functions, as programs.                                              *)

StopPlayback == Do("PlayingOff") \o Do("DacOff") \o Do("PlaybackDmaOff")
StopCapture  == Do("CapturingOff") \o Do("AdcOff") \o Do("DuplexDmaOff")
GoIdle       == StopPlayback \o StopCapture

StartCallDuplex ==
    Do("CallCheck")
    \o Do("DacOn")
    \o Try(Do("AdcOn"), <<>>, Do("DacOff") \o Do("Fail"))
    \o Do("CallFlagsOn")
    \o Try(Do("DuplexDmaOn"), <<>>,
           Do("CallFlagsOff") \o Do("AdcOff") \o Do("DacOff") \o Do("Fail"))

EnterMode(rate, start) == GoIdle \o With("Reconfigure", rate) \o start

----------------------------------------------------------------------------
(* I2C: the only steps during which a thread sleeps inside this module.     *)

CodecSteps == {"CodecRate", "DacOn", "DacOff", "AdcOn", "AdcOff"}

\* es8311_start_playback and _record wait for the analog supply; every access
\* may be retried after a delay.
InCodecDelay(t) ==
    \/ At(t, "DacOn") /\ ~hw.dac
    \/ At(t, "AdcOn") /\ ~hw.adc
    \/ I2cRetries /\ \E step \in CodecSteps : At(t, step)

CodecFails(t) ==
    /\ faults < MaxFaults
    /\ faults' = faults + 1
    /\ Raise(t)
    /\ UNCHANGED <<route, hw>>

DacOn(t) ==
    /\ At(t, "DacOn")
    /\ \/ ~hw.dac /\ CodecFails(t)
       \/ Go(t, <<>>) /\ hw' = [hw EXCEPT !.dac = TRUE] /\ UNCHANGED <<route, faults>>

DacOff(t) ==
    /\ At(t, "DacOff")
    /\ Go(t, <<>>)
    /\ hw' = [hw EXCEPT !.dac = FALSE]
    /\ UNCHANGED <<route, faults>>

AdcOn(t) ==
    /\ At(t, "AdcOn")
    /\ \/ ~hw.adc /\ CodecFails(t)
       \/ Go(t, <<>>) /\ hw' = [hw EXCEPT !.adc = TRUE] /\ UNCHANGED <<route, faults>>

AdcOff(t) ==
    /\ At(t, "AdcOff")
    /\ Go(t, <<>>)
    /\ hw' = [hw EXCEPT !.adc = FALSE]
    /\ UNCHANGED <<route, faults>>

CodecRate(t) ==
    /\ At(t, "CodecRate")
    /\ \/ hw.codec # route.rate /\ CodecFails(t)
       \/ Go(t, <<>>) /\ hw' = [hw EXCEPT !.codec = route.rate] /\ UNCHANGED <<route, faults>>

----------------------------------------------------------------------------
(* Steps that only change flags, the DMA and the I2S clock.                 *)

Set(t, program, new) ==
    /\ Go(t, program)
    /\ route' = new
    /\ UNCHANGED <<hw, faults>>

Keep(t, program) == Set(t, program, route)

Refuse(t) == Raise(t) /\ UNCHANGED coreVars

PlayingOff(t) ==
    /\ At(t, "PlayingOff")
    /\ Set(t, <<>>, [route EXCEPT !.playing = FALSE, !.pending = FALSE])

PlaybackDmaOff(t) ==
    /\ At(t, "PlaybackDmaOff")
    /\ Set(t, <<>>, [route EXCEPT !.dma = IF @ = "playback" THEN "stopped" ELSE @])

CapturingOff(t) ==
    /\ At(t, "CapturingOff")
    /\ Set(t, <<>>, [route EXCEPT !.capturing = FALSE])

DuplexDmaOff(t) ==
    /\ At(t, "DuplexDmaOff")
    /\ Set(t, <<>>, [route EXCEPT !.dma =
                        IF @ = "duplex" /\ ~route.playing THEN "stopped" ELSE @])

CapturingOn(t) ==
    /\ At(t, "CapturingOn")
    /\ Set(t, <<>>, [route EXCEPT !.capturing = TRUE])

DmaOff(t) ==
    /\ At(t, "DmaOff")
    /\ Set(t, <<>>, [route EXCEPT !.dma = "stopped"])

DmaOn(t, step, mode) ==
    /\ At(t, step)
    /\ IF route.dma \in {"stopped", mode}
       THEN Set(t, <<>>, [route EXCEPT !.dma = mode])
       ELSE Refuse(t)

PlaybackDmaOn(t) == DmaOn(t, "PlaybackDmaOn", "playback")
DuplexDmaOn(t)   == DmaOn(t, "DuplexDmaOn", "duplex")

CallCheck(t) ==
    /\ At(t, "CallCheck")
    /\ IF route.dma # "stopped" \/ route.playing \/ route.capturing
       THEN Refuse(t)
       ELSE Set(t, <<>>, [route EXCEPT !.pending = FALSE])

CallFlagsOn(t) ==
    /\ At(t, "CallFlagsOn")
    /\ Set(t, <<>>, [route EXCEPT !.playing = TRUE, !.capturing = TRUE, !.pending = FALSE])

CallFlagsOff(t) ==
    /\ At(t, "CallFlagsOff")
    /\ Set(t, <<>>, [route EXCEPT !.playing = FALSE, !.capturing = FALSE, !.pending = FALSE])

\* es8311_audio_i2s_reconfigure: the I2S at once, then the codec follows.
Reconfigure(t) ==
    /\ At(t, "Reconfigure")
    /\ IF route.rate = Arg(t)
       THEN Keep(t, <<>>)
       ELSE /\ Go(t, Try(Do("CodecRate") \o Do("SyncDac") \o Do("SyncAdc")
                            \o With("RestartDma", route.dma),
                         <<>>, With("RateBack", route.rate) \o Do("Fail")))
            /\ route' = [route EXCEPT !.rate = Arg(t), !.dma = "stopped"]
            /\ hw' = [hw EXCEPT !.i2s = Arg(t)]
            /\ UNCHANGED faults

SyncDac(t) ==
    /\ At(t, "SyncDac")
    /\ Keep(t, Do(IF route.playing THEN "DacOn" ELSE "DacOff"))

SyncAdc(t) ==
    /\ At(t, "SyncAdc")
    /\ Keep(t, Do(IF route.capturing THEN "AdcOn" ELSE "AdcOff"))

RestartDma(t) ==
    /\ At(t, "RestartDma")
    /\ LET mode == IF route.capturing THEN "duplex"
                   ELSE IF route.playing /\ ~route.pending THEN "playback" ELSE "stopped"
       IN  IF mode = "stopped" THEN Keep(t, <<>>)
           ELSE IF route.dma \in {"stopped", mode}
           THEN Set(t, <<>>, [route EXCEPT !.dma = mode])
           ELSE Set(t, Do("Fail"), [route EXCEPT !.dma = Arg(t)])

RateBack(t) ==
    /\ At(t, "RateBack")
    /\ Set(t, <<>>, [route EXCEPT !.rate = Arg(t)])

----------------------------------------------------------------------------
(* Steps that decide what comes next.                                       *)

\* es8311_audio_start_playback
StartPlayback(t) ==
    /\ At(t, "StartPlayback")
    /\ Keep(t, (IF route.capturing THEN StopCapture ELSE <<>>) \o Do("ArmPlayback"))

ArmPlayback(t) ==
    /\ At(t, "ArmPlayback")
    /\ IF route.playing
       THEN Keep(t, <<>>)
       ELSE Set(t, Try(Do("DacOn"), <<>>, Do("PlayingOff") \o Do("Fail")),
                   [route EXCEPT !.playing = TRUE, !.pending = TRUE])

\* es8311_audio_start_capture
StartCapture(t) ==
    /\ At(t, "StartCapture")
    /\ IF route.playing
       THEN Refuse(t)
       ELSE Keep(t, (IF route.dma = "stopped" THEN Do("DuplexDmaOn") ELSE <<>>)
                    \o Try(Do("AdcOn"), Do("CapturingOn"), Do("DmaOff") \o Do("Fail")))

\* es8311_audio_set_run_mode
SetRunMode(t) ==
    /\ At(t, "SetRunMode")
    /\ Keep(t, CASE Arg(t) = "idle" -> GoIdle
                 [] Arg(t) = "playback" /\ RunMode # "playback" ->
                      EnterMode(MusicRate, Do("StartPlayback"))
                 [] Arg(t) = "capture" /\ RunMode # "capture" ->
                      EnterMode(MusicRate, Do("StartCapture"))
                 [] Arg(t) = "duplex" /\ ~(RunMode = "duplex" /\ route.rate = route.callRate) ->
                      EnterMode(route.callRate, StartCallDuplex)
                 [] OTHER -> <<>>)

SetRenderer(t) ==
    /\ At(t, "SetRenderer")
    /\ IF route.playing
       THEN Refuse(t)
       ELSE Set(t, <<>>, [route EXCEPT !.renderer = Arg(t)])

SetCallRate(t) ==
    /\ At(t, "SetCallRate")
    /\ Set(t, <<>>, [route EXCEPT !.callRate = Arg(t)])

\* es8311_audio_notify_playback_ready
Notify(t) ==
    /\ At(t, "Notify")
    /\ IF route.playing /\ route.pending
       THEN Set(t, Try(Do("PlaybackDmaOn"), <<>>, Do("PlayingOff") \o Do("Fail")),
                   [route EXCEPT !.pending = FALSE])
       ELSE Keep(t, <<>>)

CoreStep(t) ==
    \/ DacOn(t) \/ DacOff(t) \/ AdcOn(t) \/ AdcOff(t) \/ CodecRate(t)
    \/ PlayingOff(t) \/ PlaybackDmaOff(t) \/ CapturingOff(t) \/ DuplexDmaOff(t)
    \/ CapturingOn(t) \/ DmaOff(t) \/ PlaybackDmaOn(t) \/ DuplexDmaOn(t)
    \/ CallCheck(t) \/ CallFlagsOn(t) \/ CallFlagsOff(t)
    \/ Reconfigure(t) \/ SyncDac(t) \/ SyncAdc(t) \/ RestartDma(t) \/ RateBack(t)
    \/ StartPlayback(t) \/ ArmPlayback(t) \/ StartCapture(t) \/ SetRunMode(t)
    \/ SetRenderer(t) \/ SetCallRate(t) \/ Notify(t)
=============================================================================
