---------------------------- MODULE AudioRoute ----------------------------
(* Who owns the codec: the mixer's sessions (audio_mixer.c), A2DP playback    *)
(* (bt_a2dp_sink_app.c), HFP calls (bt_hfp_hf_app.c), push to talk            *)
(* (control_app.c) and the reply receiver (uart_send_pcm.c), on three threads *)
(* of different priority.                                                     *)
(*   bt   BTstack's thread: A2DP and HFP events                               *)
(*   rx   the UART reply receiver, pcm_rx                                     *)
(*   ctl  the control thread: push to talk                                    *)
(* Left out: AVRCP (the peer's playback state is any, and no play or pause    *)
(* command has an answer here), the PCM sender's own thread (it only reads    *)
(* captured samples; starting it succeeds or fails), the contents of the      *)
(* rings beyond "at the start watermark", A2DP rates the mixer refuses.       *)
EXTENDS CodecCore

CONSTANTS Music,        \* whether the peer streams music
          Talk,         \* whether the user presses the key
          Listening,    \* whether the run starts after an earlier talk
          QuietRounds   \* how often control_ptt_wait_playback_quiet looks

ASSUME UsersAssumption == Music \in BOOLEAN /\ Talk \in BOOLEAN /\ Listening \in BOOLEAN
ASSUME ThreadAssumption == Thread = {"bt", "rx", "ctl"}
ASSUME RoundsAssumption == QuietRounds \in Nat
ASSUME LinkAssumption == "none" \notin CallRates

VARIABLES active,   \* mixer sources in a session
          ready,    \* those whose ring is at its start watermark
          a2dp,     \* stream_active, local_media_enabled, media_allowed
          sco,      \* the call's rate, or "none": the SCO handle
          reply,    \* the reply receiver
          ptt       \* the key and g_ptt_capturing

mixVars  == <<active, ready>>
userVars == <<a2dp, sco, reply, ptt>>
vars == <<todo, mutex, route, hw, faults, active, ready, a2dp, sco, reply, ptt>>

Sources == {"background", "voice"}

TypeOK ==
    /\ CoreTypeOK
    /\ mutex \in Thread \union {"none"}
    /\ active \subseteq Sources /\ ready \subseteq active
    /\ a2dp \in [stream : BOOLEAN, enabled : BOOLEAN, allowed : BOOLEAN]
    /\ sco \in CallRates \union {"none"}
    /\ reply \in [enabled : BOOLEAN, done : BOOLEAN, open : BOOLEAN, voice : BOOLEAN]
    /\ ptt \in [held : BOOLEAN, capturing : BOOLEAN]

Init ==
    /\ CoreInit
    /\ todo = [t \in Thread |-> <<>>]
    /\ mutex = "none"
    /\ active = {} /\ ready = {}
    /\ a2dp = [stream |-> FALSE, enabled |-> TRUE, allowed |-> FALSE]
    /\ sco = "none"
    /\ reply = [enabled |-> Listening, done |-> ~Listening, open |-> FALSE, voice |-> FALSE]
    /\ ptt = [held |-> FALSE, capturing |-> FALSE]

----------------------------------------------------------------------------
(* Mixer.                                                                   *)

\* Mutant: the error return forgets the mutex.
LockedLeaks(program) == Do("Lock") \o Try(program, Do("Unlock"), Do("Fail"))

Locked(program) == Do("Lock") \o Try(program, Do("Unlock"), Do("Unlock") \o Do("Fail"))

SourceStart(s) == Locked(With("Activate", s))
SourceStop(s)  == Locked(With("Deactivate", {s}))
StopAll        == Locked(With("Deactivate", Sources) \o StopPlayback)

\* Mutant: a session opens during a capture or a call.
ActivateAnyway(t) ==
    /\ At(t, "Activate")
    /\ Go(t, With("StartSink", Arg(t)))
    /\ active' = active \union {Arg(t)}
    /\ ready' = ready \ ({Arg(t)} \ active)

Activate(t) ==
    /\ At(t, "Activate")
    /\ IF route.capturing
       THEN Raise(t) /\ UNCHANGED mixVars
       ELSE /\ Go(t, With("StartSink", Arg(t)))
            /\ active' = active \union {Arg(t)}
            /\ ready' = ready \ ({Arg(t)} \ active)

StartSink(t) ==
    /\ At(t, "StartSink")
    /\ Go(t, IF route.playing THEN <<>>
             ELSE Try(With("Reconfigure", MusicRate) \o Do("StartPlayback"),
                      <<>>, With("Rollback", Arg(t)) \o Do("Fail")))
    /\ UNCHANGED mixVars

Rollback(t) ==
    /\ At(t, "Rollback")
    /\ Go(t, <<>>)
    /\ active' = active \ {Arg(t)}
    /\ ready' = ready \ {Arg(t)}

\* Mutant: the ring of a source that stops is not reset.
DeactivateKeepsRing(t) ==
    /\ At(t, "Deactivate")
    /\ active' = active \ Arg(t)
    /\ ready' = ready
    /\ Go(t, IF active' = {} /\ Arg(t) # Sources THEN StopPlayback ELSE <<>>)

\* Mutant: every source that leaves stops the sink.
DeactivateStopsSink(t) ==
    /\ At(t, "Deactivate")
    /\ active' = active \ Arg(t)
    /\ ready' = ready \ Arg(t)
    /\ Go(t, IF Arg(t) # Sources THEN StopPlayback ELSE <<>>)

\* The last source that leaves stops the sink; stop_all stops it in any case.
Deactivate(t) ==
    /\ At(t, "Deactivate")
    /\ active' = active \ Arg(t)
    /\ ready' = ready \ Arg(t)
    /\ Go(t, IF active' = {} /\ Arg(t) # Sources THEN StopPlayback ELSE <<>>)

\* Mutant: only the background's watermark starts the sink.
WriteStartsBackground(t) ==
    /\ At(t, "WriteFrames")
    /\ active' = active
    /\ IF Arg(t) \notin active
       THEN Go(t, <<>>) /\ ready' = ready
       ELSE \E level \in {ready, ready \union {Arg(t)}} :
              /\ ready' = level
              /\ Go(t, IF "background" \notin level THEN <<>>
                       ELSE Locked(Do("NotifyIfReady")))

\* audio_mixer_write, to the level it leaves; the sink is told under the mutex.
WriteFrames(t) ==
    /\ At(t, "WriteFrames")
    /\ active' = active
    /\ IF Arg(t) \notin active
       THEN Go(t, <<>>) /\ ready' = ready
       ELSE \E level \in {ready, ready \union {Arg(t)}} :
              /\ ready' = level
              /\ Go(t, IF level = {} THEN <<>> ELSE Locked(Do("NotifyIfReady")))

NotifyIfReady(t) ==
    /\ At(t, "NotifyIfReady")
    /\ Go(t, IF ready = {} THEN <<>> ELSE Ignore(Do("Notify")))
    /\ UNCHANGED mixVars

\* audio_mixer_render_stereo, in the DMA interrupt.
Render ==
    /\ route.dma # "stopped" /\ route.playing /\ ~route.pending
    /\ route.renderer = "mixer"
    /\ ready # {}
    /\ ready' \in SUBSET ready \ {ready}
    /\ UNCHANGED <<todo, mutex, active>>

MixStep(t) ==
    /\ \/ Activate(t) \/ StartSink(t) \/ Rollback(t) \/ Deactivate(t)
       \/ WriteFrames(t) \/ NotifyIfReady(t)
    /\ UNCHANGED mutex

----------------------------------------------------------------------------
(* A2DP and HFP events, on bt.                                              *)

Begin(t, program) == Idle(t) /\ todo' = [todo EXCEPT ![t] = program]

Arm == Try(SourceStart("background"), With("Allow", TRUE), With("Allow", FALSE))

StreamStarted ==
    /\ Music /\ ~a2dp.stream
    /\ a2dp' = [a2dp EXCEPT !.stream = TRUE]
    /\ Begin("bt", IF a2dp.enabled THEN Arm ELSE With("Allow", FALSE))
    /\ UNCHANGED <<sco, reply, ptt>>

\* STREAM_SUSPENDED, _STOPPED, _RELEASED and SIGNALING_CONNECTION_RELEASED: the
\* last two also come when the stream had stopped before.
StreamEnded ==
    /\ Music
    /\ a2dp' = [a2dp EXCEPT !.stream = FALSE, !.allowed = FALSE]
    /\ Begin("bt", SourceStop("background"))
    /\ UNCHANGED <<sco, reply, ptt>>

MediaPacket ==
    /\ a2dp.stream /\ a2dp.enabled /\ a2dp.allowed
    /\ Begin("bt", With("WriteFrames", "background"))
    /\ UNCHANGED userVars

EnterCall(rate) ==
    With("SetRunMode", "idle")
    \o Try(With("SetRenderer", "hfp"),
           With("SetCallRate", rate)
             \o Try(With("SetRunMode", "duplex"), <<>>,
                    Ignore(With("SetRenderer", "mixer"))
                      \o Ignore(With("SetRunMode", "playback"))),
           <<>>)

\* Mutant: the renderer is set before the call has stopped.
LeaveCallEarly ==
    Try(With("SetRenderer", "mixer"), With("SetRunMode", "idle"), <<>>)
    \o Ignore(With("SetRunMode", "playback"))

\* Mutant: the call's rate stays.
LeaveCallIdle == With("SetRunMode", "idle") \o Ignore(With("SetRenderer", "mixer"))

LeaveCall ==
    With("SetRunMode", "idle")
    \o Try(With("SetRenderer", "mixer"), Ignore(With("SetRunMode", "playback")), <<>>)

ScoEstablished(rate) ==
    /\ sco = "none"
    /\ sco' = rate
    /\ Begin("bt", EnterCall(rate))
    /\ UNCHANGED <<a2dp, reply, ptt>>

\* The release of the service level also forgets the handle (bt_hfp_hf_app.c:280),
\* but BTstack reports it after the release of the audio, if there was any.
ScoReleased ==
    /\ sco # "none"
    /\ sco' = "none"
    /\ Begin("bt", LeaveCall)
    /\ UNCHANGED <<a2dp, reply, ptt>>

----------------------------------------------------------------------------
(* The local media gate: bt_a2dp_sink_set_local_media_enabled, on ctl.      *)

\* Mutant: the background source stops, the gate stays open.
CloseGateNot == With("Allow", FALSE) \o SourceStop("background")

CloseGate == With("Enable", FALSE) \o With("Allow", FALSE) \o SourceStop("background")
OpenGate  == With("Enable", TRUE) \o Do("ReadStream")

Enable(t) ==
    /\ At(t, "Enable")
    /\ Go(t, <<>>)
    /\ a2dp' = [a2dp EXCEPT !.enabled = Arg(t)]
    /\ UNCHANGED <<sco, reply, ptt>>

Allow(t) ==
    /\ At(t, "Allow")
    /\ Go(t, <<>>)
    /\ a2dp' = [a2dp EXCEPT !.allowed = Arg(t)]
    /\ UNCHANGED <<sco, reply, ptt>>

\* The stream flag is read here and acted upon later.
ReadStream(t) ==
    /\ At(t, "ReadStream")
    /\ Go(t, IF a2dp.stream THEN Ignore(Arm) ELSE With("Allow", FALSE))
    /\ UNCHANGED userVars

----------------------------------------------------------------------------
(* Push to talk, on ctl.  keyboard_poll runs on the same thread, so the key  *)
(* is seen to change only between two of these programs.                     *)

PttCapture ==
    StopAll
    \o Try(With("SetRunMode", "capture"), With("SetCapturing", TRUE), Do("UartStop") \o OpenGate)

PttStart ==
    With("WaitQuiet", QuietRounds)
    \o CloseGate
    \o Do("ReplyOff")
    \o Try(Do("WaitReplyDone") \o Do("UartStart"), PttCapture, OpenGate)

\* Mutant: the key's release leaves the stop to whoever plays next.
PttStopLazy == With("SetCapturing", FALSE) \o Do("UartStop") \o OpenGate \o Do("ReplyOn")

PttStop ==
    With("SetCapturing", FALSE)
    \o StopCapture
    \o Do("UartStop")
    \o With("SetRunMode", "idle")
    \o OpenGate
    \o Do("ReplyOn")

Press ==
    /\ Talk /\ ~ptt.held
    /\ ptt' = [ptt EXCEPT !.held = TRUE]
    /\ Begin("ctl", IF ptt.capturing THEN <<>> ELSE PttStart)
    /\ UNCHANGED <<a2dp, sco, reply>>

Release ==
    /\ ptt.held
    /\ ptt' = [ptt EXCEPT !.held = FALSE]
    /\ Begin("ctl", IF ptt.capturing THEN PttStop ELSE <<>>)
    /\ UNCHANGED <<a2dp, sco, reply>>

\* control_ptt_wait_playback_quiet: one look, with the peer playing or not.
WaitQuiet(t) ==
    /\ At(t, "WaitQuiet")
    /\ UNCHANGED userVars
    /\ \E peerPlaying \in BOOLEAN :
         LET stopLocal == route.playing /\ (Arg(t) = 0 \/ ~peerPlaying)
             quiet == ~peerPlaying /\ ~a2dp.stream /\ ~route.playing
         IN  Go(t, (IF stopLocal THEN StopAll ELSE <<>>)
                   \o (IF quiet \/ Arg(t) = 0 THEN <<>> ELSE With("WaitQuiet", Arg(t) - 1)))

SetCapturing(t) ==
    /\ At(t, "SetCapturing")
    /\ Go(t, <<>>)
    /\ ptt' = [ptt EXCEPT !.capturing = Arg(t)]
    /\ UNCHANGED <<a2dp, sco, reply>>

\* uart_send_pcm_start after the reply receiver is off: it may fail.
UartStart(t) ==
    /\ At(t, "UartStart")
    /\ Go(t, <<>>) \/ Raise(t)
    /\ UNCHANGED userVars

UartStop(t) ==
    /\ At(t, "UartStop")
    /\ Go(t, <<>>)
    /\ UNCHANGED userVars

----------------------------------------------------------------------------
(* The reply receiver: switched by ctl, worked by rx.                       *)

SetReply(t, new) ==
    /\ Go(t, <<>>)
    /\ reply' = new
    /\ UNCHANGED <<a2dp, sco, ptt>>

ReplyOn(t) ==
    /\ At(t, "ReplyOn")
    /\ SetReply(t, [reply EXCEPT !.enabled = TRUE, !.done = FALSE])

ReplyOff(t) ==
    /\ At(t, "ReplyOff")
    /\ SetReply(t, [reply EXCEPT !.enabled = FALSE])

\* uart_pcm_rx_disable waits a limited time.
WaitReplyDone(t) ==
    /\ At(t, "WaitReplyDone")
    /\ IF reply.done THEN Go(t, <<>>) ELSE Raise(t)
    /\ UNCHANGED userVars

ReplyPark ==
    /\ ~reply.open /\ ~reply.enabled /\ ~reply.done /\ Idle("rx")
    /\ reply' = [reply EXCEPT !.done = TRUE]
    /\ UNCHANGED <<todo, a2dp, sco, ptt>>

ReplyOpen ==
    /\ ~reply.open /\ reply.enabled /\ Idle("rx")
    /\ reply' \in {[reply EXCEPT !.open = TRUE, !.done = FALSE],
                   [reply EXCEPT !.enabled = FALSE, !.done = TRUE]}
    /\ UNCHANGED <<todo, a2dp, sco, ptt>>

Speak == With("WriteFrames", "voice")
Hush  == SourceStop("voice") \o With("SetVoice", FALSE)

ReplyData ==
    /\ reply.open
    /\ Begin("rx", IF reply.voice THEN Speak
                   ELSE Try(SourceStart("voice"), With("SetVoice", TRUE) \o Speak, <<>>))
    /\ UNCHANGED userVars

ReplyIdle ==
    /\ reply.open /\ reply.voice
    /\ Begin("rx", Hush)
    /\ UNCHANGED userVars

ReplyClose ==
    /\ reply.open /\ ~reply.enabled
    /\ Begin("rx", (IF reply.voice THEN Hush ELSE <<>>) \o Do("CloseUart"))
    /\ UNCHANGED userVars

SetVoice(t) ==
    /\ At(t, "SetVoice")
    /\ SetReply(t, [reply EXCEPT !.voice = Arg(t)])

CloseUart(t) ==
    /\ At(t, "CloseUart")
    /\ SetReply(t, [reply EXCEPT !.open = FALSE, !.done = TRUE])

----------------------------------------------------------------------------
\* Delays of a thread's own, in which less urgent threads run.
Waits == {"WaitQuiet", "WaitReplyDone", "UartStart", "UartStop"}
Asleep == {t \in Thread : InCodecDelay(t) \/ \E w \in Waits : At(t, w)}

UserStep(t) ==
    /\ \/ Enable(t) \/ Allow(t) \/ ReadStream(t)
       \/ WaitQuiet(t) \/ SetCapturing(t) \/ UartStart(t) \/ UartStop(t)
       \/ ReplyOn(t) \/ ReplyOff(t) \/ WaitReplyDone(t) \/ SetVoice(t) \/ CloseUart(t)
    /\ UNCHANGED mutex

BtEvent ==
    \/ StreamStarted \/ StreamEnded \/ MediaPacket
    \/ \E rate \in CallRates : ScoEstablished(rate)
    \/ ScoReleased
RxEvent == ReplyPark \/ ReplyOpen \/ ReplyData \/ ReplyIdle \/ ReplyClose
CtlEvent == Press \/ Release

Step(t) ==
    /\ Runs(t, Asleep)
    /\ \/ (Lock(t) \/ Unlock(t) \/ Call(t) \/ Return(t) \/ Fail(t))
            /\ UNCHANGED <<coreVars, mixVars, userVars>>
       \/ CoreStep(t) /\ UNCHANGED <<mutex, mixVars, userVars>>
       \/ MixStep(t) /\ UNCHANGED <<coreVars, userVars>>
       \/ UserStep(t) /\ UNCHANGED <<coreVars, mixVars>>

Event(t, what) == Runs(t, Asleep) /\ what /\ UNCHANGED <<mutex, coreVars, mixVars>>

Next ==
    \/ \E t \in Thread : Step(t)
    \/ Event("bt", BtEvent)
    \/ Event("rx", RxEvent)
    \/ Event("ctl", CtlEvent)
    \/ Render /\ UNCHANGED <<coreVars, userVars>>

Spec == Init /\ [][Next]_vars

----------------------------------------------------------------------------
Settled == \A t \in Thread : Idle(t)

\* While push to talk captures, the codec is its own: the microphone path is
\* on, full-duplex DMA runs, and nobody plays or holds a mixer session
\* (control_ptt_start closes the gate, stops the replies, clears the mixer).
CaptureExclusive ==
    ptt.capturing /\ Idle("ctl") =>
        /\ route.capturing /\ hw.adc /\ route.dma = "duplex"
        /\ ~route.playing /\ active = {}

\* Without a call, when every thread is done, the codec core is what the mixer
\* sessions and the capture ask for: no DMA runs for nobody, no session is left
\* without its sink, no path of the codec stays on or off by an old request.
RouteFollowsUsers ==
    Settled /\ sco = "none" /\ CallRates = {} =>
        /\ route.playing <=> active # {}
        /\ route.dma = "duplex" <=> route.capturing
        /\ route.dma = "playback" <=> route.playing /\ ~route.pending
        /\ hw.dac = route.playing /\ hw.adc = route.capturing

\* Whoever holds the mixer's mutex is on its way to release it: no return leaves
\* it locked, and its owner waits neither for the mutex nor for another thread.
OwnerMovesOn ==
    mutex # "none" =>
        ~Idle(mutex) /\ ~At(mutex, "Lock") /\ ~At(mutex, "WaitReplyDone")

\* A source with enough data plays: the start that audio_mixer_write asks for is
\* never lost between a writer, a stop and a start.
NoLostStart ==
    Settled /\ CallRates = {} /\ ready # {} => route.dma = "playback" /\ ~route.pending

\* After every call, however its set-up or its way back failed, the renderer is
\* the mixer's again (the caller's samples would play as music otherwise).
RendererRestored == Settled /\ sco = "none" => route.renderer = "mixer"

\* However calls, talks and replies got into each other's way, when they are all
\* over nothing captures, full-duplex DMA is off and the rate is the music's.
CaptureReleased ==
    Settled /\ sco = "none" /\ ~ptt.capturing =>
        ~route.capturing /\ route.dma # "duplex" /\ route.rate = MusicRate

\* A call whose set-up succeeded keeps the codec in its own way, whatever A2DP
\* does meanwhile: full-duplex DMA, the call's rate, the microphone.
CallUndisturbed ==
    Settled /\ sco # "none" /\ route.renderer = "hfp" =>
        /\ route.dma = "duplex" /\ route.rate = sco
        /\ faults = 0 => hw.i2s = sco /\ hw.codec = sco
        /\ route.capturing /\ hw.adc

\* After every call, however it failed, the codec is at the rate that is noted and
\* nothing plays at another rate than the music's.  Without a failure both clocks
\* are at it; a rate the codec refused stays with the I2S
\* (es8311_audio_i2s_reconfigure takes back its note only).
ClocksBack ==
    Settled /\ sco = "none" =>
        /\ hw.codec = route.rate
        /\ route.playing => route.rate = MusicRate
        /\ faults = 0 => route.rate = MusicRate /\ hw.i2s = MusicRate

\* After every call, however it failed, the microphone is off, the speaker is on
\* exactly while playback is, and its DMA runs unless playback waits for data.
\* Without a failure a stream that kept its session is armed to play.
SpeakerBack ==
    Settled /\ sco = "none" =>
        /\ ~route.capturing /\ ~hw.adc /\ hw.dac = route.playing
        /\ route.dma = IF route.playing /\ ~route.pending THEN "playback" ELSE "stopped"
        /\ faults = 0 /\ active # {} => route.playing

\* The way back to the music (README.md:123).
BackToMusic == ClocksBack /\ SpeakerBack

----------------------------------------------------------------------------
\* What the README says, and the code does not do.

\* Music streams and the gate is open: its packets are let through
\* (README.md:40: the phone's stream is decoded and played).
MusicHeard ==
    Settled /\ sco = "none" /\ a2dp.stream /\ a2dp.enabled => a2dp.allowed
=============================================================================
