------------------------------ MODULE TalkLink ------------------------------
(* Push to talk and the UART it shares with the replies: the key (Keyboard),  *)
(* control_app.c's start and stop on the control thread (priority 19), and    *)
(* uart_send_pcm.c's receiver (13) and sender (14), which take turns at uart3 *)
(* by the flags enabled, running, ready and done.                             *)
(* A worker is more urgent than the control thread: what it does between two  *)
(* waits is one turn, and the two workers share nothing else.  The control    *)
(* thread moves one shared flag at a time, with turns in between.             *)
(* AudioRoute models what start and stop do to the codec, BtThread how AVRCP's *)
(* commands get out.  keyboard_poll runs on the control thread, so the key is *)
(* never found released inside control_ptt_start: its early returns for that  *)
(* are left out.                                                              *)
EXTENDS Naturals

CONSTANTS Debounce, LongPress, DoubleClick,
          Block     \* bytes of a block of samples, written in pieces

ASSUME BlockAssumption == Block \in Nat \ {0}

VARIABLES finger,   \* whether the key is down
          key,      \* key_rt
          ctl,      \* the control thread
          rx, tx,   \* receiver and sender
          avrcp,    \* whether AVRCP is connected, the peer paused for a talk;
                    \* history: the play command owed to it was refused
          overrun   \* a stop gave up waiting for the sender, which is open

vars == <<finger, key, ctl, rx, tx, avrcp, overrun>>

Button == INSTANCE Keyboard

ASSUME KeyAssumption == Button!Times

AtRest == {"poll", "key"}

CtlState ==
    [pc : AtRest \union {"quiet", "waitRx", "waitTx", "arm", "run", "waitReady", "capture",
                         "stop", "waitClosed", "abandon", "listen", "enable", "resume"},
     after : {"abandon", "listen"}, req : {"none", "start", "stop"},
     capturing : BOOLEAN, resume : BOOLEAN]

RxState ==
    [pc : {"parked", "open", "busy", "hush"}, enabled : BOOLEAN, done : BOOLEAN, voice : BOOLEAN]

TxState ==
    [pc : {"parked", "send", "block"}, running : BOOLEAN, done : BOOLEAN,
     ready : BOOLEAN, result : BOOLEAN, left : 0..Block]

AvrcpState == [connected : BOOLEAN, paused : BOOLEAN, refused : BOOLEAN]

TypeOK ==
    /\ finger \in BOOLEAN /\ key \in Button!Key
    /\ ctl \in CtlState /\ rx \in RxState /\ tx \in TxState
    /\ avrcp \in AvrcpState
    /\ overrun \in BOOLEAN

Init ==
    /\ finger = FALSE /\ key = Button!Released
    /\ ctl = [pc |-> "poll", after |-> "listen", req |-> "none",
              capturing |-> FALSE, resume |-> FALSE]
    /\ rx = [pc |-> "parked", enabled |-> FALSE, done |-> TRUE, voice |-> FALSE]
    /\ tx = [pc |-> "parked", running |-> FALSE, done |-> TRUE,
             ready |-> FALSE, result |-> FALSE, left |-> 0]
    /\ avrcp = [connected |-> FALSE, paused |-> FALSE, refused |-> FALSE]
    /\ overrun = FALSE

RxOpen == rx.pc # "parked"
TxOpen == tx.pc # "parked"

----------------------------------------------------------------------------
(* The receiver, uart_pcm_rx_thread_entry.                                  *)

RxOnly == UNCHANGED <<finger, key, ctl, tx, avrcp, overrun>>

RxParks ==
    /\ rx.pc = "parked" /\ ~rx.enabled /\ ~rx.done
    /\ rx' = [rx EXCEPT !.done = TRUE]
    /\ RxOnly

RxOpens ==
    /\ rx.pc = "parked" /\ rx.enabled
    /\ rx' \in {[rx EXCEPT !.pc = "open", !.done = FALSE],
                [rx EXCEPT !.enabled = FALSE, !.done = TRUE]}
    /\ RxOnly

\* The end of a turn: the loop goes on, or the device is closed, after the
\* voice source was stopped.
RxLoops(voice) ==
    IF rx.enabled THEN [rx EXCEPT !.pc = "open", !.voice = voice]
    ELSE IF voice THEN [rx EXCEPT !.pc = "hush", !.voice = TRUE]
    ELSE [rx EXCEPT !.pc = "parked", !.voice = FALSE, !.done = TRUE]

\* A turn of the open receiver: a look at the data, or a call of the mixer,
\* whose mutex and codec may hold it up.
RxTurn ==
    /\ rx.pc = "open"
    /\ rx' = RxLoops(rx.voice) \/ rx' = [rx EXCEPT !.pc = "busy"]
    /\ RxOnly

RxResumes ==
    /\ rx.pc = "busy"
    /\ \E voice \in BOOLEAN : rx' = RxLoops(voice)
    /\ RxOnly

RxHushed ==
    /\ rx.pc = "hush"
    /\ rx' = [rx EXCEPT !.pc = "parked", !.voice = FALSE, !.done = TRUE]
    /\ RxOnly

----------------------------------------------------------------------------
(* The sender, uart_send_pcm_thread_entry.                                  *)

TxOnly == UNCHANGED <<finger, key, ctl, rx, avrcp>>

TxStarts ==
    /\ tx.pc = "parked" /\ tx.running
    /\ tx' \in {[tx EXCEPT !.pc = "send", !.ready = TRUE, !.result = TRUE, !.done = FALSE],
                [tx EXCEPT !.ready = TRUE, !.result = FALSE, !.running = FALSE, !.done = TRUE]}
    /\ TxOnly /\ UNCHANGED overrun

TxCloses ==
    /\ tx' = [tx EXCEPT !.pc = "parked", !.running = FALSE, !.done = TRUE, !.left = 0]
    /\ overrun' = FALSE

TxWaits(left) ==
    /\ tx' = [tx EXCEPT !.left = left, !.pc = IF left = 0 THEN "send" ELSE "block"]
    /\ UNCHANGED overrun

\* uart_send_pcm_write_all, up to the end or a write that takes nothing; then
\* the loop looks at running.
Writes(bytes) ==
    \E left \in 0..bytes :
        IF left = 0 /\ ~tx.running THEN TxCloses ELSE TxWaits(left)

\* With no samples captured the turn writes nothing; nor with too many waiting.
TxTurn ==
    /\ tx.pc = "send"
    /\ IF tx.running THEN Writes(Block) ELSE TxCloses
    /\ TxOnly

TxBlock ==
    /\ tx.pc = "block"
    /\ Writes(tx.left)
    /\ TxOnly

----------------------------------------------------------------------------
(* The control thread: control_ptt_start with uart_send_pcm_start.          *)

Goes(pc) == ctl' = [ctl EXCEPT !.pc = pc]
CtlOnly == UNCHANGED <<finger, key>>

\* A wait of 3000 ms ends without its answer only when the worker is held up:
\* at the mixer, or in the middle of a block.
RxHeldUp == rx.pc \in {"busy", "hush"}
TxHeldUp == tx.pc = "block"

\* control_ptt_poll, up to the first wait: the peer is paused, or cannot be.
PttPoll ==
    /\ ctl.pc = "poll"
    /\ IF ctl.req = "start" /\ ~ctl.capturing
       THEN \E paused \in {FALSE, avrcp.connected} :
                /\ ctl' = [ctl EXCEPT !.pc = "quiet", !.req = "none", !.resume = paused]
                /\ avrcp' = [avrcp EXCEPT !.paused = @ \/ paused, !.refused = @ /\ ~paused]
       ELSE /\ UNCHANGED avrcp
            /\ IF ctl.req = "stop" /\ ctl.capturing
               THEN ctl' = [ctl EXCEPT !.pc = "stop", !.after = "listen", !.req = "none",
                                       !.capturing = FALSE]
               ELSE ctl' = [ctl EXCEPT !.pc = "key", !.req = "none",
                                       !.resume = @ /\ ctl.req # "stop"]
    /\ CtlOnly /\ UNCHANGED <<rx, tx, overrun>>

\* The playback is quiet and the gate shut; uart_pcm_rx_disable begins.
RxDisable ==
    /\ ctl.pc = "quiet"
    /\ Goes("waitRx")
    /\ rx' = [rx EXCEPT !.enabled = FALSE]
    /\ CtlOnly /\ UNCHANGED <<tx, avrcp, overrun>>

\* Mutant: the start does not wait for the receiver.
WaitRxNot ==
    /\ ctl.pc = "waitRx"
    /\ Goes("waitTx")
    /\ CtlOnly /\ UNCHANGED <<rx, tx, avrcp, overrun>>

\* Mutant: the wait for the receiver has no end.
WaitRxForever ==
    /\ ctl.pc = "waitRx"
    /\ rx.done
    /\ Goes("waitTx")
    /\ CtlOnly /\ UNCHANGED <<rx, tx, avrcp, overrun>>

WaitRx ==
    /\ ctl.pc = "waitRx"
    /\ \/ rx.done /\ Goes("waitTx")
       \/ ~rx.done /\ RxHeldUp /\ Goes("abandon")
    /\ CtlOnly /\ UNCHANGED <<rx, tx, avrcp, overrun>>

WaitTx ==
    /\ ctl.pc = "waitTx"
    /\ \/ tx.done /\ Goes("arm")
       \/ ~tx.done /\ TxHeldUp /\ Goes("abandon")
    /\ CtlOnly /\ UNCHANGED <<rx, tx, avrcp, overrun>>

\* Mutant: the answer of the last session is not cleared.
ArmStale ==
    /\ ctl.pc = "arm"
    /\ Goes("run")
    /\ tx' = [tx EXCEPT !.done = FALSE]
    /\ CtlOnly /\ UNCHANGED <<rx, avrcp, overrun>>

Arm ==
    /\ ctl.pc = "arm"
    /\ Goes("run")
    /\ tx' = [tx EXCEPT !.ready = FALSE, !.result = FALSE, !.done = FALSE]
    /\ CtlOnly /\ UNCHANGED <<rx, avrcp, overrun>>

RunSender ==
    /\ ctl.pc = "run"
    /\ Goes("waitReady")
    /\ tx' = [tx EXCEPT !.running = TRUE]
    /\ CtlOnly /\ UNCHANGED <<rx, avrcp, overrun>>

\* The sender prepares without a wait of its own: this one never runs out.
WaitReady ==
    /\ ctl.pc = "waitReady"
    /\ tx.ready
    /\ Goes(IF tx.result THEN "capture" ELSE "abandon")
    /\ CtlOnly /\ UNCHANGED <<rx, tx, avrcp, overrun>>

\* The codec goes to CAPTURE, or does not.
Capture ==
    /\ ctl.pc = "capture"
    /\ ctl' \in {[ctl EXCEPT !.pc = "key", !.capturing = TRUE],
                 [ctl EXCEPT !.pc = "stop", !.after = "abandon"]}
    /\ CtlOnly /\ UNCHANGED <<rx, tx, avrcp, overrun>>

\* bt_avrcp_ct_play for the peer that this talk paused: the queue of commands is
\* full and refuses it, or it takes the command and the pause is over.
PlayAgain ==
    IF ctl.resume /\ avrcp.connected
    THEN \/ avrcp' = [avrcp EXCEPT !.paused = FALSE, !.refused = FALSE]
         \/ avrcp' = [avrcp EXCEPT !.refused = @ \/ avrcp.paused]
    ELSE UNCHANGED avrcp

\* Mutant: a start that fails leaves the peer paused.
AbandonPaused ==
    /\ ctl.pc = "abandon"
    /\ ctl' = [ctl EXCEPT !.pc = "key", !.resume = FALSE]
    /\ CtlOnly /\ UNCHANGED <<rx, tx, avrcp, overrun>>

\* The error returns of control_ptt_start: gate open, peer told to play.  What
\* becomes of the command is not looked at; the talk forgets that it owes one.
Abandon ==
    /\ ctl.pc = "abandon"
    /\ ctl' = [ctl EXCEPT !.pc = "key", !.resume = FALSE]
    /\ PlayAgain
    /\ CtlOnly /\ UNCHANGED <<rx, tx, overrun>>

----------------------------------------------------------------------------
(* control_ptt_stop with uart_send_pcm_stop and uart_pcm_rx_enable.         *)

StopSender ==
    /\ ctl.pc = "stop"
    /\ IF tx.running \/ ~tx.done
       THEN Goes("waitClosed") /\ tx' = [tx EXCEPT !.running = FALSE]
       ELSE Goes(ctl.after) /\ UNCHANGED tx
    /\ CtlOnly /\ UNCHANGED <<rx, avrcp, overrun>>

\* Whether the sender closed or not, the caller goes on: stop returns nothing.
WaitClosed ==
    /\ ctl.pc = "waitClosed"
    /\ \/ tx.done /\ UNCHANGED overrun
       \/ ~tx.done /\ TxHeldUp /\ overrun' = TRUE
    /\ Goes(ctl.after)
    /\ CtlOnly /\ UNCHANGED <<rx, tx, avrcp>>

Listen ==
    /\ ctl.pc = "listen"
    /\ Goes("enable")
    /\ rx' = [rx EXCEPT !.done = FALSE]
    /\ CtlOnly /\ UNCHANGED <<tx, avrcp, overrun>>

RxEnable ==
    /\ ctl.pc = "enable"
    /\ Goes("resume")
    /\ rx' = [rx EXCEPT !.enabled = TRUE]
    /\ CtlOnly /\ UNCHANGED <<tx, avrcp, overrun>>

\* A refused command is logged, and nobody tries again.
Resume ==
    /\ ctl.pc = "resume"
    /\ ctl' = [ctl EXCEPT !.pc = "key", !.resume = FALSE]
    /\ PlayAgain
    /\ CtlOnly /\ UNCHANGED <<rx, tx, overrun>>

----------------------------------------------------------------------------
(* The key: keyboard_poll and control_key_event_cb.                         *)

\* Mutant: the callback does not know the end of a long press.
RequestStartOnly(report) == IF report = "long" THEN "start" ELSE ctl.req

\* What the callback asks of the next control_ptt_poll.
Request(report) ==
    CASE report = "long" -> "start"
      [] report = "longRelease" -> "stop"
      [] OTHER -> ctl.req

KeyPoll ==
    /\ ctl.pc = "key"
    /\ ctl' = [ctl EXCEPT !.pc = "poll", !.req = Request(Button!Reported(key, finger))]
    /\ key' = Button!Polled(key, finger)
    /\ UNCHANGED <<finger, rx, tx, avrcp, overrun>>

Finger ==
    /\ finger' = ~finger
    /\ UNCHANGED <<key, ctl, rx, tx, avrcp, overrun>>

\* A peer that comes or goes is nobody's to resume.
Link ==
    /\ avrcp' = [connected |-> ~avrcp.connected, paused |-> FALSE, refused |-> FALSE]
    /\ UNCHANGED <<finger, key, ctl, rx, tx, overrun>>

----------------------------------------------------------------------------
Rx == RxParks \/ RxOpens \/ RxTurn \/ RxResumes \/ RxHushed
Tx == TxStarts \/ TxTurn \/ TxBlock
Ctl ==
    \/ PttPoll \/ RxDisable \/ WaitRx \/ WaitTx \/ Arm \/ RunSender \/ WaitReady
    \/ Capture \/ Abandon \/ StopSender \/ WaitClosed
    \/ Listen \/ RxEnable \/ Resume \/ KeyPoll

Next == Rx \/ Tx \/ Ctl \/ Finger \/ Link

Spec == Init /\ [][Next]_vars

\* The threads are scheduled.  Nothing is assumed of what holds a worker up.
LiveSpec ==
    /\ Spec
    /\ WF_vars(Ctl)
    /\ WF_vars(RxParks \/ RxOpens \/ RxTurn) /\ WF_vars(TxStarts \/ TxTurn)

----------------------------------------------------------------------------
(* Properties.                                                              *)

\* Sender and receiver never have uart3 open together, but for a sender held up
\* in the middle of a block for longer than the stop waits for it.
UartExclusive == RxOpen /\ TxOpen => overrun

\* A capture has its sender: ready is this session's, and nobody closed it.
CaptureHasSender == ctl.pc = "capture" \/ ctl.capturing => TxOpen /\ tx.running

\* What the control thread captures, the key is held for: no release is lost
\* while a start or a stop keeps the thread from polling the key.
CaptureIsHeld == ctl.pc = "key" /\ ctl.capturing => key.long

\* The peer that was paused for a talk is told to play again, however the talk
\* ended or failed to start (control_app.c:158-307); it stays paused only if it
\* was told and the command refused, which ends a talk like any other.
PauseIsLifted ==
    ctl.pc \in AtRest /\ ~ctl.capturing => (avrcp.paused <=> avrcp.refused)

\* Every start and stop comes to an end, whatever holds up the workers.
ControlReturns == ctl.pc \notin AtRest ~> ctl.pc \in AtRest

\* The key let go for good ends the capture.
TalkEnds == <>[](~finger) => <>[](~ctl.capturing)
=============================================================================
