--------------------------- MODULE TalkLinkProofs ---------------------------
(* What holds of push to talk and its UART for every timing of the key and    *)
(* every size of a block.                                                     *)
EXTENDS TalkLink, TLAPS

----------------------------------------------------------------------------
(* The invariant that carries the induction.                                *)

\* A worker that is done has closed, and one that is open is not done.
Workers ==
    /\ rx.done => ~RxOpen
    /\ tx.done => ~TxOpen /\ ~tx.running

\* From the answer to the wait for the receiver on, until the stop, the receiver
\* is shut and has not been let in again.
Holds == ctl.pc \in {"waitTx", "arm", "run", "waitReady", "capture"} \/ ctl.capturing

\* What the control thread knows of the receiver, and where it captures.
Receiver ==
    /\ ctl.capturing => ctl.pc \in AtRest
    /\ ctl.pc = "waitRx" => ~rx.enabled
    /\ Holds \/ ctl.pc \in {"stop", "waitClosed"} => ~rx.enabled /\ ~RxOpen

\* Where the sender can be told to run, and where it can be open.
Sender ==
    /\ tx.running => ctl.pc \in {"waitReady", "capture", "stop"} \/ ctl.capturing
    /\ ctl.pc \in {"arm", "run"} => ~TxOpen
    /\ ctl.pc = "run" => ~tx.ready /\ ~tx.done
    /\ ctl.pc = "waitReady" =>
         /\ TxOpen <=> tx.ready /\ tx.result
         /\ tx.running <=> ~tx.ready \/ tx.result
    /\ TxOpen => tx.running \/ ctl.pc = "waitClosed" \/ overrun

\* A long press was settled as down.
LongIsDown(k) == k.long => k.stable

Inv ==
    /\ TypeOK /\ LongIsDown(key)
    /\ Workers /\ Receiver /\ Sender /\ CaptureHasSender

\* From the request to the capture the key is held; during the capture it is,
\* or its release is asked for and the next poll of the talk will see it.
Held ==
    /\ ctl.req = "start" => key.long
    /\ ctl.pc \in {"quiet", "waitRx", "waitTx", "arm", "run", "waitReady", "capture"} => key.long
    /\ ctl.capturing => key.long \/ (ctl.pc = "poll" /\ ctl.req = "stop")

\* A paused peer is still connected, and the talk it was paused for remembers it,
\* if the play that ends the talk was not refused; and only such a play is noted.
Lifted ==
    /\ avrcp.paused => avrcp.connected
    /\ avrcp.paused =>
         avrcp.refused \/ (ctl.resume /\ (ctl.pc \in AtRest => ctl.capturing))
    /\ avrcp.refused => avrcp.paused

----------------------------------------------------------------------------
(* Facts about one poll of the key.                                         *)

\* Zero is in the range of every time.
LEMMA Zeros == 0 \in 0..Debounce /\ 0 \in 0..LongPress /\ 0 \in 0..DoubleClick
BY KeyAssumption DEF Button!Times

\* A sample changes neither what is settled nor whether a long press is on.
LEMMA SampledTyped ==
  ASSUME NEW k \in Button!Key, NEW raw \in BOOLEAN
  PROVE  LET s == Button!Sampled(k, raw)
         IN  s \in Button!Key /\ s.stable = k.stable /\ s.long = k.long
<1>1. k.debounce < Debounce => k.debounce + 1 \in 0..Debounce
  BY KeyAssumption DEF Button!Times, Button!Key
<1>2. CASE raw # k.raw
  BY <1>2, Zeros, Zenon DEF Button!Sampled, Button!Key
<1>3. CASE raw = k.raw
  BY <1>1, <1>3, Zenon DEF Button!Sampled, Button!Key
<1> QED  BY <1>2, <1>3

\* What is settled as down may be long, and is until it settles as up.
LEMMA SettledTyped ==
  ASSUME NEW k \in Button!Key, LongIsDown(k)
  PROVE  LET t == Button!Settled(k)
         IN  /\ t \in Button!Key /\ LongIsDown(t)
             /\ k.long /\ ~(Button!Settles(k) /\ ~k.raw) => t.long
             /\ k.long /\ Button!Settles(k) /\ ~k.raw => ~t.stable /\ ~t.clicked
<1>1. CASE Button!Settles(k) /\ k.raw
  <2>1. ~k.long
    BY <1>1 DEF LongIsDown, Button!Settles, Button!Key
  <2> QED  BY <1>1, <2>1, Zeros, Zenon DEF Button!Settled, Button!Key, LongIsDown
<1>2. CASE Button!Settles(k) /\ ~k.raw
  <2>1. (~k.long /\ ~k.clicked) \in BOOLEAN
    OBVIOUS
  <2> QED  BY <1>2, <2>1, Zeros, Zenon DEF Button!Settled, Button!LetGo, Button!Key, LongIsDown
<1>3. CASE ~Button!Settles(k)
  BY <1>3 DEF Button!Settled
<1> QED  BY <1>1, <1>2, <1>3

\* Time alone makes a press long and never ends one.
LEMMA ElapsedTyped ==
  ASSUME NEW k \in Button!Key, LongIsDown(k)
  PROVE  LET e == Button!Elapsed(k)
         IN  e \in Button!Key /\ LongIsDown(e) /\ (k.long => e.long)
<1> DEFINE press == IF k.press < LongPress THEN k.press + 1 ELSE k.press
           long == k.long \/ k.press + 1 >= LongPress
<1>1. press \in 0..LongPress
  BY KeyAssumption DEF Button!Times, Button!Key
<1>2. ~(k.wait + 1 >= DoubleClick) => k.wait + 1 \in 0..DoubleClick
  BY KeyAssumption DEF Button!Times, Button!Key
<1>3. long \in BOOLEAN /\ (k.long => long)
  OBVIOUS
<1>4. CASE k.stable
  <2>1. Button!Elapsed(k) = [k EXCEPT !.press = press, !.long = long]
    BY <1>4 DEF Button!Elapsed
  <2> HIDE DEF press, long
  <2> QED  BY <1>1, <1>3, <1>4, <2>1, Zenon DEF Button!Key, LongIsDown
<1>5. CASE ~k.stable
  BY <1>2, <1>5, Zeros, Zenon DEF Button!Elapsed, Button!Key, LongIsDown
<1> QED  BY <1>4, <1>5

\* The key's fields stay in their ranges.  A poll that reports a long press
\* leaves it on, and so does one that finds it on and does not report its end.
LEMMA PolledKey ==
  ASSUME NEW k \in Button!Key, NEW raw \in BOOLEAN, LongIsDown(k)
  PROVE  /\ Button!Polled(k, raw) \in Button!Key
         /\ LongIsDown(Button!Polled(k, raw))
         /\ Button!Reported(k, raw) = "long" => Button!Polled(k, raw).long
         /\ k.long /\ Button!Reported(k, raw) # "longRelease" => Button!Polled(k, raw).long
<1> DEFINE s == Button!Sampled(k, raw)
           t == Button!Settled(s)
           e == Button!Elapsed(t)
<1>1. s \in Button!Key /\ LongIsDown(s) /\ s.long = k.long
  BY SampledTyped DEF LongIsDown
<1>2. /\ t \in Button!Key /\ LongIsDown(t)
      /\ s.long /\ ~(Button!Settles(s) /\ ~s.raw) => t.long
      /\ s.long /\ Button!Settles(s) /\ ~s.raw => ~t.stable /\ ~t.clicked
  <2> HIDE DEF s
  <2> QED  BY <1>1, SettledTyped
<1>3. e \in Button!Key /\ LongIsDown(e) /\ (t.long => e.long)
  <2> HIDE DEF t
  <2> QED  BY <1>2, ElapsedTyped
<1>4. Button!Polled(k, raw) = e
  BY DEF Button!Polled
<1>5. Button!Reported(k, raw) = "long" => e.long
  <2> HIDE DEF e
  <2> QED  BY DEF Button!Reported, e
<1>6. s.long /\ Button!Settles(s) /\ ~s.raw => Button!Reported(k, raw) = "longRelease"
  <2> HIDE DEF s, t
  <2> QED  BY <1>2 DEF Button!Reported, s, t
<1> HIDE DEF s, t, e
<1> QED  BY <1>1, <1>2, <1>3, <1>4, <1>5, <1>6

----------------------------------------------------------------------------
(* The induction.                                                           *)

\* The invariant holds before the threads start.
LEMMA InitInv == Init => Inv
<1> SUFFICES ASSUME Init  PROVE Inv
  OBVIOUS
<1>1. key \in Button!Key /\ LongIsDown(key)
  BY Zeros, Zenon DEF Init, Button!Released, Button!Key, LongIsDown
<1>2. 0 \in 0..Block
  BY BlockAssumption
<1>3. TypeOK
  BY <1>1, <1>2, Zenon DEF Init, TypeOK, CtlState, RxState, TxState, AvrcpState, AtRest
<1>4. Workers /\ Receiver /\ Sender /\ CaptureHasSender
  BY DEF Init, Workers, Receiver, Sender, CaptureHasSender, RxOpen, TxOpen, Holds, AtRest
<1> QED  BY <1>1, <1>3, <1>4 DEF Inv

\* Whatever the receiver does in a turn, it lets nobody in: it is open only if
\* it was or was let in, and done only if it is shut.
LEMMA RxStep == Inv /\ Rx => Inv'
<1> SUFFICES ASSUME Inv, Rx  PROVE Inv'
  OBVIOUS
<1> DEFINE Turn(r) ==
        /\ r \in RxState
        /\ r.done => r.pc = "parked"
        /\ r.enabled => rx.enabled
        /\ r.pc # "parked" => RxOpen \/ rx.enabled
<1>1. rx \in RxState /\ (RxOpen => ~rx.done)
  BY DEF Inv, TypeOK, Workers
<1>2. ASSUME NEW voice \in BOOLEAN, RxOpen
      PROVE  Turn(RxLoops(voice))
  BY <1>1, <1>2, Zenon DEF RxLoops, RxState, RxOpen
<1>3. Turn(rx')
  <2>1. CASE RxParks
    BY <1>1, <2>1, Zenon DEF RxParks, RxState
  <2>2. CASE RxOpens
    BY <1>1, <2>2, Zenon DEF RxOpens, RxState
  <2>3. CASE RxTurn
    <3>1. RxOpen /\ rx.voice \in BOOLEAN
      BY <1>1, <2>3 DEF RxTurn, RxState, RxOpen
    <3>2. Turn([rx EXCEPT !.pc = "busy"])
      BY <1>1, <3>1, Zenon DEF RxState
    <3>3. Turn(RxLoops(rx.voice))
      BY <1>2, <3>1
    <3> HIDE DEF Turn
    <3> QED  BY <2>3, <3>2, <3>3 DEF RxTurn
  <2>4. CASE RxResumes
    <3>1. RxOpen
      BY <2>4 DEF RxResumes, RxOpen
    <3> HIDE DEF Turn
    <3> QED  BY <1>2, <2>4, <3>1 DEF RxResumes
  <2>5. CASE RxHushed
    BY <1>1, <2>5, Zenon DEF RxHushed, RxState
  <2> HIDE DEF Turn
  <2> QED  BY <2>1, <2>2, <2>3, <2>4, <2>5 DEF Rx
<1>4. UNCHANGED <<finger, key, ctl, tx, avrcp, overrun>>
  BY DEF Rx, RxParks, RxOpens, RxTurn, RxResumes, RxHushed, RxOnly
<1>5. TypeOK' /\ LongIsDown(key)'
  BY <1>3, <1>4 DEF Inv, TypeOK
<1>6. Workers' /\ Receiver'
  BY <1>3, <1>4 DEF Inv, Workers, Receiver, Holds, RxOpen, TxOpen
<1>7. Sender' /\ CaptureHasSender'
  BY <1>4 DEF Inv, Sender, CaptureHasSender, TxOpen
<1> QED  BY <1>5, <1>6, <1>7 DEF Inv

\* The sender's turns: it opens only where it was told to run, answers with
\* ready, and while it is told to run it stays open.
LEMMA TxStep == Inv /\ Tx => Inv'
<1> SUFFICES ASSUME Inv, Tx  PROVE Inv'
  OBVIOUS
<1> DEFINE Started(t) ==
        /\ t \in TxState /\ tx.running /\ t.ready
        /\ t.done => t.pc = "parked" /\ ~t.running
        /\ t.pc = "parked" <=> ~t.result
        /\ t.pc = "parked" <=> ~t.running
           Went(t) ==
        /\ t \in TxState /\ t.ready = tx.ready /\ t.result = tx.result
        /\ t.done => t.pc = "parked" /\ ~t.running
        /\ t.running <=> tx.running
        /\ tx.running => t.pc # "parked"
<1>1. /\ tx \in TxState /\ overrun \in BOOLEAN
      /\ TxOpen => ~tx.done
  BY DEF Inv, TypeOK, Workers
<1>2. CASE TxStarts
  <2>1. Started(tx')
    <3>1. tx' \in TxState
      BY <1>1, <1>2, Zenon DEF TxStarts, TxState
    <3>2. tx.running /\ tx.pc = "parked"
      BY <1>1, <1>2 DEF TxStarts, TxOpen
    <3>3. CASE tx' = [tx EXCEPT !.pc = "send", !.ready = TRUE, !.result = TRUE, !.done = FALSE]
      BY <1>1, <3>1, <3>2, <3>3 DEF TxState
    <3>4. CASE tx' = [tx EXCEPT !.ready = TRUE, !.result = FALSE, !.running = FALSE, !.done = TRUE]
      BY <1>1, <3>1, <3>2, <3>4 DEF TxState
    <3> QED  BY <1>2, <3>3, <3>4 DEF TxStarts
  <2>2. UNCHANGED <<finger, key, ctl, rx, avrcp, overrun>> /\ ~TxOpen
    BY <1>2 DEF TxStarts, TxOnly, TxOpen
  <2>3. TypeOK' /\ LongIsDown(key)'
    BY <2>1, <2>2 DEF Inv, TypeOK
  <2>4. Workers' /\ Receiver'
    BY <2>1, <2>2 DEF Inv, Workers, Receiver, Holds, RxOpen, TxOpen
  <2>5. ctl.pc \in {"waitReady", "stop"} /\ ~ctl.capturing
    BY <2>1, <2>2 DEF Inv, Sender, CaptureHasSender
  <2>7. CaptureHasSender'
    BY <2>1, <2>2, <2>5 DEF CaptureHasSender
  <2>6. Sender'
    BY <2>1, <2>2, <2>5 DEF Inv, Sender, TxOpen, TxState
  <2> QED  BY <2>3, <2>4, <2>6, <2>7 DEF Inv
<1>3. CASE TxTurn \/ TxBlock
  <2>1. ASSUME NEW bytes \in 0..Block, TxOpen, Writes(bytes)
        PROVE  Went(tx') /\ (tx'.pc # "parked" => overrun' = overrun) /\ overrun' \in BOOLEAN
    <3>1. PICK left \in 0..bytes : IF left = 0 /\ ~tx.running THEN TxCloses ELSE TxWaits(left)
      BY <2>1 DEF Writes
    <3>2. left \in 0..Block /\ 0 \in 0..Block
      BY BlockAssumption
    <3>3. CASE left = 0 /\ ~tx.running
      <4>1. tx' \in TxState /\ overrun' = FALSE
        BY <1>1, <3>1, <3>2, <3>3, Zenon DEF TxCloses, TxState
      <4> QED  BY <1>1, <3>1, <3>3, <4>1 DEF TxCloses, TxState
    <3>4. CASE ~(left = 0 /\ ~tx.running)
      <4>1. PICK pc \in {"send", "block"} :
                tx' = [tx EXCEPT !.left = left, !.pc = pc] /\ overrun' = overrun
        BY <3>1, <3>4 DEF TxWaits
      <4>2. tx' \in TxState
        BY <1>1, <3>2, <4>1, Zenon DEF TxState
      <4> QED  BY <1>1, <2>1, <4>1, <4>2 DEF TxState, TxOpen
    <3> QED  BY <3>3, <3>4
  <2>2. Went(tx') /\ (tx'.pc # "parked" => overrun' = overrun) /\ overrun' \in BOOLEAN
    <3>1. TxOpen /\ 0 \in 0..Block /\ Block \in 0..Block /\ tx.left \in 0..Block
      BY <1>1, <1>3, BlockAssumption DEF TxTurn, TxBlock, TxOpen, TxState
    <3>2. CASE TxTurn /\ tx.running
      BY <2>1, <3>1, <3>2 DEF TxTurn
    <3>3. CASE TxTurn /\ ~tx.running
      BY <1>1, <3>1, <3>3, Zenon DEF TxTurn, TxCloses, TxState
    <3>4. CASE TxBlock
      BY <2>1, <3>1, <3>4 DEF TxBlock
    <3> QED  BY <1>3, <3>2, <3>3, <3>4
  <2>3. UNCHANGED <<finger, key, ctl, rx, avrcp>> /\ TxOpen
    BY <1>3 DEF TxTurn, TxBlock, TxOnly, TxOpen
  <2>4. TypeOK' /\ LongIsDown(key)'
    BY <2>2, <2>3 DEF Inv, TypeOK
  <2>5. Workers' /\ Receiver'
    BY <2>2, <2>3 DEF Inv, Workers, Receiver, Holds, RxOpen, TxOpen
  <2>6. Sender' /\ CaptureHasSender'
    BY <2>2, <2>3 DEF Inv, Sender, CaptureHasSender, TxOpen
  <2> QED  BY <2>4, <2>5, <2>6 DEF Inv
<1> QED  BY <1>2, <1>3 DEF Tx

\* A play command that is owed lifts the pause, or its refusal is noted.
LEMMA PlayTyped ==
  ASSUME PlayAgain, avrcp \in AvrcpState
  PROVE  /\ avrcp' \in AvrcpState
         /\ avrcp'.connected = avrcp.connected
         /\ (avrcp.refused => avrcp.paused) => (avrcp'.refused => avrcp'.paused)
         /\ ctl.resume /\ avrcp.connected => (avrcp'.paused => avrcp'.refused)
         /\ ~(ctl.resume /\ avrcp.connected) => avrcp' = avrcp
<1>1. (avrcp.refused \/ avrcp.paused) \in BOOLEAN
  OBVIOUS
<1>2. CASE avrcp' = [avrcp EXCEPT !.paused = FALSE, !.refused = FALSE]
  <2>1. avrcp' \in AvrcpState
    BY <1>2, Zenon DEF AvrcpState
  <2> QED  BY <1>2, <2>1 DEF AvrcpState, PlayAgain
<1>3. CASE avrcp' = [avrcp EXCEPT !.refused = @ \/ avrcp.paused]
  <2>1. avrcp' \in AvrcpState
    BY <1>1, <1>3, Zenon DEF AvrcpState
  <2> QED  BY <1>3, <2>1 DEF AvrcpState, PlayAgain
<1>4. CASE UNCHANGED avrcp /\ ~(ctl.resume /\ avrcp.connected)
  BY <1>4
<1> QED  BY <1>2, <1>3, <1>4 DEF PlayAgain

\* The control thread: it passes the receiver's answer, then the sender's, on
\* the way to a capture, and lets the receiver in again after the stop.
LEMMA CtlStep == Inv /\ Ctl => Inv'
<1> SUFFICES ASSUME Inv, Ctl  PROVE Inv'
  OBVIOUS
<1> USE DEF Goes, CtlOnly
<1>1. /\ finger \in BOOLEAN /\ key \in Button!Key /\ LongIsDown(key)
      /\ ctl \in CtlState /\ rx \in RxState /\ tx \in TxState
  BY DEF Inv, TypeOK
<1>2. CASE PttPoll
  <2>1. TypeOK'
    <3>1. CASE ctl.req = "start" /\ ~ctl.capturing
      <4>1. PICK paused \in {FALSE, avrcp.connected} :
              /\ ctl' = [ctl EXCEPT !.pc = "quiet", !.req = "none", !.resume = paused]
              /\ avrcp' = [avrcp EXCEPT !.paused = @ \/ paused, !.refused = @ /\ ~paused]
        BY <1>2, <3>1 DEF PttPoll
      <4>2. /\ paused \in BOOLEAN /\ (avrcp.paused \/ paused) \in BOOLEAN
            /\ (avrcp.refused /\ ~paused) \in BOOLEAN
        BY <4>1 DEF Inv, TypeOK, AvrcpState
      <4>3. ctl' \in CtlState
        BY <1>1, <4>1, <4>2, Zenon DEF CtlState
      <4>4. avrcp' \in AvrcpState
        BY <4>1, <4>2, Zenon DEF Inv, TypeOK, AvrcpState
      <4> QED  BY <1>2, <4>3, <4>4 DEF PttPoll, Inv, TypeOK
    <3>2. CASE ~(ctl.req = "start" /\ ~ctl.capturing)
      <4>1. (ctl.resume /\ ctl.req # "stop") \in BOOLEAN
        OBVIOUS
      <4>2. ctl' \in CtlState
        BY <1>1, <1>2, <3>2, <4>1, Zenon DEF PttPoll, CtlState, AtRest
      <4> QED  BY <1>2, <3>2, <4>2 DEF PttPoll, Inv, TypeOK
    <3> QED  BY <3>1, <3>2
  <2>2. (Workers /\ Receiver /\ Sender /\ CaptureHasSender)'
    BY <1>1, <1>2 DEF PttPoll, Inv, Workers, Receiver, Holds, Sender, CaptureHasSender, RxOpen, TxOpen, CtlState, AtRest
  <2>3. LongIsDown(key)'
    BY <1>1, <1>2 DEF PttPoll
  <2> QED  BY <2>1, <2>2, <2>3 DEF Inv
<1>3. CASE RxDisable
  <2>1. TypeOK'
    BY <1>1, <1>3, Zenon DEF RxDisable, Inv, TypeOK, CtlState, RxState, AtRest
  <2>2. (Workers /\ Receiver /\ Sender /\ CaptureHasSender)'
    BY <1>1, <1>3 DEF RxDisable, Inv, Workers, Receiver, Holds, Sender, CaptureHasSender, RxOpen, TxOpen, CtlState, RxState, AtRest
  <2>3. LongIsDown(key)'
    BY <1>1, <1>3 DEF RxDisable
  <2> QED  BY <2>1, <2>2, <2>3 DEF Inv
<1>4. CASE WaitRx
  <2>1. TypeOK'
    BY <1>1, <1>4, Zenon DEF WaitRx, Inv, TypeOK, CtlState, AtRest
  <2>2. (Workers /\ Receiver /\ Sender /\ CaptureHasSender)'
    BY <1>1, <1>4 DEF WaitRx, Inv, Workers, Receiver, Holds, Sender, CaptureHasSender, RxOpen, TxOpen, CtlState, AtRest
  <2>3. LongIsDown(key)'
    BY <1>1, <1>4 DEF WaitRx
  <2> QED  BY <2>1, <2>2, <2>3 DEF Inv
<1>5. CASE WaitTx
  <2>1. TypeOK'
    BY <1>1, <1>5, Zenon DEF WaitTx, Inv, TypeOK, CtlState, AtRest
  <2>2. (Workers /\ Receiver /\ Sender /\ CaptureHasSender)'
    BY <1>1, <1>5 DEF WaitTx, Inv, Workers, Receiver, Holds, Sender, CaptureHasSender, RxOpen, TxOpen, CtlState, AtRest
  <2>3. LongIsDown(key)'
    BY <1>1, <1>5 DEF WaitTx
  <2> QED  BY <2>1, <2>2, <2>3 DEF Inv
<1>6. CASE Arm
  <2>1. TypeOK'
    BY <1>1, <1>6, Zenon DEF Arm, Inv, TypeOK, CtlState, TxState, AtRest
  <2>2. (Workers /\ Receiver /\ Sender /\ CaptureHasSender)'
    BY <1>1, <1>6 DEF Arm, Inv, Workers, Receiver, Holds, Sender, CaptureHasSender, RxOpen, TxOpen, CtlState, TxState, AtRest
  <2>3. LongIsDown(key)'
    BY <1>1, <1>6 DEF Arm
  <2> QED  BY <2>1, <2>2, <2>3 DEF Inv
<1>7. CASE RunSender
  <2>1. TypeOK'
    BY <1>1, <1>7, Zenon DEF RunSender, Inv, TypeOK, CtlState, TxState, AtRest
  <2>2. (Workers /\ Receiver /\ Sender /\ CaptureHasSender)'
    BY <1>1, <1>7 DEF RunSender, Inv, Workers, Receiver, Holds, Sender, CaptureHasSender, RxOpen, TxOpen, CtlState, TxState, AtRest
  <2>3. LongIsDown(key)'
    BY <1>1, <1>7 DEF RunSender
  <2> QED  BY <2>1, <2>2, <2>3 DEF Inv
<1>8. CASE WaitReady
  <2>1. TypeOK'
    BY <1>1, <1>8, Zenon DEF WaitReady, Inv, TypeOK, CtlState, AtRest
  <2>2. (Workers /\ Receiver /\ Sender /\ CaptureHasSender)'
    BY <1>1, <1>8 DEF WaitReady, Inv, Workers, Receiver, Holds, Sender, CaptureHasSender, RxOpen, TxOpen, CtlState, AtRest
  <2>3. LongIsDown(key)'
    BY <1>1, <1>8 DEF WaitReady
  <2> QED  BY <2>1, <2>2, <2>3 DEF Inv
<1>9. CASE Capture
  <2>1. TypeOK'
    BY <1>1, <1>9, Zenon DEF Capture, Inv, TypeOK, CtlState, AtRest
  <2>2. (Workers /\ Receiver /\ Sender /\ CaptureHasSender)'
    BY <1>1, <1>9 DEF Capture, Inv, Workers, Receiver, Holds, Sender, CaptureHasSender, RxOpen, TxOpen, CtlState, AtRest
  <2>3. LongIsDown(key)'
    BY <1>1, <1>9 DEF Capture
  <2> QED  BY <2>1, <2>2, <2>3 DEF Inv
<1>10. CASE Abandon
  <2>1. TypeOK'
    <3>1. ctl' \in CtlState
      BY <1>1, <1>10, Zenon DEF Abandon, CtlState, AtRest
    <3> QED  BY <1>1, <1>10, <3>1, PlayTyped DEF Abandon, Inv, TypeOK
  <2>2. (Workers /\ Receiver /\ Sender /\ CaptureHasSender)'
    BY <1>1, <1>10 DEF Abandon, Inv, Workers, Receiver, Holds, Sender, CaptureHasSender, RxOpen, TxOpen, CtlState, AtRest
  <2>3. LongIsDown(key)'
    BY <1>1, <1>10 DEF Abandon
  <2> QED  BY <2>1, <2>2, <2>3 DEF Inv
<1>11. CASE StopSender
  <2>1. TypeOK'
    <3>1. ctl' \in CtlState
      BY <1>1, <1>11, Zenon DEF StopSender, CtlState, AtRest
    <3>2. tx' \in TxState
      BY <1>1, <1>11, Zenon DEF StopSender, TxState
    <3> QED  BY <1>11, <3>1, <3>2 DEF StopSender, Inv, TypeOK
  <2>2. (Workers /\ Receiver /\ Sender /\ CaptureHasSender)'
    BY <1>1, <1>11 DEF StopSender, Inv, Workers, Receiver, Holds, Sender, CaptureHasSender, RxOpen, TxOpen, CtlState, TxState, AtRest
  <2>3. LongIsDown(key)'
    BY <1>1, <1>11 DEF StopSender
  <2> QED  BY <2>1, <2>2, <2>3 DEF Inv
<1>12. CASE WaitClosed
  <2>1. TypeOK'
    BY <1>1, <1>12, Zenon DEF WaitClosed, Inv, TypeOK, CtlState, AtRest
  <2>2. (Workers /\ Receiver /\ Sender /\ CaptureHasSender)'
    BY <1>1, <1>12 DEF WaitClosed, Inv, Workers, Receiver, Holds, Sender, CaptureHasSender, RxOpen, TxOpen, CtlState, AtRest
  <2>3. LongIsDown(key)'
    BY <1>1, <1>12 DEF WaitClosed
  <2> QED  BY <2>1, <2>2, <2>3 DEF Inv
<1>13. CASE Listen
  <2>1. TypeOK'
    BY <1>1, <1>13, Zenon DEF Listen, Inv, TypeOK, CtlState, RxState, AtRest
  <2>2. (Workers /\ Receiver /\ Sender /\ CaptureHasSender)'
    BY <1>1, <1>13 DEF Listen, Inv, Workers, Receiver, Holds, Sender, CaptureHasSender, RxOpen, TxOpen, CtlState, RxState, AtRest
  <2>3. LongIsDown(key)'
    BY <1>1, <1>13 DEF Listen
  <2> QED  BY <2>1, <2>2, <2>3 DEF Inv
<1>14. CASE RxEnable
  <2>1. TypeOK'
    BY <1>1, <1>14, Zenon DEF RxEnable, Inv, TypeOK, CtlState, RxState, AtRest
  <2>2. (Workers /\ Receiver /\ Sender /\ CaptureHasSender)'
    BY <1>1, <1>14 DEF RxEnable, Inv, Workers, Receiver, Holds, Sender, CaptureHasSender, RxOpen, TxOpen, CtlState, RxState, AtRest
  <2>3. LongIsDown(key)'
    BY <1>1, <1>14 DEF RxEnable
  <2> QED  BY <2>1, <2>2, <2>3 DEF Inv
<1>15. CASE Resume
  <2>1. TypeOK'
    <3>1. ctl' \in CtlState
      BY <1>1, <1>15, Zenon DEF Resume, CtlState, AtRest
    <3> QED  BY <1>1, <1>15, <3>1, PlayTyped DEF Resume, Inv, TypeOK
  <2>2. (Workers /\ Receiver /\ Sender /\ CaptureHasSender)'
    BY <1>1, <1>15 DEF Resume, Inv, Workers, Receiver, Holds, Sender, CaptureHasSender, RxOpen, TxOpen, CtlState, AtRest
  <2>3. LongIsDown(key)'
    BY <1>1, <1>15 DEF Resume
  <2> QED  BY <2>1, <2>2, <2>3 DEF Inv
<1>16. CASE KeyPoll
  <2>1. TypeOK'
    <3>1. key' \in Button!Key
      BY <1>1, <1>16, PolledKey DEF KeyPoll
    <3> DEFINE req == Request(Button!Reported(key, finger))
    <3>2. req \in {"none", "start", "stop"}
      BY <1>1 DEF Request, CtlState
    <3>3. ctl' = [ctl EXCEPT !.pc = "poll", !.req = req]
      BY <1>16 DEF KeyPoll
    <3> HIDE DEF req
    <3>4. ctl' \in CtlState
      BY <1>1, <3>2, <3>3, Zenon DEF CtlState, AtRest
    <3> QED  BY <1>16, <3>1, <3>4 DEF KeyPoll, Inv, TypeOK
  <2>2. (Workers /\ Receiver /\ Sender /\ CaptureHasSender)'
    BY <1>1, <1>16 DEF KeyPoll, Inv, Workers, Receiver, Holds, Sender, CaptureHasSender, RxOpen, TxOpen, CtlState, AtRest
  <2>3. LongIsDown(key)'
    BY <1>1, <1>16, PolledKey DEF KeyPoll
  <2> QED  BY <2>1, <2>2, <2>3 DEF Inv
<1> QED  BY <1>2, <1>3, <1>4, <1>5, <1>6, <1>7, <1>8, <1>9, <1>10, <1>11, <1>12, <1>13, <1>14, <1>15, <1>16 DEF Ctl

\* Every step keeps it.
LEMMA NextStep == Inv /\ [Next]_vars => Inv'
<1> SUFFICES ASSUME Inv, [Next]_vars  PROVE Inv'
  OBVIOUS
<1> USE DEF Workers, Receiver, Sender, CaptureHasSender, Holds, RxOpen, TxOpen, LongIsDown
<1>1. CASE Finger
  BY <1>1 DEF Finger, Inv, TypeOK
<1>2. CASE Link
  <2>1. (~avrcp.connected) \in BOOLEAN
    OBVIOUS
  <2> QED  BY <1>2, <2>1 DEF Link, Inv, TypeOK, AvrcpState
<1>3. CASE UNCHANGED vars
  BY <1>3 DEF vars, Inv, TypeOK
<1> QED  BY <1>1, <1>2, <1>3, RxStep, TxStep, CtlStep DEF Next

\* No release is lost between the request and the capture, and the one during a
\* capture stays asked for until it is seen.
LEMMA HeldStep == Inv /\ Held /\ [Next]_vars => Held'
<1> SUFFICES ASSUME Inv, Held, [Next]_vars  PROVE Held'
  OBVIOUS
<1>1. key \in Button!Key /\ finger \in BOOLEAN /\ LongIsDown(key) /\ ctl \in CtlState
  BY DEF Inv, TypeOK
<1>2. CASE KeyPoll
  <2> DEFINE report == Button!Reported(key, finger)
  <2>1. /\ key' = Button!Polled(key, finger)
        /\ ctl'.pc = "poll" /\ ctl'.req = Request(report) /\ ctl'.capturing = ctl.capturing
    BY <1>1, <1>2 DEF KeyPoll, CtlState
  <2>2. /\ report = "long" => key'.long
        /\ key.long /\ report # "longRelease" => key'.long
    BY <1>1, <2>1, PolledKey
  <2> HIDE DEF report
  <2>3. ctl.capturing => key.long
    BY <1>2 DEF Held, KeyPoll
  <2>4. ctl'.req = "start" => key'.long
    <3>1. CASE report = "long"
      BY <2>2, <3>1
    <3>2. CASE report = "longRelease"
      BY <2>1, <3>2 DEF Request
    <3>3. CASE report \notin {"long", "longRelease"}
      BY <2>1, <2>2, <3>3 DEF Request, Held
    <3> QED  BY <3>1, <3>2, <3>3
  <2>5. ctl'.capturing => key'.long \/ ctl'.req = "stop"
    BY <2>1, <2>2, <2>3 DEF Request
  <2> QED  BY <2>1, <2>4, <2>5 DEF Held
<1>3. CASE PttPoll
  BY <1>1, <1>3 DEF PttPoll, CtlOnly, Held, CtlState
<1>4. CASE RxDisable \/ WaitRx \/ WaitTx \/ Arm \/ RunSender \/ WaitReady
  BY <1>1, <1>4 DEF RxDisable, WaitRx, WaitTx, Arm, RunSender, WaitReady,
                    Goes, CtlOnly, Held, CtlState
<1>5. CASE Capture
  <2>1. key.long /\ key' = key /\ ctl'.pc \in {"key", "stop"} /\ ctl'.req = ctl.req
    BY <1>1, <1>5 DEF Capture, CtlOnly, Held, CtlState
  <2> QED  BY <2>1 DEF Held
<1>6. CASE Abandon \/ Resume \/ Listen \/ RxEnable
  BY <1>1, <1>6 DEF Abandon, Resume, Listen, RxEnable, Goes, CtlOnly, Held, CtlState
<1>7. CASE StopSender \/ WaitClosed
  BY <1>1, <1>7 DEF StopSender, WaitClosed, Goes, CtlOnly, Held, CtlState
<1>8. CASE Rx \/ Tx \/ Finger \/ Link \/ UNCHANGED vars
  <2>1. UNCHANGED <<key, ctl>>
    BY <1>8 DEF Rx, RxParks, RxOpens, RxTurn, RxResumes, RxHushed, RxOnly,
                Tx, TxStarts, TxTurn, TxBlock, TxOnly, Finger, Link, vars
  <2> QED  BY <2>1 DEF Held
<1> QED  BY <1>2, <1>3, <1>4, <1>5, <1>6, <1>7, <1>8 DEF Next, Ctl

\* A talk that ends without a capture, or ends one, resumes what it paused.
LEMMA LiftedStep == Inv /\ Lifted /\ [Next]_vars => Lifted'
<1> SUFFICES ASSUME Inv, Lifted, [Next]_vars  PROVE Lifted'
  OBVIOUS
<1>1. ctl \in CtlState /\ avrcp \in AvrcpState
  BY DEF Inv, TypeOK
<1>2. ctl.capturing => ctl.pc \in AtRest
  BY DEF Inv, Receiver
<1>3. CASE PttPoll
  <2>1. CASE ctl.req = "start" /\ ~ctl.capturing
    <3>1. PICK paused \in {FALSE, avrcp.connected} :
            /\ ctl' = [ctl EXCEPT !.pc = "quiet", !.req = "none", !.resume = paused]
            /\ avrcp' = [avrcp EXCEPT !.paused = @ \/ paused, !.refused = @ /\ ~paused]
      BY <1>3, <2>1 DEF PttPoll
    <3>2. /\ avrcp.paused => avrcp.refused
          /\ ctl'.pc = "quiet" /\ ctl'.resume = paused
      BY <1>1, <1>3, <2>1, <3>1 DEF PttPoll, Lifted, CtlState, AtRest
    <3>3. /\ avrcp'.connected = avrcp.connected
          /\ avrcp'.paused = (avrcp.paused \/ paused)
          /\ avrcp'.refused = (avrcp.refused /\ ~paused)
      BY <1>1, <3>1 DEF AvrcpState
    <3> QED  BY <3>2, <3>3, <3>1 DEF Lifted, AtRest
  <2>2. CASE ~(ctl.req = "start" /\ ~ctl.capturing)
    BY <1>1, <1>3, <2>2 DEF PttPoll, Lifted, CtlState, AtRest
  <2> QED  BY <2>1, <2>2
<1>4. CASE RxDisable \/ WaitRx \/ WaitTx \/ Arm \/ RunSender \/ WaitReady
  BY <1>1, <1>2, <1>4 DEF RxDisable, WaitRx, WaitTx, Arm, RunSender, WaitReady,
                          Goes, Lifted, CtlState, AtRest
<1>5. CASE Capture
  BY <1>1, <1>5 DEF Capture, Lifted, CtlState, AtRest
<1>6. CASE Abandon \/ Resume
  <2>1. PlayAgain /\ ctl'.pc = "key" /\ ctl'.resume = FALSE /\ ~ctl.capturing
    BY <1>1, <1>2, <1>6 DEF Abandon, Resume, CtlState, AtRest
  <2>2. ctl.pc \notin AtRest
    BY <1>6 DEF Abandon, Resume, AtRest
  <2> QED  BY <1>1, <2>1, <2>2, PlayTyped DEF Lifted, AvrcpState
<1>7. CASE Listen \/ RxEnable \/ StopSender \/ WaitClosed
  BY <1>1, <1>2, <1>7 DEF Listen, RxEnable, StopSender, WaitClosed, Goes, Lifted, CtlState, AtRest
<1>8. CASE KeyPoll
  BY <1>1, <1>8 DEF KeyPoll, Lifted, CtlState, AtRest
<1>9. CASE Link
  BY <1>1, <1>9 DEF Link, Lifted, AvrcpState
<1>10. CASE Rx \/ Tx \/ Finger \/ UNCHANGED vars
  <2>1. UNCHANGED <<ctl, avrcp>>
    BY <1>10 DEF Rx, RxParks, RxOpens, RxTurn, RxResumes, RxHushed, RxOnly,
                 Tx, TxStarts, TxTurn, TxBlock, TxOnly, Finger, vars
  <2> QED  BY <2>1 DEF Lifted
<1> QED  BY <1>3, <1>4, <1>5, <1>6, <1>7, <1>8, <1>9, <1>10 DEF Next, Ctl

\* The invariant and the two that build on it hold of every behaviour.
LEMMA SpecInv == Spec => [](Inv /\ Held /\ Lifted)
<1>1. Init => Held /\ Lifted
  BY DEF Init, Held, Lifted, Button!Released
<1> QED  BY <1>1, InitInv, NextStep, HeldStep, LiftedStep, PTL DEF Spec

----------------------------------------------------------------------------
(* Theorems.                                                                *)

\* The three threads and the key stay within their states.
THEOREM TypeCorrect == Spec => []TypeOK
BY SpecInv, PTL DEF Inv

\* Sender and receiver never have uart3 open together, but for the sender that
\* was held up in the middle of a block when the stop gave up on it: the flags
\* alone keep them apart, for every size of a block (uart_send_pcm.c:577-1114).
THEOREM UartIsTakenInTurns == Spec => []UartExclusive
<1>1. Inv => UartExclusive
  BY DEF Inv, TypeOK, Receiver, Sender, UartExclusive, Holds
<1> QED  BY <1>1, SpecInv, PTL

\* A capture has its sender, open and told to run (control_app.c:225-262).
THEOREM CaptureIsSent == Spec => []CaptureHasSender
BY SpecInv, PTL DEF Inv

\* The control thread captures only what the key is held for, for every choice of
\* the key's times (control_app.c:312-385, keyboard_driver.c:256-430).
THEOREM KeyHoldsCapture == Spec => []CaptureIsHeld
<1>1. Held => CaptureIsHeld
  BY DEF Held, CaptureIsHeld
<1> QED  BY <1>1, SpecInv, PTL

\* Between talks the peer is paused exactly if the play command that was to end
\* the pause was refused (control_app.c:205-252, 297-304): no end of a talk and no
\* failed start forgets the command, for any timing of the link and the key.
THEOREM PausesAreLifted == Spec => []PauseIsLifted
<1>1. Lifted => PauseIsLifted
  BY DEF Lifted, PauseIsLifted
<1> QED  BY <1>1, SpecInv, PTL
=============================================================================
