----------------------------- MODULE BtThread -----------------------------
(* BTstack's thread and the threads that hand it work through the run loop:   *)
(*   h4    bt_h4_rx, the reader of the HCI UART (btstack_uart_block_embedded) *)
(*   bt    the run loop's own thread                                          *)
(*   ota   the main thread, which sends over SPP (bt_spp_app.c)               *)
(*   ctl   the control thread, which sends AVRCP commands (bt_avrcp_ct_app.c) *)
(* RT-Thread runs the most urgent ready thread, so a thread is interrupted    *)
(* between any two of its steps by a more urgent one only.  A section under a *)
(* mutex or with interrupts off that makes no call is one step.  So is an     *)
(* append of bt_h4_rx or of the loop's own thread: both hold the UART's mutex *)
(* for it, and the less urgent threads do not run meanwhile.                  *)
(* BTstack proper is external: what it does with an event is any sequence of  *)
(* the stack's actions below.  Lengths are in units: a block the H4 parser    *)
(* asks for is 1..MaxNeed units, what the UART brings at once is one unit.    *)
EXTENDS RunLoop, Integers

CONSTANTS Priority,   \* RT-Thread priorities, smaller is more urgent
          RxRing,     \* capacity of the HCI receive ring
          MaxNeed,    \* the largest block the H4 parser asks for
          TxRing,     \* capacity of the SPP transmit ring
          Frame,      \* max_frame_size of the channel
          Commands,   \* BT_APP_AVRCP_CT_COMMAND_QUEUE_SIZE
          MaxDelta,   \* the volume change that may be waiting
          Profiles,   \* what a phone may use: a set of sets of "spp", "keys" and
                      \* "volume", its absolute volume
          FollowTorn  \* whether to follow the program past a torn list

ASSUME SizeAssumption ==
    /\ RxRing \in Nat /\ MaxNeed \in 1..RxRing
    /\ TxRing \in Nat /\ Frame \in Nat \ {0} /\ Commands \in Nat
    /\ MaxDelta \in Nat
    /\ FollowTorn \in BOOLEAN
ASSUME ThreadAssumption == Thread = {"h4", "bt", "ota", "ctl"} /\ Priority \in [Thread -> Nat]
ASSUME RegistrationAssumption == Node = {"rx", "tx", "spp", "cmd", "vol"}

VARIABLES bt,        \* where the run loop's thread is
          job,       \* the registration or "timer" whose handler runs
          uart,      \* the UART port and hci_transport_h4's tx_state
          spp,       \* the SPP channel's transmit side
          ctl,       \* where the control thread is with a key
          avrcp,     \* the AVRCP controller: link, command queue, volume change
          profiles,  \* what this phone uses
          stranded   \* a send failed with bytes left and none was tried since (history)

ioVars == <<bt, job, uart, spp, ctl, avrcp, profiles, stranded>>
vars == <<loopVars, ioVars>>

TypeOK ==
    /\ LoopTypeOK
    /\ bt \in {"drain", "pop", "rx", "tx", "spp", "cmd", "vol", "send",
               "stack", "nap", "arm", "sleep"}
    /\ job \in Node \union {"timer"}
    /\ uart \in [ring : 0..RxRing, need : 1..MaxNeed, active : BOOLEAN,
                 rxPending : BOOLEAN, txPending : BOOLEAN, busy : BOOLEAN]
    /\ spp \in [open : BOOLEAN, tx : 0..TxRing, scheduled : BOOLEAN,
                wanted : BOOLEAN, credit : BOOLEAN]
    /\ ctl \in {"idle", "command", "volume"}
    /\ avrcp \in [linked : BOOLEAN, absolute : BOOLEAN, cmds : 0..Commands, pending : BOOLEAN,
                  delta : -MaxDelta..MaxDelta, volPending : BOOLEAN]
    /\ profiles \in Profiles
    /\ stranded \in BOOLEAN

\* bt_host_start has opened the transport and asked for the first byte.
Init ==
    /\ LoopInit
    /\ bt = "drain" /\ job = "timer"
    /\ uart = [ring |-> 0, need |-> 1, active |-> TRUE,
               rxPending |-> FALSE, txPending |-> FALSE, busy |-> FALSE]
    /\ spp = [open |-> FALSE, tx |-> 0, scheduled |-> FALSE,
              wanted |-> FALSE, credit |-> FALSE]
    /\ ctl = "idle"
    /\ avrcp = [linked |-> FALSE, absolute |-> FALSE, cmds |-> 0, pending |-> FALSE,
                delta |-> 0, volPending |-> FALSE]
    /\ profiles \in Profiles
    /\ stranded = FALSE

----------------------------------------------------------------------------
(* Scheduling.                                                              *)

Ready(t) ==
    CASE t = "h4" -> FALSE
      [] t = "bt" -> bt # "nap" /\ ~(bt = "sleep" /\ signals = 0)
      [] OTHER -> ~Free(t)

Alive == ~fault /\ (torn => FollowTorn)

\* t has the processor, or would have it if it became ready.
Runs(t) ==
    /\ Alive
    /\ \A u \in Thread \ {t} : Priority[u] < Priority[t] => ~Ready(u)

\* Every thread continues the append it is in.
Appends(t) == Runs(t) /\ Append(t) /\ UNCHANGED ioVars

----------------------------------------------------------------------------
(* The UART port.                                                           *)

Deliverable(u) == u.active /\ ~u.rxPending /\ u.ring >= u.need

\* try_deliver_rx_locked copied a block out and marked its callback pending.
Delivered(u) == [u EXCEPT !.ring = @ - u.need, !.active = FALSE, !.rxPending = TRUE]

\* Mutant: what does not fit the ring is not dropped.
PutAll ==
    /\ Alive
    /\ LET u == [uart EXCEPT !.ring = @ + 1]
       IN  IF Deliverable(u)
           THEN uart' = Delivered(u) /\ PostAtOnce("h4", "rx")
           ELSE uart' = u /\ UNCHANGED loopVars
    /\ UNCHANGED <<bt, job, spp, ctl, avrcp, profiles, stranded>>

\* The UART's interrupt wakes bt_h4_rx, which has the processor at once.  Under
\* the mutex it puts the bytes into the ring, drops those that do not fit, and
\* delivers a block that is complete.
Put ==
    /\ Alive
    /\ LET u == [uart EXCEPT !.ring = IF @ < RxRing THEN @ + 1 ELSE @]
       IN  IF Deliverable(u)
           THEN uart' = Delivered(u) /\ PostAtOnce("h4", "rx")
           ELSE uart' = u /\ UNCHANGED loopVars
    /\ UNCHANGED <<bt, job, spp, ctl, avrcp, profiles, stranded>>

\* send_block: the bytes are written, and schedule_tx_done_locked posts.
SendBlock ==
    /\ uart' = [uart EXCEPT !.busy = TRUE, !.txPending = TRUE]
    /\ IF uart.txPending THEN UNCHANGED loopVars ELSE PostAtOnce("bt", "tx")

\* Mutant: the handler runs with the callback still marked pending.
RxDoneLate ==
    /\ Runs("bt") /\ bt = "rx"
    /\ bt' = "stack"
    /\ uart' = uart
    /\ UNCHANGED <<loopVars, job, spp, ctl, avrcp, profiles, stranded>>

\* rx_done: the flag first, then hci_transport_h4_block_read.
RxDone ==
    /\ Runs("bt") /\ bt = "rx"
    /\ bt' = "stack"
    /\ uart' = [uart EXCEPT !.rxPending = FALSE]
    /\ UNCHANGED <<loopVars, job, spp, ctl, avrcp, profiles, stranded>>

\* tx_done, then hci_transport_h4_block_sent.
TxDone ==
    /\ Runs("bt") /\ bt = "tx"
    /\ bt' = "stack"
    /\ uart' = [uart EXCEPT !.txPending = FALSE, !.busy = FALSE]
    /\ UNCHANGED <<loopVars, job, spp, ctl, avrcp, profiles, stranded>>

\* receive_block, which hci_transport_h4_block_read ends with.
Arm ==
    /\ Runs("bt") /\ bt = "arm"
    /\ bt' = "drain"
    /\ \E need \in 1..MaxNeed :
          LET u == [uart EXCEPT !.need = need, !.active = TRUE]
          IN  IF Deliverable(u)
              THEN uart' = Delivered(u) /\ PostAtOnce("bt", "rx")
              ELSE uart' = u /\ UNCHANGED loopVars
    /\ UNCHANGED <<job, spp, ctl, avrcp, profiles, stranded>>

----------------------------------------------------------------------------
(* btstack_run_loop_embedded_execute.                                       *)

\* execute_callbacks takes the next registration off the list.
DrainSome ==
    /\ Runs("bt") /\ bt = "drain" /\ Free("bt")
    /\ Load("bt")
    /\ bt' = "pop"
    /\ UNCHANGED <<job, uart, spp, ctl, avrcp, profiles, stranded>>

\* ... and calls it.
PopStore ==
    /\ Runs("bt") /\ bt = "pop"
    /\ Store("bt")
    /\ job' = call["bt"].node
    /\ bt' = call["bt"].node
    /\ UNCHANGED <<uart, spp, ctl, avrcp, profiles, stranded>>

\* The list is empty: run the timers that are due, or go to sleep.
DrainNone ==
    /\ Runs("bt") /\ bt = "drain" /\ Free("bt")
    /\ next[List] = Nil
    /\ \/ bt' = "sleep" /\ UNCHANGED job
       \/ bt' = "stack" /\ job' = "timer"
    /\ UNCHANGED <<loopVars, uart, spp, ctl, avrcp, profiles, stranded>>

\* rt_sem_take succeeds, ...
WakeUp ==
    /\ Runs("bt") /\ bt = "sleep"
    /\ signals > 0
    /\ signals' = signals - 1
    /\ bt' = "drain"
    /\ UNCHANGED <<next, call, owed, torn, fault>>
    /\ UNCHANGED <<job, uart, spp, ctl, avrcp, profiles, stranded>>

\* ... or times out when the next timer is due, if there is one.
TimerDue ==
    /\ Runs("bt") /\ bt = "sleep"
    /\ signals = 0
    /\ bt' = "drain"
    /\ UNCHANGED <<loopVars, job, uart, spp, ctl, avrcp, profiles, stranded>>

----------------------------------------------------------------------------
(* What BTstack and the packet handlers do with an event or a timer.        *)

InStack == Runs("bt") /\ bt = "stack"

StackSends ==
    /\ Runs("bt") /\ bt \in {"stack", "cmd"}
    /\ ~uart.busy
    /\ SendBlock
    /\ UNCHANGED <<bt, job, spp, ctl, avrcp, profiles, stranded>>

\* A handler waits: the codec's driver sleeps, the audio session is taken.
StackNaps ==
    /\ InStack /\ job # "vol"
    /\ bt' = "nap"
    /\ UNCHANGED <<loopVars, job, uart, spp, ctl, avrcp, profiles, stranded>>

NapOver ==
    /\ Alive
    /\ bt = "nap"
    /\ bt' = "stack"
    /\ UNCHANGED <<loopVars, job, uart, spp, ctl, avrcp, profiles, stranded>>

\* rfcomm_can_send_packet_now.
CanSend == spp.credit /\ ~uart.busy

\* The stack tells a waiting channel that it can send before it returns.
NoneCanSend == ~(spp.wanted /\ CanSend)

\* RFCOMM_EVENT_CAN_SEND_NOW, which was asked for, ends in the kick.
CanSendNow ==
    /\ InStack
    /\ spp.wanted /\ CanSend
    /\ spp' = [spp EXCEPT !.wanted = FALSE]
    /\ bt' = "spp"
    /\ UNCHANGED <<loopVars, job, uart, ctl, avrcp, profiles, stranded>>

\* The peer gives credits, opens the channel or closes it.
PeerCredits ==
    /\ InStack /\ job = "rx"
    /\ spp.open
    /\ spp' = [spp EXCEPT !.credit = TRUE]
    /\ UNCHANGED <<loopVars, bt, job, uart, ctl, avrcp, profiles, stranded>>

Opened ==
    /\ InStack /\ job = "rx"
    /\ ~spp.open /\ "spp" \in profiles
    /\ spp' = [open |-> TRUE, tx |-> 0, scheduled |-> FALSE, wanted |-> FALSE, credit |-> TRUE]
    /\ stranded' = FALSE
    /\ UNCHANGED <<loopVars, bt, job, uart, ctl, avrcp, profiles>>

Closed ==
    /\ InStack /\ job = "rx"
    /\ spp.open
    /\ spp' = [open |-> FALSE, tx |-> 0, scheduled |-> FALSE, wanted |-> FALSE, credit |-> FALSE]
    /\ stranded' = FALSE
    /\ UNCHANGED <<loopVars, bt, job, uart, ctl, avrcp, profiles>>

\* Mutant: the loop resets its semaphore after the timers.
StackReturnsReset ==
    /\ InStack /\ NoneCanSend
    /\ bt' = CASE job = "rx" -> "arm" [] job = "timer" -> "sleep" [] OTHER -> "drain"
    /\ job' = IF job = "rx" THEN job ELSE "timer"
    /\ signals' = IF job = "timer" THEN 0 ELSE signals
    /\ UNCHANGED <<next, call, owed, torn, fault>>
    /\ UNCHANGED <<uart, spp, ctl, avrcp, profiles, stranded>>

\* The stack is done with the event.  The H4 parser asks for its next block;
\* after the timers the loop looks at its semaphore, after a callback at its list.
StackReturns ==
    /\ InStack /\ NoneCanSend
    /\ bt' = CASE job = "rx" -> "arm" [] job = "timer" -> "sleep" [] OTHER -> "drain"
    /\ job' = IF job = "rx" THEN job ELSE "timer"
    /\ UNCHANGED <<loopVars, uart, spp, ctl, avrcp, profiles, stranded>>

----------------------------------------------------------------------------
(* bt_spp_app.c, transmit.                                                  *)

\* Where a kick returns to: the run loop, or the event it handles.
Kicker == IF job = "spp" THEN "drain" ELSE "stack"

\* Nothing to send.
KickNothing ==
    /\ Runs("bt") /\ bt = "spp"
    /\ ~spp.open \/ spp.tx = 0
    /\ spp' = [spp EXCEPT !.scheduled = FALSE]
    /\ bt' = Kicker
    /\ UNCHANGED <<loopVars, job, uart, ctl, avrcp, profiles, stranded>>

\* Mutant: a channel that cannot send is left to the next write.
KickLaterNever ==
    /\ Runs("bt") /\ bt = "spp"
    /\ spp.open /\ spp.tx > 0
    /\ ~CanSend
    /\ spp' = [spp EXCEPT !.scheduled = FALSE]
    /\ bt' = Kicker
    /\ stranded' = FALSE
    /\ UNCHANGED <<loopVars, job, uart, ctl, avrcp, profiles>>

\* rfcomm_request_can_send_now_event.
KickLater ==
    /\ Runs("bt") /\ bt = "spp"
    /\ spp.open /\ spp.tx > 0
    /\ ~CanSend
    /\ spp' = [spp EXCEPT !.scheduled = FALSE, !.wanted = TRUE]
    /\ bt' = Kicker
    /\ stranded' = FALSE
    /\ UNCHANGED <<loopVars, job, uart, ctl, avrcp, profiles>>

\* A frame leaves the ring.
KickTakes ==
    /\ Runs("bt") /\ bt = "spp"
    /\ spp.open /\ spp.tx > 0
    /\ CanSend
    /\ spp' = [spp EXCEPT !.scheduled = FALSE, !.tx = IF @ < Frame THEN 0 ELSE @ - Frame]
    /\ bt' = "send"
    /\ stranded' = FALSE
    /\ UNCHANGED <<loopVars, job, uart, ctl, avrcp, profiles>>

\* rfcomm_send hands the frame to the transport.  What was left in the ring
\* when the frame was taken waits for the next event.
SendFrame ==
    /\ Runs("bt") /\ bt = "send"
    /\ \E credit \in BOOLEAN : spp' = [spp EXCEPT !.wanted = spp.tx > 0, !.credit = credit]
    /\ SendBlock
    /\ bt' = Kicker
    /\ UNCHANGED <<job, ctl, avrcp, profiles, stranded>>

\* rfcomm_send fails: the frame is lost and no event is asked for.
SendFails ==
    /\ Runs("bt") /\ bt = "send"
    /\ stranded' = (spp.tx > 0)
    /\ bt' = Kicker
    /\ UNCHANGED <<loopVars, job, uart, spp, ctl, avrcp, profiles>>

\* bt_spp_tx_write puts all or nothing and posts the kick if none is on its way.
TxWrite ==
    /\ Runs("ota") /\ Free("ota")
    /\ spp.open
    /\ \E n \in 1..(TxRing - spp.tx) :
          spp' = [spp EXCEPT !.tx = @ + n, !.scheduled = TRUE]
    /\ IF spp.scheduled THEN UNCHANGED loopVars ELSE Post("ota", "spp")
    /\ UNCHANGED <<bt, job, uart, ctl, avrcp, profiles, stranded>>

----------------------------------------------------------------------------
(* bt_avrcp_ct_app.c: commands and volume changes.                          *)

\* A key: what is to be posted depends on the link and on who sets the volume.
Key ==
    /\ Runs("ctl") /\ Free("ctl") /\ ctl = "idle"
    /\ avrcp.linked
    /\ \/ "keys" \in profiles /\ ctl' = "command"
       \/ avrcp.absolute /\ ctl' = "volume"
    /\ UNCHANGED <<loopVars, bt, job, uart, spp, avrcp, profiles, stranded>>

\* bt_avrcp_ct_post_command's section with interrupts off.
PostCommand ==
    /\ Runs("ctl") /\ ctl = "command"
    /\ ctl' = "idle"
    /\ IF avrcp.cmds >= Commands
       THEN UNCHANGED <<loopVars, avrcp>>
       ELSE /\ avrcp' = [avrcp EXCEPT !.cmds = @ + 1, !.pending = TRUE]
            /\ IF avrcp.pending THEN UNCHANGED loopVars ELSE PostCleared("ctl", "cmd")
    /\ UNCHANGED <<bt, job, uart, spp, profiles, stranded>>

Clamp(d) == IF d > MaxDelta THEN MaxDelta ELSE IF d < -MaxDelta THEN -MaxDelta ELSE d

\* bt_avrcp_ct_post_abs_volume_delta's.
PostDelta ==
    /\ Runs("ctl") /\ ctl = "volume"
    /\ ctl' = "idle"
    /\ \E d \in {-1, 1} :
          avrcp' = [avrcp EXCEPT !.delta = Clamp(@ + d), !.volPending = TRUE]
    /\ IF avrcp.volPending THEN UNCHANGED loopVars ELSE PostCleared("ctl", "vol")
    /\ UNCHANGED <<bt, job, uart, spp, profiles, stranded>>

\* Mutant: the callback counts as done with commands left in the queue.
RunCommandOnce ==
    /\ Runs("bt") /\ bt = "cmd"
    /\ avrcp' = [avrcp EXCEPT !.cmds = IF @ > 0 THEN @ - 1 ELSE 0, !.pending = FALSE]
    /\ bt' = "drain" /\ job' = "timer"
    /\ UNCHANGED <<loopVars, uart, spp, ctl, profiles, stranded>>

\* One round of run_queued_commands; with the queue empty the flag is cleared
\* in the same section.
RunCommand ==
    /\ Runs("bt") /\ bt = "cmd"
    /\ IF avrcp.cmds > 0
       THEN avrcp' = [avrcp EXCEPT !.cmds = @ - 1] /\ UNCHANGED <<bt, job>>
       ELSE avrcp' = [avrcp EXCEPT !.pending = FALSE] /\ bt' = "drain" /\ job' = "timer"
    /\ UNCHANGED <<loopVars, uart, spp, ctl, profiles, stranded>>

\* run_abs_volume_delta takes the whole change and tells the phone.
RunDelta ==
    /\ Runs("bt") /\ bt = "vol"
    /\ avrcp' = [avrcp EXCEPT !.delta = 0, !.volPending = FALSE]
    /\ bt' = "stack"
    /\ UNCHANGED <<loopVars, job, uart, spp, ctl, profiles, stranded>>

\* The phone connects or takes over the volume, with a packet of its own.
AvrcpLinks ==
    /\ InStack /\ job = "rx" /\ NoneCanSend
    /\ profiles \cap {"keys", "volume"} # {}
    /\ \/ ~avrcp.linked /\ avrcp' = [avrcp EXCEPT !.linked = TRUE, !.absolute = FALSE]
       \/ avrcp.linked /\ "volume" \in profiles /\ avrcp' = [avrcp EXCEPT !.absolute = TRUE]
    /\ bt' = "arm"
    /\ UNCHANGED <<loopVars, job, uart, spp, ctl, profiles, stranded>>

\* It disconnects, which resets the volume change and its flag but neither the
\* queue nor what the list holds; the packet may have more to say.
AvrcpReleased ==
    /\ InStack /\ job = "rx"
    /\ avrcp.linked
    /\ avrcp' = [avrcp EXCEPT !.linked = FALSE, !.absolute = FALSE,
                              !.delta = 0, !.volPending = FALSE]
    /\ UNCHANGED <<loopVars, bt, job, uart, spp, ctl, profiles, stranded>>

----------------------------------------------------------------------------
\* The processor halts in the fault handler, or the run ends at a torn list.
Halted == ~Alive /\ UNCHANGED vars

Stack == \/ StackSends \/ StackNaps \/ CanSendNow
         \/ PeerCredits \/ Opened \/ Closed \/ StackReturns
         \/ AvrcpLinks \/ AvrcpReleased

Loop == \/ DrainSome \/ PopStore \/ DrainNone \/ WakeUp
        \/ RxDone \/ TxDone \/ Arm
        \/ KickNothing \/ KickLater \/ KickTakes \/ SendFrame \/ RunCommand \/ RunDelta

Next ==
    \/ \E t \in Thread : Appends(t)
    \/ Put
    \/ Loop \/ TimerDue \/ Stack \/ NapOver \/ SendFails
    \/ TxWrite \/ Key \/ PostCommand \/ PostDelta
    \/ Halted

Spec == Init /\ [][Next]_vars

\* Every thread's turn to run comes.
Idle == Runs("ctl") \/ ~Alive

\* The HCI traffic leaves processor time, and with it what a thread is in the
\* middle of finishes, a handler returns, and a codec's sleep ends.
LiveSpec ==
    /\ Spec
    /\ []<>Idle
    /\ SF_vars(\E t \in Thread : Appends(t))
    /\ WF_vars(Loop) /\ WF_vars(NapOver)
    /\ SF_vars(CanSendNow) /\ SF_vars(StackReturns)

----------------------------------------------------------------------------
(* Properties.                                                              *)

Posts(n) == \E t \in Thread : ~Free(t) /\ call[t].node = n /\ call[t].op # "store"

\* The loop never sleeps on work: a registration on the list has its signal
\* in the semaphore, or the thread that appended it is about to give it.
WakeupKept ==
    bt = "sleep" /\ signals = 0 /\ next[List] # Nil =>
        \E t \in Thread : call[t].op = "notify"

\* As long as the list has not been torn, it is a list, and holds exactly the
\* registrations that were appended and not yet taken: none is lost, none runs
\* twice for one append.
ListIsOwed == ~torn => Ends(next) /\ Listed = owed

\* The HCI receiver never stops: unless its callback is on its way or being
\* handled, a block is asked for and is not complete yet.
HciKeepsReading ==
    ~torn => \/ uart.active /\ uart.ring < uart.need
             \/ "rx" \in owed \/ Posts("rx")
             \/ job = "rx" /\ bt \in {"rx", "stack", "nap", "arm", "spp", "send"}

\* A command in the queue, and a volume change, always has its callback coming.
KeysNotForgotten ==
    ~torn =>
        /\ avrcp.cmds > 0 => "cmd" \in owed \/ Posts("cmd") \/ bt = "cmd"
        /\ avrcp.delta # 0 => "vol" \in owed \/ Posts("vol") \/ bt = "vol"

\* Bytes written to an open channel with credits are sent.
BytesLeave ==
    spp.open /\ spp.tx > 0 ~>
        \/ bt = "send" \/ ~spp.open \/ ~spp.credit
        \/ stranded \/ torn

\* btstack_run_loop.h: "it is guaranteed that the callback will run at least
\* once after the last item was added".
GuaranteedToRun == \A n \in Node : n \in owed ~> n \notin owed
=============================================================================
