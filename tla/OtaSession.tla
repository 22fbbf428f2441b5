----------------------------- MODULE OtaSession -----------------------------
(***************************************************************************)
(* A firmware update over SPP: the downloader of easy_bootloader_app.c, its *)
(* port boot_ota_port.c and the main loop that polls them, with the parts   *)
(* they meet outside the repository, the sender and the Bootloader.         *)
(*                                                                          *)
(* One thread runs the downloader, one call of boot_ota_poll after another. *)
(* What is interleaved with it is the sender, the link, the clock, flash    *)
(* failures and loss of power between any two flash operations.             *)
(*                                                                          *)
(* Bytes are abstracted to frames: a frame is whole, or cut when the link   *)
(* dropped while it arrived.  Sizes count data frames, and an image is the  *)
(* sequence of its chunks.  A CRC is the data it was computed over.  The    *)
(* boot control block is the register that BootControl is shown to be, with *)
(* the number of its erased records.                                        *)
(***************************************************************************)
EXTENDS Integers, Sequences, FiniteSets

CONSTANTS
    Image,          \* the images a sender may send; one of them is running first
    NumChunks,      \* data frames per image
    MaxSize,        \* image_max_size, in data frames
    NumRecords,     \* records of the BCB region
    Reserve,        \* BOOT_CONTROL_UPDATE_RECORD_RESERVE
    MaxAttempts,    \* BOOT_OTA_MAX_BOOT_ATTEMPTS
    Timeout,        \* session_timeout_ms, in clock ticks
    MaxQueue,       \* bound: frames waiting for the downloader
    MaxFaults       \* bound: flash failures in a behaviour

ASSUME ImageAssumption == NumChunks \in [Image -> Nat \ {0}]
ASSUME ReserveAssumption ==
    NumRecords \in Nat \ {0} /\ Reserve \in Nat /\ MaxAttempts \in Nat \ {0}
ASSUME BoundAssumption ==
    MaxSize \in Nat /\ Timeout \in Nat \ {0} /\ MaxQueue \in Nat /\ MaxFaults \in Nat

VARIABLES
    slot,           \* external flash: what each download slot holds
    bcb,            \* the boot control status a reader gets
    free,           \* erased records left in the BCB
    running,        \* the firmware in internal flash
    app,            \* the session: the fields of boot_app_context_t
    pc,             \* where the main thread is
    confirm,        \* boot_ota_ctx.confirmation_pending / _complete
    ring,           \* frames in the SPP receive ring
    rx,             \* frames in app.rx_cache
    tx,             \* ACKs in the SPP transmit ring
    connected,      \* an RFCOMM channel is open
    host,           \* the sender
    faults          \* flash failures so far

flash == <<slot, bcb, free, running>>
link == <<ring, rx, tx, connected, host>>
vars == <<flash, app, pc, confirm, link, faults>>

-----------------------------------------------------------------------------
(* Data.                                                                   *)

Slot == {"A", "B"}
OtherSlot(s) == IF s = "A" THEN "B" ELSE "A"

Bad == [image |-> "bad", index |-> 0]   \* flash content that is no chunk
Chunk == [image : Image, index : Nat]

\* The payload of an image.
Data(i) == [k \in 1 .. NumChunks[i] |-> [image |-> i, index |-> k]]

(***************************************************************************)
(* A slot: an image header (64 bytes, commit word last) and the payload    *)
(* behind it.                                                              *)
(***************************************************************************)
NoHeader == [form |-> "erased"]
Header(f, i, crc) == [form |-> f, version |-> i, crc |-> crc]
Blank == [header |-> NoHeader, payload |-> <<>>]
Holding(fw) ==
    [header |-> Header("committed", fw.version, fw.data), payload |-> fw.data]

\* boot_image_header_decode accepts the header.
Decodes(h) == h.form = "committed"

\* boot_control_status_t; version, size and CRC identify the image together.
NoImage == [version |-> "none", crc |-> <<>>]
EmptyControl ==
    [state |-> "EMPTY", confirmed |-> "NONE", pending |-> "NONE",
     image |-> NoImage, attempts |-> 0]

Updating == {"UPDATE_READY", "BACKUP_READY", "INSTALLING", "TRIAL", "ROLLBACK"}
Session == {"WAIT_DATA", "RECEIVING", "WAIT_FINISH"}

NoSession(st) == [state |-> st, target |-> "NONE", expected |-> 0, got |-> <<>>,
                  quiet |-> 0]

\* Frames on the link; the remaining field counts the chunks that follow.
StartFrame == [type |-> "start"]
DataFrame(i, k) ==
    [type |-> "data", remaining |-> NumChunks[i] - k,
     chunk |-> [image |-> i, index |-> k]]
FinishFrame(i) == [type |-> "finish", version |-> i]
CutFrame == [type |-> "cut"]

Frame ==
    {StartFrame, CutFrame}
        \cup (UNION {{DataFrame(i, k) : k \in 1 .. NumChunks[i]} : i \in Image})
        \cup {FinishFrame(i) : i \in Image}

-----------------------------------------------------------------------------
\* The first firmware, or a confirmed one whose BCB was just recycled.
Init ==
    /\ \E i \in Image, c \in Slot \cup {"NONE"} :
          /\ running = [version |-> i, data |-> Data(i)]
          /\ bcb = IF c = "NONE" THEN EmptyControl
                   ELSE [EmptyControl EXCEPT
                           !.state = "CONFIRMED", !.confirmed = c,
                           !.image = [version |-> i, crc |-> Data(i)]]
          /\ slot = [s \in Slot |-> IF s = c THEN Holding(running) ELSE Blank]
          /\ free = IF c = "NONE" THEN NumRecords ELSE NumRecords - 1
    /\ app = NoSession("IDLE")
    /\ pc = "boot"
    /\ confirm = "off"
    /\ ring = <<>> /\ rx = <<>> /\ tx = 0
    /\ connected = FALSE
    /\ host \in [image : Image, step : {0}]
    /\ faults = 0

-----------------------------------------------------------------------------
(* Helpers of the main thread's steps.                                     *)

\* Mutant: every poll counts as activity.
QuietNever == 0

\* What transport_read leaves in the cache, and how long nothing has come.
Cache == rx \o ring
Quiet == IF ring = <<>> THEN app.quiet ELSE 0

\* fail(): the session ends, the cache and the slot stay as they are.  What it
\* leaves in the other fields is reset before it is used again.
Failed == NoSession("ERROR")

\* Mutant: an ACK is taken whatever room there is.
CanAckUnchecked == connected

\* bt_spp_tx_write takes an ACK while a channel is open and its ring has room.
CanAck == connected /\ tx < MaxQueue
AckQueued == IF CanAck THEN tx + 1 ELSE tx

\* boot_ota_storage_write in a NOR partition: only erased flash takes data.
Program(p, at, c) ==
    IF at = Len(p) THEN Append(p, c)
    ELSE IF at < Len(p) THEN [p EXCEPT ![at + 1] = Bad]
    ELSE p

\* Mutant: a trial does not block an update.
AcceptsDuringTrial == bcb.state \in {"EMPTY", "CONFIRMED", "TRIAL"}

\* The slot an update goes to (select_target_slot).
SpareSlot == IF bcb.confirmed = "NONE" THEN "A" ELSE OtherSlot(bcb.confirmed)
AcceptsUpdate == bcb.state \in {"EMPTY", "CONFIRMED"}

\* boot_ota_mark_update_ready: the rest of the status is carried over.
UpdateReady(v, crc) ==
    [bcb EXCEPT !.state = "UPDATE_READY", !.pending = app.target,
                !.image = [version |-> v, crc |-> crc], !.attempts = 0]

\* Mutant: the pending slot is dropped before it is taken over.
ConfirmedForgets ==
    [bcb EXCEPT !.state = "CONFIRMED", !.pending = "NONE", !.attempts = 0]

\* easy_bootloader_app_confirm_running and boot_ota_mark_confirmed.
Confirmed ==
    [bcb EXCEPT !.state = "CONFIRMED", !.confirmed = bcb.pending,
                !.pending = "NONE", !.attempts = 0]

\* boot_control_append succeeds: BootControl, Spec => ImplementsRegister.
Store(status) ==
    /\ free > 0
    /\ bcb' = status
    /\ free' = free - 1

\* boot_control_append is cut: one record may be lost, the status may be stored.
StoreCut(status) ==
    /\ free > 0
    /\ faults < MaxFaults
    /\ faults' = faults + 1
    /\ \/ bcb' = bcb /\ free' \in {free, free - 1}
       \/ bcb' = status /\ free' = free - 1

-----------------------------------------------------------------------------
(* easy_bootloader_app_run, outside a session.                             *)

Starts == {k \in 1 .. Len(Cache) : Cache[k] = StartFrame}

\* No start command arrived: process_idle_commands skips what it does not know.
PollIdle ==
    /\ pc = "idle" /\ app.state \notin Session
    /\ Starts = {}
    /\ rx' = <<>> /\ ring' = <<>>
    /\ UNCHANGED <<flash, app, pc, confirm, tx, connected, host, faults>>

\* A start command: a new session, unless an update is not settled yet.
PollStart ==
    /\ pc = "idle" /\ app.state \notin Session
    /\ \E k \in Starts :
          /\ \A j \in Starts : k <= j
          /\ rx' = SubSeq(Cache, k + 1, Len(Cache))
    /\ ring' = <<>>
    /\ IF AcceptsUpdate
       THEN /\ app' = [NoSession("WAIT_DATA") EXCEPT !.target = SpareSlot]
            /\ tx' = AckQueued
       ELSE /\ app' = Failed
            /\ UNCHANGED tx
    /\ UNCHANGED <<flash, pc, confirm, connected, host, faults>>

-----------------------------------------------------------------------------
(* easy_bootloader_app_run, in a session.                                  *)

\* Nothing came for the session timeout.
PollTimeout ==
    /\ pc = "idle" /\ app.state \in Session
    /\ Quiet >= Timeout
    /\ app' = Failed
    /\ rx' = Cache /\ ring' = <<>>
    /\ UNCHANGED <<flash, pc, confirm, tx, connected, host, faults>>

PollData ==
    /\ pc = "idle" /\ app.state \in {"WAIT_DATA", "RECEIVING"}
    /\ Quiet < Timeout
    /\ pc' = "parse"
    /\ app' = [app EXCEPT !.quiet = Quiet]
    /\ rx' = Cache /\ ring' = <<>>
    /\ UNCHANGED <<flash, confirm, tx, connected, host, faults>>

\* The front of the cache is no data frame: extract_data_frame reads a length
\* out of it, 0x55xx and so too long for a start command with a frame behind
\* it, perhaps a plausible one for a finish command or a cut frame.
Garbled == rx # <<>> /\ Head(rx).type # "data"
TooLong == Len(rx) > 1 /\ Head(rx) = StartFrame /\ rx[2] # CutFrame

\* The frame at the front is not complete yet: the poll is over.
ParseWait ==
    /\ pc = "parse"
    /\ rx = <<>> \/ (Garbled /\ ~TooLong)
    /\ pc' = "idle"
    /\ UNCHANGED <<flash, app, confirm, link, faults>>

\* A length or checksum that is wrong: what it covers is dropped.
ParseFail ==
    /\ pc = "parse"
    /\ Garbled
    /\ Len(rx) > 1 \/ Head(rx) # StartFrame
    /\ \/ rx' = Tail(rx)
       \/ Len(rx) > 1 /\ Head(rx) # StartFrame /\ rx' = Tail(Tail(rx))
    /\ app' = Failed
    /\ pc' = "idle"
    /\ UNCHANGED <<flash, confirm, ring, tx, connected, host, faults>>

\* handle_data_frame up to its first flash operation.
Total == Len(app.got) + 1 + Head(rx).remaining

\* Mutant: only the first frame says how many follow.
AgreesAlways == TRUE

\* Every frame must say the same size as the first.
Agrees == Total = app.expected

HandleData ==
    /\ pc = "parse"
    /\ rx # <<>> /\ Head(rx).type = "data"
    /\ \/ /\ app.expected = 0 /\ Total <= MaxSize
          /\ pc' = "erase"
          /\ UNCHANGED <<app, rx>>
       \/ /\ app.expected # 0 /\ Agrees
          /\ pc' = "write"
          /\ UNCHANGED <<app, rx>>
       \/ /\ IF app.expected = 0 THEN Total > MaxSize ELSE ~Agrees
          /\ pc' = "idle"
          /\ app' = Failed
          /\ rx' = Tail(rx)
    /\ UNCHANGED <<flash, confirm, ring, tx, connected, host, faults>>

\* prepare_storage.
EraseSlot ==
    /\ pc = "erase"
    /\ slot' = [slot EXCEPT ![app.target] = Blank]
    /\ app' = [app EXCEPT !.expected = Total]
    /\ pc' = "write"
    /\ UNCHANGED <<bcb, free, running, confirm, link, faults>>

\* The rest of handle_data_frame; an ACK that is not taken ends the session.
WriteChunk ==
    /\ pc = "write"
    /\ \E c \in {Head(rx).chunk, Bad} :
          /\ c = Bad => faults < MaxFaults     \* programmed wrong, unnoticed
          /\ faults' = IF c = Bad THEN faults + 1 ELSE faults
          /\ slot' = [slot EXCEPT ![app.target].payload =
                         Program(@, Len(app.got), c)]
    /\ rx' = Tail(rx)
    /\ app' = [app EXCEPT
                 !.got = Append(@, Head(rx).chunk),
                 !.quiet = 0,
                 !.state = IF ~CanAck THEN "ERROR"
                           ELSE IF Head(rx).remaining = 0 THEN "WAIT_FINISH"
                           ELSE "RECEIVING"]
    /\ tx' = AckQueued
    /\ pc' = IF CanAck /\ Head(rx).remaining # 0 THEN "parse" ELSE "idle"
    /\ UNCHANGED <<bcb, free, running, confirm, ring, connected, host>>

-----------------------------------------------------------------------------
(* The end of a session: commit_image.                                     *)

\* verify_payload reads the slot back.
Verified == slot[app.target].payload = app.got

PollFinish ==
    /\ pc = "idle" /\ app.state = "WAIT_FINISH"
    /\ Quiet < Timeout
    /\ Cache # <<>> /\ Head(Cache).type = "finish"
    /\ ring' = <<>>
    /\ IF Verified
       THEN /\ pc' = "header"
            /\ app' = [app EXCEPT !.quiet = Quiet]
            /\ rx' = Cache
       ELSE /\ app' = Failed
            /\ rx' = Tail(Cache)
            /\ UNCHANGED pc
    /\ UNCHANGED <<flash, confirm, tx, connected, host, faults>>

\* Anything else is skipped byte by byte, and may stay while it is short.
PollSkip ==
    /\ pc = "idle" /\ app.state = "WAIT_FINISH"
    /\ Quiet < Timeout
    /\ Cache # <<>> => Head(Cache).type # "finish"
    /\ ring' = <<>>
    /\ app' = [app EXCEPT !.quiet = Quiet]
    /\ \/ rx' = Cache /\ Len(Cache) <= 2
       \/ Cache # <<>> /\ rx' = Tail(Cache)
    /\ UNCHANGED <<flash, pc, confirm, tx, connected, host, faults>>

\* The image header without its commit word.
WriteHeader ==
    /\ pc = "header"
    /\ slot' = [slot EXCEPT ![app.target].header =
                  Header("body", Head(rx).version, app.got)]
    /\ pc' = "commit"
    /\ UNCHANGED <<bcb, free, running, app, confirm, link, faults>>

CommitHeader ==
    /\ pc = "commit"
    /\ slot' = [slot EXCEPT ![app.target].header.form = "committed"]
    /\ pc' = "check"
    /\ UNCHANGED <<bcb, free, running, app, confirm, link, faults>>

\* Mutant: room for the next record only.
HasOneRecord == free >= 1

\* Room in the BCB for the whole update.
HasReserve == free >= Reserve

\* The header read back, and the reserve.
CheckImage ==
    /\ pc = "check"
    /\ IF /\ Decodes(slot[app.target].header)
          /\ slot[app.target].header.crc = app.got
          /\ HasReserve
       THEN pc' = "append" /\ UNCHANGED <<app, rx>>
       ELSE pc' = "idle" /\ app' = Failed /\ rx' = Tail(rx)
    /\ UNCHANGED <<flash, confirm, ring, tx, connected, host, faults>>

MarkUpdateReady ==
    /\ pc = "append"
    /\ Store(UpdateReady(Head(rx).version, app.got))
    /\ app' = NoSession("READY")
    /\ pc' = "ready"
    /\ UNCHANGED <<slot, running, confirm, link, faults>>

\* The last ACK; when it cannot be queued there is no reset.
FinalAck ==
    /\ pc = "ready"
    /\ rx' = Tail(rx)
    /\ tx' = AckQueued
    /\ IF CanAck THEN pc' = "reset" /\ UNCHANGED app
                 ELSE pc' = "idle" /\ app' = Failed
    /\ UNCHANGED <<flash, confirm, ring, connected, host, faults>>

-----------------------------------------------------------------------------
(* Flash operations that fail or are cut.                                  *)

\* What an interrupted operation on the target slot may leave in it.
HalfDone(s) ==
    CASE pc = "erase" -> {s, Blank, [s EXCEPT !.header = NoHeader]}
      [] pc = "write" ->
            {s} \cup {[s EXCEPT !.payload = Program(@, Len(app.got), c)] :
                        c \in {Head(rx).chunk, Bad}}
      [] pc = "header" ->
            {s, [s EXCEPT !.header = Header("body", Head(rx).version, app.got)]}
      [] pc = "commit" -> {s, [s EXCEPT !.header.form = "committed"]}
      [] OTHER -> {s}

Interrupted ==
    /\ IF app.target = "NONE" THEN UNCHANGED slot
       ELSE \E h \in HalfDone(slot[app.target]) :
              slot' = [slot EXCEPT ![app.target] = h]
    /\ IF pc = "append"
       THEN StoreCut(UpdateReady(Head(rx).version, app.got))
       ELSE UNCHANGED <<bcb, free>>

\* The flash reports an error: the session ends.
FlashError ==
    /\ pc \in {"erase", "write", "header", "commit", "check", "append"}
    /\ faults < MaxFaults
    /\ faults' = faults + 1
    /\ Interrupted
    /\ app' = Failed
    /\ rx' = Tail(rx)
    /\ pc' = "idle"
    /\ UNCHANGED <<running, confirm, ring, tx, connected, host>>

\* Only flash survives a reset.
Restart ==
    /\ app' = NoSession("IDLE")
    /\ pc' = "boot"
    /\ confirm' = "off"
    /\ ring' = <<>> /\ rx' = <<>> /\ tx' = 0
    /\ connected' = FALSE
    /\ UNCHANGED <<running, host>>

PowerLoss ==
    /\ pc \notin {"boot", "reset"}
    /\ Interrupted
    /\ pc # "append" => UNCHANGED faults
    /\ Restart

\* boot_ota_system_reset, after the last ACK was queued.
SystemReset ==
    /\ pc = "reset"
    /\ Restart
    /\ UNCHANGED <<slot, bcb, free, faults>>

-----------------------------------------------------------------------------
(* boot_ota_poll, the confirmation of a trial image.                       *)

\* Mutant: one attempt settles it, whatever came of it.
ConfirmOnce ==
    /\ pc = "idle" /\ confirm = "pending"
    /\ confirm' = "complete"
    /\ UNCHANGED <<flash, app, pc, link, faults>>

\* Nothing is on trial: there is nothing to confirm.
ConfirmNothing ==
    /\ pc = "idle" /\ confirm = "pending"
    /\ bcb.state # "TRIAL"
    /\ confirm' = "complete"
    /\ UNCHANGED <<flash, app, pc, link, faults>>

ConfirmTrial ==
    /\ pc = "idle" /\ confirm = "pending"
    /\ bcb.state = "TRIAL"
    /\ Store(Confirmed)
    /\ confirm' = "complete"
    /\ UNCHANGED <<slot, running, app, pc, link, faults>>

\* The append fails: another attempt one second later.
ConfirmRetry ==
    /\ pc = "idle" /\ confirm = "pending"
    /\ bcb.state = "TRIAL"
    /\ StoreCut(Confirmed)
    /\ UNCHANGED <<slot, running, app, pc, confirm, link>>

-----------------------------------------------------------------------------
(* External: the Bootloader, as the source's comments and README describe  *)
(* it.  It never checks an image, so what is installed is what the APP     *)
(* vouched for.                                                            *)

\* What installing a slot puts into internal flash.
Firmware(s) == [version |-> s.header.version, data |-> s.payload]

\* The APP starts; its health check may fail, and then nothing is confirmed.
StartApp ==
    /\ pc' = "idle"
    /\ confirm' \in {"off", "pending"}

BootRun ==
    /\ pc = "boot" /\ AcceptsUpdate
    /\ StartApp
    /\ UNCHANGED <<flash, app, link, faults>>

\* The first update: the running APP is backed up to the other slot.
BootBackup ==
    /\ pc = "boot" /\ bcb.state = "UPDATE_READY"
    /\ \E c \in {bcb.confirmed} \cup
               (IF bcb.confirmed = "NONE" THEN {OtherSlot(bcb.pending)} ELSE {}) :
          Store([bcb EXCEPT !.state = "BACKUP_READY", !.confirmed = c])
    /\ slot' = IF bcb.confirmed # "NONE" THEN slot
               ELSE [slot EXCEPT ![OtherSlot(bcb.pending)] = Holding(running)]
    /\ UNCHANGED <<running, app, pc, confirm, link, faults>>

BootInstall ==
    /\ pc = "boot" /\ bcb.state = "BACKUP_READY"
    /\ Store([bcb EXCEPT !.state = "INSTALLING"])
    /\ UNCHANGED <<slot, running, app, pc, confirm, link, faults>>

\* The pending image is copied to internal flash and started on trial.
BootTrial ==
    /\ pc = "boot" /\ bcb.state = "INSTALLING"
    /\ running' = Firmware(slot[bcb.pending])
    /\ Store([bcb EXCEPT !.state = "TRIAL", !.attempts = 1])
    /\ StartApp
    /\ UNCHANGED <<slot, app, link, faults>>

BootRetry ==
    /\ pc = "boot" /\ bcb.state = "TRIAL" /\ bcb.attempts < MaxAttempts
    /\ Store([bcb EXCEPT !.attempts = @ + 1])
    /\ StartApp
    /\ UNCHANGED <<slot, running, app, link, faults>>

BootRollback ==
    /\ pc = "boot" /\ bcb.state = "TRIAL" /\ bcb.attempts = MaxAttempts
    /\ Store([bcb EXCEPT !.state = "ROLLBACK"])
    /\ UNCHANGED <<slot, running, app, pc, confirm, link, faults>>

\* The trial never got confirmed: back to the confirmed image, or to the backup.
BootRestore ==
    /\ pc = "boot" /\ bcb.state = "ROLLBACK"
    /\ LET s == IF bcb.confirmed = "NONE" THEN OtherSlot(bcb.pending)
                ELSE bcb.confirmed
           h == slot[s].header
       IN  /\ running' = Firmware(slot[s])
           /\ Store(IF bcb.confirmed = "NONE" THEN EmptyControl
                    ELSE [bcb EXCEPT
                            !.state = "CONFIRMED", !.pending = "NONE",
                            !.attempts = 0,
                            !.image = [version |-> h.version, crc |-> h.crc]])
    /\ UNCHANGED <<slot, app, pc, confirm, link, faults>>

Bootloader ==
    \/ BootRun \/ BootBackup \/ BootInstall
    \/ BootTrial \/ BootRetry \/ BootRollback \/ BootRestore

-----------------------------------------------------------------------------
(* External: the link and a sender that waits for each ACK, sends again    *)
(* when it is late, and may start over at any time.                        *)

Connect ==
    /\ ~connected /\ pc # "boot"
    /\ connected' = TRUE
    /\ ring' = <<>> /\ tx' = 0          \* bt_spp_app.c, channel opened
    /\ UNCHANGED <<flash, app, pc, confirm, rx, host, faults>>

\* The rings are reset; part of a frame may already be in the cache.
Disconnect ==
    /\ connected
    /\ connected' = FALSE
    /\ ring' = <<>> /\ tx' = 0
    /\ rx' \in {rx} \cup
               (IF ring # <<>> /\ Len(rx) < MaxQueue THEN {Append(rx, CutFrame)}
                ELSE {})
    /\ UNCHANGED <<flash, app, pc, confirm, host, faults>>

\* Steps of a sender: 0 start, 1 .. n the data frames, n + 1 finish, n + 2 done.
FrameToSend ==
    IF host.step = 0 THEN StartFrame
    ELSE IF host.step <= NumChunks[host.image] THEN DataFrame(host.image, host.step)
    ELSE FinishFrame(host.image)

HostDone == host.step = NumChunks[host.image] + 2

HostSend ==
    /\ connected /\ ~HostDone
    /\ Len(rx) + Len(ring) < MaxQueue
    /\ ring' = Append(ring, FrameToSend)
    /\ UNCHANGED <<flash, app, pc, confirm, rx, tx, connected, host, faults>>

\* The Bluetooth thread sends an ACK and the sender gets it.
HostAck ==
    /\ connected /\ tx > 0
    /\ tx' = tx - 1
    /\ host' = IF HostDone THEN host ELSE [host EXCEPT !.step = @ + 1]
    /\ UNCHANGED <<flash, app, pc, confirm, ring, rx, connected, faults>>

HostRestart ==
    /\ host' \in [image : Image, step : {0}]
    /\ UNCHANGED <<flash, app, pc, confirm, ring, rx, tx, connected, faults>>

\* Time passes; what exceeds the timeout is not counted.
Tick ==
    /\ app.state \in Session
    /\ app.quiet < Timeout
    /\ app' = [app EXCEPT !.quiet = @ + 1]
    /\ UNCHANGED <<flash, pc, confirm, link, faults>>

-----------------------------------------------------------------------------
Poll ==
    \/ PollIdle \/ PollStart \/ PollTimeout \/ PollData \/ PollFinish \/ PollSkip
    \/ ParseWait \/ ParseFail \/ HandleData \/ EraseSlot \/ WriteChunk
    \/ WriteHeader \/ CommitHeader \/ CheckImage \/ MarkUpdateReady \/ FinalAck
    \/ SystemReset

Confirmation == ConfirmNothing \/ ConfirmTrial

Sender == Connect \/ Disconnect \/ HostSend \/ HostAck \/ HostRestart

Next ==
    \/ Poll \/ Confirmation \/ ConfirmRetry
    \/ FlashError \/ PowerLoss
    \/ Bootloader
    \/ Sender
    \/ Tick

Spec == Init /\ [][Next]_vars

\* The main thread is scheduled and time passes; the sender, the link and the
\* supply promise nothing.
Fairness == WF_vars(Poll) /\ WF_vars(Confirmation) /\ WF_vars(Tick)

LiveSpec == Spec /\ Fairness

-----------------------------------------------------------------------------
(* Properties.                                                             *)

Control ==
    [state : {"EMPTY", "CONFIRMED"} \cup Updating,
     confirmed : Slot \cup {"NONE"}, pending : Slot \cup {"NONE"},
     image : [version : Image \cup {"none"}, crc : Seq(Chunk)],
     attempts : 0 .. MaxAttempts]

Content ==
    [header : {NoHeader} \cup
                [form : {"body", "committed"}, version : Image, crc : Seq(Chunk)],
     payload : Seq(Chunk \cup {Bad})]

TypeOK ==
    /\ slot \in [Slot -> Content]
    /\ bcb \in Control
    /\ free \in 0 .. NumRecords
    /\ running \in [version : Image, data : Seq(Chunk)]
    /\ app \in [state : Session \cup {"IDLE", "READY", "ERROR"},
                target : Slot \cup {"NONE"}, expected : 0 .. MaxSize,
                got : Seq(Chunk), quiet : 0 .. Timeout]
    /\ pc \in {"boot", "idle", "parse", "erase", "write", "header", "commit",
               "check", "append", "ready", "reset"}
    /\ confirm \in {"off", "pending", "complete"}
    /\ ring \in Seq(Frame) /\ rx \in Seq(Frame)
    /\ tx \in 0 .. MaxQueue
    /\ connected \in BOOLEAN
    /\ host \in [image : Image, step : Nat]
    /\ faults \in 0 .. MaxFaults

\* The slot holds what the Bootloader accepts as an image: the payload is the one
\* the header's CRC was computed over, that is, what was received and written.
Intact(s) ==
    /\ Decodes(slot[s].header)
    /\ slot[s].payload = slot[s].header.crc

\* Counted from the end of n chunks, each chunk is where its frame said.
InPlace(data, n) ==
    \A k \in 1 .. Len(data) : NumChunks[data[k].image] - data[k].index = n - k

\* Whatever was cut, refused or confused, the confirmed slot holds an intact
\* image to fall back to ("always the slot other than the confirmed one, so
\* that an image to roll back to is kept", select_target_slot).
ConfirmedIntact == bcb.confirmed # "NONE" => Intact(bcb.confirmed)

\* What the Bootloader is told to install is in the pending slot, as it was
\* received, with the size and CRC the BCB names (commit_image).
PendingStored ==
    bcb.state \in Updating =>
        /\ bcb.pending \in Slot \ {bcb.confirmed}
        /\ Intact(bcb.pending)
        /\ slot[bcb.pending].header.version = bcb.image.version
        /\ slot[bcb.pending].header.crc = bcb.image.crc

\* From its first chunk to its end nothing is missing, doubled or moved in it
\* (handle_data_frame).  That it begins with an image's first chunk, or that one
\* sender sent it all, is not said: nothing in a frame tells.
PendingInPlace ==
    bcb.state \in Updating => InPlace(bcb.image.crc, Len(bcb.image.crc))

\* Whatever was lost, repeated or cut on the link, and wherever power or flash
\* failed, an announced update is what was received, in place, until the trial is
\* settled.
PendingIntact == PendingStored /\ PendingInPlace

\* A confirmed status names the slot of the firmware that runs: a confirmation
\* never takes a slot that was not tried (easy_bootloader_app_confirm_running).
ConfirmedRuns ==
    bcb.state = "CONFIRMED" => running.data = slot[bcb.confirmed].payload

\* An update once announced never runs out of BCB records before it is
\* confirmed or rolled back, though the APP cannot recycle
\* (BOOT_CONTROL_UPDATE_RECORD_RESERVE, asked for in commit_image).
RoomToSettle == bcb.state \in Updating => free > 0

\* A session does not outlive its sender: it ends unless bytes go on arriving
\* (session_timeout_ms, easy_bootloader_app_run).
SessionEnds == app.state \in Session ~> app.state \notin Session \/ ring # <<>>

\* A healthy trial image is confirmed in the end, unless it restarts or the
\* flash fails first (boot_ota_poll retries).
TrialSettles ==
    bcb.state = "TRIAL" /\ confirm = "pending" ~>
        bcb.state = "CONFIRMED" \/ pc = "boot"
=============================================================================
