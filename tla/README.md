# Verification of the Bluetooth speaker firmware

TLA+ models of the firmware in `src/applications` and `src/mycomponents`, the
TLC configurations that check them and TLAPS proofs. The firmware runs on an
STM32F407 under RT-Thread with BTstack: a speaker for A2DP, a hands-free unit for
HFP calls, a push-to-talk terminal over a UART, and updates of its own image over
SPP.

## The system

The parts, their state, how they meet:

| Part | Source | State | Meets |
|---|---|---|---|
| Boot control block (BCB) | `easy_bootloader_app/boot_control.c` | an array of 64-byte records in internal flash | read and appended by the update session and by the Bootloader |
| Update session | `easy_bootloader_app.c`, `boot_ota_port.c`, `boot_image.c`, `main.c` | session state, receive cache, download slots A and B in external flash, confirmation flags | polled by the main thread; bytes from the SPP rings |
| SPP channel | `bt_spp_app.c` | RFCOMM channel, receive and transmit ring, kick flag | Bluetooth thread fills and drains, main thread reads and writes |
| Codec and I2S core | `es8311_audio.c` | DMA mode, run mode, playback and capture flags, pending start, sample rate, renderer | mixer, calls and push to talk change it; the DMA interrupt renders |
| Mixer | `audio_mixer.c` | sources, their rings, session mutex, duck gain | A2DP, UART reply and prompts write; the renderer reads |
| Call route | `bt_hfp_hf_app.c` | SCO handle, call rate | Bluetooth thread; switches the codec core to duplex and back |
| A2DP playback | `bt_a2dp_sink_app.c`, `bt_a2dp_audio.c` | stream active, local media enabled | Bluetooth thread and the control thread |
| Push to talk | `control_app.c` | PTT state, the playback to restore | control thread; stops A2DP, captures, sends, listens |
| PCM over UART | `uart_send_pcm.c` | enabled, running, ready and done flags of two workers | two worker threads, control thread |
| Keyboard | `keyboard_driver.c` | a key's debounce, long press and click counters | polled by the control thread, which it calls back |
| AVRCP | `bt_avrcp_ct_app.c` | link, command queue, volume change, pending flags | control thread posts, Bluetooth thread sends |
| Run loop and HCI port | `BT-STACK/port`, `btstack_linked_list.c`, `btstack_run_loop.c`, `hci_transport_h4.c` | list of callback registrations, semaphore, HCI receive ring, block asked for | every thread that has work for BTstack |

What is hard in it: flash that is cut at any word; a journal that only the
Bootloader may erase; a sender that loses ACKs and starts over; one codec shared by
four users on threads of different priority, only two of which take the mixer's
mutex; handlers that sleep in the middle (codec start-up delays, I2C retries), so
that less urgent threads run inside them; handshakes between workers by flags,
with waits that run out; rings that wrap under an interrupt; a list that four
threads append to without a lock. `PROJECT.json` lists each hazard at its line
with the properties for it.

## Modules

| Module | Models |
|---|---|
| `BootControl` | `boot_control.c` over the program primitives of the port |
| `BootRegister` | what the BCB promises: one durable status |
| `BootControlProofs` | proofs about `BootControl`, for all constants |
| `MCBootControl` | its TLC instances |
| `OtaSession` | the downloader, port and confirmation, with sender and Bootloader as environment |
| `OtaSessionProofs` | proofs about `OtaSession`, for all constants |
| `MCOtaSession` | its TLC instances |
| `Threads` | RT-Thread threads as programs of steps, priorities, one mutex |
| `CodecCore` | `es8311_audio.c` and the effects of the codec driver, on `Threads` |
| `AudioRoute` | mixer sessions, A2DP, calls, push to talk and replies on `CodecCore` |
| `AudioRouteProofs` | proof outlines for the programs of `Threads`; proofs about `AudioRoute`, for all rates, failures and priorities |
| `AudioCallProofs` | proofs about calls in `AudioRoute` when nobody talks |
| `AudioTalkProofs` | proofs about talks, replies and music in `AudioRoute` without calls |
| `MCAudioRoute` | its TLC instances |
| `MixerRing` | the mixer's rings, ducking and start watermark, the DMA interrupt, the boot prompt |
| `FrameQueue` | what the rings promise: a queue of frames per source that drops its oldest |
| `MixerRingProofs` | proofs about `MixerRing`: its invariants; that it implements `FrameQueue` |
| `MCMixerRing` | its TLC instance |
| `RunLoop` | the list of callbacks, one access to a pointer at a time, and the semaphore |
| `BtThread` | on `RunLoop`: BTstack's thread, the HCI port, SPP transmit, AVRCP commands |
| `BtThreadProofs` | proofs about `RunLoop`'s operations and `BtThread`, for all capacities and priorities |
| `MCBtThread` | its TLC instances |
| `Keyboard` | one key: debounce, clicks, long press, as functions of a poll |
| `TalkLink` | push to talk on `Keyboard`, with the two workers of the UART and the paused peer |
| `TalkLinkProofs` | proofs about `TalkLink` |
| `MCTalkLink` | its TLC instance |

### BootControl

`region` holds what `boot_control_record_decode` can tell apart of each record:
erased, torn, a body that lacks only its commit word, committed. `op` is the call
in progress with its program counter, since power may be lost between any two
flash words: `Append` is `boot_control_append` up to its first program call, then
`ProgramBody` and `ProgramCommit`, each of which may be cut (`CutBody`,
`CutCommit`) by a flash error, which returns false, or by a power loss, after
which only `region` remains. `Recycle` and `EraseRegion` are
`boot_control_recycle`; `MayErase` is FALSE for the APP, whose `bcb_erase` always
fails. `BootControl` implements `BootRegister` under `current <- Load(region)`:
a reader gets the old status or the new one, and only a recycle passes through
an interval without one.

### OtaSession

One call of `boot_ota_poll` is a sequence of steps of the main thread, one per
flash operation (`pc`), with the sender, the link, the clock, flash failures and
power losses in between. Frames stand for the bytes; a frame is whole, or cut by
a link that dropped. Sizes count data frames, an image is its sequence of chunks,
and a CRC is the data it was computed over. The BCB is the register `BootControl`
is shown to implement, with the number of erased records left; `StoreCut` is an
append that is interrupted. The Bootloader is not in the repository: its steps
are those the comments of `boot_control.h` and the README describe, at most
`BOOT_OTA_MAX_BOOT_ATTEMPTS` trial starts before it rolls back.

### Threads, CodecCore, AudioRoute

`AudioRoute` composes five parts of the firmware that share one codec. What
matters is where a handler can be interrupted, so a C function is written as the
program of its atomic steps, `todo[t]` holds what thread `t` still has to run, and
`Threads` gives meaning to calls, error returns and the session mutex.
`Try(body, ok, err)` is `if (body() == RT_EOK) ok else err`; `Ignore(body)` is
`(void) body()`. A step that tests shared state puts the branch it takes in front
of the rest. Interrupt-locked regions and single assignments are one step.

The three threads are Bluetooth (`bt`, priority 9), the reply receiver (`rx`, 13)
and control (`ctl`, 19). `Runs` is RT-Thread's rule: only the most urgent ready
thread moves, with priority inheritance for the mutex. A less urgent thread gets
its turn when the others wait for events, for the mutex, or sleep: in the quiet
wait, in the UART handshakes, and in the codec driver, which waits for its analog
supply and, with `I2cRetries`, before each repeated register access. An event may
arrive, and preempt, at any step.

`route` is `es8311_audio_ctx`, `hw` what the I2S and the codec were last told.
`active` and `ready` are the mixer's sources in a session and those at their start
watermark; `Render`, the DMA interrupt, may take a source below it. `a2dp` holds
the three flags of the media gate, `sco` the call, `reply` the receiver's flags,
`ptt` the key and `g_ptt_capturing`. The key changes only between two programs of
`ctl`, because `keyboard_poll` runs on that thread; the "released meanwhile"
returns of `control_ptt_start` are therefore never taken and not modelled. The
release of HFP's service level, which also forgets the SCO handle
(`bt_hfp_hf_app.c:280`), is left out: BTstack reports it after the release of the
audio, which has forgotten it already (`ScoReleased`).

### MixerRing

`ring[s]` is `audio_mixer_ctx.source[s]`, `buffer` the PCM arrays, a frame one
sample. Writers and the DMA interrupt exclude each other by the interrupt lock,
so `WriteFrames` is one step; its second half, which takes the session mutex and
may start the DMA, is `Notify`, and anything may happen between the two. A block
is rendered frame by frame with everything else waiting (`left`). `starting`
holds the mutex while the codec starts; the start then succeeds (`SinkStarted`)
or is rolled back. `prompt` follows `boot_prompt_play_once`, which runs before
any other user (`Booted`); its looks at the free frames are merged with the write
after them, since frames only become free in between.

`FrameQueue` knows no positions: a queue per source, `Put` appends and keeps the
newest, `Play` takes the heads, a source switched off is emptied. The mapping
takes the `level` frames from the read position on (`Frames`).

### RunLoop, BtThread

`next` holds the pointers of the list head and of each registration, and an
append or a pop is the sequence of its reads and writes of them (`call[t].op`), so
that a more urgent thread may run in between. `Reached` is what a walk along the
pointers meets: the least set of registrations that holds what the head points to and
what its members point to. `PostAtOnce` is the append of a
thread nobody can interrupt where it does it. `owed` is history: what was
appended and not taken off. `torn` is history too: an operation of one thread
fell into another's, or a registration was written to while on the list.
`BtThread` says who runs: `h4` (8, the reader of the HCI UART), `bt` (9), `ota`
(10, the main thread) and `ctl` (19), the most urgent ready one.

`bt` is where the loop's thread is and `job` whose handler runs; the actions
`Stack...`, `CanSendNow`, `PeerCredits`, `Opened`, `Closed`, `AvrcpLinks` and
`AvrcpReleased` are what BTstack may do with an event, in any order. `uart` is the
port's state with `hci_transport_h4`'s busy flag, `spp` the transmit half of the
channel, `avrcp` the queue and the pending flags.

### Keyboard, TalkLink

`Keyboard` is `keyboard_poll` as functions from a key and a sample to the key and
to what is reported (`Polled`, `Reported`), in polls. `TalkLink` runs it on the
control thread. The control thread moves one flag of the workers at a time; the
workers, both more urgent, take a whole turn between two of their waits at once.
`busy`, `hush` (the mixer's mutex, the codec) and `block` (a UART that takes no
bytes) are where a worker can be held up for any time, and only then may a wait
of the control thread run out. `avrcp.paused` is what the peer was told. The play
command at the end of a talk may be refused, the queue of commands being full
(`PlayAgain`); the code logs that or does not look, and forgets that it owes one.
`refused` and `overrun` are history: that happened, and a stop went on without the
sender having closed.

## Runs

| Run | Shows | Bounds |
|---|---|---|
| `bcb_app` | the append-only journal is the register, sequence numbers are unique, what returned true is loaded | 4 records and 3 sequence numbers: both the full region and the last sequence number are reached |
| `bcb_recycle` | the journal with erasing storage is the register too | 3 records |
| `ota_update` | the confirmed slot stays intact, the pending one holds what was received with every chunk in place, a confirmation names what runs, and the journal keeps room to settle a trial | images of one and of two frames, sent and sent again; one flash failure, power lost anywhere; one frame in the link, since a longer queue adds only waiting; the code's reserve of 8 records for 2 attempts |
| `ota_live` | sessions end, healthy trials get confirmed | fair main thread |
| `route_talk` | with music, talk and replies the codec ends as its users left it; a capture is alone; no start is lost | no call; one codec failure, retries, two looks of the quiet wait (the loop's body and its end) |
| `route_call` | a call that got its route keeps it; renderer, rate, speaker and DMA come back, with failures as far as those let them | both call rates, streaming music, up to two codec failures (the set-up and its way back may both fail), retries |
| `route_contend` | call against talk against replies: the mutex is released, nothing stays captured | one call rate, no music, no failure or retry |
| `route_gate` | finding, below | |
| `mixer_queue` | the rings are queues of frames, their positions agree with their level; the DMA has its source; the boot prompt ends | rings of three and two frames, two samples, writes of one to four frames: shorter than a ring, as long, longer; blocks of two frames; a prompt that fills the ring twice |
| `loop_posts` | no wake-up, HCI block or command is forgotten while the list is whole; bytes in the ring leave | one unit in the HCI ring, two in the SPP ring, two commands, one step of volume, a semaphore followed up to one; per phone one profile beside HCI (see below) |
| `loop_lost` | finding, below: a callback is lost | keys only |
| `talk_link` | the UART has one user, a capture its sender, the peer is resumed unless the play command is refused, starts and stops return, every talk ends | debounce 2, long press 4, double click 3 polls; a block of 2 bytes |

Deadlock is checked in every run. In `BtThread` a processor that halts in the fault
handler, or a run that stops at a torn list, stutters (`Halted`).

In `loop_posts` the HCI ring holds one unit; with two, and blocks of one or two units,
the same properties hold (516,914 states), at four times the time. A phone uses SPP,
or keys, or absolute volume. Each adds one
poster, and posters meet only in the list, where each of them is interrupted by
`h4` and `bt` alone; three less urgent threads of which one may post are enough
for every pair. A second signal in the semaphore wakes a loop that finds nothing,
so one is enough to tell "none". The run follows the program up to the first
overlap of two list operations (`FollowTorn = FALSE`): what it says is that
nothing but such an overlap loses work. `loop_lost` follows it further.

The flags are Boolean and three threads are all there are, so the only bounds in
the `route` runs are which users take part and how many codec starts fail. The
three passing runs split the users because the code does not promise the same in
each company: nothing arbitrates between a call and push to talk (the
repository's README says so), so what `route_contend` checks is only that they
leave the mutex free and nothing captured. `BackToMusic` of `route_call` says what a
call leaves, also one that failed: the codec at the noted rate, nothing playing at
another rate than the music's (`ClocksBack`), the microphone off, the speaker on and
the DMA running exactly for the playback (`SpeakerBack`). Without a failure it says
more: both clocks are the music's, and a stream that kept its session is armed to
play. One that ended during the call is not, and has stopped the sink (Known
behaviour). That the renderer comes back is checked
in `route_call` only: with retries and replies it fails, since while the Bluetooth
thread waits for a retry in the idle of a call's end, a reply may start playback,
`es8311_audio_set_playback_renderer` then refuses, and the mixer's samples meet
the hands-free renderer until the next call.

Fairness (each `LiveSpec`) is assumed of the scheduler and of hardware that goes on
by itself, never of people, peers, the radio link, the flash or the power supply:

* `OtaSession`: the main thread polls (`WF(Poll)`: its loop sleeps 10 ms and the more
  urgent threads block), the confirmation within it, and time.
* `MixerRing`: the DMA interrupts and renders (`WF`), a codec start returns, main
  goes on with the prompt and with the notification that may wait for a mutex
  (`SF`, since others may hold it now and then).
* `BtThread`: the processor is idle again and again (`[]<>Idle`): the HCI traffic
  leaves time, as a UART slower than the processor does. With it the loop goes on,
  and an append or a handler that is interrupted again and again still ends (`SF`).
* `TalkLink`: the three threads are scheduled (`WF`). Nothing is assumed of what holds
  a worker up: `ControlReturns` holds because the waits run out.

## Proofs

`BootControlProofs` proves, for every number of records, every set of statuses,
every sequence limit and both kinds of storage (the named ASSUMEs of
`BootControl`), what `bcb_app` and `bcb_recycle` check on small instances: the
type invariant, `UniqueSequences`, `OkIsLoaded`, `AppendOnly` and the refinement
of `BootRegister`. `UniqueSequences` alone is not inductive; the invariant `IInv` adds
that the record under way is newer than every valid one (`OpIsNewest`) and that
its cell holds exactly what was programmed so far (`CellInHand`). The steps are
grouped by their effect on the valid records: nothing valid is added, or exactly
the newest is.

`MixerRingProofs` proves the three invariants of `mixer_queue`, that a stopped
source holds nothing to be heard later (`StoppedIsEmpty`) and that ducking ends with
the sources (`NothingDucked`), for every capacity, watermark, ducking step, block and
prompt. They are inductive together (`Inv`);
a ring is `Good` when write = read + level, wrapped, and it is empty when off, and
the lemmas say that each ring operation keeps it good. `ForwardIsMod` justifies
the one place where the code wraps by `%` instead of a comparison.

It also proves `Spec => PlaysInOrder`: lemmas describe the frames of
a ring after a drop (a suffix), a write (`Newest` of the concatenation, whether or
not the write is longer than the ring) and a rendered frame (the tail), and each
action is mapped to a step of `FrameQueue` or a stutter.

`TalkLinkProofs` proves the five invariants of `talk_link`, for every time of the key
and every block size. `Inv` says where the control thread may be while a
worker is open (`Receiver`, `Sender`) and what the workers' `done` flags mean
(`Workers`); that a capture has its key (`Held`) and that a paused peer is
remembered unless its play command was refused (`Lifted`) are two inductions on top
of it.

`OtaSessionProofs` proves the five invariants of `ota_update`, for every set of images
and their sizes, every timeout, queue and BCB region, through any number of
sessions. None of them is inductive: that the confirmed slot is intact depends on
where the session writes, which was chosen at the start command. `IInv` adds that a
session is alone with its slot (`SessionAlone`: no update is under way, and the target
is not the confirmed slot), what `commit_image` has checked and written when it comes
to its next step (`CommitSoFar`), that the image to roll back to is intact while one is
tried (`BackupIntact`), and that the image on trial is the pending one (`TrialRuns`),
so that the confirmation names what runs. `AnnouncedInPlace` takes a second induction
(`Placed`): while frames come in, each chunk received is as far from the announced
end as its frame said, so that at the last one, when nothing remains, they count down
to the end; and that is what header and BCB name. Which image they belong to, and that
the first is an image's first, does not follow, and is not so: see Known behaviour.
`RoomForSettling` is a third:
`Needed` counts the records of the longest way to a settled status, and a record more
is kept for every flash failure to come. It needs `Reserve >= MaxAttempts + 5 +
MaxFaults`, a hypothesis of that theorem only: with `BOOT_OTA_MAX_BOOT_ATTEMPTS` 2 the
code's reserve of 8 covers one failed flash operation in an update, which is also what
`ota_update` allows; `ota_live` has none and a reserve of 7.

`BtThreadProofs` proves the five invariants of `loop_posts`, for
every capacity, set of profiles and assignment of priorities. That a walk ends is not
provable by following it; the invariant names instead, for an append under way, a
set of registrations it has come past (`Seen`), which holds what its members point
to but for the one it is at, so that at the end it is all the list
(`ReachedLeast`). `CallFits` says that what an operation has read is still so. Both
are lost when two operations overlap, and that is the only assumption: `torn` stands
in `ListIsOwed`, `HciKeepsReading` and `KeysNotForgotten` itself, while `WakeupKept`
and the types hold past it, since the loop looks at the list and not at what is
owed. `UartInv` says that exactly one block is asked for, on its way or handled;
`KeysInv` that what is queued is marked and what is marked is coming.

`AudioRouteProofs` proves the types, `OwnerMovesOn`, that the sessions are only
changed and the mutex only released by its owner (`SessionsUnderMutex`), and that
every error return finds a caller (`ErrorsHaveACaller`), for every set of call rates,
any number of codec failures and any priorities. A thread's future is a
program kept as data, so the invariant is a discipline of programs
(`AllDisciplined`). A mode says whether the thread holds the mutex and with which
lock the nearest caller that looks at a result expects an error (`lock`, `guard`);
`Fits` says in which modes a step may stand; a program `Leads` from one mode to
another if modes can be put between its steps, given as a function on positions, so
that nothing is proved by induction over programs. Calls nest three deep in the
code, hence the levels `Plain`, `Once`, `Twice` and `Thrice`. Lemmas show that each
program of the model keeps the discipline (`StopsLead` ... `RepliesLead`), that each
step puts only such programs in front of the rest (`CoreGoesOn`, `MixGoesOn`,
`UserGoesOn`), and that unwinding to the first `Return` does too (`ErrorIsCaught`).

`AudioCallProofs` proves `RendererRestored`, `CallUndisturbed` and the part
`ClocksBack` of `BackToMusic` (`SpeakerBack` is only model-checked) for
every set of call rates, any number of codec failures and any priorities, under the
hypotheses of `route_call`: no key is pressed and the reply receiver is parked
(`~Talk`, `~Listening`). They are needed: with a talk, the sink may be started in
the middle of a call's set-up (see Known behaviour). Music may stream or not. Only
`bt` then has steps to take (`OnlyBt`), and the argument is a proof outline of its
programs, in the manner of Hoare. An assertion is a set of states of the codec
(`MusicOn`, `Hfp`, `CallReady(x)`, `InCall(x)`, ...). `Row` is the table of what each
step does: from assertion a it leads to b, or returns an error in e. A program has a
`Path` from a to b if assertions can be put between its steps; the first
part of `AudioRouteProofs` has the rules (`ThenOutline`, `TryOutline`, ...) and shows that calls, returns and
unwinding keep to an outline (`CallOutline`, `RaiseOutline`), again by functions on
positions and not by induction. Lemmas put the code's programs together
(`EnterCallPath`, `LeaveCallPath`, `SharedPaths` for A2DP's events in a call or
without one) and show that each step does what its row says (`CoreMoves`,
`MixMoves`). The invariant (`CallInv`) is that the state at hand is in the assertion
of an outline of the rest of `bt`'s program that ends in `Rest`: the music's state, or,
while SCO is up, the music's or the call's. `Failed` and `Lost` keep the ways on which
the codec has failed apart: there the codec is still at the noted rate whenever a
program rests, and the I2S need not be.

`AudioTalkProofs` proves `CaptureExclusive`, `RouteFollowsUsers`, `NoLostStart` and
`CaptureReleased` for any number of codec failures and looks at the playback, with or
without music, talks and an earlier reply, under the hypothesis of `route_talk` that
nobody calls (`CallRates = {}`; with calls the first two fail, see Known behaviour) and
that BTstack's thread is more urgent than the control thread, as the program's
priorities are (9 before 19). All
three threads work, so each has its own outline and the argument is rely/guarantee.
`Does(t, s, z)` is what t may do to a state, for all that the others assume: touch
the playback only with the mutex (`SamePlay`), never open a gate that push to talk
has shut, never touch the microphone's path or start anything while the control
thread is `Alone`. An assertion of t (`Assertions`) is a set of states that no
other thread leaves by what it `Does`; the lemmas `FreeIn`, `HasIn` and `MineIn` show
that of the assertions used: t has the mutex and the playback is so far on its way
(`Has(t, K, H)`), has it not (`Free`), or is the control thread alone with the
codec (`Silent` ... `Talking`). `Table` holds the steps with the assertions they lead
from and to, `StopPath` to `TalkPaths` put the programs together, and the lemmas
`...Keeps` show that each step does what its row says and no more than it may
(`Good`). The invariant (`TalkInv`) is that the state is in the assertion of an
outline of the rest of every thread's program, and that it is `Sound`: nobody
records, or everybody but the control thread is quiet; with the mutex free,
sessions, playback, path and DMA agree (`Coherent`).

The delicate point is the gate. The control thread shuts it without looking at what
BTstack's thread was about to do with the open gate it has read; what makes this
right is that the next step is to take the mutex, that BTstack's thread sleeps only
with the mutex, and that it is more urgent otherwise: when the control thread has
the mutex, BTstack's waits for its next event (`CalmWhenFree`), and with the gate
shut what it begins then is `Harmless`, an outline of its own (`TameTable`: locks,
stops and refusals). The hypothesis on the priorities is used there and nowhere
else.

`NoLostStart` needs more than the state: between the writer that passes the watermark
and the DMA that starts there is no state to hold on to, only a program. `Lag` is the
gap, a source with enough data while the playback is not on; `Owed` says that in a gap
some thread `Owes` the start, that is, its program begins with one of the steps
`NotifyIfReady`, `Notify`, `PlaybackDmaOn`, their call, or the mutex before it. The
lemmas `FlowPays`, `CorePays`, `MixPays` and `UserPays` show that every step of a
thread `Pays`: a step that opens a gap leaves its own thread owing, and a thread that
owes goes on owing until the playback is on or nothing is ready. The outline is what
makes this so at the three places where it could break: `Notify` finds no playback and
so no session and nothing ready (`Coherent`), `PlaybackDmaOn` finds full-duplex DMA off
and is not refused (`LivelyRests`), and a step that puts the playback out finds no
session, or the playback not on (`Careful`).

Assumed in all of them: the named ASSUMEs of the modules, which TLC evaluates in
the runs. Liveness stays with TLC: the prover does not reach fairness and ENABLED.
`CaptureReleased` is proved without calls only (`TalkIsReleased`, where its part on the
rate holds by the type). `route_contend` checks it with calls, talks and replies that
get into each other's way, without codec failures (after one, `RateBack` may leave the
call's rate); neither the outlines of the calls nor those of the talks are kept there.

## Findings

* `route_gate`: the control thread reads the stream flag, the Bluetooth thread
  starts the stream and opens the gate, the control thread shuts it on what it
  read. The music stays silent until the stream starts again.
* `loop_lost`: while `bt` pops the last registration, having read its `next` as NULL,
  `h4` appends behind it; the store of the pop then empties the list. The HCI
  port's callback is lost, `rx_callback_pending` stays set, and nothing more is
  received. BTstack's header guarantees that the callback runs.

## Known behaviour

Met while modelling, at odds with what the repository's README or a comment leads
one to expect, and described here without a run of its own:

* `easy_bootloader_app.c:532`: `commit_image` queues the last ACK and resets in the next
  statement; the ring is emptied by another thread, so the ACK may never leave.
* `audio_mixer.c:275`: a phone that suspends its music after SCO is up makes the
  mixer stop the sink it thinks it owns, and the call's speaker with it.
* `audio_mixer.c:236`: a reply that arrives while `start_call_duplex` sleeps in the
  codec driver switches the I2S back to 44.1 kHz in the middle of the set-up.
* `es8311_audio.c:508`: a codec failure in `i2s_reconfigure` restores the rate in the
  context, not in the I2S peripheral, which keeps the refused rate until the next
  change. `BackToMusic` claims the I2S clock only without a failure.
* `control_app.c:297`: a play command refused at the end of a talk leaves the peer
  paused; on the error returns of the start (lines 209 and 250) the result is not even
  looked at. Nobody tries again. `PauseIsLifted` excepts exactly this.
* `easy_bootloader_app.c:379`: a frame carries no name of its image and no position from
  the start. The tail of an image, or the frames of two senders that agree on the end,
  make an image the downloader accepts and announces with a CRC of its own; what
  protects the device then is the trial.
* `uart_send_pcm.c:1102`: a stop that waited 3 s for the sender goes on, and the
  receiver opens the UART beside it. `UartExclusive` excepts exactly this.
* `bt_avrcp_ct_app.c:307`: the release of AVRCP resets the flag of a callback that is
  still listed; the next volume change cuts the list behind it. The second way to
  tear the list, besides the one of `loop_lost`.
* `audio_mixer.c:681`: if the DMA fails to start under the boot prompt, main waits for
  ever. `PromptEnds` excepts it.
* `control_app.c:201`: a talk that fails to start after the reply receiver was stopped
  leaves it stopped until the next talk that ends well.

## Plan

Done, in order of what the speaker cannot do without: `BootControl` and `OtaSession`
(proved), `AudioRoute` (checked; types, use of the mutex, calls and talks proved), `MixerRing` (proved to be queues), `RunLoop` and
`BtThread` (proved), `Keyboard` and `TalkLink` (proved). Left:

1. `AudioRoute`: `CaptureReleased` with calls, from what a call and a talk leave each
   other.
2. AVRCP's operations in BTstack and its now-playing queries, one at a time.
3. The received bytes of a reply paired into samples (`uart_pcm_rx_write`).

## Not modelled

Drawing and fonts, start-up registration, codec register tables, filters and
limiter of the microphone: layout, tables and arithmetic without a state that
can go wrong in an order.

Vendored and generated code: RT-Thread, the rest of BTstack, LVGL, littlefs, the
STM32 HAL and CubeMX output, PCM tables and fonts. They are about 99% of the
repository's 1.5 million lines, written elsewhere and not this program's own
logic; the models take them as their callers see them. The program's own C, in
`src/applications` and `src/mycomponents` without BTstack's core, is what the
modules above cover, so their share of the whole repository stays below one
percent however complete they are.
