-------------------------- MODULE OtaSessionProofs --------------------------
(* What holds of an update for every set of images, every size of the BCB     *)
(* region and every number of flash failures.                                 *)
EXTENDS OtaSession, SequenceTheorems, TLAPS

----------------------------------------------------------------------------
(* The invariant that carries the induction.                                *)

Receiving == {"parse", "erase", "write"}
Finishing == {"header", "commit", "check", "append"}

\* TypeOK, by the variables that change together.
FlashTyped ==
    /\ slot \in [Slot -> Content]
    /\ bcb \in Control
    /\ free \in 0 .. NumRecords
    /\ running \in [version : Image, data : Seq(Chunk)]
    /\ faults \in 0 .. MaxFaults

AppTyped ==
    /\ app \in [state : Session \cup {"IDLE", "READY", "ERROR"},
                target : Slot \cup {"NONE"}, expected : 0 .. MaxSize,
                got : Seq(Chunk), quiet : 0 .. Timeout]
    /\ pc \in {"boot", "idle", "ready", "reset"} \cup Receiving \cup Finishing
    /\ confirm \in {"off", "pending", "complete"}

LinkTyped ==
    /\ ring \in Seq(Frame) /\ rx \in Seq(Frame)
    /\ tx \in 0 .. MaxQueue
    /\ connected \in BOOLEAN
    /\ host \in [image : Image, step : Nat]

\* A session is alone with its slot: no update is under way, and the slot is
\* not the confirmed one.  Where the main thread is says how far it got.
SessionAlone ==
    /\ app.state \in Session => AcceptsUpdate /\ app.target \in Slot \ {bcb.confirmed}
    /\ pc \in Receiving => app.state \in {"WAIT_DATA", "RECEIVING"}
    /\ pc \in Finishing => app.state = "WAIT_FINISH"
    /\ pc = "boot" => app.state = "IDLE"
    /\ pc \in {"ready", "reset"} => app.state = "READY"

\* The frame that is being handled stays in front of the cache.
FrontKept ==
    /\ pc \in {"erase", "write"} => rx # <<>> /\ Head(rx).type = "data"
    /\ pc = "erase" => Total <= MaxSize
    /\ pc \in Finishing => rx # <<>> /\ Head(rx).type = "finish"
    /\ pc = "ready" => rx # <<>>

\* What commit_image has checked and written when it comes to the next step.
Committed(form) == slot[app.target].header = Header(form, Head(rx).version, app.got)
CommitSoFar ==
    /\ pc \in Finishing => Verified
    /\ pc = "commit" => Committed("body")
    /\ pc = "append" => Committed("committed") /\ HasReserve
    /\ pc = "check" => Committed("committed")

\* The image to fall back to while an update is on trial: the confirmed one, or
\* the backup of an unconfirmed one.
BackupIntact ==
    bcb.state \in Updating \ {"UPDATE_READY"} => Intact(OtherSlot(bcb.pending))

\* A status that is settled names a slot exactly when it is confirmed.
ConfirmedNamed ==
    /\ bcb.state = "CONFIRMED" => bcb.confirmed \in Slot
    /\ bcb.state = "EMPTY" => bcb.confirmed = "NONE"

\* What is on trial is the pending image, so that its confirmation names it.
TrialRuns == bcb.state = "TRIAL" => running.data = slot[bcb.pending].payload

\* Records still to be written until an update is settled, the longest way.
Needed ==
    CASE bcb.state = "UPDATE_READY" -> MaxAttempts + 4
      [] bcb.state = "BACKUP_READY" -> MaxAttempts + 3
      [] bcb.state = "INSTALLING"   -> MaxAttempts + 2
      [] bcb.state = "TRIAL"        -> MaxAttempts - bcb.attempts + 2
      [] OTHER                      -> 1

\* There is room for them, and for one more for every failure to come.
RoomForFaults == bcb.state \in Updating => free >= Needed + (MaxFaults - faults)

\* What the session has received so far is in place from the end its frames agree
\* on, and it waits for the finish command when all of it is there.
Placed ==
    /\ InPlace(app.got, app.expected)
    /\ app.expected = 0 => app.got = <<>>
    /\ app.state = "WAIT_FINISH" => Len(app.got) = app.expected
    /\ pc = "erase" => app.expected = 0
    /\ pc = "write" => Agrees

FlashInv ==
    /\ FlashTyped
    /\ ConfirmedIntact /\ PendingStored /\ BackupIntact /\ ConfirmedNamed
    /\ ConfirmedRuns /\ TrialRuns

AppInv == AppTyped /\ SessionAlone /\ FrontKept /\ CommitSoFar

IInv == FlashInv /\ AppInv /\ LinkTyped

----------------------------------------------------------------------------
(* Facts about the data.                                                     *)

\* What a frame carries is typed by its kind.
LEMMA FrameFacts ==
    ASSUME NEW f \in Frame
    PROVE  /\ f.type = "data" => f.remaining \in Nat /\ f.chunk \in Chunk
           /\ f.type = "finish" => f.version \in Image
<1>1. CASE f \in {StartFrame, CutFrame}
  BY <1>1 DEF StartFrame, CutFrame
<1>2. CASE \E i \in Image : \E k \in 1 .. NumChunks[i] : f = DataFrame(i, k)
  <2>1. PICK i \in Image : \E k \in 1 .. NumChunks[i] : f = DataFrame(i, k)
    BY <1>2
  <2>3. PICK k \in 1 .. NumChunks[i] : f = DataFrame(i, k)
    BY <2>1
  <2>2. NumChunks[i] \in Nat /\ NumChunks[i] - k \in Nat /\ k \in Nat
    BY ImageAssumption
  <2> QED BY <2>2, <2>3 DEF DataFrame, Chunk
<1>3. CASE \E i \in Image : f = FinishFrame(i)
  BY <1>3 DEF FinishFrame
<1> QED BY <1>1, <1>2, <1>3 DEF Frame

\* The payload of an image is a sequence of chunks.
LEMMA DataTyped == \A i \in Image : Data(i) \in Seq(Chunk)
<1> SUFFICES ASSUME NEW i \in Image PROVE Data(i) \in Seq(Chunk)
  OBVIOUS
<1>1. NumChunks[i] \in Nat
  BY ImageAssumption
<1>2. \A k \in 1 .. NumChunks[i] : [image |-> i, index |-> k] \in Chunk
  BY <1>1 DEF Chunk
<1> QED BY <1>1, <1>2, IsASeq DEF Data

\* The commands and a cut frame are frames.
LEMMA FramesSent ==
    /\ StartFrame \in Frame /\ CutFrame \in Frame
    /\ \A i \in Image : FinishFrame(i) \in Frame
    /\ \A i \in Image : \A k \in 1 .. NumChunks[i] : DataFrame(i, k) \in Frame
BY DEF Frame

\* Programming a chunk leaves a payload a payload.
LEMMA ProgramTyped ==
    ASSUME NEW p \in Seq(Chunk \cup {Bad}), NEW at \in Nat, NEW c \in Chunk \cup {Bad}
    PROVE  Program(p, at, c) \in Seq(Chunk \cup {Bad})
<1>1. CASE at = Len(p)
  BY <1>1, AppendProperties DEF Program
<1>2. CASE at < Len(p)
  <2>1. Program(p, at, c) = [p EXCEPT ![at + 1] = Bad]
    BY <1>2 DEF Program
  <2>2. at + 1 \in 1..Len(p)
    BY <1>2
  <2> HIDE DEF Bad
  <2> QED BY <2>1, <2>2, ExceptSeq
<1>3. CASE at > Len(p)
  BY <1>3 DEF Program
<1> QED BY <1>1, <1>2, <1>3

\* A sequence that is not empty has its head in the set and its tail over it.
LEMMA HeadTail ==
    ASSUME NEW S, NEW q \in Seq(S), q # <<>>
    PROVE  Head(q) \in S /\ Tail(q) \in Seq(S)
OBVIOUS

\* Two elements may be taken off a sequence that has two.
LEMMA TwoOff ==
    ASSUME NEW S, NEW q \in Seq(S), Len(q) > 1
    PROVE  Tail(Tail(q)) \in Seq(S)
<1>1. q # <<>>
  OBVIOUS
<1>2. Tail(q) \in Seq(S) /\ Len(Tail(q)) = Len(q) - 1
  BY <1>1, HeadTailProperties
<1>3. Len(Tail(q)) # 0
  BY <1>2
<1>4. Tail(q) # <<>>
  <2>1. Len(<<>>) = 0
    BY EmptySeq
  <2> QED BY <1>3, <2>1, Zenon
<1> QED BY <1>2, <1>4, HeadTail

\* The cache is made of frames, and so is what is left of it.
LEMMA CacheTyped ==
    ASSUME LinkTyped
    PROVE  /\ Cache \in Seq(Frame)
           /\ Cache # <<>> => Head(Cache) \in Frame /\ Tail(Cache) \in Seq(Frame)
           /\ \A k \in 1 .. Len(Cache) : SubSeq(Cache, k + 1, Len(Cache)) \in Seq(Frame)
           /\ <<>> \in Seq(Frame)
<1>1. Cache \in Seq(Frame)
  BY ConcatProperties DEF LinkTyped, Cache
<1>2. ASSUME NEW k \in 1 .. Len(Cache)
      PROVE  SubSeq(Cache, k + 1, Len(Cache)) \in Seq(Frame)
  <2> DEFINE c == Cache
  <2>1. c \in Seq(Frame) /\ k \in 1 .. Len(c)
    BY <1>1
  <2> HIDE DEF c
  <2>2. \A i \in k + 1 .. Len(c) : c[i] \in Frame
    BY <2>1
  <2>3. k + 1 \in Nat /\ Len(c) \in Nat
    BY <2>1
  <2>4. SubSeq(c, k + 1, Len(c)) \in Seq(Frame)
    BY <2>1, <2>2, <2>3, SubSeqProperties
  <2> QED BY <2>4 DEF c
<1>3. Cache # <<>> => Head(Cache) \in Frame /\ Tail(Cache) \in Seq(Frame)
  BY <1>1, HeadTail
<1> QED BY <1>1, <1>2, <1>3

\* What is appended to a cache changes nothing at its front.
LEMMA FrontStays ==
    ASSUME NEW S, NEW q \in Seq(S), q # <<>>, NEW e \in S
    PROVE  Append(q, e) # <<>> /\ Head(Append(q, e)) = Head(q)
OBVIOUS

----------------------------------------------------------------------------
(* What steps that leave something alone, or write to a spare slot, keep.    *)

\* TypeOK is the three typings together.
LEMMA TypingsAreTypeOK == TypeOK <=> FlashTyped /\ AppTyped /\ LinkTyped
BY DEF TypeOK, FlashTyped, AppTyped, LinkTyped, Receiving, Finishing

\* The slots are two, and each is the other's other.
LEMMA TwoSlots ==
    /\ \A s \in Slot : OtherSlot(s) \in Slot /\ OtherSlot(s) # s
    /\ \A s, r \in Slot : s # r => r = OtherSlot(s)
    /\ "NONE" \notin Slot
BY DEF Slot, OtherSlot

\* A step that does not touch the flash.
LEMMA FlashKept ==
    ASSUME FlashInv, UNCHANGED flash, faults' \in 0 .. MaxFaults
    PROVE  FlashInv'
BY DEF flash, FlashInv, FlashTyped, ConfirmedIntact, PendingStored, BackupIntact,
       ConfirmedNamed, ConfirmedRuns, TrialRuns, Intact, Decodes

\* A step that writes to a slot no status refers to.
LEMMA SpareWritten ==
    ASSUME FlashInv, AcceptsUpdate, NEW s \in Slot \ {bcb.confirmed}, NEW h \in Content,
           slot' = [slot EXCEPT ![s] = h],
           UNCHANGED <<bcb, free, running>>, faults' \in 0 .. MaxFaults
    PROVE  FlashInv'
<1>1. slot' \in [Slot -> Content] /\ \A r \in Slot : r # s => slot'[r] = slot[r]
  BY DEF FlashInv, FlashTyped
<1>2. bcb.state \notin Updating /\ bcb.state # "TRIAL"
  BY DEF AcceptsUpdate, Updating
<1>3. bcb.confirmed # "NONE" => bcb.confirmed \in Slot /\ slot'[bcb.confirmed] = slot[bcb.confirmed]
  BY <1>1 DEF FlashInv, FlashTyped, Control
<1>4. FlashTyped' /\ ConfirmedNamed'
  BY <1>1 DEF FlashInv, FlashTyped, ConfirmedNamed
<1>5. ConfirmedIntact'
  BY <1>3 DEF FlashInv, ConfirmedIntact, Intact, Decodes
<1>6. PendingStored' /\ BackupIntact' /\ TrialRuns'
  BY <1>2 DEF PendingStored, BackupIntact, TrialRuns
<1>7. ConfirmedRuns'
  BY <1>3, TwoSlots DEF FlashInv, ConfirmedRuns, ConfirmedNamed
<1> QED BY <1>4, <1>5, <1>6, <1>7 DEF FlashInv

\* A step that leaves the link alone.
LEMMA LinkKept ==
    ASSUME LinkTyped, UNCHANGED link
    PROVE  LinkTyped'
BY DEF link, LinkTyped

\* Where a frame is being handled.
Handling == {"erase", "write", "ready"} \cup Finishing

\* A step that leaves the main thread and the flash alone, and the frame in front
\* of its cache when that is being handled.
LEMMA AppKept ==
    ASSUME AppInv, UNCHANGED <<app, pc, confirm, bcb, slot, free>>,
           pc \in Handling => rx' # <<>> /\ Head(rx') = Head(rx)
    PROVE  AppInv'
<1>1. AppTyped' /\ SessionAlone'
  BY DEF AppInv, AppTyped, SessionAlone, AcceptsUpdate
<1>2. FrontKept'
  BY DEF AppInv, FrontKept, Total, Finishing, Handling
<1>3. CommitSoFar'
  BY DEF AppInv, FrontKept, CommitSoFar, Committed, Verified, HasReserve, Finishing, Handling
<1> QED BY <1>1, <1>2, <1>3 DEF AppInv

\* A step that ends the session, or leaves none.
LEMMA SessionOver ==
    ASSUME NEW st \in {"IDLE", "READY", "ERROR"}, app' = NoSession(st),
           pc' \in {"boot", "idle", "ready", "reset"},
           pc' = "boot" => st = "IDLE", pc' \in {"ready", "reset"} => st = "READY",
           pc' = "ready" => rx' # <<>>,
           confirm' \in {"off", "pending", "complete"}
    PROVE  AppInv'
<1>1. <<>> \in Seq(Chunk) /\ 0 \in 0 .. MaxSize /\ 0 \in 0 .. Timeout
  BY BoundAssumption
<1>2. AppTyped'
  BY <1>1 DEF AppTyped, NoSession
<1>3. app'.state \notin Session /\ app'.state = st
  BY DEF NoSession, Session
<1>4. pc' \notin Receiving /\ pc' \notin Finishing /\ pc' \notin {"erase", "write"}
  BY DEF Receiving, Finishing
<1>5. SessionAlone'
  BY <1>3, <1>4 DEF SessionAlone
<1>6. FrontKept' /\ CommitSoFar'
  BY <1>4 DEF FrontKept, CommitSoFar, Finishing
<1> QED BY <1>2, <1>5, <1>6 DEF AppInv

\* A step after which a session waits for bytes.
LEMMA SessionOn ==
    ASSUME AppTyped', app'.state \in Session, AcceptsUpdate',
           app'.target \in Slot \ {bcb'.confirmed},
           pc' \in {"idle", "parse"},
           pc' = "parse" => app'.state \in {"WAIT_DATA", "RECEIVING"}
    PROVE  AppInv'
<1>1. pc' \notin Finishing /\ pc' \notin {"erase", "write", "ready", "boot", "reset"}
  BY DEF Finishing
<1>2. pc' \in Receiving => app'.state \in {"WAIT_DATA", "RECEIVING"}
  BY DEF Receiving
<1>3. SessionAlone'
  BY <1>1, <1>2 DEF SessionAlone
<1>4. FrontKept' /\ CommitSoFar'
  BY <1>1 DEF FrontKept, CommitSoFar, Finishing
<1> QED BY <1>3, <1>4 DEF AppInv

\* How long nothing has come is within the timeout.
LEMMA QuietTyped == AppTyped => Quiet \in 0 .. Timeout
BY BoundAssumption DEF AppTyped, Quiet

\* The transmit ring takes an ACK only when it has room.
LEMMA AckTyped == LinkTyped => AckQueued \in 0 .. MaxQueue
BY BoundAssumption DEF LinkTyped, AckQueued, CanAck

----------------------------------------------------------------------------
(* Steps of a poll outside a session, and of a session that waits.           *)

\* What is no start command is skipped.
LEMMA IdleStep == IInv /\ PollIdle => IInv'
<1> SUFFICES ASSUME IInv, PollIdle PROVE IInv'
  OBVIOUS
<1> USE DEF IInv
<1>1. FlashInv'
  BY FlashKept DEF PollIdle, FlashInv, FlashTyped
<1>2. pc \notin Handling
  BY DEF PollIdle, Handling, Finishing
<1>3. AppInv'
  BY <1>2, AppKept DEF PollIdle, flash
<1>4. LinkTyped'
  BY CacheTyped DEF PollIdle, LinkTyped
<1> QED BY <1>1, <1>3, <1>4

\* A start command opens a session on the spare slot, or none.
LEMMA StartStep == IInv /\ PollStart => IInv'
<1> SUFFICES ASSUME IInv, PollStart PROVE IInv'
  OBVIOUS
<1> USE DEF IInv
<1>1. FlashInv'
  BY FlashKept DEF PollStart, FlashInv, FlashTyped
<1>2. LinkTyped'
  <2>1. rx' \in Seq(Frame)
    BY CacheTyped DEF PollStart, Starts
  <2>2. tx' \in 0 .. MaxQueue
    BY AckTyped DEF PollStart, LinkTyped
  <2> QED BY <2>1, <2>2, CacheTyped DEF PollStart, LinkTyped
<1>3. CASE AcceptsUpdate
  <2>1. SpareSlot \in Slot \ {bcb.confirmed}
    BY TwoSlots DEF SpareSlot, Slot, FlashInv, FlashTyped, Control
  <2>2. app' = [NoSession("WAIT_DATA") EXCEPT !.target = SpareSlot]
    BY <1>3 DEF PollStart
  <2>3. /\ app'.state = "WAIT_DATA" /\ app'.target = SpareSlot
        /\ app' \in [state : Session, target : Slot, expected : {0}, got : {<<>>}, quiet : {0}]
    BY <2>1, <2>2 DEF NoSession, Session
  <2>4. AppTyped'
    <3>1. <<>> \in Seq(Chunk) /\ 0 \in 0 .. MaxSize /\ 0 \in 0 .. Timeout
      BY BoundAssumption
    <3>2. pc' = pc /\ confirm' = confirm
      BY DEF PollStart
    <3> QED BY <2>3, <3>1, <3>2 DEF AppInv, AppTyped
  <2>5. AcceptsUpdate' /\ UNCHANGED bcb /\ pc' = "idle"
    BY <1>3 DEF PollStart, flash, AcceptsUpdate
  <2>6. AppInv'
    BY <2>1, <2>3, <2>4, <2>5, SessionOn DEF Session
  <2> QED BY <1>1, <1>2, <2>6
<1>4. CASE ~AcceptsUpdate
  <2>1. app' = NoSession("ERROR") /\ pc' = "idle" /\ confirm' = confirm
    BY <1>4 DEF PollStart, Failed
  <2>2. AppInv'
    BY <2>1, SessionOver DEF AppInv, AppTyped
  <2> QED BY <1>1, <1>2, <2>2
<1> QED BY <1>3, <1>4

\* A session that hears nothing ends.
LEMMA TimeoutStep == IInv /\ PollTimeout => IInv'
<1> SUFFICES ASSUME IInv, PollTimeout PROVE IInv'
  OBVIOUS
<1> USE DEF IInv
<1>1. FlashInv'
  BY FlashKept DEF PollTimeout, FlashInv, FlashTyped
<1>2. AppInv'
  <2>1. app' = NoSession("ERROR") /\ pc' = "idle" /\ confirm' = confirm
    BY DEF PollTimeout, Failed
  <2> QED BY <2>1, SessionOver DEF AppInv, AppTyped
<1>3. LinkTyped'
  BY CacheTyped DEF PollTimeout, LinkTyped
<1> QED BY <1>1, <1>2, <1>3

\* Bytes are looked at, or skipped while the finish command is waited for.
LEMMA LookStep == IInv /\ (PollData \/ PollSkip) => IInv'
<1> SUFFICES ASSUME IInv, PollData \/ PollSkip PROVE IInv'
  OBVIOUS
<1> USE DEF IInv
<1>1. FlashInv'
  BY FlashKept DEF PollData, PollSkip, FlashInv, FlashTyped
<1>2. LinkTyped'
  BY CacheTyped DEF PollData, PollSkip, LinkTyped
<1>3. app' = [app EXCEPT !.quiet = Quiet] /\ UNCHANGED <<flash, confirm>>
  BY DEF PollData, PollSkip
<1>4. /\ AppTyped' /\ app'.state = app.state /\ app'.target = app.target
  <2>1. pc' \in {"idle", "parse"}
    BY DEF PollData, PollSkip
  <2> QED BY <1>3, <2>1, QuietTyped DEF AppInv, AppTyped, Receiving
<1>5. AcceptsUpdate' /\ app'.target \in Slot \ {bcb'.confirmed} /\ app'.state \in Session
  BY <1>3, <1>4 DEF PollData, PollSkip, AppInv, SessionAlone, AcceptsUpdate, flash, Session
<1>6. pc' \in {"idle", "parse"} /\ (pc' = "parse" => app'.state \in {"WAIT_DATA", "RECEIVING"})
  BY <1>4 DEF PollData, PollSkip
<1>7. AppInv'
  BY <1>4, <1>5, <1>6, SessionOn
<1> QED BY <1>1, <1>2, <1>7

\* The frame in front is not complete, or not one.
LEMMA ParseStep == IInv /\ (ParseWait \/ ParseFail) => IInv'
<1> SUFFICES ASSUME IInv, ParseWait \/ ParseFail PROVE IInv'
  OBVIOUS
<1> USE DEF IInv
<1>1. FlashInv'
  BY FlashKept DEF ParseWait, ParseFail, FlashInv, FlashTyped
<1>2. CASE ParseWait
  <2>1. /\ UNCHANGED <<app, confirm, link, bcb>> /\ pc' = "idle" /\ app.state \in Session
        /\ app.target \in Slot \ {bcb.confirmed} /\ AcceptsUpdate
    BY <1>2 DEF ParseWait, AppInv, SessionAlone, Receiving, Session, flash
  <2>2. AppTyped' /\ AcceptsUpdate'
    BY <2>1 DEF AppInv, AppTyped, AcceptsUpdate
  <2>3. AppInv'
    BY <2>1, <2>2, SessionOn
  <2>4. LinkTyped'
    BY <2>1, LinkKept
  <2> QED BY <1>1, <2>3, <2>4
<1>3. CASE ParseFail
  <2>1. app' = NoSession("ERROR") /\ pc' = "idle" /\ confirm' = confirm
    BY <1>3 DEF ParseFail, Failed
  <2>2. AppInv'
    BY <2>1, SessionOver DEF AppInv, AppTyped
  <2>3. rx' \in Seq(Frame)
    <3>1. rx \in Seq(Frame) /\ rx # <<>>
      BY <1>3 DEF ParseFail, Garbled, LinkTyped
    <3>2. Tail(rx) \in Seq(Frame)
      BY <3>1, HeadTail
    <3>3. Len(rx) > 1 => Tail(Tail(rx)) \in Seq(Frame)
      BY <3>1, TwoOff
    <3> QED BY <1>3, <3>2, <3>3 DEF ParseFail
  <2>4. LinkTyped'
    BY <1>3, <2>3 DEF ParseFail, LinkTyped
  <2> QED BY <1>1, <2>2, <2>4
<1> QED BY <1>2, <1>3

----------------------------------------------------------------------------
(* A data frame: handle_data_frame.                                          *)

\* A handled frame in front of the cache is one of the link's.
LEMMA FrontFrame ==
    ASSUME LinkTyped, rx # <<>>
    PROVE  /\ Head(rx) \in Frame /\ Tail(rx) \in Seq(Frame)
           /\ Head(rx).type = "data" => Head(rx).remaining \in Nat /\ Head(rx).chunk \in Chunk
           /\ Head(rx).type = "finish" => Head(rx).version \in Image
<1>1. Head(rx) \in Frame /\ Tail(rx) \in Seq(Frame)
  BY HeadTail DEF LinkTyped
<1> QED BY <1>1, FrameFacts

\* The first frame sets the size the slot is erased for, the others must agree.
LEMMA HandleStep == IInv /\ HandleData => IInv'
<1> SUFFICES ASSUME IInv, HandleData PROVE IInv'
  OBVIOUS
<1> USE DEF IInv
<1>1. FlashInv'
  BY FlashKept DEF HandleData, FlashInv, FlashTyped
<1>2. LinkTyped'
  BY FrontFrame DEF HandleData, LinkTyped
<1>3. CASE app' = Failed /\ pc' = "idle"
  <2>1. confirm' = confirm
    BY DEF HandleData
  <2>2. AppInv'
    BY <1>3, <2>1, SessionOver DEF Failed, AppInv, AppTyped
  <2> QED BY <1>1, <1>2, <2>2
<1>4. CASE /\ UNCHANGED <<app, rx>> /\ pc' \in {"erase", "write"}
           /\ pc' = "erase" => Total <= MaxSize
  <2>1. /\ app.state \in {"WAIT_DATA", "RECEIVING"} /\ rx # <<>> /\ Head(rx).type = "data"
        /\ app.target \in Slot \ {bcb.confirmed} /\ AcceptsUpdate
        /\ UNCHANGED <<confirm, bcb>>
    BY DEF HandleData, AppInv, SessionAlone, Receiving, Session, flash
  <2>2. AppTyped'
    BY <1>4, <2>1 DEF AppInv, AppTyped, Receiving
  <2>3. SessionAlone'
    BY <1>4, <2>1 DEF SessionAlone, AcceptsUpdate, Finishing
  <2>4. FrontKept' /\ CommitSoFar'
    BY <1>4, <2>1 DEF FrontKept, CommitSoFar, Finishing, Total
  <2> QED BY <1>1, <1>2, <2>2, <2>3, <2>4 DEF AppInv
<1> QED BY <1>3, <1>4 DEF HandleData

\* The spare slot is erased.
LEMMA EraseStep == IInv /\ EraseSlot => IInv'
<1> SUFFICES ASSUME IInv, EraseSlot PROVE IInv'
  OBVIOUS
<1> USE DEF IInv
<1>1. /\ app.state \in {"WAIT_DATA", "RECEIVING"} /\ rx # <<>> /\ Head(rx).type = "data"
      /\ app.target \in Slot \ {bcb.confirmed} /\ AcceptsUpdate /\ Total <= MaxSize
      /\ UNCHANGED <<confirm, bcb, rx>>
  BY DEF EraseSlot, AppInv, SessionAlone, FrontKept, Receiving, Session, link
<1>2. Blank \in Content
  BY EmptySeq DEF Blank, Content
<1>3. FlashInv'
  BY <1>1, <1>2, SpareWritten DEF EraseSlot, FlashInv, FlashTyped
<1>4. LinkTyped'
  BY LinkKept DEF EraseSlot
<1>5. Total \in 0 .. MaxSize
  <2>1. Head(rx).remaining \in Nat
    BY <1>1, FrontFrame
  <2>2. Len(app.got) \in Nat
    BY DEF AppInv, AppTyped
  <2> QED BY <1>1, <2>1, <2>2, BoundAssumption DEF Total
<1>6. AppTyped'
  BY <1>5 DEF EraseSlot, AppInv, AppTyped, Receiving
<1>7. app'.state = app.state /\ app'.target = app.target /\ pc' = "write"
  BY DEF EraseSlot, AppInv, AppTyped
<1>8. SessionAlone'
  BY <1>1, <1>7 DEF SessionAlone, AcceptsUpdate, Finishing
<1>9. FrontKept' /\ CommitSoFar'
  BY <1>1, <1>7 DEF FrontKept, CommitSoFar, Finishing
<1> QED BY <1>3, <1>4, <1>6, <1>8, <1>9 DEF AppInv

\* A chunk is written behind the ones before it, or in its place something else.
LEMMA WriteStep == IInv /\ WriteChunk => IInv'
<1> SUFFICES ASSUME IInv, WriteChunk PROVE IInv'
  OBVIOUS
<1> USE DEF IInv
<1>1. /\ app.state \in {"WAIT_DATA", "RECEIVING"} /\ rx # <<>> /\ Head(rx).type = "data"
      /\ app.target \in Slot \ {bcb.confirmed} /\ AcceptsUpdate
      /\ UNCHANGED <<confirm, bcb, free, running>>
  BY DEF WriteChunk, AppInv, SessionAlone, FrontKept, Receiving, Session
<1>2. Head(rx).chunk \in Chunk /\ Head(rx).remaining \in Nat /\ Tail(rx) \in Seq(Frame)
  BY <1>1, FrontFrame
<1>3. FlashInv'
  <2>1. PICK c \in {Head(rx).chunk, Bad} :
          /\ c = Bad => faults < MaxFaults
          /\ faults' = IF c = Bad THEN faults + 1 ELSE faults
          /\ slot' = [slot EXCEPT ![app.target].payload = Program(@, Len(app.got), c)]
    BY DEF WriteChunk
  <2>2. faults' \in 0 .. MaxFaults
    BY <2>1, BoundAssumption DEF FlashInv, FlashTyped
  <2> DEFINE h == [slot[app.target] EXCEPT !.payload = Program(@, Len(app.got), c)]
  <2>3. h \in Content /\ slot' = [slot EXCEPT ![app.target] = h]
    <3>1. slot[app.target] \in Content /\ Len(app.got) \in Nat
      BY <1>1 DEF FlashInv, FlashTyped, AppInv, AppTyped
    <3>2. Program(slot[app.target].payload, Len(app.got), c) \in Seq(Chunk \cup {Bad})
      BY <1>2, <3>1, ProgramTyped DEF Content
    <3> QED BY <2>1, <3>1, <3>2 DEF Content
  <2> HIDE DEF h
  <2> QED BY <1>1, <2>2, <2>3, SpareWritten
<1>4. LinkTyped'
  BY <1>2, AckTyped DEF WriteChunk, LinkTyped
<1>5. AppTyped'
  <2>1. Append(app.got, Head(rx).chunk) \in Seq(Chunk) /\ 0 \in 0 .. Timeout
    BY <1>2, BoundAssumption DEF AppInv, AppTyped
  <2>2. app' \in [state : Session \cup {"IDLE", "READY", "ERROR"},
                  target : Slot \cup {"NONE"}, expected : 0 .. MaxSize,
                  got : Seq(Chunk), quiet : 0 .. Timeout]
    BY <2>1 DEF WriteChunk, AppInv, AppTyped, Session
  <2>3. pc' \in {"parse", "idle"}
    BY DEF WriteChunk
  <2> QED BY <1>1, <2>2, <2>3 DEF AppInv, AppTyped, Receiving
<1>6. app'.target = app.target
  BY DEF WriteChunk, AppInv, AppTyped
<1>7. CASE CanAck
  <2>1. /\ app'.state = IF Head(rx).remaining = 0 THEN "WAIT_FINISH" ELSE "RECEIVING"
        /\ pc' = IF Head(rx).remaining # 0 THEN "parse" ELSE "idle"
    BY <1>7 DEF WriteChunk, AppInv, AppTyped
  <2>2. AcceptsUpdate'
    BY <1>1 DEF AcceptsUpdate
  <2>3. AppInv'
    BY <1>1, <1>5, <1>6, <2>1, <2>2, SessionOn DEF Session
  <2> QED BY <1>3, <1>4, <2>3
<1>8. CASE ~CanAck
  <2>1. app'.state = "ERROR" /\ pc' = "idle"
    BY <1>8 DEF WriteChunk, AppInv, AppTyped
  <2>2. AppInv'
    BY <1>5, <2>1 DEF AppInv, SessionAlone, FrontKept, CommitSoFar, Session, Receiving, Finishing
  <2> QED BY <1>3, <1>4, <2>2
<1> QED BY <1>7, <1>8

----------------------------------------------------------------------------
(* The end of a session: commit_image.                                       *)

\* While an image is committed the finish command is in front, and the slot is
\* the spare one.
LEMMA WhileFinishing ==
    ASSUME IInv, pc \in Finishing
    PROVE  /\ app.state = "WAIT_FINISH" /\ app.target \in Slot \ {bcb.confirmed}
           /\ AcceptsUpdate /\ Verified
           /\ rx # <<>> /\ Head(rx).type = "finish" /\ Head(rx).version \in Image
           /\ Tail(rx) \in Seq(Frame) /\ app.got \in Seq(Chunk)
           /\ slot[app.target] \in Content
<1> USE DEF IInv
<1>1. rx # <<>> /\ Head(rx).type = "finish"
  BY DEF AppInv, FrontKept
<1>2. Head(rx).version \in Image /\ Tail(rx) \in Seq(Frame)
  BY <1>1, FrontFrame
<1>3. /\ app.state = "WAIT_FINISH" /\ app.target \in Slot \ {bcb.confirmed}
      /\ AcceptsUpdate /\ Verified
  BY DEF AppInv, SessionAlone, CommitSoFar, Session
<1> QED BY <1>1, <1>2, <1>3 DEF AppInv, AppTyped, FlashInv, FlashTyped

\* What the invariant asks of a step from one stage of the commit to the next.
LEMMA CommitGoesOn ==
    ASSUME IInv, pc \in Finishing, UNCHANGED <<app, confirm, bcb, rx>>,
           pc' \in Finishing, CommitSoFar'
    PROVE  AppInv'
<1>1. /\ app.state = "WAIT_FINISH" /\ app.target \in Slot \ {bcb.confirmed}
      /\ AcceptsUpdate /\ rx # <<>> /\ Head(rx).type = "finish"
  BY WhileFinishing
<1>2. AppTyped'
  BY DEF IInv, AppInv, AppTyped
<1>3. SessionAlone' /\ FrontKept'
  BY <1>1 DEF SessionAlone, FrontKept, AcceptsUpdate, Finishing, Receiving
<1> QED BY <1>2, <1>3 DEF AppInv

\* The finish command: the image is read back before it is committed.
LEMMA FinishStep == IInv /\ PollFinish => IInv'
<1> SUFFICES ASSUME IInv, PollFinish PROVE IInv'
  OBVIOUS
<1> USE DEF IInv
<1>1. FlashInv'
  BY FlashKept DEF PollFinish, FlashInv, FlashTyped
<1>2. LinkTyped'
  BY CacheTyped DEF PollFinish, LinkTyped
<1>3. CASE Verified
  <2>1. /\ app' = [app EXCEPT !.quiet = Quiet] /\ pc' = "header" /\ rx' = Cache
        /\ Cache # <<>> /\ Head(Cache).type = "finish" /\ UNCHANGED <<flash, confirm>>
        /\ app.state = "WAIT_FINISH"
    BY <1>3 DEF PollFinish
  <2>2. AppTyped'
    BY <2>1, QuietTyped DEF AppInv, AppTyped, Finishing
  <2>3. app'.state = app.state /\ app'.target = app.target /\ app'.got = app.got
    BY <2>1 DEF AppInv, AppTyped
  <2>4. SessionAlone'
    BY <2>1, <2>3 DEF AppInv, SessionAlone, Session, AcceptsUpdate, flash, Receiving
  <2>5. FrontKept' /\ CommitSoFar'
    BY <1>3, <2>1, <2>3 DEF FrontKept, CommitSoFar, Verified, flash
  <2> QED BY <1>1, <1>2, <2>2, <2>4, <2>5 DEF AppInv
<1>4. CASE ~Verified
  <2>1. app' = NoSession("ERROR") /\ pc' = "idle" /\ confirm' = confirm
    BY <1>4 DEF PollFinish, Failed
  <2>2. AppInv'
    BY <2>1, SessionOver DEF AppInv, AppTyped
  <2> QED BY <1>1, <1>2, <2>2
<1> QED BY <1>3, <1>4

\* The header is written, first without its commit word.
LEMMA HeaderStep == IInv /\ (WriteHeader \/ CommitHeader) => IInv'
<1> SUFFICES ASSUME IInv, WriteHeader \/ CommitHeader PROVE IInv'
  OBVIOUS
<1> USE DEF IInv
<1>1. /\ pc \in Finishing /\ UNCHANGED <<bcb, free, running, app, confirm, link, faults>>
      /\ rx' = rx
  BY DEF WriteHeader, CommitHeader, Finishing, link
<1>2. /\ app.target \in Slot \ {bcb.confirmed} /\ AcceptsUpdate /\ Verified
      /\ Head(rx).version \in Image /\ app.got \in Seq(Chunk) /\ slot[app.target] \in Content
  BY <1>1, WhileFinishing
<1>3. LinkTyped'
  BY <1>1, LinkKept
<1> DEFINE form == IF pc = "header" THEN "body" ELSE "committed"
           h == [slot[app.target] EXCEPT !.header = Header(form, Head(rx).version, app.got)]
<1>4. slot' = [slot EXCEPT ![app.target] = h] /\ h \in Content /\ h.payload = app.got
      /\ h.header = Header(form, Head(rx).version, app.got)
  <2>1. h \in Content
    BY <1>2 DEF Content, Header
  <2>2. h.payload = slot[app.target].payload /\ h.header = Header(form, Head(rx).version, app.got)
    BY <1>2 DEF Content
  <2>3. CASE WriteHeader
    BY <1>2, <2>1, <2>2, <2>3 DEF WriteHeader, Verified
  <2>4. CASE CommitHeader
    <3>1. Committed("body") /\ form = "committed"
      BY <2>4 DEF CommitHeader, AppInv, CommitSoFar
    <3>2. slot' = [slot EXCEPT ![app.target] =
                     [slot[app.target] EXCEPT !.header = [slot[app.target].header EXCEPT !.form = "committed"]]]
      BY <2>4, <1>2 DEF CommitHeader, FlashInv, FlashTyped, Content
    <3>3. [slot[app.target].header EXCEPT !.form = "committed"] = Header("committed", Head(rx).version, app.got)
      BY <3>1 DEF Committed, Header
    <3> QED BY <1>2, <2>1, <2>2, <3>1, <3>2, <3>3 DEF Verified
  <2> QED BY <2>3, <2>4
<1>5. FlashInv'
  <2> HIDE DEF h
  <2> QED BY <1>1, <1>2, <1>4, SpareWritten DEF FlashInv, FlashTyped
<1>6. slot'[app.target] = h
  BY <1>2, <1>4 DEF FlashInv, FlashTyped
<1>7. pc' = IF pc = "header" THEN "commit" ELSE "check"
  BY DEF WriteHeader, CommitHeader
<1>8. pc \in {"header", "commit"}
  BY DEF WriteHeader, CommitHeader
<1>9. CommitSoFar'
  <2> HIDE DEF h
  <2> QED BY <1>1, <1>4, <1>6, <1>7, <1>8 DEF CommitSoFar, Committed, Verified
<1>10. AppInv'
  BY <1>1, <1>7, <1>9, CommitGoesOn DEF Finishing
<1> QED BY <1>3, <1>5, <1>10

\* The header is read back, and there must be room in the BCB.
LEMMA CheckStep == IInv /\ CheckImage => IInv'
<1> SUFFICES ASSUME IInv, CheckImage PROVE IInv'
  OBVIOUS
<1> USE DEF IInv
<1>1. pc \in Finishing /\ pc = "check" /\ UNCHANGED <<flash, confirm>>
  BY DEF CheckImage, Finishing
<1>2. FlashInv'
  BY FlashKept DEF CheckImage, FlashInv, FlashTyped
<1>3. rx \in Seq(Frame) /\ Tail(rx) \in Seq(Frame)
  BY <1>1, WhileFinishing DEF LinkTyped
<1>4. LinkTyped'
  BY <1>3 DEF CheckImage, LinkTyped
<1>5. CASE pc' = "append"
  <2>1. UNCHANGED <<app, rx>> /\ HasReserve
    BY <1>5 DEF CheckImage
  <2>2. CommitSoFar'
    BY <1>1, <1>5, <2>1 DEF AppInv, CommitSoFar, Committed, Verified, HasReserve, flash
  <2>3. AppInv'
    BY <1>1, <1>5, <2>1, <2>2, CommitGoesOn DEF Finishing, flash
  <2> QED BY <1>2, <1>4, <2>3
<1>6. CASE pc' = "idle"
  <2>1. app' = NoSession("ERROR") /\ confirm' = confirm
    BY <1>6 DEF CheckImage, Failed
  <2>2. AppInv'
    BY <1>6, <2>1, SessionOver DEF AppInv, AppTyped
  <2> QED BY <1>2, <1>4, <2>2
<1> QED BY <1>5, <1>6 DEF CheckImage

\* A new status is well typed, or a record of the journal is lost.
LEMMA StoreTyped ==
    ASSUME FlashTyped, NEW st \in Control, Store(st) \/ StoreCut(st),
           UNCHANGED <<slot, running>>, Store(st) => faults' \in 0 .. MaxFaults
    PROVE  FlashTyped' /\ (bcb' = st \/ bcb' = bcb)
<1>1. free' \in 0 .. NumRecords
  BY ReserveAssumption DEF Store, StoreCut, FlashTyped
<1>2. faults' \in 0 .. MaxFaults
  BY BoundAssumption DEF StoreCut, FlashTyped
<1>3. bcb' = st \/ bcb' = bcb
  BY DEF Store, StoreCut
<1> QED BY <1>1, <1>2, <1>3 DEF FlashTyped

\* Once the status says that an update is ready, its slot holds it.
LEMMA ReadyStatus ==
    ASSUME FlashInv, AcceptsUpdate, FlashTyped', UNCHANGED <<slot, running>>,
           NEW s \in Slot \ {bcb.confirmed}, app.target = s, NEW v \in Image,
           slot[s].header = Header("committed", v, app.got), Verified,
           bcb' = UpdateReady(v, app.got)
    PROVE  FlashInv'
<1>1. /\ bcb'.state = "UPDATE_READY" /\ bcb'.pending = s
      /\ bcb'.confirmed = bcb.confirmed /\ bcb'.image = [version |-> v, crc |-> app.got]
  BY DEF UpdateReady, FlashInv, FlashTyped, Control
<1>2. Intact(s)' /\ slot'[s].header = Header("committed", v, app.got)
  BY DEF Intact, Decodes, Header, Verified
<1>3. PendingStored'
  <2>1. /\ slot'[bcb'.pending].header.version = bcb'.image.version
        /\ slot'[bcb'.pending].header.crc = bcb'.image.crc
    BY <1>1, <1>2 DEF Header
  <2>2. Intact(bcb.pending)'
    BY <1>1, <1>2 DEF Intact
  <2>3. (bcb.pending \in Slot \ {bcb.confirmed})'
    BY <1>1
  <2> QED BY <2>1, <2>2, <2>3 DEF PendingStored
<1>4. ConfirmedIntact'
  BY <1>1 DEF FlashInv, ConfirmedIntact, Intact, Decodes
<1>5. BackupIntact' /\ ConfirmedNamed' /\ ConfirmedRuns' /\ TrialRuns'
  <2>1. bcb'.state \notin {"CONFIRMED", "EMPTY", "TRIAL"} /\ bcb'.state \notin Updating \ {"UPDATE_READY"}
    BY <1>1
  <2> QED BY <2>1 DEF BackupIntact, ConfirmedNamed, ConfirmedRuns, TrialRuns
<1> QED BY <1>3, <1>4, <1>5 DEF FlashInv

\* The status an append is asked to store.
LEMMA UpdateReadyTyped ==
    ASSUME FlashTyped, app.target \in Slot, NEW v \in Image, app.got \in Seq(Chunk)
    PROVE  UpdateReady(v, app.got) \in Control
<1>1. 0 \in 0 .. MaxAttempts
  BY ReserveAssumption
<1> QED BY <1>1 DEF UpdateReady, FlashTyped, Control, Updating

\* What the commit knows when it appends the status.
LEMMA WhileAppending ==
    ASSUME IInv, pc = "append"
    PROVE  /\ AcceptsUpdate /\ app.target \in Slot \ {bcb.confirmed} /\ Verified
           /\ slot[app.target].header = Header("committed", Head(rx).version, app.got)
           /\ Head(rx).version \in Image /\ HasReserve
           /\ UpdateReady(Head(rx).version, app.got) \in Control
<1>1. /\ AcceptsUpdate /\ app.target \in Slot \ {bcb.confirmed} /\ Verified
      /\ Head(rx).version \in Image /\ app.got \in Seq(Chunk)
  BY WhileFinishing DEF Finishing
<1>2. Committed("committed") /\ HasReserve
  BY DEF IInv, AppInv, CommitSoFar
<1>3. UpdateReady(Head(rx).version, app.got) \in Control
  BY <1>1, UpdateReadyTyped DEF IInv, FlashInv
<1> QED BY <1>1, <1>2, <1>3 DEF Committed

\* The status is appended, and the update is announced.
LEMMA MarkStep == IInv /\ MarkUpdateReady => IInv'
<1> SUFFICES ASSUME IInv, MarkUpdateReady PROVE IInv'
  OBVIOUS
<1> USE DEF IInv
<1>1. pc = "append" /\ Store(UpdateReady(Head(rx).version, app.got))
      /\ UNCHANGED <<slot, running, faults, link, confirm>> /\ rx' = rx
  BY DEF MarkUpdateReady, link
<1>2. FlashTyped' /\ bcb' = UpdateReady(Head(rx).version, app.got)
  BY <1>1, WhileAppending, StoreTyped DEF FlashInv, FlashTyped, Store
<1>3. FlashInv'
  BY <1>1, <1>2, WhileAppending, ReadyStatus
<1>4. LinkTyped'
  BY <1>1, LinkKept
<1>5. rx # <<>>
  BY <1>1, WhileFinishing DEF Finishing
<1>6. AppInv'
  BY <1>1, <1>5, SessionOver DEF MarkUpdateReady, AppInv, AppTyped
<1> QED BY <1>3, <1>4, <1>6

\* The last ACK and the reset.
LEMMA ResetStep == IInv /\ (FinalAck \/ SystemReset) => IInv'
<1> SUFFICES ASSUME IInv, FinalAck \/ SystemReset PROVE IInv'
  OBVIOUS
<1> USE DEF IInv
<1>1. FlashInv'
  BY FlashKept DEF FinalAck, SystemReset, Restart, FlashInv, FlashTyped, flash
<1>2. CASE FinalAck
  <2>1. Tail(rx) \in Seq(Frame)
    BY <1>2, FrontFrame DEF FinalAck, AppInv, FrontKept
  <2>2. LinkTyped'
    BY <1>2, <2>1, AckTyped DEF FinalAck, LinkTyped
  <2>3. AppInv'
    <3>1. CASE CanAck
      <4>1. /\ UNCHANGED <<app, confirm, bcb>> /\ pc' = "reset" /\ app.state = "READY"
        BY <1>2, <3>1 DEF FinalAck, AppInv, SessionAlone, flash
      <4> QED BY <4>1 DEF AppInv, AppTyped, SessionAlone, FrontKept, CommitSoFar, Session, Receiving, Finishing
    <3>2. CASE ~CanAck
      <4>1. app' = NoSession("ERROR") /\ pc' = "idle" /\ confirm' = confirm
        BY <1>2, <3>2 DEF FinalAck, Failed
      <4> QED BY <4>1, SessionOver DEF AppInv, AppTyped
    <3> QED BY <3>1, <3>2
  <2> QED BY <1>1, <2>2, <2>3
<1>3. CASE SystemReset
  <2>1. LinkTyped'
    <3>1. /\ ring' = <<>> /\ rx' = <<>> /\ tx' = 0 /\ connected' = FALSE /\ host' = host
      BY <1>3 DEF SystemReset, Restart
    <3>2. <<>> \in Seq(Frame) /\ 0 \in 0 .. MaxQueue
      BY BoundAssumption
    <3> QED BY <3>1, <3>2 DEF LinkTyped
  <2>2. AppInv'
    BY <1>3, SessionOver DEF SystemReset, Restart
  <2> QED BY <1>1, <2>1, <2>2
<1> QED BY <1>2, <1>3

----------------------------------------------------------------------------
(* Flash operations that fail, and losses of power.                          *)

\* A record of the journal may be lost without a new status.
LEMMA StatusKept ==
    ASSUME FlashInv, FlashTyped', UNCHANGED <<slot, bcb, running>>
    PROVE  FlashInv'
BY DEF FlashInv, ConfirmedIntact, PendingStored, BackupIntact,
       ConfirmedNamed, ConfirmedRuns, TrialRuns, Intact, Decodes

\* Whatever an interrupted operation leaves in the slot can be in a slot.
LEMMA HalfDoneTyped ==
    ASSUME IInv, app.target \in Slot, NEW h \in HalfDone(slot[app.target])
    PROVE  h \in Content
<1> USE DEF IInv
<1> DEFINE s == slot[app.target]
<1>1. s \in Content /\ app.got \in Seq(Chunk) /\ Len(app.got) \in Nat
  BY DEF FlashInv, FlashTyped, AppInv, AppTyped
<1>2. CASE pc = "erase"
  <2>1. Blank \in Content
    BY EmptySeq DEF Blank, Content
  <2>2. [s EXCEPT !.header = NoHeader] \in Content
    BY <1>1 DEF Content
  <2> QED BY <1>1, <1>2, <2>1, <2>2 DEF HalfDone
<1>3. CASE pc = "write"
  <2>1. Head(rx).chunk \in Chunk
    BY <1>3, FrontFrame DEF AppInv, FrontKept
  <2>2. \A c \in {Head(rx).chunk, Bad} :
           Program(s.payload, Len(app.got), c) \in Seq(Chunk \cup {Bad})
    BY <1>1, <2>1, ProgramTyped DEF Content
  <2>3. \A c \in {Head(rx).chunk, Bad} :
           [s EXCEPT !.payload = Program(s.payload, Len(app.got), c)] \in Content
    BY <1>1, <2>2 DEF Content
  <2>4. \/ h = s
        \/ \E c \in {Head(rx).chunk, Bad} :
              h = [s EXCEPT !.payload = Program(s.payload, Len(app.got), c)]
    BY <1>3 DEF HalfDone
  <2> QED BY <1>1, <2>3, <2>4
<1>4. CASE pc = "header"
  <2>1. Head(rx).version \in Image
    BY <1>4, WhileFinishing DEF Finishing
  <2>2. [s EXCEPT !.header = Header("body", Head(rx).version, app.got)] \in Content
    BY <1>1, <2>1 DEF Content, Header
  <2> QED BY <1>1, <1>4, <2>2 DEF HalfDone
<1>5. CASE pc = "commit"
  <2>1. Head(rx).version \in Image /\ s.header = Header("body", Head(rx).version, app.got)
    BY <1>5, WhileFinishing DEF Finishing, AppInv, CommitSoFar, Committed
  <2>2. [s EXCEPT !.header.form = "committed"] = [s EXCEPT !.header = Header("committed", Head(rx).version, app.got)]
    BY <1>1, <2>1 DEF Header, Content
  <2>3. [s EXCEPT !.header = Header("committed", Head(rx).version, app.got)] \in Content
    BY <1>1, <2>1 DEF Content, Header
  <2> QED BY <1>1, <1>5, <2>2, <2>3 DEF HalfDone
<1>6. CASE pc \notin {"erase", "write", "header", "commit"}
  BY <1>1, <1>6 DEF HalfDone
<1> QED BY <1>2, <1>3, <1>4, <1>5, <1>6

\* An interruption harms the spare slot only, and leaves the old status or the new.
LEMMA InterruptedSafe ==
    ASSUME IInv, Interrupted, running' = running, pc # "append" => faults' \in 0 .. MaxFaults
    PROVE  FlashInv'
<1> USE DEF IInv
<1>1. CASE pc = "append"
  <2>1. app.target \in Slot /\ app.target # "NONE"
    BY <1>1, WhileAppending, TwoSlots
  <2>2. slot' = slot
    BY <1>1, <2>1 DEF Interrupted, HalfDone, FlashInv, FlashTyped
  <2>3. StoreCut(UpdateReady(Head(rx).version, app.got))
    BY <1>1 DEF Interrupted
  <2>4. /\ FlashTyped'
        /\ bcb' = UpdateReady(Head(rx).version, app.got) \/ bcb' = bcb
    <3>1. UpdateReady(Head(rx).version, app.got) \in Control
      BY <1>1, WhileAppending
    <3>2. faults' \in 0 .. MaxFaults
      BY <2>3, BoundAssumption DEF StoreCut, FlashInv, FlashTyped
    <3> QED BY <2>2, <2>3, <3>1, <3>2, StoreTyped DEF FlashInv
  <2>5. CASE bcb' = bcb
    BY <2>2, <2>4, <2>5, StatusKept
  <2>6. CASE bcb' = UpdateReady(Head(rx).version, app.got)
    BY <1>1, <2>2, <2>4, <2>6, WhileAppending, ReadyStatus
  <2> QED BY <2>4, <2>5, <2>6
<1>2. CASE pc # "append" /\ (app.target = "NONE" \/ slot' = slot)
  <2>1. slot' = slot /\ UNCHANGED <<bcb, free>> /\ faults' \in 0 .. MaxFaults
    BY <1>2 DEF Interrupted
  <2> QED BY <2>1, FlashKept DEF flash
<1>3. CASE pc # "append" /\ app.target # "NONE" /\ slot' # slot
  <2>1. app.target \in Slot
    BY <1>3 DEF AppInv, AppTyped
  <2>2. PICK h \in HalfDone(slot[app.target]) : slot' = [slot EXCEPT ![app.target] = h]
    BY <1>3 DEF Interrupted
  <2>3. h \in Content
    BY <2>1, HalfDoneTyped
  <2>4. pc \in Receiving \cup Finishing
    <3>1. CASE pc \notin {"erase", "write", "header", "commit"}
      <4>1. h = slot[app.target]
        BY <3>1, <2>2 DEF HalfDone
      <4> QED BY <1>3, <2>2, <4>1 DEF FlashInv, FlashTyped
    <3> QED BY <3>1 DEF Receiving, Finishing
  <2>5. AcceptsUpdate /\ app.target \in Slot \ {bcb.confirmed}
    BY <2>4 DEF AppInv, SessionAlone, Session
  <2>6. UNCHANGED <<bcb, free>> /\ faults' \in 0 .. MaxFaults
    BY <1>3 DEF Interrupted
  <2> QED BY <2>2, <2>3, <2>5, <2>6, SpareWritten
<1> QED BY <1>1, <1>2, <1>3

\* The session ends with the failure, and everything but the flash with the power.
LEMMA FailureStep == IInv /\ (FlashError \/ PowerLoss) => IInv'
<1> SUFFICES ASSUME IInv, FlashError \/ PowerLoss PROVE IInv'
  OBVIOUS
<1> USE DEF IInv
<1>1. FlashInv'
  <2>1. Interrupted /\ running' = running
    BY DEF FlashError, PowerLoss, Restart
  <2>2. pc # "append" => faults' \in 0 .. MaxFaults
    BY BoundAssumption DEF FlashError, PowerLoss, FlashInv, FlashTyped
  <2> QED BY <2>1, <2>2, InterruptedSafe
<1>2. CASE FlashError
  <2>1. rx # <<>>
    <3>1. pc \in {"erase", "write"} \/ pc \in Finishing
      BY <1>2 DEF FlashError, Finishing
    <3> QED BY <3>1 DEF AppInv, FrontKept
  <2>2. Tail(rx) \in Seq(Frame)
    BY <2>1, FrontFrame
  <2>3. LinkTyped'
    BY <1>2, <2>2 DEF FlashError, LinkTyped
  <2>4. app' = NoSession("ERROR") /\ pc' = "idle" /\ confirm' = confirm
    BY <1>2 DEF FlashError, Failed
  <2>5. AppInv'
    BY <2>4, SessionOver DEF AppInv, AppTyped
  <2> QED BY <1>1, <2>3, <2>5
<1>3. CASE PowerLoss
  <2>1. LinkTyped'
    <3>1. /\ ring' = <<>> /\ rx' = <<>> /\ tx' = 0 /\ connected' = FALSE /\ host' = host
      BY <1>3 DEF PowerLoss, Restart
    <3>2. <<>> \in Seq(Frame) /\ 0 \in 0 .. MaxQueue
      BY BoundAssumption
    <3> QED BY <3>1, <3>2 DEF LinkTyped
  <2>2. AppInv'
    BY <1>3, SessionOver DEF PowerLoss, Restart
  <2> QED BY <1>1, <2>1, <2>2
<1> QED BY <1>2, <1>3

----------------------------------------------------------------------------
(* The confirmation of a trial image.                                        *)

\* The confirmed slot becomes the one that was tried, and what it held before is
\* not looked at any more.
LEMMA ConfirmedStatus ==
    ASSUME FlashInv, bcb.state = "TRIAL", FlashTyped', UNCHANGED <<slot, running>>,
           bcb' = Confirmed
    PROVE  FlashInv'
<1>1. /\ bcb'.state = "CONFIRMED" /\ bcb'.confirmed = bcb.pending
  BY DEF Confirmed, FlashInv, FlashTyped, Control
<1>2. bcb.pending \in Slot /\ Intact(bcb.pending)
  BY DEF FlashInv, PendingStored, Updating
<1>3. running.data = slot[bcb.pending].payload
  BY DEF FlashInv, TrialRuns
<1>4. bcb'.state \notin Updating /\ bcb'.state \notin {"EMPTY", "TRIAL"}
  BY <1>1 DEF Updating
<1>5. ConfirmedIntact'
  BY <1>1, <1>2 DEF ConfirmedIntact, Intact, Decodes
<1>6. ConfirmedNamed' /\ ConfirmedRuns' /\ TrialRuns' /\ PendingStored' /\ BackupIntact'
  BY <1>1, <1>2, <1>3, <1>4 DEF ConfirmedNamed, ConfirmedRuns, TrialRuns, PendingStored, BackupIntact
<1> QED BY <1>5, <1>6 DEF FlashInv

\* A status that is settled or on trial changes under no session.
LEMMA StatusChanges ==
    ASSUME AppInv, app.state \notin Session, UNCHANGED app,
           pc \in {"boot", "idle"}, pc' \in {"boot", "idle"},
           pc' = "boot" => pc = "boot",
           confirm' \in {"off", "pending", "complete"}
    PROVE  AppInv'
<1>1. AppTyped'
  BY DEF AppInv, AppTyped
<1>2. pc' \notin Receiving /\ pc' \notin Finishing /\ pc' \notin {"erase", "write", "ready", "reset"}
  BY DEF Receiving, Finishing
<1>3. SessionAlone'
  BY <1>2 DEF AppInv, SessionAlone
<1>4. FrontKept' /\ CommitSoFar'
  BY <1>2 DEF FrontKept, CommitSoFar, Finishing
<1> QED BY <1>1, <1>3, <1>4 DEF AppInv

\* The trial is confirmed, or the append fails and leaves the status or not.
LEMMA ConfirmStep == IInv /\ (ConfirmNothing \/ ConfirmTrial \/ ConfirmRetry) => IInv'
<1> SUFFICES ASSUME IInv, ConfirmNothing \/ ConfirmTrial \/ ConfirmRetry PROVE IInv'
  OBVIOUS
<1> USE DEF IInv
<1>1. LinkTyped'
  BY LinkKept DEF ConfirmNothing, ConfirmTrial, ConfirmRetry
<1>2. CASE ConfirmNothing
  <2>1. FlashInv'
    BY <1>2, FlashKept DEF ConfirmNothing, FlashInv, FlashTyped
  <2>2. UNCHANGED <<app, pc, bcb>> /\ pc = "idle" /\ confirm' = "complete"
    BY <1>2 DEF ConfirmNothing, flash
  <2>3. AppInv'
    BY <2>2 DEF AppInv, AppTyped, SessionAlone, FrontKept, CommitSoFar, AcceptsUpdate, Receiving, Finishing
  <2> QED BY <1>1, <2>1, <2>3
<1>3. CASE ConfirmTrial \/ ConfirmRetry
  <2>1. /\ bcb.state = "TRIAL" /\ pc = "idle" /\ UNCHANGED <<slot, running, app, pc>>
        /\ (Store(Confirmed) /\ faults' = faults) \/ StoreCut(Confirmed)
        /\ confirm' \in {"off", "pending", "complete"}
    BY <1>3 DEF ConfirmTrial, ConfirmRetry, AppInv, AppTyped
  <2>2. Confirmed \in Control
    <3>1. bcb.pending \in Slot /\ 0 \in 0 .. MaxAttempts
      BY <2>1, ReserveAssumption DEF FlashInv, PendingStored, Updating
    <3> QED BY <3>1 DEF Confirmed, FlashInv, FlashTyped, Control
  <2>3. FlashTyped' /\ (bcb' = Confirmed \/ bcb' = bcb)
    <3>1. Store(Confirmed) => faults' \in 0 .. MaxFaults
      BY <2>1, BoundAssumption DEF FlashInv, FlashTyped, StoreCut
    <3> QED BY <2>1, <2>2, <3>1, StoreTyped DEF FlashInv
  <2>4. FlashInv'
    BY <2>1, <2>3, StatusKept, ConfirmedStatus
  <2>5. app.state \notin Session
    BY <2>1 DEF AppInv, SessionAlone, AcceptsUpdate
  <2>6. AppInv'
    BY <2>1, <2>5, StatusChanges
  <2> QED BY <1>1, <2>4, <2>6
<1> QED BY <1>2, <1>3

----------------------------------------------------------------------------
(* The Bootloader.                                                           *)

\* Nothing the Bootloader does meets a session.
LEMMA BootAlone ==
    ASSUME IInv, Bootloader
    PROVE  AppInv' /\ LinkTyped' /\ faults' = faults
<1> USE DEF IInv
<1>1. /\ pc = "boot" /\ UNCHANGED <<app, link, faults>> /\ pc' \in {"boot", "idle"}
      /\ confirm' \in {"off", "pending", "complete"}
  BY DEF Bootloader, BootRun, BootBackup, BootInstall, BootTrial, BootRetry, BootRollback,
         BootRestore, StartApp, AppInv, AppTyped
<1>2. app.state \notin Session
  BY <1>1 DEF AppInv, SessionAlone, Session
<1> QED BY <1>1, <1>2, StatusChanges, LinkKept

\* The running firmware is backed up, when there is no confirmed slot yet.
LEMMA BackupStep == IInv /\ BootBackup => FlashInv'
<1> SUFFICES ASSUME IInv, BootBackup PROVE FlashInv'
  OBVIOUS
<1> USE DEF IInv, FlashInv
<1>1. /\ bcb.state = "UPDATE_READY" /\ bcb.pending \in Slot \ {bcb.confirmed}
      /\ Intact(bcb.pending) /\ UNCHANGED <<running, faults>>
      /\ slot[bcb.pending].header.version = bcb.image.version
      /\ slot[bcb.pending].header.crc = bcb.image.crc
  BY DEF BootBackup, PendingStored, Updating
<1> DEFINE o == OtherSlot(bcb.pending)
<1>2. o \in Slot /\ o # bcb.pending
  BY <1>1, TwoSlots
<1>3. PICK c \in {bcb.confirmed} \cup (IF bcb.confirmed = "NONE" THEN {o} ELSE {}) :
        Store([bcb EXCEPT !.state = "BACKUP_READY", !.confirmed = c])
  BY DEF BootBackup
<1>4. /\ bcb' = [bcb EXCEPT !.state = "BACKUP_READY", !.confirmed = c]
      /\ free' = free - 1 /\ free > 0
  BY <1>3 DEF Store
<1>5. Holding(running) \in Content
  <2>1. running.data \in Seq(Chunk \cup {Bad})
    BY DEF FlashTyped
  <2> QED BY <2>1 DEF FlashTyped, Holding, Content, Header
<1>6. slot' = IF bcb.confirmed # "NONE" THEN slot ELSE [slot EXCEPT ![o] = Holding(running)]
  BY DEF BootBackup
<1>7. slot' \in [Slot -> Content] /\ slot'[bcb.pending] = slot[bcb.pending]
  BY <1>1, <1>2, <1>5, <1>6 DEF FlashTyped
<1>8. /\ bcb'.state = "BACKUP_READY" /\ bcb'.confirmed = c /\ bcb'.pending = bcb.pending
      /\ bcb'.image = bcb.image /\ bcb' \in Control
  BY <1>2, <1>3, <1>4 DEF FlashTyped, Control, Updating
<1>9. FlashTyped'
  BY <1>1, <1>4, <1>7, <1>8, ReserveAssumption DEF FlashTyped
<1>10. Decodes(slot'[o].header) /\ slot'[o].payload = slot'[o].header.crc
  <2>1. CASE bcb.confirmed # "NONE"
    <3>1. bcb.confirmed = o
      BY <1>1, <2>1, TwoSlots DEF FlashTyped, Control
    <3> QED BY <1>6, <2>1, <3>1 DEF ConfirmedIntact, Intact
  <2>2. CASE bcb.confirmed = "NONE"
    <3>1. slot'[o] = Holding(running)
      BY <1>2, <1>6, <2>2 DEF FlashTyped
    <3> QED BY <3>1 DEF Holding, Header, Decodes
  <2> QED BY <2>1, <2>2
<1>11. PendingStored'
  <2>1. c # bcb.pending
    BY <1>1, <1>2, <1>3
  <2> QED BY <1>1, <1>7, <1>8, <2>1 DEF PendingStored, Intact, Decodes
<1>12. BackupIntact'
  BY <1>8, <1>10 DEF BackupIntact, Intact, Decodes
<1>13. ConfirmedIntact'
  <2>1. c # "NONE" => c = o
    BY <1>1, <1>3, TwoSlots DEF FlashTyped, Control
  <2> QED BY <1>8, <1>10, <2>1 DEF ConfirmedIntact, Intact, Decodes
<1>14. ConfirmedNamed' /\ ConfirmedRuns' /\ TrialRuns'
  BY <1>8 DEF ConfirmedNamed, ConfirmedRuns, TrialRuns
<1> QED BY <1>9, <1>11, <1>12, <1>13, <1>14

\* A step of an update that is under way: only the stage and the attempts change.
LEMMA StageStep ==
    ASSUME FlashInv, bcb.state \in Updating \ {"UPDATE_READY"}, UNCHANGED <<slot, faults>>,
           NEW st \in Updating \ {"UPDATE_READY"}, NEW n \in 0 .. MaxAttempts,
           bcb' = [bcb EXCEPT !.state = st, !.attempts = n], free > 0, free' = free - 1,
           running' \in [version : Image, data : Seq(Chunk)],
           st = "TRIAL" => running'.data = slot[bcb.pending].payload
    PROVE  FlashInv'
<1> USE DEF FlashInv
<1>1. /\ bcb' \in Control /\ bcb'.state = st /\ bcb'.pending = bcb.pending
      /\ bcb'.confirmed = bcb.confirmed /\ bcb'.image = bcb.image
  BY DEF FlashTyped, Control
<1>2. FlashTyped'
  BY <1>1, ReserveAssumption DEF FlashTyped
<1>3. st # "CONFIRMED" /\ st # "EMPTY"
  BY DEF Updating
<1>4. PendingStored' /\ BackupIntact' /\ ConfirmedIntact'
  BY <1>1 DEF PendingStored, BackupIntact, ConfirmedIntact, Intact, Decodes
<1>5. ConfirmedNamed' /\ ConfirmedRuns' /\ TrialRuns'
  BY <1>1, <1>3 DEF ConfirmedNamed, ConfirmedRuns, TrialRuns
<1> QED BY <1>2, <1>4, <1>5

\* What is installed from an intact slot is a firmware.
LEMMA FirmwareTyped ==
    ASSUME FlashTyped, NEW s \in Slot, Intact(s)
    PROVE  /\ Firmware(slot[s]) \in [version : Image, data : Seq(Chunk)]
           /\ Firmware(slot[s]).data = slot[s].payload
           /\ slot[s].header.version \in Image /\ slot[s].header.crc \in Seq(Chunk)
<1>1. slot[s].header \in [form : {"body", "committed"}, version : Image, crc : Seq(Chunk)]
  <2>1. slot[s].header # NoHeader
    BY DEF Intact, Decodes, NoHeader
  <2> QED BY <2>1 DEF FlashTyped, Content
<1>2. slot[s].payload \in Seq(Chunk)
  BY <1>1 DEF Intact
<1> QED BY <1>1, <1>2 DEF Firmware

\* The stages of the installation.
LEMMA InstallStep ==
    IInv /\ (BootInstall \/ BootTrial \/ BootRetry \/ BootRollback) => FlashInv'
<1> SUFFICES ASSUME IInv, BootInstall \/ BootTrial \/ BootRetry \/ BootRollback
             PROVE  FlashInv'
  OBVIOUS
<1> USE DEF IInv
<1>1. FlashInv /\ bcb \in Control /\ running \in [version : Image, data : Seq(Chunk)]
      /\ bcb.attempts \in 0 .. MaxAttempts
  BY DEF FlashInv, FlashTyped, Control
<1>2. \A st : [bcb EXCEPT !.state = st] = [bcb EXCEPT !.state = st, !.attempts = bcb.attempts]
  BY <1>1 DEF Control
<1>3. CASE BootInstall
  <2>1. /\ bcb.state = "BACKUP_READY" /\ UNCHANGED <<slot, running, faults>>
        /\ bcb' = [bcb EXCEPT !.state = "INSTALLING", !.attempts = bcb.attempts]
        /\ free > 0 /\ free' = free - 1
    BY <1>2, <1>3 DEF BootInstall, Store
  <2> QED BY <1>1, <2>1, StageStep DEF Updating
<1>4. CASE BootTrial
  <2>1. /\ bcb.state = "INSTALLING" /\ UNCHANGED <<slot, faults>>
        /\ running' = Firmware(slot[bcb.pending])
        /\ bcb' = [bcb EXCEPT !.state = "TRIAL", !.attempts = 1]
        /\ free > 0 /\ free' = free - 1
    BY <1>4 DEF BootTrial, Store
  <2>2. bcb.pending \in Slot /\ Intact(bcb.pending)
    BY <2>1 DEF FlashInv, PendingStored, Updating
  <2>3. /\ running' \in [version : Image, data : Seq(Chunk)]
        /\ running'.data = slot[bcb.pending].payload
    BY <2>1, <2>2, FirmwareTyped DEF FlashInv
  <2>4. 1 \in 0 .. MaxAttempts
    BY ReserveAssumption
  <2> QED BY <1>1, <2>1, <2>3, <2>4, StageStep DEF Updating
<1>5. CASE BootRetry
  <2>1. /\ bcb.state = "TRIAL" /\ UNCHANGED <<slot, running, faults>>
        /\ bcb.attempts < MaxAttempts /\ free > 0 /\ free' = free - 1
        /\ bcb' = [bcb EXCEPT !.attempts = bcb.attempts + 1]
    BY <1>5 DEF BootRetry, Store
  <2>2. bcb' = [bcb EXCEPT !.state = "TRIAL", !.attempts = bcb.attempts + 1]
    BY <1>1, <2>1 DEF Control
  <2>3. bcb.attempts + 1 \in 0 .. MaxAttempts
    BY <1>1, <2>1, ReserveAssumption
  <2>4. running'.data = slot[bcb.pending].payload
    BY <2>1 DEF FlashInv, TrialRuns
  <2> QED BY <1>1, <2>1, <2>2, <2>3, <2>4, StageStep DEF Updating
<1>6. CASE BootRollback
  <2>1. /\ bcb.state = "TRIAL" /\ UNCHANGED <<slot, running, faults>>
        /\ bcb' = [bcb EXCEPT !.state = "ROLLBACK", !.attempts = bcb.attempts]
        /\ free > 0 /\ free' = free - 1
    BY <1>2, <1>6 DEF BootRollback, Store
  <2> QED BY <1>1, <2>1, StageStep DEF Updating
<1> QED BY <1>3, <1>4, <1>5, <1>6

\* The way back: what runs is the confirmed image again, or the backup.
LEMMA RestoreStep == IInv /\ BootRestore => FlashInv'
<1> SUFFICES ASSUME IInv, BootRestore PROVE FlashInv'
  OBVIOUS
<1> USE DEF IInv, FlashInv
<1> DEFINE s == IF bcb.confirmed = "NONE" THEN OtherSlot(bcb.pending) ELSE bcb.confirmed
<1>1. /\ bcb.state = "ROLLBACK" /\ running' = Firmware(slot[s]) /\ UNCHANGED <<slot, faults>>
      /\ free > 0 /\ free' = free - 1
      /\ bcb' = IF bcb.confirmed = "NONE" THEN EmptyControl
                ELSE [bcb EXCEPT !.state = "CONFIRMED", !.pending = "NONE", !.attempts = 0,
                        !.image = [version |-> slot[s].header.version, crc |-> slot[s].header.crc]]
  BY DEF BootRestore, Store
<1>2. s \in Slot /\ Intact(s)
  <2>1. bcb.pending \in Slot /\ Intact(OtherSlot(bcb.pending))
    BY <1>1 DEF PendingStored, BackupIntact, Updating
  <2> QED BY <2>1, TwoSlots DEF ConfirmedIntact, FlashTyped, Control
<1>3. /\ running' \in [version : Image, data : Seq(Chunk)] /\ running'.data = slot[s].payload
      /\ slot[s].header.version \in Image /\ slot[s].header.crc \in Seq(Chunk)
  BY <1>1, <1>2, FirmwareTyped
<1> HIDE DEF s
<1>4. 0 \in 0 .. MaxAttempts
  BY ReserveAssumption
<1>5. CASE bcb.confirmed = "NONE"
  <2>1. bcb' = EmptyControl
    BY <1>1, <1>5
  <2>2. EmptyControl \in Control
    BY <1>4, EmptySeq DEF EmptyControl, NoImage, Control
  <2>3. FlashTyped'
    BY <1>1, <1>3, <2>1, <2>2, ReserveAssumption DEF FlashTyped
  <2>4. bcb'.state = "EMPTY" /\ bcb'.confirmed = "NONE"
    BY <2>1 DEF EmptyControl
  <2> QED BY <2>3, <2>4 DEF ConfirmedIntact, PendingStored, BackupIntact, ConfirmedNamed,
                            ConfirmedRuns, TrialRuns, Updating
<1>6. CASE bcb.confirmed # "NONE"
  <2>1. s = bcb.confirmed /\ bcb.confirmed \in Slot
    BY <1>6 DEF s, FlashTyped, Control
  <2>2. bcb' \in Control /\ bcb'.state = "CONFIRMED" /\ bcb'.confirmed = s
    BY <1>1, <1>3, <1>4, <1>6, <2>1 DEF FlashTyped, Control
  <2>3. FlashTyped'
    BY <1>1, <1>3, <2>2, ReserveAssumption DEF FlashTyped
  <2>4. bcb'.state \notin Updating /\ bcb'.state # "TRIAL" /\ bcb'.state # "EMPTY"
    BY <2>2 DEF Updating
  <2>5. ConfirmedIntact' /\ ConfirmedRuns' /\ ConfirmedNamed'
    BY <1>1, <1>2, <1>3, <2>1, <2>2, <2>4 DEF ConfirmedIntact, ConfirmedRuns, ConfirmedNamed, Intact, Decodes
  <2> QED BY <2>3, <2>4, <2>5 DEF PendingStored, BackupIntact, TrialRuns
<1> QED BY <1>5, <1>6

\* A start of the system, with whatever the Bootloader has to do before.
LEMMA BootStep == IInv /\ Bootloader => IInv'
<1> SUFFICES ASSUME IInv, Bootloader PROVE IInv'
  OBVIOUS
<1>1. AppInv' /\ LinkTyped' /\ faults' = faults
  BY BootAlone
<1>2. CASE BootRun
  <2>1. FlashInv'
    BY <1>2, FlashKept DEF BootRun, IInv, FlashInv, FlashTyped
  <2> QED BY <1>1, <2>1 DEF IInv
<1> QED BY <1>1, <1>2, BackupStep, InstallStep, RestoreStep DEF Bootloader, IInv

----------------------------------------------------------------------------
(* The link, the sender and the clock.                                       *)

\* What the sender sends is a frame.
LEMMA SendTyped == host \in [image : Image, step : Nat] => FrameToSend \in Frame
<1> SUFFICES ASSUME host \in [image : Image, step : Nat] PROVE FrameToSend \in Frame
  OBVIOUS
<1>1. host.image \in Image /\ host.step \in Nat
  OBVIOUS
<1>2. CASE host.step = 0
  BY <1>2, FramesSent DEF FrameToSend
<1>3. CASE host.step # 0 /\ host.step <= NumChunks[host.image]
  <2>1. host.step \in 1 .. NumChunks[host.image]
    BY <1>1, <1>3, ImageAssumption
  <2> QED BY <1>1, <1>3, <2>1, FramesSent DEF FrameToSend
<1>4. CASE host.step # 0 /\ ~(host.step <= NumChunks[host.image])
  BY <1>1, <1>4, FramesSent DEF FrameToSend
<1> QED BY <1>2, <1>3, <1>4

\* Nothing that happens on the link changes the frame in front of the cache.
LEMMA SenderStep == IInv /\ Sender => IInv'
<1> SUFFICES ASSUME IInv, Sender PROVE IInv'
  OBVIOUS
<1> USE DEF IInv
<1>1. UNCHANGED <<flash, app, pc, confirm, faults>>
  BY DEF Sender, Connect, Disconnect, HostSend, HostAck, HostRestart
<1>2. FlashInv'
  BY <1>1, FlashKept DEF FlashInv, FlashTyped
<1>3. /\ rx' \in Seq(Frame)
      /\ rx # <<>> => rx' # <<>> /\ Head(rx') = Head(rx)
  <2>1. rx' = rx \/ rx' = Append(rx, CutFrame)
    BY DEF Sender, Connect, Disconnect, HostSend, HostAck, HostRestart
  <2>2. rx \in Seq(Frame) /\ CutFrame \in Frame
    BY FramesSent DEF LinkTyped
  <2>3. Append(rx, CutFrame) \in Seq(Frame)
    BY <2>2
  <2>4. rx # <<>> => Append(rx, CutFrame) # <<>> /\ Head(Append(rx, CutFrame)) = Head(rx)
    BY <2>2, FrontStays
  <2> QED BY <2>1, <2>2, <2>3, <2>4
<1>4. AppInv'
  <2>1. pc \in Handling => rx # <<>>
    BY DEF AppInv, FrontKept, Handling
  <2> QED BY <1>1, <1>3, <2>1, AppKept DEF flash
<1>5. LinkTyped'
  <2>1. <<>> \in Seq(Frame) /\ 0 \in 0 .. MaxQueue
    BY BoundAssumption
  <2>2. CASE Connect \/ Disconnect
    BY <1>3, <2>1, <2>2 DEF Connect, Disconnect, LinkTyped
  <2>3. CASE HostSend
    <3>1. FrameToSend \in Frame /\ ring \in Seq(Frame)
      BY SendTyped DEF LinkTyped
    <3>2. Append(ring, FrameToSend) \in Seq(Frame)
      BY <3>1
    <3> QED BY <2>3, <3>2 DEF HostSend, LinkTyped
  <2>4. CASE HostAck
    <3>1. tx' \in 0 .. MaxQueue
      BY <2>4, BoundAssumption DEF HostAck, LinkTyped
    <3>2. host' \in [image : Image, step : Nat]
      BY <2>4 DEF HostAck, LinkTyped
    <3> QED BY <2>4, <3>1, <3>2 DEF HostAck, LinkTyped
  <2>5. CASE HostRestart
    BY <2>5 DEF HostRestart, LinkTyped
  <2> QED BY <2>2, <2>3, <2>4, <2>5 DEF Sender
<1> QED BY <1>2, <1>4, <1>5

\* Time passes.
LEMMA TickStep == IInv /\ Tick => IInv'
<1> SUFFICES ASSUME IInv, Tick PROVE IInv'
  OBVIOUS
<1> USE DEF IInv
<1>1. UNCHANGED <<flash, pc, confirm, link, faults>> /\ rx' = rx
  BY DEF Tick, link
<1>2. FlashInv'
  BY <1>1, FlashKept DEF FlashInv, FlashTyped
<1>3. LinkTyped'
  BY <1>1, LinkKept
<1>4. AppTyped'
  <2>1. app.quiet + 1 \in 0 .. Timeout
    BY BoundAssumption DEF Tick, AppInv, AppTyped
  <2> QED BY <1>1, <2>1 DEF Tick, AppInv, AppTyped
<1>5. app'.state = app.state /\ app'.target = app.target /\ app'.got = app.got
  BY DEF Tick, AppInv, AppTyped
<1>6. SessionAlone' /\ FrontKept' /\ CommitSoFar'
  BY <1>1, <1>5 DEF AppInv, SessionAlone, FrontKept, CommitSoFar, Committed, Verified, HasReserve,
                    Total, AcceptsUpdate, flash
<1> QED BY <1>2, <1>3, <1>4, <1>6 DEF AppInv

----------------------------------------------------------------------------
(* The invariant holds.                                                      *)

\* It holds of the first firmware, and of a confirmed one.
LEMMA InitInv == Init => IInv
<1> SUFFICES ASSUME Init PROVE IInv
  OBVIOUS
<1>1. PICK i \in Image, c \in Slot \cup {"NONE"} :
        /\ running = [version |-> i, data |-> Data(i)]
        /\ bcb = IF c = "NONE" THEN EmptyControl
                 ELSE [EmptyControl EXCEPT
                         !.state = "CONFIRMED", !.confirmed = c,
                         !.image = [version |-> i, crc |-> Data(i)]]
        /\ slot = [s \in Slot |-> IF s = c THEN Holding(running) ELSE Blank]
        /\ free = IF c = "NONE" THEN NumRecords ELSE NumRecords - 1
  BY DEF Init
<1>2. Data(i) \in Seq(Chunk) /\ Data(i) \in Seq(Chunk \cup {Bad})
  <2>1. Data(i) \in Seq(Chunk)
    BY DataTyped
  <2> QED BY <2>1
<1>3. FlashTyped
  <2>1. Blank \in Content
    BY EmptySeq DEF Blank, Content
  <2>2. Holding(running) \in Content
    BY <1>1, <1>2 DEF Holding, Content, Header
  <2>3. slot \in [Slot -> Content]
    BY <1>1, <2>1, <2>2
  <2>4. EmptyControl \in Control
    BY ReserveAssumption, EmptySeq DEF EmptyControl, NoImage, Control
  <2>5. bcb \in Control
    BY <1>1, <1>2, <2>4 DEF Control
  <2>6. running \in [version : Image, data : Seq(Chunk)]
    BY <1>1, <1>2
  <2>7. free \in 0 .. NumRecords /\ faults \in 0 .. MaxFaults
    BY <1>1, ReserveAssumption, BoundAssumption DEF Init
  <2> QED BY <2>3, <2>5, <2>6, <2>7 DEF FlashTyped
<1>4. /\ bcb.confirmed = c /\ bcb.state = IF c = "NONE" THEN "EMPTY" ELSE "CONFIRMED"
  BY <1>1 DEF EmptyControl
<1>5. c # "NONE" => slot[c] = Holding(running)
  BY <1>1
<1>6. ConfirmedIntact /\ ConfirmedRuns /\ ConfirmedNamed
  BY <1>4, <1>5 DEF ConfirmedIntact, ConfirmedRuns, ConfirmedNamed, Intact, Decodes, Holding, Header
<1>7. PendingStored /\ BackupIntact /\ TrialRuns
  BY <1>4 DEF PendingStored, BackupIntact, TrialRuns, Updating
<1>8. AppInv
  <2>1. app = NoSession("IDLE") /\ pc = "boot" /\ confirm = "off"
    BY DEF Init
  <2>2. <<>> \in Seq(Chunk) /\ 0 \in 0 .. MaxSize /\ 0 \in 0 .. Timeout
    BY BoundAssumption
  <2>3. AppTyped
    BY <2>1, <2>2 DEF AppTyped, NoSession
  <2> QED BY <2>1, <2>3 DEF AppInv, SessionAlone, FrontKept, CommitSoFar, NoSession, Session,
                            Receiving, Finishing
<1>9. LinkTyped
  <2>1. <<>> \in Seq(Frame) /\ 0 \in 0 .. MaxQueue
    BY BoundAssumption
  <2>2. /\ ring = <<>> /\ rx = <<>> /\ tx = 0 /\ connected = FALSE
        /\ host \in [image : Image, step : {0}]
    BY DEF Init
  <2>3. host \in [image : Image, step : Nat]
    BY <2>2
  <2> QED BY <2>1, <2>2, <2>3 DEF LinkTyped
<1> QED BY <1>3, <1>6, <1>7, <1>8, <1>9 DEF FlashInv, IInv

\* Every step keeps it.
LEMMA NextInv == IInv /\ [Next]_vars => IInv'
<1> SUFFICES ASSUME IInv, [Next]_vars PROVE IInv'
  OBVIOUS
<1>1. CASE Poll
  BY <1>1, IdleStep, StartStep, TimeoutStep, LookStep, FinishStep, ParseStep, HandleStep, EraseStep,
     WriteStep, HeaderStep, CheckStep, MarkStep, ResetStep DEF Poll
<1>2. CASE Confirmation \/ ConfirmRetry
  BY <1>2, ConfirmStep DEF Confirmation
<1>3. CASE FlashError \/ PowerLoss
  BY <1>3, FailureStep
<1>4. CASE Bootloader
  BY <1>4, BootStep
<1>5. CASE Sender
  BY <1>5, SenderStep
<1>6. CASE Tick
  BY <1>6, TickStep
<1>7. CASE UNCHANGED vars
  <2>1. UNCHANGED <<flash, app, pc, confirm, link, faults>> /\ rx' = rx
    BY <1>7 DEF vars, link
  <2>2. FlashInv'
    BY <2>1, FlashKept DEF IInv, FlashInv, FlashTyped
  <2>3. LinkTyped'
    BY <2>1, LinkKept DEF IInv
  <2>4. AppInv'
    <3>1. pc \in Handling => rx # <<>>
      BY DEF IInv, AppInv, FrontKept, Handling
    <3> QED BY <2>1, <3>1, AppKept DEF IInv, flash
  <2> QED BY <2>2, <2>3, <2>4 DEF IInv
<1> QED BY <1>1, <1>2, <1>3, <1>4, <1>5, <1>6, <1>7 DEF Next

\* The invariant holds in every behaviour.
LEMMA Invariance == Spec => []IInv
BY InitInv, NextInv, PTL DEF Spec

\* The type invariant holds for every set of images and every bound.
THEOREM TypeCorrect == Spec => []TypeOK
<1>1. IInv => TypeOK
  BY TypingsAreTypeOK DEF IInv, FlashInv, AppInv
<1> QED BY <1>1, Invariance, PTL

\* The confirmed slot holds an intact image at any time, wherever the power is
\* lost and whatever the flash and the link do (select_target_slot).
THEOREM FallbackKept == Spec => []ConfirmedIntact
<1>1. IInv => ConfirmedIntact
  BY DEF IInv, FlashInv
<1> QED BY <1>1, Invariance, PTL

\* A confirmed status names the slot of what runs
\* (easy_bootloader_app_confirm_running).
THEOREM ConfirmedIsRunning == Spec => []ConfirmedRuns
<1>1. IInv => ConfirmedRuns
  BY DEF IInv, FlashInv
<1> QED BY <1>1, Invariance, PTL
----------------------------------------------------------------------------
(* The place of every chunk.  A second induction: the frames of a session agree  *)
(* on where the image ends.                                                   *)

\* A data frame counts what follows its chunk.
LEMMA FrameCounts ==
    ASSUME NEW f \in Frame, f.type = "data"
    PROVE  f.remaining = NumChunks[f.chunk.image] - f.chunk.index
<1>1. PICK i \in Image : \E k \in 1 .. NumChunks[i] : f = DataFrame(i, k)
  BY DEF Frame, StartFrame, CutFrame, FinishFrame
<1>2. PICK k \in 1 .. NumChunks[i] : f = DataFrame(i, k)
  BY <1>1
<1> QED BY <1>2 DEF DataFrame

\* Without chunks nothing is out of place.
LEMMA NothingMisplaced == \A n : InPlace(<<>>, n)
<1>1. Len(<<>>) = 0
  BY EmptySeq
<1> QED BY <1>1 DEF InPlace

\* A chunk that its frame puts behind the ones before it leaves them in place.
LEMMA NextInPlace ==
    ASSUME NEW q \in Seq(Chunk), NEW c \in Chunk, NEW n \in Nat, InPlace(q, n),
           NumChunks[c.image] - c.index = n - (Len(q) + 1)
    PROVE  InPlace(Append(q, c), n)
<1> DEFINE r == Append(q, c)
<1>1. Len(r) = Len(q) + 1 /\ Len(q) \in Nat /\ r[Len(q) + 1] = c
  OBVIOUS
<1>2. \A k \in 1 .. Len(q) : r[k] = q[k]
  OBVIOUS
<1> HIDE DEF r
<1>3. \A k \in 1 .. Len(r) : k \in 1 .. Len(q) \/ k = Len(q) + 1
  BY <1>1
<1>4. ASSUME NEW k \in 1 .. Len(r)
      PROVE  NumChunks[r[k].image] - r[k].index = n - k
  <2>1. CASE k \in 1 .. Len(q)
    BY <1>2, <2>1 DEF InPlace
  <2>2. CASE k = Len(q) + 1
    BY <1>1, <2>2
  <2> QED BY <1>3, <2>1, <2>2
<1> QED BY <1>4 DEF InPlace, r

\* A step that ends or begins a session, or leaves none.
LEMMA PlacedAnew ==
    ASSUME app'.got = <<>>, app'.expected = 0, app'.state # "WAIT_FINISH",
           pc' \notin {"erase", "write"}
    PROVE  Placed'
<1>1. InPlace(app'.got, app'.expected)
  BY NothingMisplaced
<1> QED BY <1>1 DEF Placed, InPlace

\* A step that leaves what was received alone, and does not begin to write.
LEMMA PlacedKept ==
    ASSUME Placed, app'.got = app.got, app'.expected = app.expected,
           app'.state = app.state \/ app'.state # "WAIT_FINISH",
           pc' \in {"erase", "write"} => pc' = pc /\ Head(rx') = Head(rx)
    PROVE  Placed'
<1>1. Agrees => (pc' = "write" => Agrees')
  BY DEF Placed, Agrees, Total
<1> QED BY <1>1 DEF Placed, InPlace

\* A frame is only handled if it agrees with the first.
LEMMA HandlePlaced ==
    ASSUME IInv, Placed, HandleData
    PROVE  Placed'
<1>1. CASE UNCHANGED <<app, rx>> /\ pc' = "erase" /\ app.expected = 0
  BY <1>1 DEF Placed, InPlace
<1>2. CASE UNCHANGED <<app, rx>> /\ pc' = "write" /\ Agrees
  BY <1>2 DEF Placed, InPlace, Agrees, Total
<1>3. CASE app' = Failed /\ pc' = "idle"
  BY <1>3, PlacedAnew DEF Failed, NoSession
<1> QED BY <1>1, <1>2, <1>3 DEF HandleData

\* The first frame says where the image ends.
LEMMA ErasePlaced ==
    ASSUME IInv, Placed, EraseSlot
    PROVE  Placed'
<1>1. /\ app'.got = app.got /\ app'.expected = Total /\ app'.state = app.state
      /\ pc' = "write" /\ rx' = rx
  BY DEF EraseSlot, link, IInv, AppInv, AppTyped
<1>2. app.got = <<>> /\ app.state # "WAIT_FINISH"
  BY DEF EraseSlot, Placed, IInv, AppInv, SessionAlone, Receiving
<1>3. Agrees'
  BY <1>1 DEF Agrees, Total
<1>4. InPlace(app'.got, app'.expected)
  BY <1>1, <1>2, NothingMisplaced
<1>5. app'.got = <<>>
  BY <1>1, <1>2
<1> QED BY <1>1, <1>2, <1>3, <1>4, <1>5 DEF Placed, InPlace

\* The chunk goes where its frame says, and the last one makes the image whole
\* up to its end.
LEMMA WritePlaced ==
    ASSUME IInv, Placed, WriteChunk
    PROVE  Placed'
<1> USE DEF IInv
<1>1. /\ pc = "write" /\ rx # <<>> /\ Head(rx).type = "data"
      /\ app.got \in Seq(Chunk) /\ app.expected \in Nat
  BY BoundAssumption DEF WriteChunk, AppInv, AppTyped, FrontKept
<1>2. /\ Head(rx) \in Frame /\ Head(rx).chunk \in Chunk /\ Head(rx).remaining \in Nat
  BY <1>1, FrontFrame
<1>3. Head(rx).remaining = NumChunks[Head(rx).chunk.image] - Head(rx).chunk.index
  BY <1>1, <1>2, FrameCounts
<1>4. /\ app'.got = Append(app.got, Head(rx).chunk) /\ app'.expected = app.expected
      /\ app'.state = "WAIT_FINISH" => Head(rx).remaining = 0
      /\ pc' \in {"parse", "idle"}
  BY DEF WriteChunk, AppInv, AppTyped
<1>5. Len(app.got) + 1 + Head(rx).remaining = app.expected /\ Len(app.got) \in Nat
  BY <1>1 DEF Placed, Agrees, Total
<1>6. InPlace(app'.got, app'.expected)
  <2>1. Head(rx).remaining = app.expected - (Len(app.got) + 1)
    BY <1>1, <1>2, <1>5
  <2> QED BY <1>1, <1>2, <1>3, <1>4, <2>1, NextInPlace DEF Placed
<1>7. Len(app'.got) = Len(app.got) + 1
  BY <1>1, <1>2, <1>4
<1>8. app'.expected # 0 /\ (app'.state = "WAIT_FINISH" => Len(app'.got) = app'.expected)
  BY <1>1, <1>2, <1>4, <1>5, <1>7
<1> QED BY <1>4, <1>6, <1>8 DEF Placed, InPlace

\* Every step keeps what was received in place.
LEMMA PlacedStep ==
    ASSUME IInv, Placed, [Next]_vars
    PROVE  Placed'
<1>1. CASE PollStart
  <2>1. CASE AcceptsUpdate
    <3>1. app' = [NoSession("WAIT_DATA") EXCEPT !.target = SpareSlot] /\ pc' = "idle"
      BY <1>1, <2>1 DEF PollStart
    <3> QED BY <3>1, PlacedAnew DEF NoSession
  <2>2. CASE ~AcceptsUpdate
    BY <1>1, <2>2, PlacedAnew DEF PollStart, Failed, NoSession
  <2> QED BY <2>1, <2>2
<1>2. CASE PollIdle \/ ParseWait \/ WriteHeader \/ CommitHeader
  BY <1>2, PlacedKept DEF PollIdle, ParseWait, WriteHeader, CommitHeader
<1>3. CASE PollData \/ PollSkip \/ Tick
  <2>1. app'.got = app.got /\ app'.expected = app.expected /\ app'.state = app.state
    BY <1>3 DEF PollData, PollSkip, Tick, IInv, AppInv, AppTyped
  <2>2. pc' \in {"erase", "write"} => pc' = pc /\ Head(rx') = Head(rx)
    BY <1>3 DEF PollData, PollSkip, Tick, link
  <2> QED BY <2>1, <2>2, PlacedKept
<1>4. CASE PollFinish \/ CheckImage \/ FinalAck
  <2>1. CASE app' = NoSession("ERROR") /\ pc' = "idle"
    BY <2>1, PlacedAnew DEF NoSession
  <2>2. CASE app' = [app EXCEPT !.quiet = Quiet] /\ pc' = "header"
    <3>1. app'.got = app.got /\ app'.expected = app.expected /\ app'.state = app.state
      BY <2>2 DEF IInv, AppInv, AppTyped
    <3> QED BY <2>2, <3>1, PlacedKept
  <2>3. CASE app' = app /\ pc' \in {"append", "reset"}
    BY <2>3, PlacedKept
  <2> QED BY <1>4, <2>1, <2>2, <2>3 DEF PollFinish, CheckImage, FinalAck, Failed
<1>5. CASE PollTimeout \/ ParseFail \/ MarkUpdateReady \/ SystemReset \/ FlashError \/ PowerLoss
  BY <1>5, PlacedAnew DEF PollTimeout, ParseFail, MarkUpdateReady, SystemReset, FlashError, PowerLoss,
                          Restart, Failed, NoSession
<1>6. CASE HandleData \/ EraseSlot \/ WriteChunk
  BY <1>6, HandlePlaced, ErasePlaced, WritePlaced
<1>7. CASE Confirmation \/ ConfirmRetry \/ Bootloader
  <2>1. app' = app /\ pc' \in {"boot", "idle"}
    BY <1>7 DEF Confirmation, ConfirmNothing, ConfirmTrial, ConfirmRetry, Bootloader, BootRun,
                BootBackup, BootInstall, BootTrial, BootRetry, BootRollback, BootRestore, StartApp
  <2> QED BY <2>1, PlacedKept
<1>8. CASE Sender \/ UNCHANGED vars
  <2>1. UNCHANGED <<app, pc>> /\ (rx' = rx \/ rx' = Append(rx, CutFrame))
    BY <1>8 DEF Sender, Connect, Disconnect, HostSend, HostAck, HostRestart, vars, link
  <2>2. pc \in {"erase", "write"} => rx \in Seq(Frame) /\ rx # <<>>
    BY DEF IInv, AppInv, FrontKept, LinkTyped
  <2>3. CutFrame \in Frame
    BY FramesSent
  <2>4. pc' \in {"erase", "write"} => pc' = pc /\ Head(rx') = Head(rx)
    BY <2>1, <2>2, <2>3, FrontStays
  <2> QED BY <2>1, <2>4, PlacedKept
<1> QED BY <1>1, <1>2, <1>3, <1>4, <1>5, <1>6, <1>7, <1>8 DEF Next, Poll

\* The status that starts an update names what was received, and no later status
\* of the same update names anything else.
LEMMA PendingStep ==
    ASSUME IInv, Placed, PendingInPlace, [Next]_vars
    PROVE  PendingInPlace'
<1>1. CASE bcb' = bcb
  BY <1>1 DEF PendingInPlace, InPlace
<1>2. CASE pc = "append" /\ bcb' = UpdateReady(Head(rx).version, app.got)
  <2>1. bcb'.image.crc = app.got
    BY <1>2 DEF UpdateReady, IInv, FlashInv, FlashTyped, Control
  <2>2. Len(app.got) = app.expected
    BY <1>2 DEF Placed, IInv, AppInv, SessionAlone, Finishing
  <2>3. InPlace(bcb'.image.crc, Len(bcb'.image.crc))
    BY <2>1, <2>2 DEF Placed
  <2> QED BY <2>3 DEF PendingInPlace, InPlace
<1>3. CASE bcb'.state \notin Updating
  BY <1>3 DEF PendingInPlace, Updating
<1>4. CASE bcb.state \in Updating /\ bcb'.image = bcb.image
  BY <1>4 DEF PendingInPlace, InPlace
<1>5. bcb \in Control
  BY DEF IInv, FlashInv, FlashTyped
<1>6. CASE MarkUpdateReady
  BY <1>2, <1>6 DEF MarkUpdateReady, Store
<1>7. CASE FlashError \/ PowerLoss
  <2>1. Interrupted
    BY <1>7 DEF FlashError, PowerLoss
  <2> QED BY <1>1, <1>2, <2>1 DEF Interrupted, StoreCut
<1>8. CASE Poll /\ ~MarkUpdateReady
  BY <1>1, <1>8 DEF Poll, PollIdle, PollStart, PollTimeout, PollData, PollFinish,
     PollSkip, ParseWait, ParseFail, HandleData, EraseSlot, WriteChunk, WriteHeader,
     CommitHeader, CheckImage, FinalAck, SystemReset, flash
<1>9. CASE Confirmation \/ ConfirmRetry
  <2>1. bcb' = bcb \/ bcb' = Confirmed
    BY <1>9 DEF Confirmation, ConfirmNothing, ConfirmTrial, ConfirmRetry, Store, StoreCut, flash
  <2>2. Confirmed.state = "CONFIRMED"
    BY <1>5 DEF Confirmed, Control
  <2> QED BY <1>1, <1>3, <2>1, <2>2 DEF Updating
<1>10. CASE BootRun
  BY <1>1, <1>10 DEF BootRun, flash
<1>11. CASE BootBackup \/ BootInstall \/ BootTrial \/ BootRetry \/ BootRollback
  <2>1. bcb.state \in Updating
    BY <1>11 DEF BootBackup, BootInstall, BootTrial, BootRetry, BootRollback, Updating
  <2>2. bcb'.image = bcb.image
    BY <1>5, <1>11 DEF BootBackup, BootInstall, BootTrial, BootRetry, BootRollback, Store, Control
  <2> QED BY <1>4, <2>1, <2>2
<1>12. CASE BootRestore
  <2>1. bcb'.state \in {"EMPTY", "CONFIRMED"}
    BY <1>5, <1>12 DEF BootRestore, Store, Control, EmptyControl
  <2> QED BY <1>3, <2>1 DEF Updating
<1>13. CASE Sender \/ Tick \/ UNCHANGED vars
  BY <1>1, <1>13 DEF Sender, Connect, Disconnect, HostSend, HostAck, HostRestart, Tick, vars, flash
<1> QED BY <1>6, <1>7, <1>8, <1>9, <1>10, <1>11, <1>12, <1>13 DEF Next, Bootloader

\* What the Bootloader is told to install is, in slot, header and BCB alike, what
\* was received, and each chunk of it is as far from the end as its frame said:
\* frames lost, repeated or cut in the middle end the session (handle_data_frame,
\* commit_image).  A mix of two senders' frames that agree on the end, or the tail
\* of an image, is not excluded: the frames do not tell them apart.
THEOREM AnnouncedInPlace == Spec => []PendingIntact
<1>1. Init => Placed /\ PendingInPlace
  <2> SUFFICES ASSUME Init PROVE Placed /\ PendingInPlace
    OBVIOUS
  <2>1. app = NoSession("IDLE") /\ pc = "boot" /\ bcb.state \in {"EMPTY", "CONFIRMED"}
    BY DEF Init, EmptyControl
  <2>2. app.got = <<>> /\ app.expected = 0 /\ app.state = "IDLE"
    BY <2>1 DEF NoSession
  <2>3. InPlace(app.got, app.expected)
    BY <2>2, NothingMisplaced
  <2> QED BY <2>1, <2>2, <2>3 DEF Placed, PendingInPlace, Updating
<1>2. IInv /\ Placed /\ PendingInPlace /\ [Next]_vars => Placed' /\ PendingInPlace'
  BY PlacedStep, PendingStep
<1>3. IInv /\ PendingInPlace => PendingIntact
  BY DEF IInv, FlashInv, PendingIntact
<1> QED BY <1>1, <1>2, <1>3, Invariance, PTL DEF Spec

----------------------------------------------------------------------------
(* Room in the BCB.  CheckImage asks for the reserve once, and the steps that *)
(* follow it, some of them after a restart, take their records from it.        *)

\* The fewer failures are left, the less room they need.
LEMMA FewerFailures ==
    ASSUME NEW f \in Int, NEW n \in Int, NEW m \in Int, NEW g \in Int, NEW h \in Int,
           f >= n + (m - g), h >= g
    PROVE  f >= n + (m - h)
OBVIOUS

\* The reserve covers the record that starts the update and those after it.
LEMMA ReserveCovers ==
    ASSUME NEW f \in Int, NEW r \in Int, NEW a \in Int, NEW m \in Int, NEW h \in Int,
           f >= r, r >= a + 5 + m, h >= 0
    PROVE  f - 1 >= a + 4 + (m - h)
OBVIOUS

\* A step that appends nothing to the BCB.
LEMMA RoomKept ==
    ASSUME IInv, RoomForFaults, UNCHANGED <<bcb, free>>,
           faults' \in faults .. MaxFaults
    PROVE  RoomForFaults'
<1>1. faults \in 0 .. MaxFaults /\ free \in 0 .. NumRecords /\ bcb.attempts \in 0 .. MaxAttempts
  BY DEF IInv, FlashInv, FlashTyped, Control
<1>2. Needed \in Int
  BY <1>1, ReserveAssumption DEF Needed
<1>3. Needed' = Needed
  BY DEF Needed
<1>4. faults' \in Int /\ faults' >= faults
  BY <1>1, BoundAssumption
<1>5. MaxFaults \in Int /\ faults \in Int /\ free \in Int
  BY <1>1, BoundAssumption, ReserveAssumption
<1>6. SUFFICES ASSUME bcb.state \in Updating
               PROVE  free >= Needed + (MaxFaults - faults')
  BY <1>3 DEF RoomForFaults
<1>7. free >= Needed + (MaxFaults - faults)
  BY <1>6 DEF RoomForFaults
<1> QED BY <1>2, <1>4, <1>5, <1>7, FewerFailures

\* The status that starts an update is appended when the reserve is there.
LEMMA RoomAtReady ==
    ASSUME Reserve >= MaxAttempts + 5 + MaxFaults, IInv, pc = "append",
           MarkUpdateReady \/ Interrupted
    PROVE  RoomForFaults'
<1>1. /\ free \in Nat /\ free >= Reserve /\ faults \in 0 .. MaxFaults
      /\ AcceptsUpdate
  <2>1. app.state = "WAIT_FINISH"
    BY DEF IInv, AppInv, SessionAlone, Finishing
  <2>2. free >= Reserve
    BY DEF IInv, AppInv, CommitSoFar, HasReserve
  <2>3. AcceptsUpdate
    BY <2>1 DEF IInv, AppInv, SessionAlone, Session
  <2> QED BY <2>2, <2>3, ReserveAssumption DEF IInv, FlashInv, FlashTyped
<1>2. UpdateReady(Head(rx).version, app.got).state = "UPDATE_READY"
  BY DEF UpdateReady, IInv, FlashInv, FlashTyped, Control
<1>3. \/ bcb' = bcb
      \/ /\ bcb'.state = "UPDATE_READY" /\ free' = free - 1
         /\ faults' \in {faults, faults + 1}
  BY <1>2 DEF MarkUpdateReady, Interrupted, Store, StoreCut
<1>4. CASE bcb' = bcb
  BY <1>1, <1>4 DEF AcceptsUpdate, RoomForFaults, Updating
<1>5. CASE /\ bcb'.state = "UPDATE_READY" /\ free' = free - 1
           /\ faults' \in {faults, faults + 1}
  <2>1. Needed' = MaxAttempts + 4
    BY <1>5 DEF Needed
  <2>2. /\ free \in Int /\ faults \in Int /\ faults' \in Int /\ free' \in Int
        /\ MaxFaults \in Int /\ MaxAttempts \in Int
        /\ Reserve \in Int
    BY <1>1, <1>5, ReserveAssumption, BoundAssumption
  <2>3. faults' >= 0
    BY <1>1, <1>5
  <2>4. free - 1 >= MaxAttempts + 4 + (MaxFaults - faults')
    BY <1>1, <2>2, <2>3, ReserveCovers
  <2>5. free' >= MaxAttempts + 4 + (MaxFaults - faults')
    BY <1>5, <2>4
  <2> QED BY <2>1, <2>5 DEF RoomForFaults
<1> QED BY <1>3, <1>4, <1>5

\* Each stage of the Bootloader takes the record it was promised.
LEMMA RoomAtBoot ==
    ASSUME IInv, IInv', RoomForFaults, Bootloader
    PROVE  RoomForFaults'
<1>1. faults' = faults
  BY BootAlone
<1>2. /\ free \in Nat /\ faults \in 0 .. MaxFaults
      /\ bcb \in Control /\ bcb.attempts \in 0 .. MaxAttempts
  BY ReserveAssumption DEF IInv, FlashInv, FlashTyped, Control
<1>3. CASE BootRun
  BY <1>1, <1>2, <1>3, RoomKept DEF BootRun, flash
<1>4. CASE BootBackup
  <2>1. bcb.state = "UPDATE_READY" /\ bcb'.state = "BACKUP_READY" /\ free' = free - 1
    BY <1>2, <1>4 DEF BootBackup, Store, Control
  <2> QED BY <1>1, <1>2, <2>1, ReserveAssumption, BoundAssumption
          DEF RoomForFaults, Needed, Updating
<1>5. CASE BootInstall
  <2>1. bcb.state = "BACKUP_READY" /\ bcb'.state = "INSTALLING" /\ free' = free - 1
    BY <1>2, <1>5 DEF BootInstall, Store, Control
  <2> QED BY <1>1, <1>2, <2>1, ReserveAssumption, BoundAssumption
          DEF RoomForFaults, Needed, Updating
<1>6. CASE BootTrial
  <2>1. /\ bcb.state = "INSTALLING" /\ bcb'.state = "TRIAL" /\ bcb'.attempts = 1
        /\ free' = free - 1
    BY <1>2, <1>6 DEF BootTrial, Store, Control
  <2> QED BY <1>1, <1>2, <2>1, ReserveAssumption, BoundAssumption
          DEF RoomForFaults, Needed, Updating
<1>7. CASE BootRetry
  <2>1. /\ bcb.state = "TRIAL" /\ bcb'.state = "TRIAL"
        /\ bcb'.attempts = bcb.attempts + 1 /\ free' = free - 1
    BY <1>2, <1>7 DEF BootRetry, Store, Control
  <2> QED BY <1>1, <1>2, <2>1, ReserveAssumption, BoundAssumption
          DEF RoomForFaults, Needed, Updating
<1>8. CASE BootRollback
  <2>1. /\ bcb.state = "TRIAL" /\ bcb'.state = "ROLLBACK"
        /\ bcb.attempts = MaxAttempts /\ free' = free - 1
    BY <1>2, <1>8 DEF BootRollback, Store, Control
  <2> QED BY <1>1, <1>2, <2>1, ReserveAssumption, BoundAssumption
          DEF RoomForFaults, Needed, Updating
<1>9. CASE BootRestore
  <2>1. bcb'.state \in {"EMPTY", "CONFIRMED"}
    BY <1>2, <1>9 DEF BootRestore, Store, Control, EmptyControl
  <2> QED BY <2>1 DEF RoomForFaults, Updating
<1> QED BY <1>3, <1>4, <1>5, <1>6, <1>7, <1>8, <1>9 DEF Bootloader

\* A confirmation either settles the update, or is tried again.
LEMMA RoomAtConfirmation ==
    ASSUME IInv, RoomForFaults, Confirmation \/ ConfirmRetry
    PROVE  RoomForFaults'
<1>1. /\ free \in Nat /\ faults \in 0 .. MaxFaults
      /\ bcb \in Control /\ bcb.attempts \in 0 .. MaxAttempts
  BY ReserveAssumption DEF IInv, FlashInv, FlashTyped, Control
<1>2. Confirmed.state = "CONFIRMED"
  BY <1>1 DEF Confirmed, Control
<1>3. CASE ConfirmNothing
  BY <1>1, <1>3, RoomKept DEF ConfirmNothing, flash
<1>4. CASE bcb' = Confirmed
  BY <1>2, <1>4 DEF RoomForFaults, Updating
<1>5. CASE /\ bcb' = bcb /\ free' \in {free, free - 1}
           /\ faults < MaxFaults /\ faults' = faults + 1
  <2>1. Needed' = Needed
    BY <1>5 DEF Needed
  <2>2. Needed \in Int
    BY <1>1, ReserveAssumption DEF Needed
  <2> QED BY <1>1, <1>5, <2>1, <2>2, BoundAssumption DEF RoomForFaults
<1> QED BY <1>3, <1>4, <1>5 DEF Confirmation, ConfirmTrial, ConfirmRetry, Store, StoreCut

\* No step of a poll but the last of a commit, and none of the link, appends.
LEMMA RoomElsewhere ==
    ASSUME IInv, RoomForFaults,
           \/ Poll /\ ~MarkUpdateReady
           \/ Sender \/ Tick \/ UNCHANGED vars
           \/ (FlashError \/ PowerLoss) /\ pc # "append"
    PROVE  RoomForFaults'
<1>1. faults \in 0 .. MaxFaults /\ faults \in Int /\ MaxFaults \in Nat
  BY BoundAssumption DEF IInv, FlashInv, FlashTyped
<1>2. CASE UNCHANGED <<bcb, free, faults>>
  BY <1>1, <1>2, RoomKept
<1>3. CASE FlashError /\ pc # "append"
  BY <1>1, <1>3, RoomKept DEF FlashError, Interrupted
<1>4. CASE PowerLoss /\ pc # "append"
  BY <1>2, <1>4 DEF PowerLoss, Interrupted
<1>5. CASE WriteChunk
  <2>1. UNCHANGED <<bcb, free>> /\ faults' \in faults .. MaxFaults
    BY <1>1, <1>5 DEF WriteChunk
  <2> QED BY <2>1, RoomKept
<1>6. CASE Poll /\ ~MarkUpdateReady /\ ~WriteChunk
  BY <1>2, <1>6 DEF Poll, PollIdle, PollStart, PollTimeout, PollData, PollFinish,
     PollSkip, ParseWait, ParseFail, HandleData, EraseSlot, WriteHeader,
     CommitHeader, CheckImage, FinalAck, SystemReset, flash
<1>7. CASE Sender
  BY <1>2, <1>7 DEF Sender, Connect, Disconnect, HostSend, HostAck, HostRestart, flash
<1>8. CASE Tick \/ UNCHANGED vars
  BY <1>2, <1>8 DEF Tick, vars, flash
<1> QED BY <1>3, <1>4, <1>5, <1>6, <1>7, <1>8

\* Once an update is under way the BCB has room for every record until it is
\* settled, if the reserve that was asked for covers the flash failures to come
\* (BOOT_CONTROL_UPDATE_RECORD_RESERVE).
THEOREM RoomForSettling ==
    ASSUME Reserve >= MaxAttempts + 5 + MaxFaults
    PROVE  Spec => []RoomToSettle
<1>1. Init => RoomForFaults
  <2> SUFFICES ASSUME Init PROVE RoomForFaults
    OBVIOUS
  <2>1. bcb.state \in {"EMPTY", "CONFIRMED"}
    BY DEF Init, EmptyControl
  <2> QED BY <2>1 DEF RoomForFaults, Updating
<1>2. IInv /\ IInv' /\ RoomForFaults /\ [Next]_vars => RoomForFaults'
  <2> SUFFICES ASSUME IInv, IInv', RoomForFaults, [Next]_vars
               PROVE  RoomForFaults'
    OBVIOUS
  <2>1. CASE MarkUpdateReady
    BY <2>1, RoomAtReady DEF MarkUpdateReady
  <2>2. CASE (FlashError \/ PowerLoss) /\ pc = "append"
    BY <2>2, RoomAtReady DEF FlashError, PowerLoss
  <2>3. CASE Bootloader
    BY <2>3, RoomAtBoot
  <2>4. CASE Confirmation \/ ConfirmRetry
    BY <2>4, RoomAtConfirmation
  <2> QED BY <2>1, <2>2, <2>3, <2>4, RoomElsewhere DEF Next
<1>3. IInv /\ RoomForFaults => RoomToSettle
  <2> SUFFICES ASSUME IInv, RoomForFaults, bcb.state \in Updating
               PROVE  free > 0
    BY DEF RoomToSettle
  <2>1. /\ free \in Nat /\ faults \in 0 .. MaxFaults
        /\ bcb.attempts \in 0 .. MaxAttempts
    BY ReserveAssumption DEF IInv, FlashInv, FlashTyped, Control
  <2>2. Needed \in Int /\ Needed >= 1
    BY <2>1, ReserveAssumption DEF Needed
  <2> QED BY <2>1, <2>2, BoundAssumption DEF RoomForFaults
<1> QED BY <1>1, <1>2, <1>3, Invariance, PTL DEF Spec

=============================================================================
