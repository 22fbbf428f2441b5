----------------------------- MODULE BootControl -----------------------------
(***************************************************************************)
(* The boot control block (BCB): boot_control.c over the programming       *)
(* primitives of boot_ota_port.c.                                          *)
(*                                                                         *)
(* The region is an array of 64-byte records.  A record is appended in two *)
(* programmed pieces, the 56-byte body and then the commit word, and the   *)
(* valid record with the largest sequence number is the status.  Power may *)
(* be lost between any two flash words, and programming a piece may fail.  *)
(*                                                                         *)
(* The APP and the Bootloader are built from this file.  Only the storage  *)
(* the Bootloader passes can erase: MayErase is FALSE for the APP, whose   *)
(* boot_ota_bcb_erase always fails.                                        *)
(***************************************************************************)
EXTENDS Integers

CONSTANTS
    NumRecords,     \* region_size / BOOT_CONTROL_RECORD_SIZE
    Status,         \* the statuses boot_control_record_encode accepts
    NoStatus,       \* what read_boot_control makes of an empty region
    MaxSequence,    \* 0xFFFFFFFF
    MayErase        \* whether storage->erase can succeed

ASSUME NumRecordsAssumption == NumRecords \in Nat \ {0}
ASSUME StatusAssumption == NoStatus \notin Status
ASSUME MaxSequenceAssumption == MaxSequence \in Nat \ {0}
ASSUME MayEraseAssumption == MayErase \in BOOLEAN

VARIABLES
    region,         \* the flash words of each record, as decode tells them apart
    op,             \* the call in progress on the main thread
    result          \* what the last call returned, "none" while it runs

vars == <<region, op, result>>

Cells == 0 .. NumRecords - 1
Sequences == 1 .. MaxSequence

(***************************************************************************)
(* A record is erased (all 0xFF), torn (something is programmed, decode    *)
(* refuses it for good), a body that lacks only its commit word, or        *)
(* committed.  The CRC is what tells a torn body from a whole one; it is   *)
(* taken to be collision free.                                             *)
(***************************************************************************)
Erased == [form |-> "erased"]
Torn == [form |-> "torn"]
Body(n, s) == [form |-> "body", sequence |-> n, status |-> s]
Committed(n, s) == [form |-> "committed", sequence |-> n, status |-> s]

Record ==
    {Erased, Torn}
        \cup [form : {"body", "committed"}, sequence : Sequences, status : Status]

PCs == {"idle", "erase", "body", "commit"}

TypeOK ==
    /\ region \in [Cells -> Record]
    /\ op \in [pc : PCs, recycle : BOOLEAN, cell : Cells,
               sequence : Sequences, status : Status]
    /\ result \in {"none", "ok", "fail"}

-----------------------------------------------------------------------------
(* Reading a region r (the storage argument of the C functions).           *)

\* boot_control_record_decode accepts the record.
Valid(rec) == rec.form = "committed"

ValidCells(r) == {c \in Cells : Valid(r[c])}
ErasedCells(r) == {c \in Cells : r[c] = Erased}

\* Mutant: the first valid record wins.
OldestCell(r) ==
    CHOOSE c \in ValidCells(r) : \A d \in ValidCells(r) : c <= d

\* The scan keeps a record only when its sequence is larger than the best so far.
Newest(r) ==
    CHOOSE c \in ValidCells(r) :
        \A d \in ValidCells(r) :
            \/ r[d].sequence < r[c].sequence
            \/ r[d].sequence = r[c].sequence /\ c <= d

\* boot_control_load, with the default boot_ota_read_boot_control supplies.
Load(r) == IF ValidCells(r) = {} THEN NoStatus ELSE r[Newest(r)].status

\* Mutant: the next record repeats the newest sequence number.
SameSequence(r) == IF ValidCells(r) = {} THEN 1 ELSE r[Newest(r)].sequence

\* The sequence number of the next record, one past the newest.
NextSequence(r) == IF ValidCells(r) = {} THEN 1 ELSE r[Newest(r)].sequence + 1

\* Mutant: a torn record passes for a free one.
FirstInvalid(r) ==
    CHOOSE c \in Cells \ ValidCells(r) : \A d \in Cells \ ValidCells(r) : c <= d

\* The append scan stops at the first erased record.
FirstErased(r) == CHOOSE c \in ErasedCells(r) : \A d \in ErasedCells(r) : c <= d

\* Mutant: the last sequence number is not looked at.
CanAppendAny(r) == ErasedCells(r) # {}

CanAppend(r) == NextSequence(r) <= MaxSequence /\ ErasedCells(r) # {}

-----------------------------------------------------------------------------
Init ==
    /\ region = [c \in Cells |-> Erased]
    /\ op \in [pc : {"idle"}, recycle : {FALSE}, cell : {0}, sequence : {1},
               status : Status]
    /\ result = "none"

Return(r) ==
    /\ op' = [op EXCEPT !.pc = "idle"]
    /\ result' = r

\* boot_control_append up to its first program call.
Append(s) ==
    /\ op.pc = "idle"
    /\ CanAppend(region)
    /\ op' = [pc |-> "body", recycle |-> FALSE, cell |-> FirstErased(region),
              sequence |-> NextSequence(region), status |-> s]
    /\ result' = "none"
    /\ UNCHANGED region

\* boot_control_append on a full region or at the last sequence number.
AppendRefused ==
    /\ op.pc = "idle"
    /\ ~CanAppend(region)
    /\ result' = "fail"
    /\ UNCHANGED <<region, op>>

\* boot_control_recycle up to its erase call, which the APP's storage refuses.
Recycle(s) ==
    /\ op.pc = "idle"
    /\ MayErase
    /\ op' = [op EXCEPT !.pc = "erase", !.recycle = TRUE, !.status = s]
    /\ result' = "none"
    /\ UNCHANGED region

RecycleRefused ==
    /\ op.pc = "idle"
    /\ ~MayErase
    /\ result' = "fail"
    /\ UNCHANGED <<region, op>>

\* Mutant: only the record about to be written is erased.
EraseFirstRecord ==
    /\ op.pc = "erase"
    /\ region' = [region EXCEPT ![0] = Erased]
    /\ op' = [op EXCEPT !.pc = "body", !.cell = 0, !.sequence = 1]
    /\ UNCHANGED result

\* The erase succeeds; record 0 gets the status with sequence 1.
EraseRegion ==
    /\ op.pc = "erase"
    /\ region' = [c \in Cells |-> Erased]
    /\ op' = [op EXCEPT !.pc = "body", !.cell = 0, !.sequence = 1]
    /\ UNCHANGED result

\* Mutant: the commit marker is programmed with the body.
ProgramWhole ==
    /\ op.pc = "body"
    /\ region' = [region EXCEPT ![op.cell] = Committed(op.sequence, op.status)]
    /\ op' = [op EXCEPT !.pc = "commit"]
    /\ UNCHANGED result

ProgramBody ==
    /\ op.pc = "body"
    /\ region' = [region EXCEPT ![op.cell] = Body(op.sequence, op.status)]
    /\ op' = [op EXCEPT !.pc = "commit"]
    /\ UNCHANGED result

ProgramCommit ==
    /\ op.pc = "commit"
    /\ region' = [region EXCEPT ![op.cell] = Committed(op.sequence, op.status)]
    /\ Return("ok")

-----------------------------------------------------------------------------
(***************************************************************************)
(* Interrupted flash operations.  HAL_FLASH_Program of a word may fail     *)
(* having done nothing, something or everything; the body stops at the     *)
(* word that failed.  An erase that is cut leaves each record as it was,   *)
(* damaged or erased.                                                      *)
(***************************************************************************)
CutErase ==
    /\ op.pc = "erase"
    /\ \E kept, damaged \in SUBSET Cells :
          region' = [c \in Cells |-> IF c \in kept THEN region[c]
                                     ELSE IF c \in damaged THEN Torn ELSE Erased]

CutBody ==
    /\ op.pc = "body"
    /\ \E r \in {Erased, Torn, Body(op.sequence, op.status)} :
          region' = [region EXCEPT ![op.cell] = r]

CutCommit ==
    /\ op.pc = "commit"
    /\ \E r \in {Body(op.sequence, op.status), Torn,
                 Committed(op.sequence, op.status)} :
          region' = [region EXCEPT ![op.cell] = r]

Cut == CutErase \/ CutBody \/ CutCommit

\* The flash reports an error: the call returns false where it stands.
FlashError ==
    /\ Cut
    /\ Return("fail")

\* Power is lost during a call: only the region survives.
PowerLoss ==
    /\ Cut
    /\ Return("none")

-----------------------------------------------------------------------------
Next ==
    \/ \E s \in Status : Append(s) \/ Recycle(s)
    \/ AppendRefused
    \/ RecycleRefused
    \/ EraseRegion
    \/ ProgramBody
    \/ ProgramCommit
    \/ FlashError
    \/ PowerLoss

Spec == Init /\ [][Next]_vars

-----------------------------------------------------------------------------
(* Properties.                                                             *)

\* No two valid records share a sequence number, so that "the largest" names
\* one record whatever crashes left in the region (boot_control_load relies on it).
UniqueSequences ==
    \A c, d \in ValidCells(region) :
        region[c].sequence = region[d].sequence => c = d

\* When a call has returned true, a reader gets exactly the status it stored
\* (boot_control_append's and boot_control_recycle's return values).
OkIsLoaded == op.pc = "idle" /\ result = "ok" => Load(region) = op.status

\* Outside a recycle a valid record is never altered and an erased record is
\* taken only by the append under way: "append only, never overwrite an old state".
AppendOnly ==
    [][ op.pc # "erase" =>
          \A c \in Cells : region[c] # Erased /\ region'[c] # region[c] =>
              op.pc = "commit" /\ c = op.cell ]_vars

\* The write in progress, as BootRegister sees it.
write ==
    IF op.pc = "idle" THEN [kind |-> "idle", status |-> NoStatus]
    ELSE [kind |-> IF op.recycle THEN "recycle" ELSE "append", status |-> op.status]

Register == INSTANCE BootRegister WITH current <- Load(region)

\* While an append runs, and after it is cut anywhere, a reader gets the old
\* status or the new one, whole: the BCB is the register of BootRegister
\* ("the commit marker is written last, so that a power loss falls back").
ImplementsRegister == Register!Spec
=============================================================================
