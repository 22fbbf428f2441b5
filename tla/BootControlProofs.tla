-------------------------- MODULE BootControlProofs --------------------------
(***************************************************************************)
(* Proofs about the boot control block for every region size, every set of *)
(* statuses and every sequence limit, with or without recycling.           *)
(***************************************************************************)
EXTENDS BootControl, WellFoundedInduction, TLAPS

Unique(r) == \A c, d \in ValidCells(r) : r[c].sequence = r[d].sequence => c = d

(***************************************************************************)
(* The inductive invariant.  UniqueSequences is not inductive by itself:   *)
(* the record being written must be newer than every valid one, and the    *)
(* cell it is written to must hold exactly what was programmed so far.     *)
(* Only a recycle erases.                                                  *)
(***************************************************************************)
OpIsNewest ==
    op.pc \in {"body", "commit"} =>
        \A c \in ValidCells(region) : region[c].sequence < op.sequence

CellInHand ==
    /\ op.pc = "body" => region[op.cell] = Erased
    /\ op.pc = "commit" => region[op.cell] = Body(op.sequence, op.status)
    /\ op.pc = "erase" => op.recycle

IInv == TypeOK /\ UniqueSequences /\ OpIsNewest /\ CellInHand /\ OkIsLoaded

-----------------------------------------------------------------------------
(* Facts about reading a region.                                           *)

\* A valid record has a sequence number and a status.
LEMMA ValidFields ==
    ASSUME NEW r \in [Cells -> Record], NEW c \in ValidCells(r)
    PROVE  c \in Cells /\ r[c].sequence \in Sequences /\ r[c].status \in Status
BY DEF ValidCells, Record, Valid, Erased, Torn

\* Every non-empty set of naturals has a least element.
LEMMA LeastNatural ==
    ASSUME NEW S \in SUBSET Nat, S # {}
    PROVE  \E m \in S : \A n \in S : m <= n
<1> DEFINE Less == {ss \in Nat \X Nat : ss[1] < ss[2]}
<1>1. IsWellFoundedOn(Less, Nat)
  BY NatLessThanWellFounded, Zenon DEF OpToRel
<1> HIDE DEF Less
<1>2. PICK m \in S : \A n \in S : ~(<<n, m>> \in Less)
  BY <1>1, WFMin
<1>3. \A n \in S : n \in Nat /\ m \in Nat /\ ~(n < m)
  BY <1>2 DEF Less
<1>4. QED
  BY <1>3

\* The boot_control_load scan finds a record no valid record is newer than.
LEMMA NewestExists ==
    ASSUME NEW r \in [Cells -> Record], Unique(r), ValidCells(r) # {}
    PROVE  /\ Newest(r) \in ValidCells(r)
           /\ \A d \in ValidCells(r) : r[d].sequence <= r[Newest(r)].sequence
<1> DEFINE age(c) == MaxSequence - r[c].sequence
           Ages == {age(c) : c \in ValidCells(r)}
<1>1. \A c \in ValidCells(r) : c \in Cells /\ r[c].sequence \in Sequences
  BY ValidFields
<1>2. Ages \in SUBSET Nat /\ Ages # {}
  BY <1>1, MaxSequenceAssumption DEF Sequences
<1> HIDE DEF Ages
<1>3. PICK least \in Ages : \A a \in Ages : least <= a
  BY <1>2, LeastNatural
<1>4. PICK c \in ValidCells(r) : least = age(c)
  BY DEF Ages
<1>5. \A d \in ValidCells(r) : r[d].sequence <= r[c].sequence
  <2>1. SUFFICES ASSUME NEW d \in ValidCells(r)
                 PROVE  r[d].sequence <= r[c].sequence
    OBVIOUS
  <2>2. age(d) \in Nat /\ age(c) \in Nat /\ age(c) <= age(d)
    BY <1>2, <1>3, <1>4 DEF Ages
  <2>3. QED
    BY <1>1, <2>2, MaxSequenceAssumption DEF Sequences
<1>6. \A d \in ValidCells(r) :
          \/ r[d].sequence < r[c].sequence
          \/ r[d].sequence = r[c].sequence /\ c <= d
  <2>1. SUFFICES ASSUME NEW d \in ValidCells(r), r[d].sequence = r[c].sequence
                 PROVE  c <= d
    BY <1>1, <1>5, MaxSequenceAssumption DEF Sequences
  <2>2. d = c
    BY <2>1 DEF Unique
  <2>3. QED
    BY <1>1, <2>2, NumRecordsAssumption DEF Cells
<1>7. Newest(r) \in ValidCells(r) /\ \A d \in ValidCells(r) :
          \/ r[d].sequence < r[Newest(r)].sequence
          \/ r[d].sequence = r[Newest(r)].sequence /\ Newest(r) <= d
  BY <1>6 DEF Newest
<1>8. QED
  BY <1>1, <1>7, MaxSequenceAssumption DEF Sequences

\* The next record is newer than every valid one.
LEMMA NextIsNewest ==
    ASSUME NEW r \in [Cells -> Record], Unique(r)
    PROVE  /\ NextSequence(r) \in Nat \ {0}
           /\ \A c \in ValidCells(r) : r[c].sequence < NextSequence(r)
<1>1. \A c \in ValidCells(r) : r[c].sequence \in Sequences
  BY ValidFields
<1>2. CASE ValidCells(r) = {}
  BY <1>2 DEF NextSequence
<1>3. CASE ValidCells(r) # {}
  BY <1>1, <1>3, NewestExists, MaxSequenceAssumption DEF NextSequence, Sequences
<1>4. QED
  BY <1>2, <1>3

\* The append scan stops at an erased cell, if there is one.
LEMMA FirstErasedIsErased ==
    ASSUME NEW r, ErasedCells(r) # {}
    PROVE  FirstErased(r) \in Cells /\ r[FirstErased(r)] = Erased
<1>1. ErasedCells(r) \in SUBSET Nat
  BY NumRecordsAssumption DEF ErasedCells, Cells
<1>2. \E c \in ErasedCells(r) : \A d \in ErasedCells(r) : c <= d
  BY <1>1, LeastNatural
<1>3. FirstErased(r) \in ErasedCells(r)
  BY <1>2 DEF FirstErased
<1>4. QED
  BY <1>3 DEF ErasedCells

\* A valid record newer than all the others is the one loaded.
LEMMA LoadNewest ==
    ASSUME NEW r \in [Cells -> Record], NEW c \in ValidCells(r),
           \A d \in ValidCells(r) \ {c} : r[d].sequence < r[c].sequence
    PROVE  Load(r) = r[c].status
<1>1. \A d \in ValidCells(r) : d \in Cells /\ r[d].sequence \in Sequences
  BY ValidFields
<1>2. \A d \in ValidCells(r) : \/ r[d].sequence < r[c].sequence
                               \/ r[d].sequence = r[c].sequence /\ c <= d
  BY <1>1, NumRecordsAssumption DEF Cells
<1>3. \A e \in ValidCells(r) :
        (\A d \in ValidCells(r) : \/ r[d].sequence < r[e].sequence
                                  \/ r[d].sequence = r[e].sequence /\ e <= d)
        => e = c
  BY <1>1, MaxSequenceAssumption DEF Sequences
<1>4. Newest(r) = c
  BY <1>2, <1>3 DEF Newest
<1>5. QED
  BY <1>4 DEF Load

\* Two regions with the same valid records load the same status.
LEMMA LoadSame ==
    ASSUME NEW r \in [Cells -> Record], NEW q \in [Cells -> Record], Unique(r),
           ValidCells(q) = ValidCells(r),
           \A c \in ValidCells(r) : q[c] = r[c]
    PROVE  Load(q) = Load(r)
<1>1. CASE ValidCells(r) = {}
  BY <1>1 DEF Load
<1>2. CASE ValidCells(r) # {}
  <2> DEFINE c == Newest(r)
  <2>1. c \in ValidCells(r) /\ \A d \in ValidCells(r) : r[d].sequence <= r[c].sequence
    BY <1>2, NewestExists
  <2> HIDE DEF c
  <2>2. \A d \in ValidCells(r) : r[d].sequence \in Sequences
    BY ValidFields
  <2>3. \A d \in ValidCells(r) \ {c} : r[d].sequence < r[c].sequence
    BY <2>1, <2>2, MaxSequenceAssumption DEF Unique, Sequences
  <2>4. Load(r) = r[c].status
    BY <2>1, <2>3, LoadNewest
  <2>5. Load(q) = q[c].status
    BY <2>1, <2>3, LoadNewest
  <2>6. QED
    BY <2>1, <2>4, <2>5
<1>3. QED
  BY <1>1, <1>2

\* What a reader gets is a status, or the default.
LEMMA LoadType ==
    ASSUME NEW r \in [Cells -> Record], Unique(r)
    PROVE  Load(r) \in Status \cup {NoStatus}
<1>1. CASE ValidCells(r) = {}
  BY <1>1 DEF Load
<1>2. CASE ValidCells(r) # {}
  BY <1>2, NewestExists, ValidFields DEF Load
<1>3. QED
  BY <1>1, <1>2

-----------------------------------------------------------------------------
(***************************************************************************)
(* Every step either keeps the region, commits the record in hand, or      *)
(* leaves no valid record that was not there before (a Loss, or a Keep     *)
(* when it leaves them all).                                               *)
(***************************************************************************)
Loss ==
    \A c \in ValidCells(region') : c \in ValidCells(region) /\ region'[c] = region[c]

Keep ==
    /\ ValidCells(region') = ValidCells(region)
    /\ \A c \in ValidCells(region) : region'[c] = region[c]

Commit ==
    /\ op.pc = "commit"
    /\ region' = [region EXCEPT ![op.cell] = Committed(op.sequence, op.status)]

\* The records the journal programs are records.
LEMMA Forms ==
    /\ Erased \in Record /\ Torn \in Record
    /\ \A n \in Sequences, s \in Status :
          /\ Body(n, s) \in Record
          /\ Committed(n, s) \in Record
          /\ Valid(Committed(n, s)) /\ ~Valid(Body(n, s))
          /\ Committed(n, s).sequence = n /\ Committed(n, s).status = s
    /\ ~Valid(Erased) /\ ~Valid(Torn)
BY DEF Record, Erased, Torn, Body, Committed, Valid

\* There is a first record and a first sequence number, those of a recycle.
LEMMA FirstCell == 0 \in Cells /\ 1 \in Sequences
BY NumRecordsAssumption, MaxSequenceAssumption DEF Cells, Sequences

\* Programming an invalid record over an invalid one changes no valid record.
LEMMA InvalidOverInvalid ==
    ASSUME TypeOK, NEW rec \in Record, ~Valid(region[op.cell]), ~Valid(rec),
           region' = [region EXCEPT ![op.cell] = rec]
    PROVE  /\ region' \in [Cells -> Record]
           /\ ValidCells(region') = ValidCells(region)
           /\ \A d \in ValidCells(region) : region'[d] = region[d]
<1>1. region \in [Cells -> Record] /\ op.cell \in Cells
  BY DEF TypeOK
<1>2. /\ region' \in [Cells -> Record]
      /\ region'[op.cell] = rec
      /\ \A d \in Cells \ {op.cell} : region'[d] = region[d]
  BY <1>1
<1>3. QED
  BY <1>1, <1>2 DEF ValidCells

\* Committing the record in hand adds one valid record, the newest.
LEMMA CommitAdds ==
    ASSUME TypeOK, OpIsNewest, CellInHand, Commit
    PROVE  /\ region' \in [Cells -> Record]
           /\ ValidCells(region') = ValidCells(region) \cup {op.cell}
           /\ op.cell \notin ValidCells(region)
           /\ \A d \in ValidCells(region) : region'[d] = region[d]
           /\ region'[op.cell] = Committed(op.sequence, op.status)
           /\ Load(region') = op.status
<1>1. op.cell \in Cells /\ op.sequence \in Sequences /\ op.status \in Status
  BY DEF TypeOK
<1>2. ~Valid(region[op.cell])
  BY <1>1, Forms DEF CellInHand, Commit
<1>3. region \in [Cells -> Record]
  BY DEF TypeOK
<1>4. /\ region' \in [Cells -> Record]
      /\ region'[op.cell] = Committed(op.sequence, op.status)
      /\ \A d \in Cells \ {op.cell} : region'[d] = region[d]
  BY <1>1, <1>3, Forms DEF Commit
<1>5. /\ ValidCells(region') = ValidCells(region) \cup {op.cell}
      /\ op.cell \notin ValidCells(region)
      /\ \A d \in ValidCells(region) : region'[d] = region[d]
  BY <1>1, <1>2, <1>4, Forms DEF ValidCells
<1>6. \A d \in ValidCells(region') \ {op.cell} :
        region'[d].sequence < region'[op.cell].sequence
  BY <1>1, <1>4, <1>5, Forms DEF OpIsNewest, Commit
<1>7. Load(region') = op.status
  BY <1>1, <1>4, <1>5, <1>6, LoadNewest, Forms
<1>8. QED
  BY <1>4, <1>5, <1>7

\* A step that adds no valid record keeps the sequence numbers unique.
LEMMA LossKeepsUnique ==
    ASSUME UniqueSequences, Loss
    PROVE  UniqueSequences'
BY DEF UniqueSequences, Loss

\* So does the commit of a record that is newer than every valid one.
LEMMA CommitKeepsUnique ==
    ASSUME TypeOK, UniqueSequences, OpIsNewest, CellInHand, Commit
    PROVE  UniqueSequences'
<1>1. \A c \in ValidCells(region) : region[c].sequence < op.sequence
  BY DEF OpIsNewest, Commit
<1>2. \A c \in ValidCells(region) : region[c].sequence \in Sequences
  BY ValidFields DEF TypeOK
<1>3. region'[op.cell].sequence = op.sequence /\ op.sequence \in Sequences
  BY CommitAdds, Forms DEF TypeOK
<1>4. \A c \in ValidCells(region) : region'[c].sequence # op.sequence
  BY <1>1, <1>2, <1>3, CommitAdds, MaxSequenceAssumption DEF Sequences
<1>5. SUFFICES ASSUME NEW c \in ValidCells(region'), NEW d \in ValidCells(region'),
                      region'[c].sequence = region'[d].sequence
               PROVE  c = d
  BY DEF UniqueSequences
<1>6. CASE c \in ValidCells(region) /\ d \in ValidCells(region)
  BY <1>5, <1>6, CommitAdds DEF UniqueSequences
<1>7. CASE c = op.cell \/ d = op.cell
  BY <1>3, <1>4, <1>5, <1>7, CommitAdds
<1>8. QED
  BY <1>6, <1>7, CommitAdds

\* An interrupted flash operation commits the record in hand, or only loses.
LEMMA CutEffect ==
    ASSUME TypeOK, CellInHand, Cut
    PROVE  /\ region' \in [Cells -> Record]
           /\ Commit \/ Keep \/ (op.pc = "erase" /\ Loss)
<1>1. region \in [Cells -> Record] /\ op.cell \in Cells
      /\ op.sequence \in Sequences /\ op.status \in Status
  BY DEF TypeOK
<1>2. CASE CutErase
  <2>1. PICK kept \in SUBSET Cells, damaged \in SUBSET Cells :
          region' = [c \in Cells |-> IF c \in kept THEN region[c]
                                    ELSE IF c \in damaged THEN Torn ELSE Erased]
    BY <1>2 DEF CutErase
  <2>2. region' \in [Cells -> Record]
    BY <1>1, <2>1, Forms
  <2>3. Loss
    BY <1>1, <2>1, Forms DEF Loss, ValidCells
  <2>4. QED
    BY <1>2, <2>2, <2>3 DEF CutErase
<1>3. CASE CutBody
  <2>1. PICK r \in {Erased, Torn, Body(op.sequence, op.status)} :
          region' = [region EXCEPT ![op.cell] = r]
    BY <1>3 DEF CutBody
  <2>2. ~Valid(region[op.cell]) /\ ~Valid(r) /\ r \in Record
    BY <1>1, <1>3, <2>1, Forms DEF CellInHand, CutBody
  <2>3. QED
    BY <1>1, <2>1, <2>2, InvalidOverInvalid DEF Keep
<1>4. CASE CutCommit
  <2>1. PICK r \in {Body(op.sequence, op.status), Torn,
                    Committed(op.sequence, op.status)} :
          region' = [region EXCEPT ![op.cell] = r]
    BY <1>4 DEF CutCommit
  <2>2. CASE r = Committed(op.sequence, op.status)
    BY <1>1, <1>4, <2>1, <2>2, Forms DEF Commit, CutCommit
  <2>3. CASE r # Committed(op.sequence, op.status)
    <3>1. ~Valid(region[op.cell]) /\ ~Valid(r) /\ r \in Record
      BY <1>1, <1>4, <2>1, <2>3, Forms DEF CellInHand, CutCommit
    <3>2. QED
      BY <1>1, <2>1, <3>1, InvalidOverInvalid DEF Keep
  <2>4. QED
    BY <2>2, <2>3
<1>5. QED
  BY <1>2, <1>3, <1>4 DEF Cut

-----------------------------------------------------------------------------
\* The erased region satisfies the invariant.
LEMMA InitIInv == Init => IInv
<1> SUFFICES ASSUME Init
             PROVE  IInv
  OBVIOUS
<1>1. TypeOK
  BY Forms, FirstCell DEF Init, TypeOK, PCs
<1>2. ValidCells(region) = {}
  BY Forms DEF Init, ValidCells
<1>3. QED
  BY <1>1, <1>2 DEF IInv, Init, UniqueSequences, OpIsNewest, CellInHand, OkIsLoaded

\* Every step of the journal preserves the invariant.
LEMMA NextIInv == IInv /\ [Next]_vars => IInv'
<1> SUFFICES ASSUME IInv, [Next]_vars
             PROVE  IInv'
  OBVIOUS
<1> USE DEF IInv
<1>1. region \in [Cells -> Record] /\ op.cell \in Cells
      /\ op.sequence \in Sequences /\ op.status \in Status
      /\ Unique(region)
  BY DEF TypeOK, UniqueSequences, Unique
<1>2. CASE UNCHANGED vars
  BY <1>2 DEF vars, TypeOK, UniqueSequences, OpIsNewest, CellInHand, OkIsLoaded
<1>3. ASSUME NEW s \in Status, Append(s)
      PROVE  IInv'
  <2>1. NextSequence(region) \in Sequences
        /\ \A c \in ValidCells(region) : region[c].sequence < NextSequence(region)
    BY <1>1, <1>3, NextIsNewest, MaxSequenceAssumption
       DEF Append, CanAppend, Sequences
  <2>2. FirstErased(region) \in Cells /\ region[FirstErased(region)] = Erased
    BY <1>3, FirstErasedIsErased DEF Append, CanAppend
  <2>3. TypeOK'
    BY <1>3, <2>1, <2>2 DEF Append, TypeOK, PCs
  <2>4. QED
    BY <1>3, <2>1, <2>2, <2>3
       DEF Append, UniqueSequences, OpIsNewest, CellInHand, OkIsLoaded
<1>4. CASE AppendRefused \/ RecycleRefused
  BY <1>4 DEF AppendRefused, RecycleRefused, TypeOK, UniqueSequences,
              OpIsNewest, CellInHand, OkIsLoaded
<1>5. ASSUME NEW s \in Status, Recycle(s)
      PROVE  IInv'
  BY <1>5 DEF Recycle, TypeOK, PCs, UniqueSequences, OpIsNewest, CellInHand,
              OkIsLoaded
<1>6. CASE EraseRegion
  <2>1. region' \in [Cells -> Record] /\ ValidCells(region') = {}
    BY <1>6, Forms DEF EraseRegion, ValidCells
  <2>2. region'[0] = Erased
    BY <1>6, FirstCell DEF EraseRegion
  <2>3. TypeOK'
    BY <1>6, <2>1, FirstCell DEF EraseRegion, TypeOK, PCs
  <2>4. QED
    BY <1>6, <2>1, <2>2, <2>3
       DEF EraseRegion, TypeOK, UniqueSequences, OpIsNewest, CellInHand, OkIsLoaded
<1>7. CASE ProgramBody
  <2>1. ~Valid(region[op.cell]) /\ ~Valid(Body(op.sequence, op.status))
        /\ Body(op.sequence, op.status) \in Record
    BY <1>1, <1>7, Forms DEF ProgramBody, CellInHand
  <2>2. /\ region' \in [Cells -> Record]
        /\ ValidCells(region') = ValidCells(region)
        /\ \A d \in ValidCells(region) : region'[d] = region[d]
    BY <1>1, <1>7, <2>1, InvalidOverInvalid DEF ProgramBody
  <2>3. TypeOK'
    BY <1>7, <2>2 DEF ProgramBody, TypeOK, PCs
  <2>4. /\ op'.pc = "commit" /\ op'.cell = op.cell
        /\ op'.sequence = op.sequence /\ op'.status = op.status
        /\ region'[op.cell] = Body(op.sequence, op.status)
    BY <1>1, <1>7 DEF ProgramBody, TypeOK
  <2>5. UniqueSequences'
    BY <2>2, LossKeepsUnique DEF Loss
  <2>6. \A c \in ValidCells(region) : region[c].sequence < op.sequence
    BY <1>7 DEF ProgramBody, OpIsNewest
  <2>7. OpIsNewest'
    BY <2>2, <2>4, <2>6 DEF OpIsNewest
  <2>8. QED
    BY <2>3, <2>4, <2>5, <2>7 DEF CellInHand, OkIsLoaded
<1>8. CASE ProgramCommit
  <2>1. Commit /\ op'.pc = "idle" /\ op'.status = op.status /\ result' = "ok"
    BY <1>8 DEF ProgramCommit, Commit, Return, TypeOK
  <2>2. TypeOK'
    BY <1>8, <2>1, CommitAdds DEF ProgramCommit, Return, TypeOK, PCs
  <2>3. UniqueSequences' /\ Load(region') = op.status
    BY <2>1, CommitAdds, CommitKeepsUnique
  <2>4. QED
    BY <2>1, <2>2, <2>3 DEF OpIsNewest, CellInHand, OkIsLoaded
<1>9. CASE FlashError \/ PowerLoss
  <2>1. Cut /\ op'.pc = "idle" /\ result' \in {"fail", "none"}
    BY <1>9 DEF FlashError, PowerLoss, Return, TypeOK
  <2>2. TypeOK'
    BY <1>9, <2>1, CutEffect DEF FlashError, PowerLoss, Return, TypeOK, PCs
  <2>3. UniqueSequences'
    BY <2>1, CutEffect, CommitKeepsUnique, LossKeepsUnique DEF Keep, Loss
  <2>4. QED
    BY <2>1, <2>2, <2>3 DEF OpIsNewest, CellInHand, OkIsLoaded
<1>10. QED
  BY <1>2, <1>3, <1>4, <1>5, <1>6, <1>7, <1>8, <1>9 DEF Next

\* The journal's invariant holds of every behaviour.
THEOREM Invariance == Spec => []IInv
BY InitIInv, NextIInv, PTL DEF Spec

\* The region only ever holds erased, torn or well-formed records, and the call
\* in progress names a record of the region (boot_control_append).
THEOREM TypeCorrect == Spec => []TypeOK
<1>1. IInv => TypeOK
  BY DEF IInv
<1>2. QED
  BY <1>1, Invariance, PTL

\* In every reachable region, sequence numbers tell the valid records apart,
\* whatever power losses and flash errors happened (boot_control_load).
THEOREM SequencesAreUnique == Spec => []UniqueSequences
<1>1. IInv => UniqueSequences
  BY DEF IInv
<1>2. QED
  BY <1>1, Invariance, PTL

\* When boot_control_append or boot_control_recycle has returned true, a reader
\* gets the status it was given.
THEOREM OkMeansLoaded == Spec => []OkIsLoaded
<1>1. IInv => OkIsLoaded
  BY DEF IInv
<1>2. QED
  BY <1>1, Invariance, PTL

\* Outside a recycle's erase, programmed records change only by the commit of
\* the record under way ("append only", boot_control_append).
THEOREM AppendsOnly == Spec => AppendOnly
<1>1. IInv /\ [Next]_vars =>
        [op.pc # "erase" =>
           \A c \in Cells : region[c] # Erased /\ region'[c] # region[c] =>
              op.pc = "commit" /\ c = op.cell]_vars
  <2>1. SUFFICES ASSUME IInv, [Next]_vars, op.pc # "erase",
                        NEW c \in Cells, region[c] # Erased,
                        region'[c] # region[c]
                 PROVE  op.pc = "commit" /\ c = op.cell
    OBVIOUS
  <2>2. region \in [Cells -> Record] /\ op.cell \in Cells
        /\ (op.pc = "body" => region[op.cell] = Erased)
    BY <2>1 DEF IInv, TypeOK, CellInHand
  <2>3. CASE UNCHANGED region
    BY <2>1, <2>3
  <2>4. CASE /\ op.pc \in {"body", "commit"}
             /\ \A d \in Cells \ {op.cell} : region'[d] = region[d]
    BY <2>1, <2>2, <2>4
  <2>5. \/ UNCHANGED region
        \/ /\ op.pc \in {"body", "commit"}
           /\ \A d \in Cells \ {op.cell} : region'[d] = region[d]
    <3>1. CASE Cut
      BY <2>1, <2>2, <3>1 DEF Cut, CutErase, CutBody, CutCommit
    <3>2. CASE ProgramBody
      BY <2>2, <3>2 DEF ProgramBody
    <3>3. CASE ProgramCommit
      BY <2>2, <3>3 DEF ProgramCommit
    <3>4. CASE UNCHANGED vars \/ AppendRefused \/ RecycleRefused
      BY <3>4 DEF vars, AppendRefused, RecycleRefused
    <3>5. CASE \E s \in Status : Append(s) \/ Recycle(s)
      BY <3>5 DEF Append, Recycle
    <3>6. CASE EraseRegion
      BY <2>1, <3>6 DEF EraseRegion
    <3>7. QED
      BY <2>1, <3>1, <3>2, <3>3, <3>4, <3>5, <3>6 DEF Next, FlashError, PowerLoss
  <2>6. QED
    BY <2>3, <2>4, <2>5
<1>2. QED
  BY <1>1, Invariance, PTL DEF Spec, AppendOnly

-----------------------------------------------------------------------------
(* The journal is the register of BootRegister.                            *)

\* The erased region is the empty register.
LEMMA InitRegister == Init => Register!Init
<1> SUFFICES ASSUME Init
             PROVE  Register!Init
  OBVIOUS
<1>1. ValidCells(region) = {}
  BY Forms DEF Init, ValidCells
<1>2. QED
  BY <1>1 DEF Init, Register!Init, Register!Idle, write, Load

\* A step that keeps the valid records keeps the status.
LEMMA KeepLoad ==
    ASSUME IInv, region' \in [Cells -> Record], Keep
    PROVE  Load(region') = Load(region)
BY LoadSame DEF IInv, TypeOK, UniqueSequences, Unique, Keep

\* Every step of the journal is a step of the register, or leaves it alone.
LEMMA NextRegister ==
    IInv /\ IInv' /\ [Next]_vars => [Register!Next]_(Register!vars)
<1> SUFFICES ASSUME IInv, IInv', [Next]_vars
             PROVE  [Register!Next]_(Register!vars)
  OBVIOUS
<1>1. /\ op \in [pc : PCs, recycle : BOOLEAN, cell : Cells,
                 sequence : Sequences, status : Status]
      /\ region \in [Cells -> Record] /\ region' \in [Cells -> Record]
      /\ Unique(region')
  BY DEF IInv, TypeOK, UniqueSequences, Unique
<1>2. Load(region') \in Status \cup {NoStatus}
  BY <1>1, LoadType
<1> DEFINE kind == IF op.recycle THEN "recycle" ELSE "append"
<1>3. op.pc # "idle" => /\ write = [kind |-> kind, status |-> op.status]
                        /\ write # Register!Idle
                        /\ write.status = op.status
                        /\ (op.recycle => write.kind = "recycle")
  BY DEF write, Register!Idle
<1>4. op'.pc = "idle" => write' = Register!Idle
  BY DEF write, Register!Idle
<1> USE DEF Register!Next, Register!vars
<1>5. CASE UNCHANGED <<region, op>>
  BY <1>5 DEF write, Load, ValidCells, Newest
<1>6. ASSUME NEW s \in Status, Append(s) \/ Recycle(s)
      PROVE  Register!Start
  <2>1. region' = region /\ op.pc = "idle" /\ op'.pc # "idle"
        /\ op'.status = s /\ op'.recycle \in BOOLEAN
    <3>1. CASE Append(s)
      BY <3>1 DEF Append
    <3>2. CASE Recycle(s)
      BY <1>1, <3>2 DEF Recycle
    <3>3. QED
      BY <1>6, <3>1, <3>2
  <2>2. write = Register!Idle /\ write' \in Register!Write
    BY <2>1 DEF write, Register!Idle, Register!Write
  <2>3. QED
    BY <2>1, <2>2 DEF Register!Start
<1>7. CASE EraseRegion
  <2>1. ValidCells(region') = {}
    BY <1>7, Forms DEF EraseRegion, ValidCells
  <2>2. write' = write /\ write.kind = "recycle"
    BY <1>1, <1>3, <1>7 DEF EraseRegion, write, IInv, CellInHand
  <2>3. Register!Erase
    BY <2>1, <2>2 DEF Register!Erase, Load
  <2>4. QED
    BY <2>3
<1>8. CASE ProgramBody
  <2>1. ~Valid(region[op.cell]) /\ ~Valid(Body(op.sequence, op.status))
        /\ Body(op.sequence, op.status) \in Record
    BY <1>1, <1>8, Forms DEF ProgramBody, IInv, CellInHand
  <2>2. Keep
    BY <1>8, <2>1, InvalidOverInvalid DEF ProgramBody, Keep, IInv
  <2>3. write' = write
    BY <1>1, <1>8 DEF ProgramBody, write
  <2>4. QED
    BY <1>1, <2>2, <2>3, KeepLoad
<1>9. ASSUME Commit, op'.pc = "idle"
      PROVE  Register!Take
  BY <1>3, <1>4, <1>9, CommitAdds DEF Register!Take, Commit, IInv
<1>10. CASE ProgramCommit
  BY <1>1, <1>9, <1>10 DEF ProgramCommit, Commit, Return
<1>11. CASE FlashError \/ PowerLoss
  <2>1. Cut /\ op'.pc = "idle" /\ op.pc # "idle"
    BY <1>1, <1>11 DEF FlashError, PowerLoss, Return, Cut, CutErase, CutBody, CutCommit
  <2>2. CASE Commit
    BY <1>9, <2>1, <2>2
  <2>3. CASE Keep
    <3>1. Register!Lapse
      BY <1>1, <1>3, <1>4, <2>1, <2>3, KeepLoad DEF Register!Lapse
    <3>2. QED
      BY <3>1
  <2>4. CASE op.pc = "erase"
    <3>1. Register!EraseCut
      BY <1>2, <1>3, <1>4, <2>1, <2>4 DEF Register!EraseCut, IInv, CellInHand
    <3>2. QED
      BY <3>1
  <2>5. QED
    BY <2>1, <2>2, <2>3, <2>4, CutEffect DEF IInv
<1>12. QED
  BY <1>5, <1>6, <1>7, <1>8, <1>10, <1>11
     DEF Next, vars, AppendRefused, RecycleRefused

\* The boot control block implements the one-status register: a power loss or a
\* flash error at any word leaves the old status or the new one.
THEOREM RefinesRegister == Spec => ImplementsRegister
<1>1. Init /\ [][Next]_vars /\ []IInv => Register!Init /\ [][Register!Next]_(Register!vars)
  BY InitRegister, NextRegister, PTL
<1>2. QED
  BY <1>1, Invariance, PTL DEF Spec, ImplementsRegister, Register!Spec
=============================================================================
