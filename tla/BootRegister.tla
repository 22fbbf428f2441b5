---------------------------- MODULE BootRegister ----------------------------
(***************************************************************************)
(* What the boot control block promises to the code that uses it: one      *)
(* durable status, replaced in one step by the status being written.       *)
(*                                                                         *)
(* A write that was started either takes effect once, in one step, or      *)
(* never; a power loss at any moment is one of these two.  Nothing else    *)
(* changes the status, except a recycle, which only the Bootloader may     *)
(* run: it passes through an interval in which the status may be lost.     *)
(***************************************************************************)
CONSTANTS
    Status,         \* what a caller may store
    NoStatus        \* what a reader gets when nothing valid is stored

VARIABLES
    current,        \* the status a reader gets now
    write           \* the write in progress

vars == <<current, write>>

Idle == [kind |-> "idle", status |-> NoStatus]

Write == [kind : {"append", "recycle"}, status : Status]

Init ==
    /\ current \in Status \cup {NoStatus}
    /\ write = Idle

\* A caller starts a write.
Start ==
    /\ write = Idle
    /\ write' \in Write
    /\ UNCHANGED current

\* The status being written becomes the status readers get.
Take ==
    /\ write # Idle
    /\ current' = write.status
    /\ write' = Idle

\* The write failed or was cut by a power loss before it took effect.
Lapse ==
    /\ write # Idle
    /\ write' = Idle
    /\ UNCHANGED current

\* A recycle has erased the region and has not stored its status yet.
Erase ==
    /\ write.kind = "recycle"
    /\ current' = NoStatus
    /\ UNCHANGED write

\* A recycle was cut while it erased: any earlier status may be read again.
EraseCut ==
    /\ write.kind = "recycle"
    /\ current' \in Status \cup {NoStatus}
    /\ write' = Idle

Next == Start \/ Take \/ Lapse \/ Erase \/ EraseCut

Spec == Init /\ [][Next]_vars
=============================================================================
