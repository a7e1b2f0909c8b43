--------------------------- MODULE ScancodeQueue ---------------------------
(***************************************************************************)
(* What kb_buffer.h promises of the keyboard buffer: a FIFO of scancodes   *)
(* between one producer (the keyboard interrupt) and one consumer (the     *)
(* keyboard driver).  A scancode is queued, or it is dropped because       *)
(* Capacity scancodes are already waiting; a read returns the oldest       *)
(* waiting scancode, or fails because none is waiting at that moment.      *)
(***************************************************************************)
EXTENDS Naturals, Sequences

CONSTANTS
    Scancode,      \* the values inb(KEYBOARD_PORT) can return
    Capacity       \* how many unread scancodes the queue holds

VARIABLES
    queue,         \* scancodes queued and not yet read, oldest first
    accepted,      \* the return value of the last write
    answer         \* what the last read gave its caller

qvars == <<queue, accepted, answer>>

\* A read that fails leaves no scancode: nothing but the failure is visible.
Failure == [ok |-> FALSE]
Success(s) == [ok |-> TRUE, scancode |-> s]

QInit ==
    /\ queue = <<>>
    /\ accepted = TRUE
    /\ answer = Failure

Put(s) ==
    /\ Len(queue) < Capacity
    /\ queue' = Append(queue, s)
    /\ accepted' = TRUE
    /\ UNCHANGED answer

Drop ==
    /\ Len(queue) = Capacity
    /\ accepted' = FALSE
    /\ UNCHANGED <<queue, answer>>

Get ==
    /\ queue # <<>>
    /\ answer' = Success(Head(queue))
    /\ queue' = Tail(queue)
    /\ UNCHANGED accepted

GetNothing ==
    /\ queue = <<>>
    /\ answer' = Failure
    /\ UNCHANGED <<queue, accepted>>

QNext == (\E s \in Scancode : Put(s)) \/ Drop \/ Get \/ GetNothing

QSpec == QInit /\ [][QNext]_qvars
=============================================================================
