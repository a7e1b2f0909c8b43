------------------------------ MODULE KbBuffer ------------------------------
(***************************************************************************)
(* The keyboard buffer of kern/kb_buffer.c, shared by two contexts:        *)
(*                                                                         *)
(*   - main, which polls it through readchar() (kern/kb.c) and can be      *)
(*     interrupted between any two of the loads and stores of kb_buf_read; *)
(*   - the keyboard interrupt, whose kb_handler (kern/handlers.c) runs     *)
(*     kb_buf_write.  Main does not run while a handler is active, so      *)
(*     kb_buf_write is one step here; Interrupts.tla shows that no second  *)
(*     kb_buf_write starts inside a first one.                             *)
(***************************************************************************)
EXTENDS Naturals, Sequences

CONSTANTS
    CIRCULAR_BUFFER_SIZE,   \* 256 in the code
    Scancode,               \* the values inb(KEYBOARD_PORT) can return
    NoScancode              \* read_result before anything was read

\* % of kb_buffer.c needs at least one slot; with a single one nothing fits.
ASSUME SizeAssumption == CIRCULAR_BUFFER_SIZE \in Nat /\ CIRCULAR_BUFFER_SIZE >= 2

VARIABLES
    keypress_queue,   \* kb_buf->keypress_queue
    read_index,       \* kb_buf->read_index, stored by main only
    write_index,      \* kb_buf->write_index, stored by the interrupt only
    pc,               \* how far main is in kb_buf_read
    r, w,             \* kb_buf_read's locals read_index and write_index
    read_result,      \* *read_result: readchar's curr_scancode
    answer,           \* what the last completed kb_buf_read gave readchar
    accepted          \* the return value of the last kb_buf_write

bufVars  == <<keypress_queue, write_index, accepted>>
readVars == <<read_index, pc, r, w, read_result, answer>>
vars == <<bufVars, readVars>>

Index == 0 .. CIRCULAR_BUFFER_SIZE - 1
\* Mutant: the index is not wrapped.
SuccUnwrapped(i) == i + 1
Succ(i) == (i + 1) % CIRCULAR_BUFFER_SIZE

Failure == [ok |-> FALSE]
Success(s) == [ok |-> TRUE, scancode |-> s]

(* kb_buffer is a global, so its slots start out 0: any scancode stands for 0. *)
Init ==
    /\ \E s \in Scancode : keypress_queue = [i \in Index |-> s]
    /\ read_index = 0
    /\ write_index = 0
    /\ pc = "idle"
    /\ r = 0
    /\ w = 0
    /\ read_result = NoScancode
    /\ answer = Failure
    /\ accepted = TRUE

-----------------------------------------------------------------------------
(* The keyboard interrupt.                                                 *)

\* Mutant: the buffer is never full, so the writer laps the reader.
FullNever == FALSE
\* Mutant: the comparison is one slot further off.
FullAtTwo == (read_index + 2) % CIRCULAR_BUFFER_SIZE = write_index
Full == Succ(read_index) = write_index

kb_buf_write(s) ==
    IF Full
    THEN /\ accepted' = FALSE
         /\ UNCHANGED <<keypress_queue, write_index>>
    ELSE /\ keypress_queue' = [keypress_queue EXCEPT ![write_index] = s]
         /\ write_index' = Succ(write_index)
         /\ accepted' = TRUE

\* The scancode is taken from the port before the buffer is looked at.
kb_handler(s) == kb_buf_write(s) /\ UNCHANGED readVars

-----------------------------------------------------------------------------
(* Main, inside kb_buf_read: one action per access to the shared buffer.   *)

\* Mutant: the slot is given back before it is read (kb_buffer.c:29-35).
ReadIndicesReleasing ==
    /\ pc = "idle"
    /\ r' = read_index
    /\ w' = write_index
    /\ read_index' = IF read_index # write_index THEN Succ(read_index) ELSE read_index
    /\ pc' = "test"
    /\ UNCHANGED <<bufVars, read_result, answer>>
\* Both indices are copied; only write_index can move underneath main.
ReadIndices ==
    /\ pc = "idle"
    /\ r' = read_index
    /\ w' = write_index
    /\ pc' = "test"
    /\ UNCHANGED <<bufVars, read_index, read_result, answer>>

Empty == r = w

ReadFails ==
    /\ pc = "test"
    /\ Empty
    /\ answer' = Failure
    /\ pc' = "idle"
    /\ UNCHANGED <<bufVars, read_index, r, w, read_result>>

ReadSlot ==
    /\ pc = "test"
    /\ ~Empty
    /\ read_result' = keypress_queue[r]
    /\ pc' = "advance"
    /\ UNCHANGED <<bufVars, read_index, r, w, answer>>

\* Mutant: the read never lets go of its slot.
AdvanceNothing ==
    /\ pc = "advance"
    /\ answer' = Success(read_result)
    /\ pc' = "idle"
    /\ UNCHANGED <<bufVars, read_index, r, w, read_result>>
AdvanceReadIndex ==
    /\ pc = "advance"
    /\ read_index' = Succ(r)
    /\ answer' = Success(read_result)
    /\ pc' = "idle"
    /\ UNCHANGED <<bufVars, r, w, read_result>>

kb_buf_read == ReadIndices \/ ReadFails \/ ReadSlot \/ AdvanceReadIndex

Next == kb_buf_read \/ \E s \in Scancode : kb_handler(s)

(* The game loop polls readchar() for ever, and handlers return, so main   *)
(* keeps taking steps.  Nothing makes a key be pressed.                    *)
Spec == Init /\ [][Next]_vars
FairSpec == Spec /\ WF_vars(kb_buf_read)

-----------------------------------------------------------------------------
(* The types of the buffer's fields, of kb_buf_read's locals and of its     *)
(* results; the indices stay inside the array.                             *)
TypeOK ==
    /\ keypress_queue \in [Index -> Scancode]
    /\ read_index \in Index
    /\ write_index \in Index
    /\ pc \in {"idle", "test", "advance"}
    /\ r \in Index
    /\ w \in Index
    /\ read_result \in Scancode \cup {NoScancode}
    /\ answer \in {Failure} \cup [ok : {TRUE}, scancode : Scancode \cup {NoScancode}]
    /\ accepted \in BOOLEAN

\* How many scancodes wait between the indices.
Waiting == IF write_index >= read_index
           THEN write_index - read_index
           ELSE write_index + CIRCULAR_BUFFER_SIZE - read_index

(* The writer never reuses the slot the reader has copied until the reader *)
(* has let go of it by storing read_index: whatever arrives between the    *)
(* load of the indices and that store, what the reader hands out is still  *)
(* the oldest scancode of the buffer.                                      *)
ReaderOwnsItsSlot ==
    /\ pc # "idle" => r = read_index
    /\ pc = "test" /\ ~Empty => read_index # write_index
    /\ pc = "advance" => /\ read_index # write_index
                         /\ read_result = keypress_queue[read_index]

(* kb_buffer.c:47 tests read_index + 1 = write_index, so one unread        *)
(* scancode is all the buffer of 256 slots ever holds.                     *)
HoldsAtMostOne == Waiting <= 1

(* The code implements the FIFO of ScancodeQueue with room for one         *)
(* scancode.  A read that finds the buffer empty answers when it copies    *)
(* the indices: a scancode that arrives afterwards is left for the next.   *)
Contents == [i \in 1 .. Waiting |->
                keypress_queue[(read_index + i - 1) % CIRCULAR_BUFFER_SIZE]]

Queue == INSTANCE ScancodeQueue WITH
            Capacity <- 1,
            queue    <- Contents,
            answer   <- IF pc = "test" /\ Empty THEN Failure ELSE answer

ImplementsQueueOfOne == Queue!QSpec

(* kb_buffer.h:82: "If the queue is full, false is returned. Otherwise,    *)
(* write the keypress event into the buffer": a key is dropped only when   *)
(* no slot is free (a circular buffer tells full from empty by leaving one *)
(* slot unused).                                                           *)
DropsOnlyWhenFull ==
    [][accepted /\ ~accepted' => Waiting = CIRCULAR_BUFFER_SIZE - 1]_vars

(* Every scancode put in the buffer is read: whatever slot holds it, the   *)
(* read index gets past that slot even if the interrupt keeps writing.     *)
StoredScancodesAreRead ==
    \A i \in Index :
        (read_index = i /\ write_index # i) ~> (read_index = Succ(i))

=============================================================================
