--------------------------- MODULE KbBufferProofs ---------------------------
(***************************************************************************)
(* Proofs about KbBuffer, for every CIRCULAR_BUFFER_SIZE >= 2 and every    *)
(* set of scancodes.                                                       *)
(***************************************************************************)
EXTENDS KbBuffer, TLAPS

\* The index after i stays in the array, differs from i, and wraps at the end.
LEMMA SuccIndex ==
    ASSUME NEW i \in Index
    PROVE  /\ Succ(i) \in Index
           /\ Succ(i) # i
           /\ i < CIRCULAR_BUFFER_SIZE - 1 => Succ(i) = i + 1
           /\ i = CIRCULAR_BUFFER_SIZE - 1 => Succ(i) = 0
  <1>1. CASE i < CIRCULAR_BUFFER_SIZE - 1
    BY <1>1, SizeAssumption DEF Index, Succ
  <1>2. CASE i = CIRCULAR_BUFFER_SIZE - 1
    <2>1. (i + 1) % CIRCULAR_BUFFER_SIZE = 0
      BY <1>2, SizeAssumption
    <2>2. QED
      BY <1>2, <2>1, SizeAssumption DEF Index, Succ
  <1>3. QED
    BY <1>1, <1>2, SizeAssumption DEF Index

-----------------------------------------------------------------------------
(* What the two contexts know of each other: the indices are equal or one  *)
(* apart, and a stale copy that says "not empty" is still right, because   *)
(* only the reader can empty the buffer.                                   *)
IndicesInv ==
    /\ write_index = read_index \/ write_index = Succ(read_index)
    /\ pc # "idle" => r = read_index
    /\ pc = "test" => w = r \/ (w = Succ(r) /\ write_index = w)
    /\ pc = "advance" => /\ write_index = Succ(read_index)
                         /\ read_result = keypress_queue[read_index]

IInv == TypeOK /\ IndicesInv

\* The initial state satisfies the invariant.
LEMMA InitIInv == Init => IInv
  BY SizeAssumption DEF Init, IInv, TypeOK, IndicesInv, Index, Failure

\* The keyboard interrupt preserves the invariant at whatever step of the
\* read it strikes.
LEMMA HandlerIInv ==
    ASSUME IInv, NEW s \in Scancode, kb_handler(s)
    PROVE  IInv'
  <1> USE DEF IInv, TypeOK, IndicesInv
  <1>1. Succ(read_index) \in Index /\ Succ(read_index) # read_index
        /\ Succ(write_index) \in Index
    BY SuccIndex
  <1>2. CASE Full
    BY <1>2, <1>1 DEF kb_handler, kb_buf_write, readVars
  <1>3. CASE ~Full
    <2>1. write_index = read_index /\ write_index' = Succ(read_index)
      BY <1>3 DEF Full, kb_handler, kb_buf_write
    <2>2. UNCHANGED readVars /\ accepted' = TRUE
      BY <1>3 DEF kb_handler, kb_buf_write
    <2>3. keypress_queue' = [keypress_queue EXCEPT ![write_index] = s]
      BY <1>3 DEF kb_handler, kb_buf_write
    <2>4. TypeOK'
      BY <2>1, <2>2, <2>3, <1>1 DEF readVars
    <2>5. pc # "advance"
      BY <2>1, <1>1
    <2>6. pc = "test" => w = r
      BY <2>1, <1>1
    <2>7. IndicesInv'
      BY <2>1, <2>2, <2>5, <2>6 DEF readVars
    <2>8. QED
      BY <2>4, <2>7
  <1>4. QED
    BY <1>2, <1>3

\* So does every step of the read.
LEMMA ReadIInv ==
    ASSUME IInv, kb_buf_read
    PROVE  IInv'
  <1> USE DEF IInv, TypeOK, IndicesInv, bufVars
  <1>1. Succ(read_index) \in Index /\ Succ(read_index) # read_index
    BY SuccIndex
  <1>2. CASE ReadIndices
    BY <1>2 DEF ReadIndices
  <1>3. CASE ReadFails
    BY <1>3 DEF ReadFails
  <1>4. CASE ReadSlot
    BY <1>4 DEF ReadSlot, Empty
  <1>5. CASE AdvanceReadIndex
    BY <1>5, <1>1 DEF AdvanceReadIndex, Success
  <1>6. QED
    BY <1>2, <1>3, <1>4, <1>5 DEF kb_buf_read

THEOREM Invariance == Spec => []IInv
  <1>1. IInv /\ [Next]_vars => IInv'
    <2> SUFFICES ASSUME IInv, [Next]_vars PROVE IInv'
      OBVIOUS
    <2>1. CASE kb_buf_read
      BY <2>1, ReadIInv
    <2>2. CASE \E s \in Scancode : kb_handler(s)
      BY <2>2, HandlerIInv
    <2>3. CASE UNCHANGED vars
      BY <2>3 DEF vars, bufVars, readVars, IInv, TypeOK, IndicesInv
    <2>4. QED
      BY <2>1, <2>2, <2>3 DEF Next
  <1>2. QED
    BY InitIInv, <1>1, PTL DEF Spec

-----------------------------------------------------------------------------
\* The fields of the buffer and the locals of the read keep their types; in
\* particular no index ever leaves keypress_queue.
THEOREM TypeCorrect == Spec => []TypeOK
  <1>1. IInv => TypeOK
    BY DEF IInv
  <1>2. QED
    BY Invariance, <1>1, PTL

\* Whatever the interrupt stores between the loads and the store of
\* kb_buf_read, what the read hands out is the oldest scancode.
THEOREM SlotOwnership == Spec => []ReaderOwnsItsSlot
  <1>1. IInv => ReaderOwnsItsSlot
    <2> SUFFICES ASSUME IInv PROVE ReaderOwnsItsSlot
      OBVIOUS
    <2>1. Succ(read_index) # read_index
      BY SuccIndex DEF IInv, TypeOK
    <2>2. QED
      BY <2>1 DEF IInv, IndicesInv, ReaderOwnsItsSlot, Empty
  <1>2. QED
    BY Invariance, <1>1, PTL

\* Whatever its size, the buffer never holds more than one unread scancode.
THEOREM OneScancode == Spec => []HoldsAtMostOne
  <1>1. IInv => HoldsAtMostOne
    <2> SUFFICES ASSUME IInv PROVE Waiting <= 1
      BY DEF HoldsAtMostOne
    <2>1. read_index \in Index /\ write_index \in Index
      BY DEF IInv, TypeOK
    <2>2. CASE write_index = read_index
      BY <2>1, <2>2, SizeAssumption DEF Waiting, Index
    <2>3. CASE write_index = Succ(read_index)
      BY <2>1, <2>3, SuccIndex, SizeAssumption DEF Waiting, Index
    <2>4. QED
      BY <2>2, <2>3 DEF IInv, IndicesInv
  <1>2. QED
    BY Invariance, <1>1, PTL

-----------------------------------------------------------------------------
(* Refinement: the buffer is the FIFO of ScancodeQueue with room for one.  *)

\* The queue that the slots and the indices stand for.
LEMMA ContentsShape ==
    IInv => Contents = IF write_index = read_index
                       THEN <<>>
                       ELSE <<keypress_queue[read_index]>>
  <1> SUFFICES ASSUME IInv
               PROVE  Contents = IF write_index = read_index
                                 THEN <<>>
                                 ELSE <<keypress_queue[read_index]>>
    OBVIOUS
  <1>1. read_index \in Index /\ write_index \in Index
    BY DEF IInv, TypeOK
  <1>2. CASE write_index = read_index
    <2>1. Waiting = 0
      BY <1>1, <1>2 DEF Waiting, Index
    <2>2. QED
      BY <2>1, <1>2 DEF Contents
  <1>3. CASE write_index = Succ(read_index)
    <2>1. Waiting = 1
      BY <1>1, <1>3, SuccIndex, SizeAssumption DEF Waiting, Index
    <2>2. (read_index + 1 - 1) % CIRCULAR_BUFFER_SIZE = read_index
      BY <1>1, SizeAssumption DEF Index
    <2>3. write_index # read_index
      BY <1>1, <1>3, SuccIndex
    <2>4. Contents = [i \in 1 .. 1 |-> keypress_queue[read_index]]
      BY <2>1, <2>2 DEF Contents
    <2>5. QED
      BY <2>3, <2>4
  <1>4. QED
    BY <1>2, <1>3 DEF IInv, IndicesInv

\* The initial state is one of the queue's initial states.
LEMMA InitRefines == Init => Queue!QInit
  <1> SUFFICES ASSUME Init PROVE Queue!QInit
    OBVIOUS
  <1>1. Contents = <<>>
    BY InitIInv, ContentsShape DEF Init
  <1>2. QED
    BY <1>1 DEF Init, Queue!QInit, Failure, Queue!Failure

\* Every step of the code is a step of the queue or leaves it as it was.
LEMMA StepRefines ==
    ASSUME IInv, IInv', [Next]_vars
    PROVE  [Queue!QNext]_(Queue!qvars)
  <1>1. Contents = IF write_index = read_index
                   THEN <<>> ELSE <<keypress_queue[read_index]>>
    BY ContentsShape
  <1>2. Contents' = IF write_index' = read_index'
                    THEN <<>> ELSE <<keypress_queue'[read_index']>>
    <2>1. (IInv => Contents = IF write_index = read_index
                              THEN <<>> ELSE <<keypress_queue[read_index]>>)'
      BY ContentsShape, PTL
    <2>2. QED
      BY <2>1
  <1>3. /\ Succ(read_index) \in Index
        /\ Succ(read_index) # read_index
    BY SuccIndex DEF IInv, TypeOK
  <1> USE DEF Queue!QNext, Queue!qvars, Queue!Failure, Failure, IndicesInv
  <1>4. CASE \E s \in Scancode : kb_handler(s)
    <2> PICK s \in Scancode : kb_handler(s)
      BY <1>4
    <2>1. UNCHANGED <<read_index, pc, r, w, answer>>
      BY DEF kb_handler, readVars
    <2>2. CASE Full
      <3>1. UNCHANGED <<keypress_queue, write_index>> /\ accepted' = FALSE
        BY <2>2 DEF kb_handler, kb_buf_write
      <3>2. Contents' = Contents /\ Len(Contents) = 1
        BY <1>1, <1>2, <1>3, <2>1, <2>2, <3>1 DEF Full
      <3>3. Queue!Drop
        BY <2>1, <3>1, <3>2 DEF Queue!Drop, Empty
      <3>4. QED
        BY <3>3
    <2>3. CASE ~Full
      <3>1. /\ write_index = read_index
            /\ write_index' = Succ(read_index)
            /\ keypress_queue' = [keypress_queue EXCEPT ![write_index] = s]
            /\ accepted' = TRUE
        BY <2>3 DEF kb_handler, kb_buf_write, Full, IInv
      <3>2. Contents = <<>>
        BY <1>1, <3>1
      <3>3. keypress_queue'[read_index] = s
        BY <3>1 DEF IInv, TypeOK
      <3>4. Contents' = <<s>>
        BY <1>2, <1>3, <2>1, <3>1, <3>3
      <3>5. Contents' = Append(Contents, s) /\ Len(Contents) = 0
        BY <3>2, <3>4
      <3>6. Queue!Put(s)
        BY <2>1, <3>1, <3>5 DEF Queue!Put, Empty
      <3>7. QED
        BY <3>6
    <2>4. QED
      BY <2>2, <2>3
  <1>5. CASE ReadIndices
    <2>1. Contents' = Contents /\ accepted' = accepted /\ answer' = answer
      BY <1>1, <1>2, <1>5 DEF ReadIndices, bufVars
    <2>2. ~(pc = "test" /\ Empty)
      BY <1>5 DEF ReadIndices
    <2>3. CASE Empty'
      <3>1. Contents = <<>>
        BY <1>1, <1>5, <2>3 DEF ReadIndices, Empty
      <3>2. Queue!GetNothing
        BY <1>5, <2>1, <2>3, <3>1 DEF Queue!GetNothing, ReadIndices
      <3>3. QED
        BY <3>2
    <2>4. CASE ~Empty'
      BY <2>1, <2>2, <2>4
    <2>5. QED
      BY <2>3, <2>4
  <1>6. CASE ReadFails
    BY <1>1, <1>2, <1>6 DEF ReadFails, bufVars
  <1>7. CASE ReadSlot
    BY <1>1, <1>2, <1>7 DEF ReadSlot, bufVars
  <1>8. CASE AdvanceReadIndex
    <2>1. /\ r = read_index
          /\ write_index = Succ(read_index)
          /\ read_result = keypress_queue[read_index]
      BY <1>8 DEF AdvanceReadIndex, IInv
    <2>2. /\ read_index' = write_index'
          /\ answer' = Success(read_result)
          /\ accepted' = accepted
          /\ pc = "advance" /\ pc' = "idle"
      BY <1>8, <2>1 DEF AdvanceReadIndex, bufVars
    <2>3. Contents = <<read_result>> /\ Contents' = <<>>
      BY <1>1, <1>2, <1>3, <2>1, <2>2
    <2>4. /\ Contents # <<>>
          /\ Head(Contents) = read_result
          /\ Tail(Contents) = <<>>
      BY <2>3
    <2>5. Queue!Get
      BY <2>2, <2>3, <2>4 DEF Queue!Get, Success, Queue!Success
    <2>6. QED
      BY <2>5
  <1>9. CASE UNCHANGED vars
    BY <1>1, <1>2, <1>9 DEF vars, bufVars, readVars, Empty
  <1>10. QED
    BY <1>4, <1>5, <1>6, <1>7, <1>8, <1>9 DEF Next, kb_buf_read

\* kb_buffer.c, whatever its size and however the interrupt and the read
\* interleave, implements a FIFO queue with room for one scancode.
THEOREM Refinement == Spec => ImplementsQueueOfOne
  <1>1. Init => Queue!QInit
    BY InitRefines
  <1>2. IInv /\ IInv' /\ [Next]_vars => [Queue!QNext]_(Queue!qvars)
    BY StepRefines
  <1>3. QED
    BY <1>1, <1>2, Invariance, PTL DEF Spec, ImplementsQueueOfOne, Queue!QSpec
=============================================================================
