-------------------------- MODULE InterruptsProofs --------------------------
(***************************************************************************)
(* Proofs about Interrupts, for every width of the tick counter and every  *)
(* depth to which handlers may nest.                                       *)
(***************************************************************************)
EXTENDS Interrupts, SequenceTheorems, FiniteSetTheorems, TLAPS

\* What a handler on the stack is up to: it still has to give its
\* end-of-interrupt command, to read its scancode, to call back its tick.
Serving(frame) == frame.pc # "popa"
Unread(frame) == frame.irq = KEYBOARD /\ frame.pc \in {"pusha", "inb"}
Counted(frame) == frame.irq = TIMER /\ frame.pc = "tickback"

\* An IRQ is in service while one of its handlers has not acknowledged.
Served ==
    \A irq \in IRQ :
        irq \in isr <=> \E i \in 1 .. Len(stack) : stack[i].irq = irq /\ Serving(stack[i])

\* Of two such handlers the inner one is the more urgent.
Ordered ==
    \A i, j \in 1 .. Len(stack) :
        i < j /\ Serving(stack[i]) /\ Serving(stack[j]) => stack[j].irq < stack[i].irq

\* What each step of the boot sequence relies on.
Booted ==
    /\ IFlag \/ stack # <<>> => main = "game"
    /\ main \in {"install_timer", "install_keyboard", "enable_interrupts", "game"}
       => tickback = "tick"
    /\ main \in {"install_keyboard", "enable_interrupts", "game"} => idt[TIMER].present
    /\ main \in {"enable_interrupts", "game"} => idt[KEYBOARD].present

\* A scancode in the port is announced by the request or by one handler.
PortInv ==
    /\ KEYBOARD \in irr => port
    /\ \A i \in 1 .. Len(stack) : Unread(stack[i]) => port /\ KEYBOARD \notin irr
    /\ port => KEYBOARD \in irr \/ \E i \in 1 .. Len(stack) : Unread(stack[i])

\* The counter is ahead of the callback by the tick being handled.
TickInv ==
    /\ (\E i \in 1 .. Len(stack) : Counted(stack[i])) => numTicks = (ticked + 1) % TICK_MOD
    /\ (\A i \in 1 .. Len(stack) : ~Counted(stack[i])) => numTicks = ticked
    /\ main = "timer_initialize" => ticked = 0

IInv == TypeOK /\ Served /\ Ordered /\ Booted /\ PortInv /\ TickInv

-----------------------------------------------------------------------------
(* How the three operations on the stack change it.                        *)

\* The stack as a sequence: its length, and the top when there is one.
LEMMA StackFacts ==
    ASSUME TypeOK
    PROVE  /\ Len(stack) \in Nat
           /\ stack = <<>> <=> Len(stack) = 0
           /\ \A i \in 1 .. Len(stack) :
                 /\ stack[i] \in Frame
                 /\ stack[i].irq \in IRQ
                 /\ stack[i].pc \in Pc
                 /\ stack[i].saved \in BOOLEAN
  <1>1. stack \in Seq(Frame)
    BY DEF TypeOK
  <1>2. Len(stack) \in Nat /\ (stack = <<>> <=> Len(stack) = 0)
    BY <1>1, LenProperties, EmptySeq
  <1>3. \A i \in 1 .. Len(stack) : stack[i] \in Frame
    BY <1>1, ElementOfSeq
  <1>4. QED
    BY <1>2, <1>3 DEF Frame

\* A handler that moves on changes its own program counter and nothing else.
LEMMA GotoFacts ==
    ASSUME TypeOK, stack # <<>>, NEW pc \in Pc, Goto(pc)
    PROVE  /\ stack' \in Seq(Frame)
           /\ stack' # <<>>
           /\ Len(stack') = Len(stack)
           /\ \A i \in 1 .. Len(stack) :
                 /\ stack'[i].irq = stack[i].irq
                 /\ stack'[i].pc = IF i = Len(stack) THEN pc ELSE stack[i].pc
  <1> DEFINE top == [stack[Len(stack)] EXCEPT !.pc = pc]
  <1>1. stack \in Seq(Frame) /\ Len(stack) \in 1 .. Len(stack)
    BY StackFacts DEF TypeOK
  <1>2. stack[Len(stack)] \in Frame
    BY <1>1, StackFacts
  <1>3. top \in Frame /\ top.irq = stack[Len(stack)].irq /\ top.pc = pc
    BY <1>2 DEF Frame
  <1>4. stack' = [stack EXCEPT ![Len(stack)] = top]
    BY DEF Goto
  <1> HIDE DEF top
  <1>5. /\ stack' \in Seq(Frame)
        /\ Len(stack') = Len(stack)
        /\ \A i \in 1 .. Len(stack) :
              stack'[i] = IF i = Len(stack) THEN top ELSE stack[i]
    BY <1>1, <1>3, <1>4, ExceptSeq
  <1>6. stack' # <<>>
    BY <1>1, <1>5, EmptySeq
  <1>7. QED
    BY <1>3, <1>5, <1>6

\* A handler that is entered comes on top of the others.
LEMMA DeliverFacts ==
    ASSUME TypeOK, NEW irq \in IRQ, Deliver(irq)
    PROVE  /\ stack' \in Seq(Frame)
           /\ stack' # <<>>
           /\ Len(stack') = Len(stack) + 1
           /\ \A i \in 1 .. Len(stack) : stack'[i] = stack[i]
           /\ stack'[Len(stack) + 1].irq = irq
           /\ stack'[Len(stack) + 1].pc = "pusha"
  <1> DEFINE new == [irq |-> irq, pc |-> "pusha", saved |-> IFlag]
  <1>1. new \in Frame /\ new.irq = irq /\ new.pc = "pusha"
    BY DEF TypeOK, Frame, Pc
  <1>2. stack' = Append(stack, new) /\ stack \in Seq(Frame)
    BY DEF Deliver, TypeOK
  <1> HIDE DEF new
  <1>3. QED
    BY <1>1, <1>2, AppendProperties

\* A handler that returns leaves the others as they were.
LEMMA IretFacts ==
    ASSUME TypeOK, NEW irq \in IRQ, iret(irq)
    PROVE  /\ stack' \in Seq(Frame)
           /\ Len(stack') = Len(stack) - 1
           /\ \A i \in 1 .. Len(stack) - 1 : stack'[i] = stack[i]
           /\ stack[Len(stack)].pc = "popa"
  <1>1. /\ stack # <<>>
        /\ stack[Len(stack)].pc = "popa"
        /\ stack' = SubSeq(stack, 1, Len(stack) - 1)
    BY DEF iret, At, Top
  <1>2. Len(stack) \in Nat /\ Len(stack) >= 1
    BY <1>1, StackFacts
  <1>3. \A i \in 1 .. Len(stack) - 1 : stack[i] \in Frame
    BY <1>2, StackFacts
  <1>4. Len(stack) - 1 \in Int
    BY <1>2
  <1>5. /\ stack' \in Seq(Frame)
        /\ Len(stack') = IF 1 <= Len(stack) - 1 THEN Len(stack) - 1 - 1 + 1 ELSE 0
        /\ \A i \in 1 .. Len(stack) - 1 - 1 + 1 : stack'[i] = stack[1 + i - 1]
    BY <1>1, <1>3, <1>4, SubSeqProperties
  <1>6. ASSUME NEW i \in 1 .. Len(stack) - 1
        PROVE  stack'[i] = stack[i]
    <2>1. i \in 1 .. Len(stack) - 1 - 1 + 1 /\ 1 + i - 1 = i
      BY <1>2
    <2>2. stack'[i] = stack[1 + i - 1]
      BY <1>5, <2>1
    <2>3. QED
      BY <2>1, <2>2
  <1>7. Len(stack') = Len(stack) - 1
    <2>1. CASE Len(stack) = 1
      BY <1>5, <2>1
    <2>2. CASE Len(stack) > 1
      <3>1. 1 <= Len(stack) - 1 /\ Len(stack) - 1 - 1 + 1 = Len(stack) - 1
        BY <1>2, <2>2
      <3>2. QED
        BY <1>5, <3>1
    <2>3. \A n \in Nat : n >= 1 => n = 1 \/ n > 1
      OBVIOUS
    <2>4. QED
      BY <1>2, <2>1, <2>2, <2>3, Zenon
  <1>8. QED
    BY <1>1, <1>5, <1>6, <1>7

-----------------------------------------------------------------------------
(* The invariant holds at the start and every step preserves it.           *)

\* The initial state satisfies the invariant.
LEMMA InitIInv == Init => IInv
  <1> SUFFICES ASSUME Init PROVE IInv
    OBVIOUS
  <1>1. stack = <<>> /\ Len(stack) = 0 /\ stack \in Seq(Frame)
    BY EmptySeq DEF Init
  <1>2. TypeOK
    <2>1. idt \in [IRQ -> {NoGate, Gate("TRAP")}]
      BY DEF Init
    <2>2. port \in BOOLEAN
      BY DEF Init
    <2>3. numTicks \in 0 .. TICK_MOD - 1 /\ ticked \in 0 .. TICK_MOD - 1
      BY TickModAssumption DEF Init
    <2>4. slow \in BOOLEAN /\ main = "timer_initialize" /\ IFlag = FALSE
      BY DEF Init
    <2>5. IFlag \in BOOLEAN
      BY <2>4
    <2>6. tickback = "NULL" /\ period \in Nat
      BY DEF Init
    <2>7. irr \in SUBSET IRQ /\ isr \in SUBSET IRQ
      BY DEF Init
    <2>8. QED
      BY <1>1, <2>1, <2>2, <2>3, <2>4, <2>5, <2>6, <2>7 DEF TypeOK
  <1>3. Served /\ Ordered /\ TickInv
    BY <1>1 DEF Init, Served, Ordered, TickInv
  <1>4. PortInv
    <2>1. \A i \in 1 .. Len(stack) : FALSE
      BY <1>1
    <2>2. port = (KEYBOARD \in irr)
      BY DEF Init
    <2>3. QED
      BY <2>1, <2>2 DEF PortInv
  <1>5. Booted
    BY <1>1 DEF Init, Booted
  <1>6. QED
    BY <1>2, <1>3, <1>4, <1>5 DEF IInv

\* A step of the boot sequence preserves the invariant.
LEMMA BootIInv ==
    ASSUME IInv, kernel_main
    PROVE  IInv'
  <1> USE DEF cpuVars, picVars, devVars, Main
  <1>1. /\ stack = <<>> /\ stack' = stack
        /\ Len(stack) = 0
        /\ irr' = irr /\ isr' = isr
        /\ port' = port /\ ticked' = ticked
    BY EmptySeq DEF kernel_main, timer_initialize, kb_buf_initialize, timer_set_tickback,
       install_timer, install_keyboard, enable_interrupts
  <1>2. (Served /\ Ordered /\ PortInv)'
    BY <1>1 DEF IInv, Served, Ordered, PortInv, Serving, Unread
  <1>3. TypeOK /\ Booted /\ numTicks = ticked
    BY <1>1 DEF IInv, TickInv
  <1>4. CASE timer_initialize
    <2>1. period' \in Nat
      BY <1>4 DEF timer_initialize, period_lsb, period_msb, uint8, OrFF,
         CYCLES_10_MS, TIMER_RATE
    <2>2. TypeOK'
      BY <1>1, <1>3, <1>4, <2>1, TickModAssumption DEF timer_initialize, TypeOK
    <2>3. Booted' /\ TickInv'
      BY <1>1, <1>3, <1>4 DEF timer_initialize, Booted, TickInv, Counted, IInv
    <2>4. QED
      BY <1>2, <2>2, <2>3 DEF IInv
  <1>5. CASE kb_buf_initialize
    <2>1. TypeOK'
      BY <1>3, <1>5 DEF kb_buf_initialize, TypeOK
    <2>2. Booted' /\ TickInv'
      BY <1>1, <1>3, <1>5 DEF kb_buf_initialize, Booted, TickInv, Counted
    <2>3. QED
      BY <1>2, <2>1, <2>2 DEF IInv
  <1>6. CASE timer_set_tickback
    <2>1. TypeOK'
      BY <1>3, <1>6 DEF timer_set_tickback, TypeOK
    <2>2. Booted' /\ TickInv'
      BY <1>1, <1>3, <1>6 DEF timer_set_tickback, Booted, TickInv, Counted
    <2>3. QED
      BY <1>2, <2>1, <2>2 DEF IInv
  <1>7. CASE install_timer
    <2>1. TypeOK' /\ idt'[TIMER].present
      BY <1>3, <1>7 DEF install_timer, install_idt_km, TypeOK, Gate, IRQ
    <2>2. Booted' /\ TickInv'
      BY <1>1, <1>3, <1>7, <2>1 DEF install_timer, Booted, TickInv, Counted
    <2>3. QED
      BY <1>2, <2>1, <2>2 DEF IInv
  <1>8. CASE install_keyboard
    <2>1. TypeOK' /\ idt'[KEYBOARD].present
      BY <1>3, <1>8 DEF install_keyboard, install_idt_km, TypeOK, Gate, IRQ
    <2>2. idt'[TIMER].present
      BY <1>3, <1>8 DEF install_keyboard, install_idt_km, TypeOK, Gate, IRQ,
         Booted, TIMER, KEYBOARD
    <2>3. Booted' /\ TickInv'
      BY <1>1, <1>3, <1>8, <2>1, <2>2 DEF install_keyboard, Booted, TickInv, Counted
    <2>4. QED
      BY <1>2, <2>1, <2>3 DEF IInv
  <1>9. CASE enable_interrupts
    <2>1. TypeOK'
      BY <1>3, <1>9 DEF enable_interrupts, TypeOK
    <2>2. Booted' /\ TickInv'
      BY <1>1, <1>3, <1>9 DEF enable_interrupts, Booted, TickInv, Counted
    <2>3. QED
      BY <1>2, <2>1, <2>2 DEF IInv
  <1>10. QED
    BY <1>4, <1>5, <1>6, <1>7, <1>8, <1>9 DEF kernel_main

\* A device that calls preserves the invariant.
LEMMA DeviceIInv ==
    ASSUME IInv, TimerFires \/ KeyArrives
    PROVE  IInv'
  <1> USE DEF bootVars, cpuVars, devVars, IInv
  <1>1. UNCHANGED <<slow, main, period, IFlag, idt, stack, isr, tickback, numTicks, ticked>>
    BY DEF TimerFires, KeyArrives
  <1>2. (Served /\ Ordered /\ Booted /\ TickInv)'
    BY <1>1 DEF Served, Ordered, Booted, TickInv, Serving, Counted
  <1>3. TypeOK'
    BY <1>1 DEF TimerFires, KeyArrives, TypeOK, IRQ
  <1>4. PortInv'
    <2>1. CASE TimerFires
      BY <1>1, <2>1 DEF TimerFires, PortInv, Unread, TIMER, KEYBOARD
    <2>2. CASE KeyArrives
      <3>1. \A i \in 1 .. Len(stack) : ~Unread(stack[i])
        BY <2>2 DEF KeyArrives, PortInv
      <3>2. QED
        BY <1>1, <2>2, <3>1 DEF KeyArrives, PortInv, Unread
    <2>3. QED
      BY <2>1, <2>2
  <1>5. QED
    BY <1>2, <1>3, <1>4

\* A handler that is entered is more urgent than all that it interrupts.
LEMMA DeliverIInv ==
    ASSUME IInv, NEW irq \in IRQ, Deliver(irq)
    PROVE  IInv'
  <1>1. TypeOK /\ Served /\ Ordered /\ Booted /\ PortInv /\ TickInv
    BY DEF IInv
  <1>2. PICK n \in Nat : n = Len(stack)
    BY <1>1, StackFacts
  <1>3. /\ stack' \in Seq(Frame)
        /\ stack' # <<>>
        /\ Len(stack') = n + 1
        /\ \A i \in 1 .. n : stack'[i] = stack[i]
        /\ stack'[n + 1].irq = irq
        /\ stack'[n + 1].pc = "pusha"
    BY <1>1, <1>2, DeliverFacts
  <1>4. /\ irr' = irr \ {irq} /\ isr' = isr \cup {irq} /\ irq \in irr
        /\ \A other \in isr : irq < other
        /\ UNCHANGED <<slow, main, period, idt, tickback, numTicks, ticked, port>>
    BY DEF Deliver, Deliverable, bootVars, devVars
  <1>5. TypeOK'
    <2>1. IFlag' \in BOOLEAN
      BY DEF Deliver
    <2>2. QED
      BY <1>1, <1>3, <1>4, <2>1 DEF TypeOK
  <1>6. Booted'
    BY <1>1, <1>4 DEF Deliver, Booted
  <1>7. Served'
    <2>1. ASSUME NEW q \in IRQ
          PROVE  q \in isr' <=> \E i \in 1 .. n + 1 : stack'[i].irq = q /\ stack'[i].pc # "popa"
      <3>1. n + 1 \in 1 .. n + 1 /\ \A i \in 1 .. n : i \in 1 .. n + 1
        BY <1>2
      <3>2. \A i \in 1 .. n + 1 : i \in 1 .. n \/ i = n + 1
        BY <1>2
      <3>3. q \in isr <=> \E i \in 1 .. n : stack[i].irq = q /\ stack[i].pc # "popa"
        BY <1>1, <1>2 DEF Served, Serving
      <3>4. QED
        BY <1>3, <1>4, <3>1, <3>2, <3>3
    <2>2. QED
      BY <1>3, <2>1 DEF Served, Serving
  <1>8. Ordered'
    <2>1. ASSUME NEW i \in 1 .. n + 1, NEW j \in 1 .. n + 1, i < j,
                 stack'[i].pc # "popa", stack'[j].pc # "popa"
          PROVE  stack'[j].irq < stack'[i].irq
      <3>1. i \in 1 .. n /\ (j \in 1 .. n \/ j = n + 1)
        BY <1>2, <2>1
      <3>2. CASE j \in 1 .. n
        BY <1>1, <1>2, <1>3, <2>1, <3>1, <3>2 DEF Ordered, Serving
      <3>3. CASE j = n + 1
        <4>1. stack[i].irq \in IRQ /\ stack[i].irq \in isr
          BY <1>1, <1>2, <1>3, <2>1, <3>1, StackFacts DEF Served, Serving
        <4>2. QED
          BY <1>3, <1>4, <3>1, <3>3, <4>1
      <3>4. QED
        BY <3>1, <3>2, <3>3
    <2>2. QED
      BY <1>3, <2>1 DEF Ordered, Serving
  <1>9. PortInv'
    <2>1. \A i \in 1 .. n + 1 : i \in 1 .. n \/ i = n + 1
      BY <1>2
    <2>2. n + 1 \in 1 .. n + 1 /\ \A i \in 1 .. n : i \in 1 .. n + 1
      BY <1>2
    <2>3. /\ KEYBOARD \in irr => port
          /\ \A i \in 1 .. n : Unread(stack[i]) => port /\ KEYBOARD \notin irr
          /\ port => KEYBOARD \in irr \/ \E i \in 1 .. n : Unread(stack[i])
      BY <1>1, <1>2 DEF PortInv
    <2>4. \A i \in 1 .. n : Unread(stack'[i]) <=> Unread(stack[i])
      BY <1>3 DEF Unread
    <2>5. Unread(stack'[n + 1]) <=> irq = KEYBOARD
      BY <1>3 DEF Unread
    <2>6. port' = port /\ irr' = irr \ {irq} /\ irq \in irr /\ Len(stack') = n + 1
      BY <1>2, <1>3, <1>4
    <2>7. QED
      BY <2>1, <2>2, <2>3, <2>4, <2>5, <2>6 DEF PortInv
  <1>10. TickInv'
    <2>1. \A i \in 1 .. n + 1 : i \in 1 .. n \/ i = n + 1
      BY <1>2
    <2>2. \A i \in 1 .. n : i \in 1 .. n + 1
      BY <1>2
    <2>3. (\A i \in 1 .. n : Counted(stack'[i]) <=> Counted(stack[i])) /\ ~Counted(stack'[n + 1])
      BY <1>3 DEF Counted
    <2>4. QED
      BY <1>1, <1>2, <1>3, <1>4, <2>1, <2>2, <2>3 DEF TickInv
  <1>11. QED
    BY <1>5, <1>6, <1>7, <1>8, <1>9, <1>10 DEF IInv

\* Only one handler of an IRQ is serving, so the top one is.
LEMMA TopAlone ==
    ASSUME IInv, stack # <<>>, Serving(Top)
    PROVE  /\ Top.irq \in isr
           /\ \A i \in 1 .. Len(stack) :
                 i # Len(stack) /\ Serving(stack[i]) => Top.irq < stack[i].irq
  <1>1. Len(stack) \in Nat /\ Len(stack) \in 1 .. Len(stack)
    BY StackFacts DEF IInv
  <1>2. Top.irq \in isr
    BY <1>1, StackFacts DEF IInv, Served, Top
  <1>3. ASSUME NEW i \in 1 .. Len(stack), i # Len(stack), Serving(stack[i])
        PROVE  Top.irq < stack[i].irq
    BY <1>1, <1>3 DEF IInv, Ordered, Top
  <1>4. QED
    BY <1>2, <1>3

\* A handler that does its work stays in service and keeps its rank.
LEMMA WorkServes ==
    ASSUME IInv, stack # <<>>, Serving(Top), isr' = isr,
           NEW pc \in Pc, pc # "popa", Goto(pc)
    PROVE  Served' /\ Ordered'
  <1>1. /\ Len(stack') = Len(stack)
        /\ \A i \in 1 .. Len(stack) :
              /\ stack'[i].irq = stack[i].irq
              /\ stack'[i].pc = IF i = Len(stack) THEN pc ELSE stack[i].pc
    BY GotoFacts DEF IInv
  <1>2. \A i \in 1 .. Len(stack) : Serving(stack'[i]) <=> Serving(stack[i])
    BY <1>1 DEF Serving, Top
  <1>3. Served'
    BY <1>1, <1>2 DEF IInv, Served
  <1>4. Ordered'
    BY <1>1, <1>2 DEF IInv, Ordered
  <1>5. QED
    BY <1>3, <1>4

\* A handler that is entered saves the registers and sets to work.
LEMMA PushaIInv ==
    ASSUME IInv, NEW irq \in IRQ, pusha(irq)
    PROVE  IInv'
  <1> DEFINE pc == IF irq = TIMER THEN "count" ELSE "inb"
  <1>1. /\ stack # <<>> /\ Top.irq = irq /\ Top.pc = "pusha" /\ Goto(pc)
        /\ UNCHANGED <<bootVars, IFlag, idt, picVars, devVars>>
    BY DEF pusha, At
  <1>2. TypeOK /\ Booted /\ PortInv /\ TickInv
    BY DEF IInv
  <1>3. pc \in Pc /\ pc # "popa" /\ (irq = TIMER \/ irq = KEYBOARD)
    BY DEF Pc, IRQ
  <1>4. /\ stack' \in Seq(Frame)
        /\ stack' # <<>>
        /\ Len(stack') = Len(stack)
        /\ \A i \in 1 .. Len(stack) :
              /\ stack'[i].irq = stack[i].irq
              /\ stack'[i].pc = IF i = Len(stack) THEN pc ELSE stack[i].pc
    BY <1>1, <1>2, <1>3, GotoFacts
  <1>5. Served' /\ Ordered'
    BY <1>1, <1>3, WorkServes DEF Serving, picVars
  <1>6. TypeOK' /\ Booted'
    BY <1>1, <1>2, <1>4 DEF TypeOK, Booted, bootVars, picVars, devVars
  <1>7. \A i \in 1 .. Len(stack) : /\ Unread(stack'[i]) <=> Unread(stack[i])
                                   /\ Counted(stack'[i]) <=> Counted(stack[i])
    BY <1>1, <1>3, <1>4 DEF Unread, Counted, Top, TIMER, KEYBOARD
  <1>8. PortInv'
    BY <1>1, <1>2, <1>4, <1>7 DEF PortInv, picVars, devVars
  <1>9. TickInv'
    BY <1>1, <1>2, <1>4, <1>7 DEF TickInv, bootVars, devVars
  <1>10. QED
    BY <1>5, <1>6, <1>8, <1>9 DEF IInv

\* The counter stays in its range when it wraps around.
LEMMA NextTick ==
    ASSUME NEW t \in 0 .. TICK_MOD - 1
    PROVE  (t + 1) % TICK_MOD \in 0 .. TICK_MOD - 1
  <1>1. CASE t < TICK_MOD - 1
    BY <1>1, TickModAssumption
  <1>2. CASE t = TICK_MOD - 1
    <2>1. (t + 1) % TICK_MOD = 0
      BY <1>2, TickModAssumption
    <2>2. QED
      BY <2>1, TickModAssumption
  <1>3. QED
    BY <1>1, <1>2, TickModAssumption

\* Counting a tick puts the counter ahead of the callback by that one tick.
LEMMA CountIInv ==
    ASSUME IInv, Count
    PROVE  IInv'
  <1>1. /\ stack # <<>> /\ Top.irq = TIMER /\ Top.pc = "count" /\ Goto("tickback")
        /\ numTicks' = (numTicks + 1) % TICK_MOD
        /\ UNCHANGED <<bootVars, IFlag, idt, picVars, tickback, ticked, port>>
    BY DEF Count, At
  <1>2. TypeOK /\ Booted /\ PortInv /\ TickInv
    BY DEF IInv
  <1>3. /\ stack' \in Seq(Frame)
        /\ stack' # <<>>
        /\ Len(stack') = Len(stack)
        /\ \A i \in 1 .. Len(stack) :
              /\ stack'[i].irq = stack[i].irq
              /\ stack'[i].pc = IF i = Len(stack) THEN "tickback" ELSE stack[i].pc
    BY <1>1, <1>2, GotoFacts DEF Pc
  <1>4. Served' /\ Ordered'
    BY <1>1, WorkServes DEF Serving, picVars, Pc
  <1>5. TypeOK' /\ Booted'
    <2>1. numTicks' \in 0 .. TICK_MOD - 1
      BY <1>1, <1>2, NextTick DEF TypeOK
    <2>2. QED
      BY <1>1, <1>2, <1>3, <2>1 DEF TypeOK, Booted, bootVars, picVars
  <1>6. PortInv'
    <2>1. \A i \in 1 .. Len(stack) : Unread(stack'[i]) <=> Unread(stack[i])
      BY <1>1, <1>3 DEF Unread, Top, TIMER, KEYBOARD
    <2>2. QED
      BY <1>1, <1>2, <1>3, <2>1 DEF PortInv, picVars
  <1>7. TickInv'
    <2>1. \A i \in 1 .. Len(stack) : ~Counted(stack[i])
      BY <1>1, TopAlone DEF Counted, Serving, Top, TIMER
    <2>2. numTicks = ticked
      BY <1>2, <2>1 DEF TickInv
    <2>3. Len(stack) \in 1 .. Len(stack) /\ Counted(stack'[Len(stack)])
      BY <1>1, <1>2, <1>3, StackFacts DEF Counted, Top
    <2>4. main' # "timer_initialize"
      BY <1>1, <1>2 DEF Booted, bootVars
    <2>5. QED
      BY <1>1, <1>3, <2>2, <2>3, <2>4 DEF TickInv
  <1>8. QED
    BY <1>4, <1>5, <1>6, <1>7 DEF IInv

\* Calling back hands over the tick that was counted.
LEMMA CallBackIInv ==
    ASSUME IInv, CallBack
    PROVE  IInv' /\ ticked' = (ticked + 1) % TICK_MOD
  <1>1. /\ stack # <<>> /\ Top.irq = TIMER /\ Top.pc = "tickback" /\ Goto("outb")
        /\ ticked' = IF tickback = "NULL" THEN ticked ELSE numTicks
        /\ UNCHANGED <<bootVars, IFlag, idt, picVars, tickback, numTicks, port>>
    BY DEF CallBack, At
  <1>2. TypeOK /\ Booted /\ PortInv /\ TickInv
    BY DEF IInv
  <1>3. /\ stack' \in Seq(Frame)
        /\ stack' # <<>>
        /\ Len(stack') = Len(stack)
        /\ \A i \in 1 .. Len(stack) :
              /\ stack'[i].irq = stack[i].irq
              /\ stack'[i].pc = IF i = Len(stack) THEN "outb" ELSE stack[i].pc
    BY <1>1, <1>2, GotoFacts DEF Pc
  <1>4. Served' /\ Ordered'
    BY <1>1, WorkServes DEF Serving, picVars, Pc
  <1>5. ticked' = numTicks /\ numTicks' = numTicks /\ main' = "game"
    BY <1>1, <1>2 DEF Booted, bootVars
  <1>6. TypeOK' /\ Booted'
    BY <1>1, <1>2, <1>3, <1>5 DEF TypeOK, Booted, bootVars, picVars
  <1>7. PortInv'
    <2>1. \A i \in 1 .. Len(stack) : Unread(stack'[i]) <=> Unread(stack[i])
      BY <1>1, <1>3 DEF Unread, Top, TIMER, KEYBOARD
    <2>2. QED
      BY <1>1, <1>2, <1>3, <2>1 DEF PortInv, picVars
  <1>8. TickInv'
    <2>1. \A i \in 1 .. Len(stack) : ~Counted(stack'[i])
      BY <1>1, <1>3, TopAlone DEF Counted, Serving, Top, TIMER
    <2>2. QED
      BY <1>3, <1>5, <2>1 DEF TickInv
  <1>9. ticked' = (ticked + 1) % TICK_MOD
    <2>1. Len(stack) \in 1 .. Len(stack) /\ Counted(stack[Len(stack)])
      BY <1>1, <1>2, StackFacts DEF Counted, Top
    <2>2. QED
      BY <1>2, <1>5, <2>1 DEF TickInv
  <1>10. QED
    BY <1>4, <1>6, <1>7, <1>8, <1>9 DEF IInv

\* Taking the scancode leaves the port empty and unannounced.
LEMMA InbIInv ==
    ASSUME IInv, inb
    PROVE  IInv'
  <1>1. /\ stack # <<>> /\ Top.irq = KEYBOARD /\ Top.pc = "inb" /\ Goto("kb_buf_write")
        /\ port' = FALSE
        /\ UNCHANGED <<bootVars, IFlag, idt, picVars, tickback, numTicks, ticked>>
    BY DEF inb, At
  <1>2. TypeOK /\ Booted /\ PortInv /\ TickInv
    BY DEF IInv
  <1>3. /\ stack' \in Seq(Frame)
        /\ stack' # <<>>
        /\ Len(stack') = Len(stack)
        /\ \A i \in 1 .. Len(stack) :
              /\ stack'[i].irq = stack[i].irq
              /\ stack'[i].pc = IF i = Len(stack) THEN "kb_buf_write" ELSE stack[i].pc
    BY <1>1, <1>2, GotoFacts DEF Pc
  <1>4. Served' /\ Ordered'
    BY <1>1, WorkServes DEF Serving, picVars, Pc
  <1>5. TypeOK' /\ Booted'
    BY <1>1, <1>2, <1>3 DEF TypeOK, Booted, bootVars, picVars
  <1>6. PortInv'
    <2>1. \A i \in 1 .. Len(stack) : ~Unread(stack'[i])
      BY <1>1, <1>3, TopAlone DEF Unread, Serving, Top, KEYBOARD
    <2>2. Len(stack) \in 1 .. Len(stack) /\ Unread(stack[Len(stack)])
      BY <1>1, <1>2, StackFacts DEF Unread, Top
    <2>3. KEYBOARD \notin irr'
      BY <1>1, <1>2, <2>2 DEF PortInv, picVars
    <2>4. QED
      BY <1>1, <1>3, <2>1, <2>3 DEF PortInv
  <1>7. TickInv'
    <2>1. \A i \in 1 .. Len(stack) : Counted(stack'[i]) <=> Counted(stack[i])
      BY <1>1, <1>3 DEF Counted, Top, TIMER, KEYBOARD
    <2>2. QED
      BY <1>1, <1>2, <1>3, <2>1 DEF TickInv, bootVars
  <1>8. QED
    BY <1>4, <1>5, <1>6, <1>7 DEF IInv

\* Buffering the scancode concerns neither the PIC nor the port.
LEMMA BufferIInv ==
    ASSUME IInv, kb_buf_write
    PROVE  IInv'
  <1>1. /\ stack # <<>> /\ Top.irq = KEYBOARD /\ Top.pc = "kb_buf_write" /\ Goto("outb")
        /\ UNCHANGED <<bootVars, IFlag, idt, picVars, devVars>>
    BY DEF kb_buf_write, At
  <1>2. TypeOK /\ Booted /\ PortInv /\ TickInv
    BY DEF IInv
  <1>3. /\ stack' \in Seq(Frame)
        /\ stack' # <<>>
        /\ Len(stack') = Len(stack)
        /\ \A i \in 1 .. Len(stack) :
              /\ stack'[i].irq = stack[i].irq
              /\ stack'[i].pc = IF i = Len(stack) THEN "outb" ELSE stack[i].pc
    BY <1>1, <1>2, GotoFacts DEF Pc
  <1>4. Served' /\ Ordered'
    BY <1>1, WorkServes DEF Serving, picVars, Pc
  <1>5. TypeOK' /\ Booted'
    BY <1>1, <1>2, <1>3 DEF TypeOK, Booted, bootVars, picVars, devVars
  <1>6. \A i \in 1 .. Len(stack) : /\ Unread(stack'[i]) <=> Unread(stack[i])
                                   /\ Counted(stack'[i]) <=> Counted(stack[i])
    BY <1>1, <1>3 DEF Unread, Counted, Top
  <1>7. PortInv' /\ TickInv'
    BY <1>1, <1>2, <1>3, <1>6 DEF PortInv, TickInv, bootVars, picVars, devVars
  <1>8. QED
    BY <1>4, <1>5, <1>7 DEF IInv

\* The end-of-interrupt command names no IRQ, and ends the right one.
LEMMA EndsItsOwn ==
    ASSUME IInv, NEW irq \in IRQ, outb_INT_ACK_CURRENT(irq)
    PROVE  irq \in isr /\ isr' = isr \ {irq}
  <1>1. stack # <<>> /\ Top.irq = irq /\ Top.pc = "outb"
    BY DEF outb_INT_ACK_CURRENT, At
  <1>2. Serving(Top)
    BY <1>1 DEF Serving
  <1>3. irq \in isr
    BY <1>1, <1>2, TopAlone
  <1>4. ASSUME NEW other \in isr, other # irq
        PROVE  irq < other
    <2>1. other \in IRQ
      BY DEF IInv, TypeOK
    <2>2. PICK i \in 1 .. Len(stack) : stack[i].irq = other /\ Serving(stack[i])
      BY <2>1 DEF IInv, Served
    <2>3. i # Len(stack)
      BY <1>1, <1>4, <2>2 DEF Top
    <2>4. QED
      BY <1>1, <1>2, <2>2, <2>3, TopAlone
  <1>5. isr \subseteq Int
    BY DEF IInv, TypeOK, IRQ, TIMER, KEYBOARD
  <1>6. \A q \in isr : (\A other \in isr : q <= other) <=> q = irq
    BY <1>3, <1>4, <1>5
  <1>7. (CHOOSE q \in isr : \A other \in isr : q <= other) = irq
    BY <1>3, <1>6
  <1>8. QED
    BY <1>3, <1>7 DEF outb_INT_ACK_CURRENT, EndOfInterrupt

\* A handler that acknowledges leaves service, and no other does.
LEMMA OutbIInv ==
    ASSUME IInv, NEW irq \in IRQ, outb_INT_ACK_CURRENT(irq)
    PROVE  IInv'
  <1>1. /\ stack # <<>> /\ Top.irq = irq /\ Top.pc = "outb" /\ Goto("popa")
        /\ UNCHANGED <<bootVars, IFlag, idt, irr, devVars>>
    BY DEF outb_INT_ACK_CURRENT, At
  <1>2. TypeOK /\ Served /\ Ordered /\ Booted /\ PortInv /\ TickInv
    BY DEF IInv
  <1>3. /\ stack' \in Seq(Frame)
        /\ stack' # <<>>
        /\ Len(stack') = Len(stack)
        /\ \A i \in 1 .. Len(stack) :
              /\ stack'[i].irq = stack[i].irq
              /\ stack'[i].pc = IF i = Len(stack) THEN "popa" ELSE stack[i].pc
    BY <1>1, <1>2, GotoFacts DEF Pc
  <1>4. isr' = isr \ {irq}
    BY EndsItsOwn
  <1>5. TypeOK' /\ Booted'
    BY <1>1, <1>2, <1>3, <1>4 DEF TypeOK, Booted, bootVars, devVars
  <1>6. \A i \in 1 .. Len(stack) :
            Serving(stack'[i]) <=> Serving(stack[i]) /\ i # Len(stack)
    BY <1>3 DEF Serving
  <1>7. Ordered'
    BY <1>2, <1>3, <1>6 DEF Ordered
  <1>8. Served'
    <2>1. \A i \in 1 .. Len(stack) : Serving(stack'[i]) => stack[i].irq # irq
      BY <1>1, <1>2, <1>6, TopAlone, StackFacts DEF Serving, IRQ, TIMER, KEYBOARD
    <2>2. \A i \in 1 .. Len(stack) :
              Serving(stack[i]) /\ stack[i].irq # irq => Serving(stack'[i])
      BY <1>1, <1>6 DEF Top
    <2>3. QED
      BY <1>2, <1>3, <1>4, <1>6, <2>1, <2>2 DEF Served
  <1>9. \A i \in 1 .. Len(stack) : /\ Unread(stack'[i]) <=> Unread(stack[i])
                                   /\ Counted(stack'[i]) <=> Counted(stack[i])
    BY <1>1, <1>3 DEF Unread, Counted, Top
  <1>10. PortInv' /\ TickInv'
    BY <1>1, <1>2, <1>3, <1>9 DEF PortInv, TickInv, bootVars, devVars
  <1>11. QED
    BY <1>5, <1>7, <1>8, <1>10 DEF IInv

\* A handler that returns is in nobody's service any more.
LEMMA IretIInv ==
    ASSUME IInv, NEW irq \in IRQ, iret(irq)
    PROVE  IInv'
  <1>1. TypeOK /\ Served /\ Ordered /\ Booted /\ PortInv /\ TickInv
    BY DEF IInv
  <1>2. /\ stack # <<>> /\ IFlag' = stack[Len(stack)].saved
        /\ UNCHANGED <<bootVars, idt, picVars, devVars>>
    BY DEF iret, At, Top
  <1>3. PICK n \in Nat : n = Len(stack) /\ n >= 1
    BY <1>1, <1>2, StackFacts
  <1>4. /\ stack' \in Seq(Frame)
        /\ Len(stack') = n - 1
        /\ \A i \in 1 .. n - 1 : stack'[i] = stack[i]
        /\ stack[n].pc = "popa"
    BY <1>1, <1>3, IretFacts
  <1>5. /\ \A i \in 1 .. n : i \in 1 .. n - 1 \/ i = n
        /\ \A i \in 1 .. n - 1 : i \in 1 .. n
    BY <1>3
  <1>6. TypeOK'
    <2>1. IFlag' \in BOOLEAN
      BY <1>1, <1>2, <1>3, <1>5, StackFacts
    <2>2. QED
      BY <1>1, <1>2, <1>4, <2>1 DEF TypeOK, bootVars, picVars, devVars
  <1>7. Booted'
    BY <1>1, <1>2 DEF Booted, bootVars, devVars
  <1>8. ~Serving(stack[n]) /\ ~Unread(stack[n]) /\ ~Counted(stack[n])
    BY <1>4 DEF Serving, Unread, Counted
  <1>9. Served' /\ Ordered'
    BY <1>1, <1>2, <1>3, <1>4, <1>5, <1>8, SMTT(30) DEF Served, Ordered, picVars
  <1>10. PortInv' /\ TickInv'
    BY <1>1, <1>2, <1>3, <1>4, <1>5, <1>8 DEF PortInv, TickInv, bootVars, picVars, devVars
  <1>11. QED
    BY <1>6, <1>7, <1>9, <1>10 DEF IInv

\* Every step preserves the invariant.
LEMMA NextIInv ==
    ASSUME IInv, [Next]_vars
    PROVE  IInv'
  <1>1. CASE kernel_main
    BY <1>1, BootIInv
  <1>2. CASE TimerFires \/ KeyArrives
    BY <1>2, DeviceIInv
  <1>3. ASSUME NEW irq \in IRQ, Deliver(irq)
        PROVE  IInv'
    BY <1>3, DeliverIInv
  <1>4. ASSUME NEW irq \in IRQ, Handler(irq)
        PROVE  IInv'
    BY <1>4, PushaIInv, CountIInv, CallBackIInv, InbIInv, BufferIInv, OutbIInv, IretIInv
       DEF Handler
  <1>5. CASE UNCHANGED vars
    BY <1>5 DEF vars, bootVars, cpuVars, picVars, devVars, IInv, TypeOK, Served, Ordered,
       Booted, PortInv, TickInv, Serving, Unread, Counted
  <1>6. QED
    BY <1>1, <1>2, <1>3, <1>4, <1>5 DEF Next

\* The inductive invariant holds in every reachable state.
LEMMA Invariance == Spec => []IInv
  <1>1. IInv /\ [Next]_vars => IInv'
    BY NextIInv
  <1>2. QED
    BY InitIInv, <1>1, PTL DEF Spec

-----------------------------------------------------------------------------
(* What follows for the code.                                              *)

\* The variables keep their types: handlers nest as sequences of frames, the
\* counter stays an unsigned int (kern/handlers.c, kern/timer.c).
THEOREM TypeCorrect == Spec => []TypeOK
  <1>1. IInv => TypeOK
    BY DEF IInv
  <1>2. QED
    BY Invariance, <1>1, PTL

\* The end-of-interrupt command of handlers.c:139, 158 ends the interrupt of
\* the handler that gives it, however deep the handlers are nested.
THEOREM Acknowledgement == Spec => []PicAgreesWithStack
  <1>1. ASSUME IInv PROVE PicAgreesWithStack
    <2>1. isr \subseteq IRQ
      BY <1>1 DEF IInv, TypeOK
    <2>2. \A irq \in IRQ : irq \in isr <=> InService(irq) # {}
      BY <1>1 DEF IInv, Served, Serving, InService
    <2>3. isr = {irq \in IRQ : InService(irq) # {}}
      BY <2>1, <2>2
    <2>4. QED
      BY <1>1, <2>3 DEF IInv, Ordered, Serving, PicAgreesWithStack
  <1>2. QED
    BY Invariance, <1>1, PTL

\* Neither timer_tick nor kb_buf_write is entered again before it is done,
\* although a trap gate leaves interrupts enabled.
THEOREM NoReentry == Spec => []NotReentered
  <1>1. ASSUME IInv, NEW irq \in IRQ PROVE Cardinality(InService(irq)) <= 1
    <2>1. ASSUME NEW i \in InService(irq), NEW j \in InService(irq)
          PROVE  i = j
      <3>1. /\ i \in 1 .. Len(stack) /\ j \in 1 .. Len(stack)
            /\ stack[i].irq = irq /\ stack[j].irq = irq
            /\ Serving(stack[i]) /\ Serving(stack[j])
        BY DEF InService, Serving
      <3>2. ~(i < j) /\ ~(j < i)
        BY <1>1, <3>1 DEF IInv, Ordered, IRQ, TIMER, KEYBOARD
      <3>3. QED
        BY <3>1, <3>2
    <2>2. CASE InService(irq) = {}
      BY <2>2, FS_EmptySet
    <2>3. ASSUME NEW i \in InService(irq)
          PROVE  Cardinality(InService(irq)) <= 1
      <3>1. InService(irq) = {i}
        BY <2>1, <2>3
      <3>2. QED
        BY <3>1, FS_Singleton
    <2>4. QED
      BY <2>2, <2>3
  <1>2. IInv => NotReentered
    BY <1>1 DEF NotReentered
  <1>3. QED
    BY Invariance, <1>2, PTL

\* No handler runs before kernel_main has installed both of them and the
\* callback, and has initialised the buffer.
THEOREM Installed == Spec => []HandlersAreInstalled
  <1>1. IInv => HandlersAreInstalled
    BY DEF IInv, Booted, HandlersAreInstalled, IRQ
  <1>2. QED
    BY Invariance, <1>1, PTL

\* Every keyboard interrupt reads a scancode of its own from the port.
THEOREM ReadOnce == Spec => []ScancodeReadOnce
  <1>1. ASSUME IInv PROVE ScancodeReadOnce
    <2>1. ASSUME NEW i \in InService(KEYBOARD), stack[i].pc \in {"pusha", "inb"}
          PROVE  port
      <3>1. i \in 1 .. Len(stack) /\ Unread(stack[i])
        BY <2>1 DEF InService, Unread
      <3>2. QED
        BY <1>1, <3>1 DEF IInv, PortInv
    <2>2. ASSUME NEW i \in 1 .. Len(stack), Unread(stack[i])
          PROVE  i \in InService(KEYBOARD) /\ stack[i].pc \in {"pusha", "inb"}
      BY <2>2 DEF InService, Unread
    <2>3. QED
      BY <1>1, <2>1, <2>2 DEF IInv, PortInv, ScancodeReadOnce
  <1>2. QED
    BY Invariance, <1>1, PTL

\* The callback is told every tick once and in order, across the wrap-around
\* of the counter and whatever the timer's handler is interrupted by.
THEOREM TickOrder == Spec => TicksInOrder
  <1>1. ASSUME IInv, [Next]_vars
        PROVE  [ticked' # ticked => ticked' = (ticked + 1) % TICK_MOD]_vars
    <2>1. CASE CallBack
      BY <1>1, <2>1, CallBackIInv
    <2>2. CASE kernel_main
      BY <2>2 DEF kernel_main, timer_initialize, kb_buf_initialize, timer_set_tickback,
         install_timer, install_keyboard, enable_interrupts, devVars
    <2>3. CASE TimerFires \/ KeyArrives
      BY <2>3 DEF TimerFires, KeyArrives, devVars
    <2>4. ASSUME NEW irq \in IRQ, Deliver(irq) \/ Handler(irq), ~CallBack
          PROVE  ticked' = ticked
      BY <2>4 DEF Deliver, Handler, pusha, Count, inb, kb_buf_write,
         outb_INT_ACK_CURRENT, iret, devVars
    <2>5. QED
      BY <1>1, <2>1, <2>2, <2>3, <2>4 DEF Next
  <1>2. QED
    BY Invariance, <1>1, PTL DEF Spec, TicksInOrder
=============================================================================
