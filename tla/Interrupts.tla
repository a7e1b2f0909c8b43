----------------------------- MODULE Interrupts -----------------------------
(***************************************************************************)
(* How the timer and the keyboard interrupt the kernel: kernel_main's boot *)
(* sequence (kern/game.c), the handlers and their assembly wrappers        *)
(* (kern/handlers.c, kern/handlers_asm.S), the timer (kern/timer.c) and,   *)
(* external to them, the 8259 PIC that 410kern/x86/pic.c sets up.          *)
(*                                                                         *)
(* Handlers are entered through TRAP gates, which leave the interrupt flag *)
(* alone: a handler can be interrupted at any point where the PIC still    *)
(* lets a request through, and after its end-of-interrupt command even by  *)
(* its own IRQ.                                                            *)
(***************************************************************************)
EXTENDS Integers, Sequences, FiniteSets

CONSTANTS
    TICK_MOD,      \* numTicks is an unsigned int: 2^32 in the code
    MaxDepth       \* bound on nested handlers: the kernel stack is finite

ASSUME TickModAssumption == TICK_MOD \in Nat /\ TICK_MOD >= 2
ASSUME MaxDepthAssumption == MaxDepth \in Nat

\* The two IRQ lines in use; the PIC serves the lower number first.
TIMER == 0
KEYBOARD == 1
IRQ == {TIMER, KEYBOARD}

VARIABLES
    slow,          \* whether a device waits until its handler has returned
    main,          \* how far kernel_main is
    IFlag,         \* EFLAGS.IF: the CPU accepts interrupts
    idt,           \* the gate of each IRQ
    tickback,      \* timer.tickback
    numTicks,      \* timer.numTicks
    period,        \* the reload value the PIT was given, in cycles
    stack,         \* active handlers, innermost last
    irr, isr,      \* requests pending at, and being served by, the PIC
    port,          \* a scancode is waiting at KEYBOARD_PORT
    ticked         \* the argument of the last call of tickback

bootVars == <<slow, main, period>>
cpuVars  == <<IFlag, idt, stack>>
picVars  == <<irr, isr>>
devVars  == <<tickback, numTicks, ticked, port>>
vars == <<bootVars, cpuVars, picVars, devVars>>

-----------------------------------------------------------------------------
(* The timer's period.  x | 0xFF sets the low eight bits of x.             *)

TIMER_RATE == 1193182
CYCLES_10_MS == TIMER_RATE \div 100

OrFF(x) == (x \div 256) * 256 + 255
uint8(x) == x % 256

period_lsb == uint8(OrFF(CYCLES_10_MS))
period_msb == uint8(OrFF(CYCLES_10_MS \div 256))

-----------------------------------------------------------------------------
(* Gates.  A trap gate leaves IF alone, an interrupt gate clears it.       *)

NoGate == [present |-> FALSE]
Gate(type) == [present |-> TRUE, type |-> type]
\* Mutant: the gate is packed without its present bit.
install_absent(irq) == idt' = [idt EXCEPT ![irq] = NoGate]
install_idt_km(irq) == idt' = [idt EXCEPT ![irq] = Gate("TRAP")]

Init ==
    /\ slow \in BOOLEAN
    /\ main = "timer_initialize"
    /\ IFlag = FALSE
    /\ idt = [irq \in IRQ |-> NoGate]
    /\ tickback = "NULL"
    /\ numTicks = 0
    /\ period = 65536            \* what the BIOS leaves: reload value 0
    /\ stack = <<>>
    /\ irr \in SUBSET IRQ        \* devices may have called before the kernel
    /\ isr = {}
    /\ port = (KEYBOARD \in irr)
    /\ ticked = 0

-----------------------------------------------------------------------------
(* kernel_main, which runs when no handler is active.                      *)

Main(from, to) == main = from /\ main' = to /\ stack = <<>> /\ UNCHANGED slow

timer_initialize ==
    /\ Main("timer_initialize", "kb_buf_initialize")
    /\ numTicks' = 0
    /\ tickback' = "NULL"
    /\ period' = period_lsb + 256 * period_msb
    /\ UNCHANGED <<cpuVars, picVars, ticked, port>>

\* The indices it sets are KbBuffer's.
kb_buf_initialize ==
    /\ Main("kb_buf_initialize", "set_tickback")
    /\ UNCHANGED <<period, cpuVars, picVars, devVars>>

\* handler_install(tick): the callback, then one gate after the other.
timer_set_tickback ==
    /\ Main("set_tickback", "install_timer")
    /\ tickback' = "tick"
    /\ UNCHANGED <<period, cpuVars, picVars, numTicks, ticked, port>>

install_timer ==
    /\ Main("install_timer", "install_keyboard")
    /\ install_idt_km(TIMER)
    /\ UNCHANGED <<period, IFlag, stack, picVars, devVars>>

install_keyboard ==
    /\ Main("install_keyboard", "enable_interrupts")
    /\ install_idt_km(KEYBOARD)
    /\ UNCHANGED <<period, IFlag, stack, picVars, devVars>>

\* Mutant: interrupts are enabled before the keyboard's gate is there.
enable_early ==
    /\ Main("install_keyboard", "game")
    /\ IFlag' = TRUE
    /\ UNCHANGED <<period, idt, stack, picVars, devVars>>
enable_interrupts ==
    /\ Main("enable_interrupts", "game")
    /\ IFlag' = TRUE
    /\ UNCHANGED <<period, idt, stack, picVars, devVars>>

kernel_main ==
    \/ timer_initialize
    \/ kb_buf_initialize
    \/ timer_set_tickback
    \/ install_timer
    \/ install_keyboard
    \/ enable_interrupts

-----------------------------------------------------------------------------
(* The devices and the PIC.                                                *)

Active(irq) == \E i \in 1 .. Len(stack) : stack[i].irq = irq
Ready(irq) == slow => ~Active(irq) /\ irq \notin irr

\* A second tick while one is pending is lost: the request is one bit.
TimerFires ==
    /\ Ready(TIMER)
    /\ irr' = irr \cup {TIMER}
    /\ UNCHANGED <<bootVars, cpuVars, isr, devVars>>

\* The keyboard presents its next scancode once the last one was taken.
KeyArrives ==
    /\ Ready(KEYBOARD)
    /\ ~port
    /\ port' = TRUE
    /\ irr' = irr \cup {KEYBOARD}
    /\ UNCHANGED <<bootVars, cpuVars, isr, tickback, numTicks, ticked>>

\* A request gets through if none as urgent is pending or in service.
Deliverable(irq) ==
    /\ irq \in irr
    /\ \A other \in isr : irq < other
    /\ \A other \in irr : irq <= other

Deliver(irq) ==
    /\ IFlag
    /\ Deliverable(irq)
    /\ Len(stack) < MaxDepth
    /\ irr' = irr \ {irq}
    /\ isr' = isr \cup {irq}
    /\ stack' = Append(stack, [irq |-> irq, pc |-> "pusha", saved |-> IFlag])
    /\ IFlag' = (idt[irq].present /\ idt[irq].type = "TRAP")
    /\ UNCHANGED <<bootVars, idt, devVars>>

-----------------------------------------------------------------------------
(* A handler: pusha; the C function, which ends with the non-specific      *)
(* end-of-interrupt command; popa; iret.                                   *)

Top == stack[Len(stack)]
At(irq, pc) == stack # <<>> /\ Top.irq = irq /\ Top.pc = pc
Goto(pc) == stack' = [stack EXCEPT ![Len(stack)].pc = pc]

\* Mutant: the handler acknowledges before it does its work.
pushaAcknowledging(irq) ==
    /\ At(irq, "pusha")
    /\ Goto(IF irq = TIMER THEN "count" ELSE "inb")
    /\ isr' = isr \ {irq}
    /\ UNCHANGED <<bootVars, IFlag, idt, irr, devVars>>
pusha(irq) ==
    /\ At(irq, "pusha")
    /\ Goto(IF irq = TIMER THEN "count" ELSE "inb")
    /\ UNCHANGED <<bootVars, IFlag, idt, picVars, devVars>>

\* timer_tick: count, then call back with the count read again.
\* Mutant: a tick is counted twice.
CountTwice ==
    /\ At(TIMER, "count")
    /\ numTicks' = (numTicks + 2) % TICK_MOD
    /\ Goto("tickback")
    /\ UNCHANGED <<bootVars, IFlag, idt, picVars, tickback, ticked, port>>
\* Mutant: the counter is wider than an unsigned int.
CountUnwrapped ==
    /\ At(TIMER, "count")
    /\ numTicks' = numTicks + 1
    /\ Goto("tickback")
    /\ UNCHANGED <<bootVars, IFlag, idt, picVars, tickback, ticked, port>>
Count ==
    /\ At(TIMER, "count")
    /\ numTicks' = (numTicks + 1) % TICK_MOD
    /\ Goto("tickback")
    /\ UNCHANGED <<bootVars, IFlag, idt, picVars, tickback, ticked, port>>

CallBack ==
    /\ At(TIMER, "tickback")
    /\ ticked' = IF tickback = "NULL" THEN ticked ELSE numTicks
    /\ Goto("outb")
    /\ UNCHANGED <<bootVars, IFlag, idt, picVars, tickback, numTicks, port>>

\* Mutant: the scancode is not taken when the buffer is found full.
inbSkipped ==
    /\ At(KEYBOARD, "inb")
    /\ Goto("kb_buf_write")
    /\ UNCHANGED <<bootVars, IFlag, idt, picVars, devVars>>
\* kb_handler: the scancode is taken from the port, then buffered.
inb ==
    /\ At(KEYBOARD, "inb")
    /\ port' = FALSE
    /\ Goto("kb_buf_write")
    /\ UNCHANGED <<bootVars, IFlag, idt, picVars, tickback, numTicks, ticked>>

\* Mutant: the handler waits for the game to make room in a full buffer.
kb_buf_write_waiting ==
    /\ At(KEYBOARD, "kb_buf_write")
    /\ Goto("kb_buf_write")
    /\ UNCHANGED <<bootVars, IFlag, idt, picVars, devVars>>
kb_buf_write ==
    /\ At(KEYBOARD, "kb_buf_write")
    /\ Goto("outb")
    /\ UNCHANGED <<bootVars, IFlag, idt, picVars, devVars>>

\* Mutant: the timer's handler forgets to acknowledge.
outb_forgotten(irq) ==
    /\ At(irq, "outb")
    /\ isr' = IF irq = TIMER THEN isr ELSE isr \ {irq}
    /\ Goto("popa")
    /\ UNCHANGED <<bootVars, IFlag, idt, irr, devVars>>
\* INT_ACK_CURRENT names no IRQ: the PIC ends the most urgent one in service.
EndOfInterrupt == isr \ {CHOOSE irq \in isr : \A other \in isr : irq <= other}

outb_INT_ACK_CURRENT(irq) ==
    /\ At(irq, "outb")
    /\ isr' = IF isr = {} THEN {} ELSE EndOfInterrupt
    /\ Goto("popa")
    /\ UNCHANGED <<bootVars, IFlag, idt, irr, devVars>>

iret(irq) ==
    /\ At(irq, "popa")
    /\ IFlag' = Top.saved
    /\ stack' = SubSeq(stack, 1, Len(stack) - 1)
    /\ UNCHANGED <<bootVars, idt, picVars, devVars>>

Handler(irq) ==
    \/ pusha(irq)
    \/ irq = TIMER /\ (Count \/ CallBack)
    \/ irq = KEYBOARD /\ (inb \/ kb_buf_write)
    \/ outb_INT_ACK_CURRENT(irq)
    \/ iret(irq)

Next ==
    \/ kernel_main
    \/ TimerFires
    \/ KeyArrives
    \/ \E irq \in IRQ : Deliver(irq) \/ Handler(irq)

Spec == Init /\ [][Next]_vars

(* The CPU executes the code it is in.  A handler that is interrupted      *)
(* again and again still advances between two interrupts, and the timer    *)
(* leaves gaps in which the keyboard's request is the most urgent: both    *)
(* real devices are slow compared with their handlers, so liveness is     *)
(* claimed of slow devices only.                                           *)
FairSpec ==
    /\ Spec
    /\ WF_vars(kernel_main)
    /\ \A irq \in IRQ : SF_vars(Deliver(irq)) /\ SF_vars(Handler(irq))

-----------------------------------------------------------------------------
Pc == {"pusha", "count", "tickback", "inb", "kb_buf_write", "outb", "popa"}
Frame == [irq : IRQ, pc : Pc, saved : BOOLEAN]

(* The types of the variables.                                             *)
TypeOK ==
    /\ slow \in BOOLEAN
    /\ main \in {"timer_initialize", "kb_buf_initialize", "set_tickback",
                 "install_timer", "install_keyboard", "enable_interrupts", "game"}
    /\ IFlag \in BOOLEAN
    /\ idt \in [IRQ -> {NoGate, Gate("TRAP")}]
    /\ tickback \in {"NULL", "tick"}
    /\ numTicks \in 0 .. TICK_MOD - 1
    /\ period \in Nat
    /\ stack \in Seq(Frame)
    /\ irr \in SUBSET IRQ
    /\ isr \in SUBSET IRQ
    /\ port \in BOOLEAN
    /\ ticked \in 0 .. TICK_MOD - 1

\* The handlers of irq that have not given their end-of-interrupt command.
InService(irq) == {i \in 1 .. Len(stack) : stack[i].irq = irq /\ stack[i].pc # "popa"}

(* Handlers nest because of the trap gates, but neither timer_tick nor     *)
(* kb_buf_write is ever entered again before it is done: the numTicks++ of *)
(* timer.c:35 and the two stores of kb_buffer.c:59-60 rely on it.          *)
NotReentered == \A irq \in IRQ : Cardinality(InService(irq)) <= 1

(* The end-of-interrupt command names no IRQ (handlers.c:139, 158), yet it *)
(* always ends the interrupt of the handler that gives it: what the PIC    *)
(* holds in service are the handlers still to give one, and the innermost  *)
(* of them is the most urgent.                                             *)
PicAgreesWithStack ==
    /\ isr = {irq \in IRQ : InService(irq) # {}}
    /\ \A i, j \in 1 .. Len(stack) :
          /\ i < j
          /\ stack[i].pc # "popa"
          /\ stack[j].pc # "popa"
          => stack[j].irq < stack[i].irq

(* No handler runs before the boot sequence is over: its gate is there,    *)
(* the timer has its callback, and the keyboard's buffer is initialised.   *)
HandlersAreInstalled ==
    stack # <<>> => /\ main = "game"
                    /\ \A irq \in IRQ : idt[irq].present
                    /\ tickback = "tick"

(* Every keyboard interrupt finds its own scancode in the port: none is    *)
(* read twice and none is overwritten, even though the next key can come   *)
(* as soon as the port is read and before the handler is over.             *)
ScancodeReadOnce ==
    /\ \A i \in InService(KEYBOARD) : stack[i].pc \in {"pusha", "inb"} => port
    /\ port => \/ KEYBOARD \in irr
               \/ \E i \in InService(KEYBOARD) : stack[i].pc \in {"pusha", "inb"}

(* The callback sees every tick the CPU accepted once and in order,        *)
(* whatever interrupts what, across the wrap-around of the counter.        *)
TicksInOrder == [][ticked' # ticked => ticked' = (ticked + 1) % TICK_MOD]_vars

(* timer.h:8-12, 19: the timer fires every 10 milliseconds.                *)
PeriodIs10ms == main = "game" => period = CYCLES_10_MS

(* A key that is pressed is taken from the port in the end, however often  *)
(* the more urgent timer interrupts.                                       *)
KeyIsTaken == slow => (main = "game" /\ port ~> ~port)

(* The interrupts never shut the game out for good.                        *)
MainRunsAgain == slow => []<>(stack = <<>>)
=============================================================================
