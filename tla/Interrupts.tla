----------------------------- MODULE Interrupts -----------------------------
(***************************************************************************)
(* Start-up and interrupts: entry() of student-distrib/kernel.c up to its  *)
(* read loop, the interrupt controller functions of i8259.c, and the way   *)
(* the handlers keyboard and rt_clock of idthandlers.c are entered, nest   *)
(* and return.                                                             *)
(*                                                                         *)
(* The two 8259A controllers are modelled from how i8259.c programs them:  *)
(* a raised line latches a request; the processor is given the unmasked    *)
(* request with the lowest number unless that number or a lower one is in  *)
(* service; the slave hangs on line 2 of the master.  ICW1 clears the      *)
(* masks and the request latches.                                          *)
(***************************************************************************)
EXTENDS Integers, Sequences, Paging

CONSTANT MaxDepth   \* bound: interrupt frames on the kernel stack

ASSUME DepthAssumption == MaxDepth \in Nat /\ MaxDepth > 0

VARIABLES
    pc, k,               \* next statement of entry(); turns of its loop, or port
                         \* writes of i8259_init, done
    IF_flag,             \* the processor's interrupt flag
    gate,                \* idt[]: the kind of gate in every vector in use
    idtr, paging,        \* lidt done; paging enabled
    page_directory,      \* the page tables; empty before paging_init
    fileptr,             \* entry()'s pointer to the file system module
    rtc_on,              \* rtc_open has enabled the clock's interrupts
    mask, irr, isr,      \* controllers: masked, latched and in-service lines
    base, icw,           \* controllers: first vector; initialisation word expected
    line,                \* level of the devices' interrupt lines
    stack,               \* interrupt frames, the running handler last
    missed               \* ghost: lines that were high when ICW1 cleared their latch

memory  == <<paging, page_directory>>
boot    == <<pc, k, gate, idtr, memory, fileptr, rtc_on>>
chips   == <<mask, irr, isr, base, icw>>
vars    == <<boot, IF_flag, chips, line, stack, missed>>

Chips   == {"master", "slave"}
IRs     == 0 .. 7
Devices == {0, 1, 8}                    \* timer chip, keyboard, real-time clock
IrqVectors == {32, 33, 40}
Vectors    == IrqVectors \cup {0, 128}  \* 0 stands for the exceptions' vectors

ChipOf(irq) == IF irq < 8 THEN "master" ELSE "slave"
IrOf(irq)   == IF irq < 8 THEN irq ELSE irq - 8

\* The kernel gets control with interrupts off (cli in boot.S) and the
\* controllers as the firmware programmed them.
Init ==
    /\ pc = "terminal_open" /\ k = 0
    /\ IF_flag = 0
    /\ gate = [v \in Vectors |-> "none"]
    /\ idtr = 0 /\ paging = 0 /\ rtc_on = 0
    /\ page_directory = <<>>
    /\ fileptr = "uninitialised"
    /\ mask = [c \in Chips |-> {}]
    /\ irr = [c \in Chips |-> {}]
    /\ isr = [c \in Chips |-> {}]
    /\ base = [c \in Chips |-> IF c = "master" THEN 8 ELSE 112]
    /\ icw = [c \in Chips |-> 0]
    /\ line = [d \in Devices |-> 0]
    /\ stack = <<>>
    /\ missed = {}

-----------------------------------------------------------------------------
(* The controllers *)

\* outb(ICW1, port): masks and request latches are cleared, three words follow
Command(c) ==
    /\ icw' = [icw EXCEPT ![c] = 2]
    /\ mask' = [mask EXCEPT ![c] = {}]
    /\ irr' = [irr EXCEPT ![c] = {}]
    /\ isr' = [isr EXCEPT ![c] = {}]
    /\ missed' = missed \cup {d \in Devices : ChipOf(d) = c /\ line[d] = 1}
    /\ UNCHANGED base

\* The lines whose bits are set in a byte.
BitsOf(b) ==
    {i \in IRs : (b \div <<1, 2, 4, 8, 16, 32, 64, 128>>[i + 1]) % 2 = 1}

\* outb(b, port + 1): the word that is expected, or the mask
Data(c, b) ==
    /\ icw' = [icw EXCEPT ![c] = CASE @ = 0 -> 0 [] @ = 4 -> 0 [] OTHER -> @ + 1]
    /\ base' = IF icw[c] = 2 THEN [base EXCEPT ![c] = b] ELSE base
    /\ mask' = IF icw[c] = 0 THEN [mask EXCEPT ![c] = BitsOf(b)] ELSE mask
    /\ UNCHANGED <<irr, isr, missed>>

\* The unmasked requests a controller passes on.
Requests(c, latched) ==
    {n \in latched \ mask[c] : \A s \in isr[c] : n < s}

SlaveRequests  == Requests("slave", irr["slave"])
MasterRequests ==
    Requests("master", irr["master"] \cup IF SlaveRequests = {} THEN {} ELSE {2})

Highest(S) == CHOOSE n \in S : \A m \in S : n <= m

-----------------------------------------------------------------------------
(* i8259.c *)

\* The port writes of i8259_init, in order.
InitWrites ==
    << <<"master", "data", 255>>, <<"slave", "data", 255>>,
       <<"master", "command", 17>>, <<"slave", "command", 17>>,   \* ICW1
       <<"master", "data", 32>>, <<"slave", "data", 40>>,         \* ICW2
       <<"master", "data", 4>>, <<"slave", "data", 2>>,           \* ICW3
       <<"master", "data", 1>>, <<"slave", "data", 1>>,           \* ICW4
       <<"master", "data", 255>>, <<"slave", "data", 255>> >>

\* Mutant: the slave's lines are counted from 7 instead of 8.
Unmasked_FromSeven(irq) == [mask EXCEPT ![ChipOf(irq)] = @ \ {irq % 7}]

\* The masks after disable_irq(irq) and after enable_irq(irq).
Masked(irq) == [mask EXCEPT ![ChipOf(irq)] = @ \cup {IrOf(irq)}]
Unmasked(irq) == [mask EXCEPT ![ChipOf(irq)] = @ \ {IrOf(irq)}]

\* Mutant: the master is not told of the slave's interrupt.
send_eoi_NoMaster(irq, c) ==
    IF c = ChipOf(irq) THEN [isr EXCEPT ![c] = @ \ {IrOf(irq)}] ELSE isr

\* What send_eoi(irq) does at controller c: a specific end of interrupt, to the
\* master for line 2 when irq is the slave's.
send_eoi(irq, c) ==
    [isr EXCEPT ![c] = @ \ {IF c = ChipOf(irq) THEN IrOf(irq) ELSE 2}]

-----------------------------------------------------------------------------
(* entry(), which runs while no handler does *)

Goto(from, to) == pc = from /\ pc' = to /\ stack = <<>>

\* terminal_open; the magic number check returns to boot.S, which halts
TerminalOpen ==
    /\ Goto("terminal_open", "modules") \/ Goto("terminal_open", "halt")
    /\ UNCHANGED <<k, gate, idtr, memory, fileptr, rtc_on, IF_flag, chips, line,
                   stack, missed>>

\* The multiboot flags: bit 3 says that modules were loaded; bits 4 and 5
\* together make entry() return.
Modules ==
    /\ Goto("modules", "disable") \/ Goto("modules", "halt")
    /\ fileptr' \in {fileptr, "module"}
    /\ UNCHANGED <<k, gate, idtr, memory, rtc_on, IF_flag, chips, line, stack,
                   missed>>

\* LDT and TSS, then the loop of disable_irq(j)
DisableIrq ==
    /\ Goto("disable", IF k = 15 THEN "i8259_init" ELSE "disable")
    /\ k' = (k + 1) % 16
    /\ mask' = Masked(k)
    /\ UNCHANGED <<gate, idtr, memory, fileptr, rtc_on, IF_flag, irr, isr, base,
                   icw, line, stack, missed>>

\* One port write of i8259_init.
i8259_init ==
    LET w == InitWrites[k + 1] IN
    /\ k < Len(InitWrites)
    /\ Goto("i8259_init", IF k + 1 = Len(InitWrites) THEN "exceptions"
                                                     ELSE "i8259_init")
    /\ k' = k + 1
    /\ IF w[2] = "command" THEN Command(w[1]) ELSE Data(w[1], w[3])
    /\ UNCHANGED <<gate, idtr, memory, fileptr, rtc_on, IF_flag, line, stack>>

\* An idt[] entry.  The exceptions set reserved3, which makes a trap gate; the
\* others leave it as the stack had it.
SetGate(from, to, v, kinds) ==
    /\ Goto(from, to)
    /\ \E g \in kinds : gate' = [gate EXCEPT ![v] = g]
    /\ UNCHANGED <<k, idtr, memory, fileptr, rtc_on, IF_flag, chips, line, stack,
                   missed>>

SetGates ==
    \/ SetGate("exceptions", "timer", 0, {"trap"})
    \/ SetGate("timer", "keyboard", 32, {"interrupt", "trap"})
    \/ SetGate("keyboard", "clock", 33, {"interrupt", "trap"})
    \/ SetGate("clock", "systemcall", 40, {"interrupt", "trap"})
    \/ SetGate("systemcall", "lidt", 128, {"interrupt", "trap"})

Lidt ==
    /\ Goto("lidt", "paging_init")
    /\ idtr' = 1
    /\ UNCHANGED <<k, gate, memory, fileptr, rtc_on, IF_flag, chips, line, stack,
                   missed>>

PagingInit ==
    /\ Goto("paging_init", "enable_8")
    /\ page_directory' = Directory
    /\ paging' = 1
    /\ UNCHANGED <<k, gate, idtr, fileptr, rtc_on, IF_flag, chips, line, stack,
                   missed>>

Enable(from, to, irq) ==
    /\ Goto(from, to)
    /\ mask' = Unmasked(irq)
    /\ UNCHANGED <<k, gate, idtr, memory, fileptr, rtc_on, IF_flag, irr, isr,
                   base, icw, line, stack, missed>>

EnableIrqs ==
    \/ Enable("enable_8", "enable_2", 8)
    \/ Enable("enable_2", "enable_1", 2)
    \/ Enable("enable_1", "sti", 1)

Sti ==
    /\ Goto("sti", "rtc_open")
    /\ IF_flag' = 1
    /\ UNCHANGED <<k, gate, idtr, memory, fileptr, rtc_on, chips, line, stack,
                   missed>>

RtcOpen ==
    /\ Goto("rtc_open", "filesys_init")
    /\ rtc_on' = 1
    /\ UNCHANGED <<k, gate, idtr, memory, fileptr, IF_flag, chips, line, stack,
                   missed>>

\* filesys_init(fileptr) and on to the read loop, or to the halt of boot.S
FilesysInit ==
    /\ Goto("filesys_init", "loop")
    /\ UNCHANGED <<k, gate, idtr, memory, fileptr, rtc_on, IF_flag, chips, line,
                   stack, missed>>

Idle == pc \in {"loop", "halt"} /\ stack = <<>> /\ UNCHANGED vars

Entry == \/ TerminalOpen \/ Modules \/ DisableIrq \/ i8259_init \/ SetGates \/ Lidt
         \/ PagingInit \/ EnableIrqs \/ Sti \/ RtcOpen \/ FilesysInit \/ Idle

-----------------------------------------------------------------------------
(* Devices and the processor *)

\* A line rises: a timer tick, a byte from the keyboard, a clock flag whose
\* interrupt is enabled.  It latches a request.
Raise(d) ==
    /\ line[d] = 0
    /\ d = 8 => rtc_on = 1
    /\ line' = [line EXCEPT ![d] = 1]
    /\ irr' = [irr EXCEPT ![ChipOf(d)] = @ \cup {IrOf(d)}]
    /\ UNCHANGED <<boot, IF_flag, mask, isr, base, icw, stack, missed>>

\* The timer's output is a square wave.
TimerFalls ==
    /\ line[0] = 1
    /\ line' = [line EXCEPT ![0] = 0]
    /\ missed' = missed \ {0}
    /\ UNCHANGED <<boot, IF_flag, chips, stack>>

\* The processor takes an interrupt: acknowledge, push a frame, and through an
\* interrupt gate clear the interrupt flag.
Accept ==
    LET n    == Highest(MasterRequests)
        s    == Highest(SlaveRequests)
        v    == IF n = 2 THEN base["slave"] + s ELSE base["master"] + n
    IN  /\ IF_flag = 1 /\ MasterRequests # {} /\ Len(stack) < MaxDepth
        /\ isr' = [isr EXCEPT !["master"] = @ \cup {n},
                              !["slave"]  = @ \cup IF n = 2 THEN {s} ELSE {}]
        /\ irr' = [irr EXCEPT !["master"] = @ \ {n},
                              !["slave"]  = @ \ IF n = 2 THEN {s} ELSE {}]
        /\ stack' = Append(stack, [vector |-> v, at |-> "cli"])
        /\ IF_flag' = IF v \in Vectors /\ gate[v] = "interrupt" THEN 0 ELSE IF_flag
        /\ UNCHANGED <<boot, mask, base, icw, line, missed>>

-----------------------------------------------------------------------------
(* keyboard and rt_clock *)

Irq(v) == IF v = 33 THEN 1 ELSE 8

\* Mutant: interrupts come back on before keyboard_input and rtc_intr.
Steps_EarlySti(v) ==
    IF v = 33 THEN <<"cli", "inb", "eoi_master", "sti", "work", "iret">>
    ELSE <<"cli", "inb", "sti", "work", "eoi_slave", "eoi_master", "iret">>

\* The statements of keyboard and of rt_clock.  "work" is keyboard_input or
\* rtc_intr.
Steps(v) ==
    IF v = 33 THEN <<"cli", "inb", "eoi_master", "work", "sti", "iret">>
    ELSE <<"cli", "inb", "work", "eoi_slave", "eoi_master", "sti", "iret">>

Running == stack[Len(stack)]

NextStep(f) ==
    LET i == CHOOSE i \in 1 .. Len(Steps(f.vector)) : Steps(f.vector)[i] = f.at
    IN  Steps(f.vector)[i + 1]

\* The running handler executes statement s and goes on to the next one.
At(s) == stack # <<>> /\ Running.vector \in {33, 40} /\ Running.at = s
Advance == stack' = [stack EXCEPT ![Len(stack)].at = NextStep(Running)]

Cli ==
    /\ At("cli") /\ Advance
    /\ IF_flag' = 0
    /\ UNCHANGED <<boot, chips, line, missed>>

\* Mutant: the device is not read.
Lowered_Not(d) == line

\* Reading port 0x60, or register C of the clock, lowers the line.
Lowered(d) == [line EXCEPT ![d] = 0]

ReadDevice ==
    LET d == Irq(Running.vector) IN
    /\ At("inb") /\ Advance
    /\ line' = Lowered(d)
    /\ missed' = missed \ {d}
    /\ UNCHANGED <<boot, IF_flag, chips>>

\* keyboard_input(temp); rtc_intr(temp)
Work ==
    /\ At("work") /\ Advance
    /\ UNCHANGED <<boot, IF_flag, chips, line, missed>>

Eoi(s, c) ==
    /\ At(s) /\ Advance
    /\ isr' = send_eoi(Irq(Running.vector), c)
    /\ UNCHANGED <<boot, IF_flag, mask, irr, base, icw, line, missed>>

StiHandler ==
    /\ At("sti") /\ Advance
    /\ IF_flag' = 1
    /\ UNCHANGED <<boot, chips, line, missed>>

\* popal; leave; iret: an interrupt is only taken with the flag set, so that is
\* what iret restores.
Iret ==
    /\ At("iret")
    /\ stack' = SubSeq(stack, 1, Len(stack) - 1)
    /\ IF_flag' = 1
    /\ UNCHANGED <<boot, chips, line, missed>>

Handler == \/ Cli \/ ReadDevice \/ Work \/ StiHandler \/ Iret
           \/ Eoi("eoi_slave", "slave") \/ Eoi("eoi_master", "master")

Next == Entry \/ Handler \/ Accept \/ TimerFalls \/ \E d \in Devices : Raise(d)

Spec == Init /\ [][Next]_vars

\* The processor executes instructions and takes interrupts it is offered.
Fairness == WF_vars(Entry) /\ WF_vars(Handler) /\ WF_vars(Accept)

FairSpec == Spec /\ Fairness

-----------------------------------------------------------------------------
(* Properties *)

\* The lines the controllers let through, the cascade apart, and their vectors.
Open == {o \in Chips \X IRs : o[2] \notin mask[o[1]] /\ o # <<"master", 2>>}

\* Once an interrupt can be taken everything it needs is there: descriptor table
\* and paging are loaded, the controllers are fully programmed, and every
\* line that is let through leads to a gate whose handler ends in iret.
\* (timer_chip is a plain C function and would return with ret; its line must
\* stay masked.)
InterruptsReady ==
    IF_flag = 1 \/ stack # <<>> =>
        /\ idtr = 1 /\ paging = 1
        /\ \A c \in Chips : icw[c] = 0
        /\ \A o \in Open : /\ base[o[1]] + o[2] \in {33, 40}
                           /\ gate[base[o[1]] + o[2]] # "none"
        /\ \A i \in 1 .. Len(stack) : stack[i].vector \in {33, 40}

\* The statements between cli and sti of two handlers never interleave, although
\* an interrupt may come before the cli (through a trap gate) and after the sti:
\* at most the running handler is between them, and then the flag is clear.
Guarded(f) == f.at \in {"inb", "work", "eoi_slave", "eoi_master", "sti"}
HandlersExclusive ==
    \A i \in 1 .. Len(stack) :
        Guarded(stack[i]) => i = Len(stack) /\ IF_flag = 0

\* The lines a frame still holds in service at a controller.
Holds(f, c) ==
    CASE f.vector = 33 /\ c = "master" -> IF f.at \in {"cli", "inb", "eoi_master"}
                                          THEN {1} ELSE {}
      [] f.vector = 40 /\ c = "slave"  ->
            IF f.at \in {"cli", "inb", "work", "eoi_slave"} THEN {0} ELSE {}
      [] f.vector = 40 /\ c = "master" -> IF f.at \notin {"sti", "iret"}
                                          THEN {2} ELSE {}
      [] OTHER -> {}

\* Every interrupt is acknowledged exactly once on every controller it came
\* through: what is in service is what the frames on the stack have not ended
\* yet, so that nothing stays blocked when the handlers are done.
InServiceMatches ==
    pc = "loop" => \A c \in Chips :
        isr[c] = UNION {Holds(stack[i], c) : i \in 1 .. Len(stack)}

\* A device that waits for its handler has a request latched or a handler on the
\* stack that has yet to read it: between reading the device and ending the
\* interrupt no edge is lost.  (A line that was already high when ICW1 cleared
\* its latch is the exception: it is never seen.)
DeviceHeard ==
    pc = "loop" => \A d \in {1, 8} :
        line[d] = 1 /\ d \notin missed =>
            \/ IrOf(d) \in irr[ChipOf(d)]
            \/ \E i \in 1 .. Len(stack) :
                  Irq(stack[i].vector) = d /\ stack[i].at \in {"cli", "inb"}

\* From the moment paging is on, every page the kernel uses, down to the last row
\* of saved video memory and the page tables themselves, is where it was before,
\* so that neither entry() nor a handler can fault on it, and NULL is not mapped.
KernelMapped == paging = 1 => Mapped(page_directory)

\* Every byte the keyboard sends is read, however the handlers nest.
KeyServed ==
    (pc = "loop" /\ line[1] = 1 /\ 1 \notin missed) ~> (line[1] = 0)
=============================================================================
