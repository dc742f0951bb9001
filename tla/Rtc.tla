-------------------------------- MODULE Rtc --------------------------------
(***************************************************************************)
(* The real-time clock driver of student-distrib/rtc.c and its interrupt   *)
(* handler rt_clock in idthandlers.c, over the MC146818 chip.              *)
(*                                                                         *)
(* The driver's functions run in the main thread, one shared-state access  *)
(* per step, with interrupts enabled.  Every chip register is reached by   *)
(* selecting it at port 0x70 and then accessing port 0x71; the handler,    *)
(* which is one step, selects register C for itself and leaves it          *)
(* selected.                                                               *)
(***************************************************************************)
EXTENDS Integers

CONSTANTS
    Counts,     \* values of cnt rtc_write is called with
    MaxAlarms   \* bound: alarm flags raised by the chip (one a day at most)

ASSUME RtcAssumption == Counts \subseteq Int /\ MaxAlarms \in Nat

VARIABLES
    rtc_intr_recieved, rtc_pie, rtc_uie, rtc_freq,   \* rtc.c
    pc, cnt, cntr, ret,                              \* the running call
    select,          \* chip: register selected at port 0x70
    regA, regB,      \* chip: registers A and B
    pf, uf, af,      \* chip: periodic, update and alarm flags of register C
    alarms,          \* bound on alarms
    gotPF, gotUF     \* ghosts: interrupts with these flags since the call
                     \* armed rtc_pie / rtc_uie

soft  == <<rtc_intr_recieved, rtc_pie, rtc_uie, rtc_freq>>
call  == <<pc, cnt, cntr, ret>>
chip  == <<select, regA, regB>>
regC  == <<pf, uf, af>>
ghost == <<gotPF, gotUF>>
vars  == <<soft, call, chip, regC, alarms, ghost>>

\* freq[cnt - 1], the table of rtc.c
freq == <<2, 4, 8, 16, 32, 64, 128, 256, 512, 1024>>

\* A register A value: time base on or off, and the rate-select nibble.
RegA(on, rate) == [on |-> on, rate |-> rate]
\* A register B value: the periodic and update-ended interrupt enables.
RegB(pie, uie) == [pie |-> pie, uie |-> uie]

\* Mutant: the rate is off by one.
FreqByte_OffByOne(n) == RegA(1, 15 - n)

\* temp of rtc_write: ((0xff ^ (cnt - 1)) & 0x0f) | 0x20
FreqByte(n) == RegA(1, 15 - (n - 1))

\* The chip's periodic rate in Hz, by the rate-select nibble; 0 selects none.
PeriodicRate == <<256, 128, 8192, 4096, 2048, 1024, 512, 256,
                  128, 64, 32, 16, 8, 4, 2>>
Hz(a) == IF a.rate = 0 THEN 0 ELSE PeriodicRate[a.rate]

Valid(n) == n <= 10 /\ n > 0

\* The kernel enters rtc_open with the chip as the firmware left it: time base
\* on at 1024 Hz, interrupts disabled.
Init ==
    /\ rtc_intr_recieved = 0 /\ rtc_pie = 0 /\ rtc_uie = 0 /\ rtc_freq = 0
    /\ pc = "open_selA" /\ cnt = 0 /\ cntr = 0 /\ ret = 0
    /\ select = "none"
    /\ regA = RegA(1, 6) /\ regB = RegB(0, 0)
    /\ pf = 0 /\ uf = 0 /\ af = 0
    /\ alarms = 0
    /\ gotPF = 0 /\ gotUF = 0

-----------------------------------------------------------------------------
(* Driver steps *)

Goto(from, to) == pc = from /\ pc' = to /\ UNCHANGED <<cnt, cntr, ret>>

Return(from, r) == pc = from /\ pc' = "idle" /\ ret' = r /\ UNCHANGED <<cnt, cntr>>

\* Mutant: the register is selected only the first time.
Select_Once(from, to, r) ==
    /\ Goto(from, to)
    /\ select' = IF select = "none" THEN r ELSE select
    /\ UNCHANGED <<soft, regA, regB, regC, alarms, ghost>>

\* outb(0x8A or 0x8B, RTC_CMD)
Select(from, to, r) ==
    /\ Goto(from, to)
    /\ select' = r
    /\ UNCHANGED <<soft, regA, regB, regC, alarms, ghost>>

\* outb(v, RTC_DATA): register C is read-only, the write is lost
DataA(from, to, v) ==
    /\ Goto(from, to)
    /\ regA' = IF select = "A" THEN v ELSE regA
    /\ UNCHANGED <<soft, select, regB, regC, alarms, ghost>>

DataB(from, v) ==
    /\ Return(from, 0)
    /\ regB' = IF select = "B" THEN v ELSE regB
    /\ UNCHANGED <<soft, select, regA, regC, alarms, ghost>>

\* The main thread calls the driver.
Call ==
    /\ pc = "idle"
    /\ \/ pc' = "open_selA" /\ UNCHANGED cnt
       \/ pc' = "close_selA" /\ UNCHANGED cnt
       \/ pc' = "read_arm" /\ UNCHANGED cnt
       \/ \E n \in Counts : /\ cnt' = n
                            /\ pc' = IF Valid(n) THEN "write_freq" ELSE "write_bad"
    /\ cntr' = 0
    /\ UNCHANGED <<ret, soft, chip, regC, alarms, ghost>>

\* rtc_open
OpenSetFreq ==
    /\ Goto("open_freq", "open_selB")
    /\ rtc_freq' = 2
    /\ UNCHANGED <<rtc_intr_recieved, rtc_pie, rtc_uie, chip, regC, alarms, ghost>>

Open ==
    \/ Select("open_selA", "open_dataA", "A")
    \/ DataA("open_dataA", "open_freq", RegA(1, 15))
    \/ OpenSetFreq
    \/ Select("open_selB", "open_dataB", "B")
    \/ DataB("open_dataB", RegB(1, 1))

\* rtc_close
Close ==
    \/ Select("close_selA", "close_dataA", "A")
    \/ DataA("close_dataA", "close_selB", RegA(0, 0))
    \/ Select("close_selB", "close_dataB", "B")
    \/ DataB("close_dataB", RegB(0, 0))

\* rtc_read: rtc_pie = 1
ReadArm ==
    /\ Goto("read_arm", "read_wait")
    /\ rtc_pie' = 1
    /\ gotPF' = 0
    /\ UNCHANGED <<rtc_intr_recieved, rtc_uie, rtc_freq, chip, regC, alarms, gotUF>>

\* while(rtc_pie == 1) falls through
ReadReturn ==
    /\ rtc_pie # 1
    /\ Return("read_wait", 0)
    /\ UNCHANGED <<soft, chip, regC, alarms, ghost>>

\* rtc_write with cnt out of range
WriteBad ==
    /\ Return("write_bad", -1)
    /\ UNCHANGED <<soft, chip, regC, alarms, ghost>>

\* rtc_freq = freq[cnt - 1]
WriteSetFreq ==
    /\ Goto("write_freq", "write_arm")
    /\ rtc_freq' = freq[cnt]
    /\ UNCHANGED <<rtc_intr_recieved, rtc_pie, rtc_uie, chip, regC, alarms, ghost>>

\* rtc_uie = 1
WriteArm ==
    /\ Goto("write_arm", "write_selA")
    /\ rtc_uie' = 1
    /\ gotUF' = 0
    /\ UNCHANGED <<rtc_intr_recieved, rtc_pie, rtc_freq, chip, regC, alarms, gotPF>>

\* outb(0x8A, RTC_CMD); outb(temp, RTC_DATA)
WriteRegA ==
    \/ Select("write_selA", "write_dataA", "A")
    \/ DataA("write_dataA", "write_intr", FreqByte(cnt))

\* rtc_intr_recieved = 1 before the wait
WriteIntr ==
    /\ Goto("write_intr", "write_loop")
    /\ rtc_intr_recieved' = 1
    /\ UNCHANGED <<rtc_pie, rtc_uie, rtc_freq, chip, regC, alarms, ghost>>

\* Mutant: the wait gives up one interrupt early.
WriteLoop_Short ==
    /\ Goto("write_loop", IF rtc_uie = 1 /\ cntr < rtc_freq - 1 THEN "write_spin"
                                                                ELSE "write_ret")
    /\ UNCHANGED <<soft, chip, regC, alarms, ghost>>

\* while(rtc_uie == 1 && cntr < rtc_freq)
WriteLoop ==
    /\ Goto("write_loop", IF rtc_uie = 1 /\ cntr < rtc_freq THEN "write_spin"
                                                            ELSE "write_ret")
    /\ UNCHANGED <<soft, chip, regC, alarms, ghost>>

\* while(rtc_intr_recieved == 1) {} falls through
WriteSpin ==
    /\ rtc_intr_recieved # 1
    /\ Goto("write_spin", "write_turn")
    /\ UNCHANGED <<soft, chip, regC, alarms, ghost>>

\* rtc_intr_recieved = 1; cntr++
WriteTurn ==
    /\ pc = "write_turn" /\ pc' = "write_loop"
    /\ rtc_intr_recieved' = 1
    /\ cntr' = cntr + 1
    /\ UNCHANGED <<cnt, ret, rtc_pie, rtc_uie, rtc_freq, chip, regC, alarms, ghost>>

\* if(rtc_uie == 0) return 0; else return -1
WriteReturn ==
    /\ Return("write_ret", IF rtc_uie = 0 THEN 0 ELSE -1)
    /\ UNCHANGED <<soft, chip, regC, alarms, ghost>>

Write == \/ WriteBad \/ WriteSetFreq \/ WriteArm \/ WriteRegA \/ WriteIntr
         \/ WriteLoop \/ WriteSpin \/ WriteTurn \/ WriteReturn

Driver == Open \/ Close \/ ReadArm \/ ReadReturn \/ Write

-----------------------------------------------------------------------------
(* The chip and the interrupt *)

\* The periodic divider runs when the time base is on and a rate is selected;
\* flags are raised whether or not their interrupt is enabled.
PeriodicTick ==
    /\ regA.on = 1 /\ regA.rate > 0
    /\ pf' = 1
    /\ UNCHANGED <<soft, call, chip, uf, af, alarms, ghost>>

UpdateEnded ==
    /\ regA.on = 1
    /\ uf' = 1
    /\ UNCHANGED <<soft, call, chip, pf, af, alarms, ghost>>

Alarm ==
    /\ regA.on = 1
    /\ alarms < MaxAlarms
    /\ af' = 1
    /\ alarms' = alarms + 1
    /\ UNCHANGED <<soft, call, chip, pf, uf, ghost>>

\* IRQF, bit 7 of register C
Irq == pf * regB.pie + uf * regB.uie > 0

\* Mutants: any interrupt ends a read; only 0xD0 is recognised; the interrupt is
\* not counted.
rtc_intr_AnyFlag ==
    /\ rtc_pie' = 0
    /\ rtc_uie' = IF uf = 1 /\ af = 0 THEN 0 ELSE rtc_uie
    /\ rtc_intr_recieved' = 0
    /\ UNCHANGED rtc_freq
rtc_intr_OnlyBoth ==
    /\ rtc_pie' = IF pf = 1 /\ uf = 1 /\ af = 0 THEN 0 ELSE rtc_pie
    /\ rtc_uie' = IF pf = 1 /\ uf = 1 /\ af = 0 THEN 0 ELSE rtc_uie
    /\ rtc_intr_recieved' = 0
    /\ UNCHANGED rtc_freq
rtc_intr_NotReceived ==
    /\ rtc_pie' = IF pf = 1 /\ af = 0 THEN 0 ELSE rtc_pie
    /\ rtc_uie' = IF uf = 1 /\ af = 0 THEN 0 ELSE rtc_uie
    /\ UNCHANGED <<rtc_intr_recieved, rtc_freq>>

\* rtc_intr(temp), temp the contents of register C with IRQF set: it compares
\* whole bytes, 0xC0 (PF), 0x90 (UF) and 0xD0 (both).
rtc_intr ==
    /\ rtc_pie' = IF pf = 1 /\ af = 0 THEN 0 ELSE rtc_pie
    /\ rtc_uie' = IF uf = 1 /\ af = 0 THEN 0 ELSE rtc_uie
    /\ rtc_intr_recieved' = 0
    /\ UNCHANGED rtc_freq

\* rt_clock: outb(0x8C, 0x70); temp = inb(0x71), which clears register C;
\* rtc_intr(temp); send_eoi(8)
rt_clock ==
    /\ Irq
    /\ select' = "C"
    /\ pf' = 0 /\ uf' = 0 /\ af' = 0
    /\ rtc_intr
    /\ gotPF' = IF pf = 1 THEN 1 ELSE gotPF
    /\ gotUF' = IF uf = 1 THEN 1 ELSE gotUF
    /\ UNCHANGED <<call, regA, regB, alarms>>

Next == Call \/ Driver \/ PeriodicTick \/ UpdateEnded \/ Alarm \/ rt_clock

Spec == Init /\ [][Next]_vars

\* The processor keeps executing the driver and takes interrupts, and a running
\* chip keeps ticking.
Fairness ==
    /\ WF_vars(Driver)
    /\ WF_vars(rt_clock)
    /\ WF_vars(PeriodicTick)
    /\ WF_vars(UpdateEnded)

FairSpec == Spec /\ Fairness

-----------------------------------------------------------------------------
(* Properties *)

\* The handler runs between the two halves of a register access and changes
\* which register is selected.  That can lose the driver's write but never
\* redirects it: the byte goes to its register or to read-only register C.
NoCrossWrite ==
    /\ pc \in {"open_dataA", "close_dataA", "write_dataA"} => select \in {"A", "C"}
    /\ pc \in {"open_dataB", "close_dataB"} => select \in {"B", "C"}

\* A rate that did reach the chip is the one rtc_freq says: the byte rtc_write
\* computes selects exactly the frequency of the table, and no call leaves the
\* chip at a rate of an earlier one unless the handler made it lose a write.
RateWritten ==
    pc = "write_intr" /\ select = "A" => Hz(regA) = rtc_freq

\* rtc_read returns only after a periodic interrupt that came after the call
\* began, however many update interrupts came before it.
ReadSawTick == [][pc = "read_wait" /\ pc' = "idle" => gotPF = 1]_vars

\* rtc_write returns 0 only after an update-ended interrupt that came after it
\* armed rtc_uie, and gives up only after rtc_freq interrupts.
WriteAcked ==
    [][pc = "write_ret" /\ pc' = "idle" =>
          /\ ret' = 0 => gotUF = 1
          /\ ret' = -1 => cntr = rtc_freq]_vars

ChipRunning == regA.on = 1 /\ regA.rate > 0 /\ regB = RegB(1, 1)

\* With the clock running a read returns, also when alarms make the handler
\* overlook ticks.
ReadReturns == (pc = "read_wait" /\ ChipRunning) ~> (pc = "idle")

\* With the clock running a write returns, also when the handler takes the
\* interrupt it is about to wait for just before it sets rtc_intr_recieved.
WriteReturns == (pc = "write_loop" /\ ChipRunning) ~> (pc = "idle")

(* What the comments of rtc.c say, and the code does not do. *)

\* rtc.c:54: "Check for UIE to indicate successful write".  After a write that
\* returned 0 the chip runs at the frequency that was asked for.
AckMeansWritten ==
    [][pc = "write_ret" /\ pc' = "idle" /\ ret' = 0 => Hz(regA) = rtc_freq]_vars

=============================================================================
