----------------------------- MODULE RtcProofs -----------------------------
(***************************************************************************)
(* Proofs about Rtc, for every set of arguments rtc_write is called with   *)
(* and any number of alarms.                                               *)
(***************************************************************************)
EXTENDS Rtc, TLAPS

-----------------------------------------------------------------------------
(* The inductive invariant *)

PCs == {"idle",
        "open_selA", "open_dataA", "open_freq", "open_selB", "open_dataB",
        "close_selA", "close_dataA", "close_selB", "close_dataB",
        "read_arm", "read_wait",
        "write_bad", "write_freq", "write_arm", "write_selA", "write_dataA",
        "write_intr", "write_loop", "write_spin", "write_turn", "write_ret"}

TypeOK ==
    /\ rtc_intr_recieved \in 0 .. 1 /\ rtc_pie \in 0 .. 1 /\ rtc_uie \in 0 .. 1
    /\ rtc_freq \in Nat
    /\ pc \in PCs /\ cnt \in Int /\ cntr \in Nat /\ ret \in {-1, 0}
    /\ select \in {"none", "A", "B", "C"}
    /\ regA \in [on : 0 .. 1, rate : 0 .. 15]
    /\ regB \in [pie : 0 .. 1, uie : 0 .. 1]
    /\ pf \in 0 .. 1 /\ uf \in 0 .. 1 /\ af \in 0 .. 1
    /\ gotPF \in 0 .. 1 /\ gotUF \in 0 .. 1

\* From its range check on rtc_write works with an argument of the table, from
\* its first assignment on with the table's frequency, and what it has put into
\* register A, if it did get there, is the byte for it.
AfterFreq == {"write_arm", "write_selA", "write_dataA", "write_intr",
              "write_loop", "write_spin", "write_turn", "write_ret"}
FreqInv ==
    /\ pc \in AfterFreq \cup {"write_freq"} => cnt \in 1 .. 10
    /\ pc \in AfterFreq => rtc_freq = freq[cnt]
    /\ pc = "write_intr" /\ select = "A" => regA = FreqByte(cnt)

\* Only an interrupt with the right flag disarms a waiting call.
ArmInv ==
    /\ pc = "read_wait" /\ rtc_pie = 0 => gotPF = 1
    /\ pc \in AfterFreq \ {"write_arm"} /\ rtc_uie = 0 => gotUF = 1

\* rtc_write counts up to rtc_freq and not beyond.
CountInv ==
    /\ pc \in (AfterFreq \cup {"write_freq"})
                \ {"write_loop", "write_spin", "write_turn", "write_ret"} => cntr = 0
    /\ pc = "write_loop" => cntr <= rtc_freq
    /\ pc \in {"write_spin", "write_turn"} => cntr < rtc_freq
    /\ pc = "write_ret" /\ rtc_uie = 1 => cntr = rtc_freq

IInv == TypeOK /\ NoCrossWrite /\ FreqInv /\ ArmInv /\ CountInv

-----------------------------------------------------------------------------
(* The table *)

\* The entries of freq[], and the rate the chip runs at with the byte rtc_write
\* computes: the two agree for all ten arguments.
LEMMA FreqTable ==
    ASSUME NEW n \in 1 .. 10
    PROVE  /\ freq[n] \in Nat \ {0}
           /\ Hz(FreqByte(n)) = freq[n]
           /\ FreqByte(n) \in [on : 0 .. 1, rate : 0 .. 15]
BY DEF freq, Hz, FreqByte, RegA, PeriodicRate

-----------------------------------------------------------------------------
(* Invariance *)

\* rtc_open is about to run, with the chip as the firmware left it.
LEMMA InitIInv == Init => IInv
BY DEF Init, IInv, TypeOK, NoCrossWrite, FreqInv, ArmInv, CountInv, AfterFreq,
       PCs, RegA, RegB

\* A step that moves the driver on without touching what a call has set up.
LEMMA OpenStep == ASSUME IInv, Open \/ Close PROVE IInv'
<1> USE DEF IInv, TypeOK, NoCrossWrite, FreqInv, ArmInv, CountInv, AfterFreq, PCs,
            Goto, Return, RegA, RegB, soft, chip, regC, ghost
<1>1. ASSUME NEW from, NEW to, NEW r, Select(from, to, r),
             <<from, to, r>> \in {<<"open_selA", "open_dataA", "A">>,
                                  <<"open_selB", "open_dataB", "B">>,
                                  <<"close_selA", "close_dataA", "A">>,
                                  <<"close_selB", "close_dataB", "B">>}
      PROVE  IInv'
    BY <1>1 DEF Select
<1>2. ASSUME NEW from, NEW to, NEW v \in [on : 0 .. 1, rate : 0 .. 15],
             DataA(from, to, v),
             <<from, to>> \in {<<"open_dataA", "open_freq">>,
                               <<"close_dataA", "close_selB">>}
      PROVE  IInv'
    BY <1>2 DEF DataA
<1>3. ASSUME NEW from, NEW v \in [pie : 0 .. 1, uie : 0 .. 1], DataB(from, v),
             from \in {"open_dataB", "close_dataB"}
      PROVE  IInv'
    BY <1>3 DEF DataB
<1>4. CASE OpenSetFreq
    BY <1>4 DEF OpenSetFreq
<1> QED
    BY <1>1, <1>2, <1>3, <1>4 DEF Open, Close

\* The statements of rtc_write, with the two port accesses of its register write.
LEMMA WriteStep == ASSUME IInv, Write PROVE IInv'
<1> USE DEF IInv, TypeOK, NoCrossWrite, FreqInv, ArmInv, CountInv, AfterFreq, PCs,
            Goto, Return, soft, chip, regC, ghost
<1>0. pc \in AfterFreq \cup {"write_freq"} =>
         /\ freq[cnt] \in Nat \ {0}
         /\ FreqByte(cnt) \in [on : 0 .. 1, rate : 0 .. 15]
    BY FreqTable
<1>1. CASE WriteBad BY <1>1 DEF WriteBad
<1>2. CASE WriteSetFreq BY <1>0, <1>2 DEF WriteSetFreq
<1>3. CASE WriteArm BY <1>3 DEF WriteArm
<1>4. CASE WriteRegA BY <1>0, <1>4 DEF WriteRegA, Select, DataA
<1>5. CASE WriteIntr BY <1>0, <1>5 DEF WriteIntr
<1>6. CASE WriteLoop BY <1>0, <1>6 DEF WriteLoop
<1>7. CASE WriteSpin BY <1>7 DEF WriteSpin
<1>8. CASE WriteTurn BY <1>8 DEF WriteTurn
<1>9. CASE WriteReturn BY <1>9 DEF WriteReturn
<1> QED
    BY <1>1, <1>2, <1>3, <1>4, <1>5, <1>6, <1>7, <1>8, <1>9 DEF Write

\* Every step of the driver, the handler and the chip preserves the invariant.
LEMMA StepIInv == IInv /\ [Next]_vars => IInv'
<1> SUFFICES ASSUME IInv, [Next]_vars PROVE IInv'
    OBVIOUS
<1> USE DEF IInv, TypeOK, NoCrossWrite, FreqInv, ArmInv, CountInv, AfterFreq, PCs,
            soft, call, chip, regC, ghost
<1>1. CASE Call BY <1>1, RtcAssumption DEF Call, Valid
<1>2. CASE Open \/ Close BY <1>2, OpenStep
<1>3. CASE ReadArm BY <1>3 DEF ReadArm, Goto
<1>4. CASE ReadReturn BY <1>4 DEF ReadReturn, Return
<1>5. CASE Write BY <1>5, WriteStep
<1>6. CASE PeriodicTick \/ UpdateEnded \/ Alarm
    BY <1>6 DEF PeriodicTick, UpdateEnded, Alarm
<1>7. CASE rt_clock
    BY <1>7 DEF rt_clock, rtc_intr
<1>8. CASE UNCHANGED vars BY <1>8 DEF vars
<1> QED
    BY <1>1, <1>2, <1>3, <1>4, <1>5, <1>6, <1>7, <1>8 DEF Next, Driver

\* The invariant behind the theorems of this module: what the driver's calls
\* have set up survives every interrupt between two of their port accesses.
THEOREM Inductive == Spec => []IInv
<1> QED
    BY InitIInv, StepIInv, PTL DEF Spec

-----------------------------------------------------------------------------
(* What follows *)

\* A byte the driver writes goes to the register it is meant for or is lost, but
\* never to another writable one (rtc.c:41, :73, :111 with idthandlers.c:211).
THEOREM NeverCrossWrites == Spec => []NoCrossWrite
<1>1. IInv => NoCrossWrite
    BY DEF IInv
<1> QED
    BY <1>1, Inductive, PTL

\* A rate that reached the chip is the one rtc_write recorded in rtc_freq.
THEOREM RateIsRecorded == Spec => []RateWritten
<1>1. IInv => RateWritten
    BY FreqTable DEF IInv, FreqInv, AfterFreq, RateWritten
<1> QED
    BY <1>1, Inductive, PTL

\* rtc_read does not return on an interrupt without the periodic flag.
THEOREM ReadNeedsTick == Spec => ReadSawTick
<1>1. IInv /\ [Next]_vars => [pc = "read_wait" /\ pc' = "idle" => gotPF = 1]_vars
  <2> SUFFICES ASSUME IInv, Next, pc = "read_wait", pc' = "idle"
               PROVE  gotPF = 1
      OBVIOUS
  <2> USE DEF Goto, Return, call
  <2>1. ReadReturn
      BY DEF Next, Driver, Call, Open, Close, Select, DataA, DataB, OpenSetFreq,
             ReadArm, Write, WriteBad, WriteSetFreq, WriteArm, WriteRegA, WriteIntr,
             WriteLoop, WriteSpin, WriteTurn, WriteReturn, PeriodicTick,
             UpdateEnded, Alarm, rt_clock
  <2> QED
      BY <2>1 DEF ReadReturn, IInv, TypeOK, ArmInv
<1> QED
    BY <1>1, Inductive, PTL DEF Spec, ReadSawTick

\* rtc_write reports success only after an update-ended interrupt of its own time
\* and failure only after rtc_freq interrupts.
THEOREM WriteNeedsAck == Spec => WriteAcked
<1>1. IInv /\ [Next]_vars =>
         [pc = "write_ret" /\ pc' = "idle" =>
             /\ ret' = 0 => gotUF = 1
             /\ ret' = -1 => cntr = rtc_freq]_vars
  <2> SUFFICES ASSUME IInv, Next, pc = "write_ret", pc' = "idle"
               PROVE  /\ ret' = 0 => gotUF = 1
                      /\ ret' = -1 => cntr = rtc_freq
      OBVIOUS
  <2> USE DEF Goto, Return, call
  <2>1. WriteReturn
      BY DEF Next, Driver, Call, Open, Close, Select, DataA, DataB, OpenSetFreq,
             ReadArm, ReadReturn, Write, WriteBad, WriteSetFreq, WriteArm,
             WriteRegA, WriteIntr, WriteLoop, WriteSpin, WriteTurn, PeriodicTick,
             UpdateEnded, Alarm, rt_clock
  <2> QED
      BY <2>1 DEF WriteReturn, IInv, TypeOK, ArmInv, CountInv, AfterFreq
<1> QED
    BY <1>1, Inductive, PTL DEF Spec, WriteAcked
=============================================================================
