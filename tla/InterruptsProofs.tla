-------------------------- MODULE InterruptsProofs --------------------------
(***************************************************************************)
(* Proofs about Interrupts: start-up leaves the machine ready for          *)
(* interrupts, and the two handlers keep it so however deep they nest.     *)
(***************************************************************************)
EXTENDS Interrupts, SequenceTheorems, TLAPS

-----------------------------------------------------------------------------
(* The inductive invariant *)

\* The statements of entry(), by what has been done before them.
Early    == {"terminal_open", "modules", "disable"}
Gates    == {"exceptions", "timer", "keyboard", "clock", "systemcall", "lidt",
             "paging_init"}
Enabling == {"enable_8", "enable_2", "enable_1", "sti"}
Up       == {"rtc_open", "filesys_init", "loop"}
PCs      == Early \cup {"i8259_init", "halt"} \cup Gates \cup Enabling \cup Up

\* The frames of keyboard and rt_clock: keyboard does not write to the slave.
Ats    == {"cli", "inb", "work", "eoi_slave", "eoi_master", "sti", "iret"}
Frames == {f \in [vector : {33, 40}, at : Ats] : f.vector = 33 => f.at # "eoi_slave"}

TypeOK ==
    /\ pc \in PCs /\ k \in 0 .. 15 /\ IF_flag \in 0 .. 1
    /\ gate \in [Vectors -> {"none", "interrupt", "trap"}]
    /\ mask \in [Chips -> SUBSET IRs] /\ isr \in [Chips -> SUBSET IRs]
    /\ irr \in [Chips -> SUBSET IRs]
    /\ base \in [Chips -> Nat] /\ icw \in [Chips -> 0 .. 4]
    /\ line \in [Devices -> 0 .. 1]
    /\ stack \in Seq(Frames)

\* Which initialisation word each controller waits for before the k-th port write.
MasterWord == IF k <= 2 THEN 0 ELSE IF k <= 4 THEN 2 ELSE IF k <= 6 THEN 3
              ELSE IF k <= 8 THEN 4 ELSE 0
SlaveWord  == IF k <= 3 THEN 0 ELSE IF k <= 5 THEN 2 ELSE IF k <= 7 THEN 3
              ELSE IF k <= 9 THEN 4 ELSE 0

\* The words written by i8259_init reach the registers they are meant for, and
\* enable_irq opens three lines.
ChipInv ==
    /\ pc \in Early => icw["master"] = 0 /\ icw["slave"] = 0
    /\ pc = "i8259_init" =>
          /\ k \in 0 .. 11 /\ icw["master"] = MasterWord /\ icw["slave"] = SlaveWord
          /\ k >= 5 => base["master"] = 32
          /\ k >= 6 => base["slave"] = 40
          /\ k >= 11 => mask["master"] = IRs
    /\ pc \in Gates \cup Enabling \cup Up =>
          /\ icw["master"] = 0 /\ icw["slave"] = 0
          /\ base["master"] = 32 /\ base["slave"] = 40
          /\ mask["slave"] = IF pc \in Gates \cup {"enable_8"} THEN IRs ELSE IRs \ {0}
          /\ mask["master"] = IF pc \in Gates \cup {"enable_8", "enable_2"} THEN IRs
                              ELSE IF pc = "enable_1" THEN IRs \ {2} ELSE IRs \ {1, 2}

\* Gates, descriptor table and page tables are set before interrupts are on.
GateInv ==
    /\ pc \in {"clock", "systemcall", "lidt", "paging_init"} \cup Enabling \cup Up =>
          gate[33] # "none"
    /\ pc \in {"systemcall", "lidt", "paging_init"} \cup Enabling \cup Up =>
          gate[40] # "none"
    /\ pc \in {"paging_init"} \cup Enabling \cup Up => idtr = 1
    /\ pc \in Enabling \cup Up <=> paging = 1
    /\ paging = 1 => page_directory = Directory

\* Until sti nothing interrupts entry().
Quiet == pc \notin Up => IF_flag = 0 /\ stack = <<>>

\* Only the devices' own lines are ever latched; the cascade line is not.
LatchInv == irr["master"] \subseteq {0, 1} /\ irr["slave"] \subseteq {0}

\* What is in service is what frames hold, and no two frames hold the same line.
ServiceInv ==
    /\ \A c \in Chips, n \in IRs :
          n \in isr[c] <=> \E i \in 1 .. Len(stack) : n \in Holds(stack[i], c)
    /\ \A c \in Chips : \A i, j \in 1 .. Len(stack) :
          i # j => Holds(stack[i], c) \cap Holds(stack[j], c) = {}

\* DeviceHeard, from the start.
HeardInv ==
    \A d \in {1, 8} :
        line[d] = 1 /\ d \notin missed =>
            \/ IrOf(d) \in irr[ChipOf(d)]
            \/ \E i \in 1 .. Len(stack) :
                  Irq(stack[i].vector) = d /\ stack[i].at \in {"cli", "inb"}

IInv ==
    /\ TypeOK /\ ChipInv /\ GateInv /\ Quiet /\ LatchInv
    /\ HandlersExclusive /\ ServiceInv /\ HeardInv

-----------------------------------------------------------------------------
(* The page tables *)

\* Which directory entry a page belongs to, for the first two.
LEMMA DivMod ==
    ASSUME NEW n \in Nat, n > 0, NEW a \in 0 .. 2 * n - 1
    PROVE  /\ a < n => a \div n = 0 /\ a % n = a
           /\ a >= n => a \div n = 1 /\ a % n = a - n
OBVIOUS

\* paging_init maps every page the kernel uses to itself and leaves NULL unmapped.
LEMMA DirectoryMapped == Mapped(Directory)
<1> USE PagingAssumption
<1>0. /\ Directory[0].present /\ Directory[0].maps = FirstTable
      /\ Directory[1].present /\ Directory[1].maps = [p \in InDir |-> 1 * Pages + p]
  <2>1. 0 \in 0 .. Dirs - 1 /\ 1 \in 0 .. Dirs - 1
      OBVIOUS
  <2>2. ASSUME NEW d \in 0 .. Dirs - 1 PROVE Directory[d].present <=> d \in {0, 1}
      BY DEF Directory
  <2>3. ASSUME NEW d \in 0 .. Dirs - 1
        PROVE  Directory[d].maps = IF d = 0 THEN FirstTable
                                   ELSE [p \in InDir |-> d * Pages + p]
      BY DEF Directory
  <2>4. Directory[0].present /\ Directory[1].present
      BY <2>1, <2>2
  <2>5. Directory[0].maps = FirstTable
      BY <2>1, <2>3
  <2>6. Directory[1].maps = [p \in InDir |-> 1 * Pages + p]
      BY <2>1, <2>3
  <2> QED
      BY <2>4, <2>5, <2>6
<1>1. ASSUME NEW a \in KernelPages PROVE Translate(Directory, a) = a
  <2>1. a \in 0 .. 2 * Pages - 1 /\ Pages > 0 /\ Pages \in Nat
      BY DEF KernelPages
  <2>2. CASE a < Pages
    <3>1. a \div Pages = 0 /\ a % Pages = a
        BY <2>1, <2>2, DivMod
    <3>2. FirstTable[a] = a
        BY <2>1, <2>2 DEF FirstTable, InDir, KernelPages
    <3> QED
        BY <1>0, <3>1, <3>2 DEF Translate
  <2>3. CASE a >= Pages
    <3>1. a \div Pages = 1 /\ a % Pages = a - Pages /\ a - Pages \in InDir
        BY <2>1, <2>3, DivMod DEF InDir
    <3>2. 1 * Pages + (a - Pages) = a
        BY <2>1
    <3> QED
        BY <1>0, <3>1, <3>2 DEF Translate
  <2> QED
      BY <2>1, <2>2, <2>3
<1>2. Translate(Directory, 0) = Fault
  <2>1. 0 \div Pages = 0 /\ 0 % Pages = 0
      BY DivMod
  <2>2. FirstTable[0] = Fault /\ 0 \in 0 .. Dirs - 1
      BY DEF FirstTable, InDir
  <2> QED
      BY <2>1, <2>2 DEF Translate, Directory
<1> QED
    BY <1>1, <1>2 DEF Mapped

-----------------------------------------------------------------------------
(* Frames *)

\* The statement that follows each statement of a handler.
LEMMA NextOf ==
    ASSUME NEW f \in Frames
    PROVE  /\ f.at = "cli" => NextStep(f) = "inb"
           /\ f.at = "inb" => NextStep(f) = IF f.vector = 33 THEN "eoi_master" ELSE "work"
           /\ f.at = "work" => NextStep(f) = IF f.vector = 33 THEN "sti" ELSE "eoi_slave"
           /\ f.at = "eoi_slave" => NextStep(f) = "eoi_master"
           /\ f.at = "eoi_master" => NextStep(f) = IF f.vector = 33 THEN "work" ELSE "sti"
           /\ f.at = "sti" => NextStep(f) = "iret"
<1> DEFINE S == Steps(f.vector)
           P(i) == i \in 1 .. Len(S) /\ S[i] = f.at
           j == CHOOSE i \in 1 .. Len(S) : S[i] = f.at
<1>1. CASE f.vector = 33
  <2>1. /\ S = <<"cli", "inb", "eoi_master", "work", "sti", "iret">> /\ Len(S) = 6
        /\ f.at \in {"cli", "inb", "eoi_master", "work", "sti", "iret"}
      BY <1>1 DEF Steps, Frames, Ats
  <2>2. \E i \in 1 .. Len(S) : S[i] = f.at
      BY <2>1
  <2>3. j \in 1 .. Len(S) /\ S[j] = f.at
      BY <2>2
  <2>4. NextStep(f) = S[j + 1]
      BY DEF NextStep
  <2> HIDE DEF S, j
  <2> QED
      BY <1>1, <2>1, <2>3, <2>4
<1>2. CASE f.vector = 40
  <2>1. /\ S = <<"cli", "inb", "work", "eoi_slave", "eoi_master", "sti", "iret">>
        /\ Len(S) = 7
        /\ f.at \in {"cli", "inb", "work", "eoi_slave", "eoi_master", "sti", "iret"}
      BY <1>2 DEF Steps, Frames, Ats
  <2>2. \E i \in 1 .. Len(S) : S[i] = f.at
      BY <2>1
  <2>3. j \in 1 .. Len(S) /\ S[j] = f.at
      BY <2>2
  <2>4. NextStep(f) = S[j + 1]
      BY DEF NextStep
  <2> HIDE DEF S, j
  <2> QED
      BY <1>2, <2>1, <2>3, <2>4
<1> QED
    BY <1>1, <1>2 DEF Frames

\* What a frame holds in service.
LEMMA HoldsOf ==
    ASSUME NEW f \in Frames
    PROVE  /\ Holds(f, "master") = IF f.vector = 33
                                   THEN IF f.at \in {"cli", "inb", "eoi_master"} THEN {1} ELSE {}
                                   ELSE IF f.at \in {"sti", "iret"} THEN {} ELSE {2}
           /\ Holds(f, "slave") = IF f.vector = 40 /\ f.at \in {"cli", "inb", "work", "eoi_slave"}
                                  THEN {0} ELSE {}
BY DEF Frames, Holds, Ats

-----------------------------------------------------------------------------
(* entry() *)

\* It holds when boot.S calls entry().
LEMMA InitIInv == Init => IInv
<1> SUFFICES ASSUME Init PROVE IInv
    OBVIOUS
<1>0. stack = <<>> /\ Len(stack) = 0 /\ stack \in Seq(Frames)
    BY DEF Init
<1>1. TypeOK
    BY <1>0 DEF Init, TypeOK, PCs, Early, Chips, IRs
<1>2. ChipInv
    BY DEF Init, ChipInv, Early, Gates, Enabling, Up, Chips
<1>3. GateInv
    BY DEF Init, GateInv, Early, Gates, Enabling, Up
<1>4. Quiet /\ LatchInv /\ HandlersExclusive
    BY <1>0 DEF Init, Quiet, LatchInv, HandlersExclusive, Chips
<1>5. ServiceInv /\ HeardInv
    BY <1>0 DEF Init, ServiceInv, HeardInv, Chips, Devices
<1> QED
    BY <1>1, <1>2, <1>3, <1>4, <1>5 DEF IInv

\* entry() runs with an empty stack: a statement of it that leaves the lines and the
\* latches alone keeps what is said of frames.
LEMMA NoFrames ==
    ASSUME IInv, stack = <<>>, UNCHANGED <<irr, isr, line, stack, missed>>
    PROVE  LatchInv' /\ HandlersExclusive' /\ ServiceInv' /\ HeardInv'
<1>0. Len(stack) = 0 /\ stack' = stack
    OBVIOUS
<1>1. LatchInv' /\ HandlersExclusive'
    BY <1>0 DEF IInv, LatchInv, HandlersExclusive
<1>2. ServiceInv'
    BY <1>0 DEF IInv, ServiceInv
<1>3. HeardInv'
    BY <1>0 DEF IInv, HeardInv
<1> QED
    BY <1>1, <1>2, <1>3

\* 255 masks every line.
LEMMA AllBits == BitsOf(255) = IRs
<1>1. ASSUME NEW i \in IRs
      PROVE  (255 \div <<1, 2, 4, 8, 16, 32, 64, 128>>[i + 1]) % 2 = 1
  <2>1. i \in {0, 1, 2, 3, 4, 5, 6, 7}
      BY DEF IRs
  <2>2. /\ 255 \div 1 = 255 /\ 255 \div 2 = 127 /\ 255 \div 4 = 63 /\ 255 \div 8 = 31
        /\ 255 \div 16 = 15 /\ 255 \div 32 = 7 /\ 255 \div 64 = 3 /\ 255 \div 128 = 1
      OBVIOUS
  <2>3. /\ 255 % 2 = 1 /\ 127 % 2 = 1 /\ 63 % 2 = 1 /\ 31 % 2 = 1
        /\ 15 % 2 = 1 /\ 7 % 2 = 1 /\ 3 % 2 = 1 /\ 1 % 2 = 1
      OBVIOUS
  <2> QED
      BY <2>1, <2>2, <2>3
<1> QED
    BY <1>1 DEF BitsOf

\* The port writes of i8259_init, one by one.
LEMMA Writes ==
    /\ Len(InitWrites) = 12
    /\ InitWrites[1] = <<"master", "data", 255>> /\ InitWrites[2] = <<"slave", "data", 255>>
    /\ InitWrites[3] = <<"master", "command", 17>> /\ InitWrites[4] = <<"slave", "command", 17>>
    /\ InitWrites[5] = <<"master", "data", 32>> /\ InitWrites[6] = <<"slave", "data", 40>>
    /\ InitWrites[7] = <<"master", "data", 4>> /\ InitWrites[8] = <<"slave", "data", 2>>
    /\ InitWrites[9] = <<"master", "data", 1>> /\ InitWrites[10] = <<"slave", "data", 1>>
    /\ InitWrites[11] = <<"master", "data", 255>> /\ InitWrites[12] = <<"slave", "data", 255>>
BY DEF InitWrites

\* One port write keeps the shape of the controllers, and loses no device that is
\* not recorded as missed.
LEMMA PortWrite ==
    ASSUME IInv, stack = <<>>, NEW c \in Chips, NEW b \in Nat,
           Command(c) \/ Data(c, b), UNCHANGED <<line, stack>>
    PROVE  /\ mask' \in [Chips -> SUBSET IRs] /\ isr' \in [Chips -> SUBSET IRs]
           /\ irr' \in [Chips -> SUBSET IRs]
           /\ base' \in [Chips -> Nat] /\ icw' \in [Chips -> 0 .. 4]
           /\ LatchInv' /\ HandlersExclusive' /\ ServiceInv' /\ HeardInv'
<1>0. /\ Len(stack) = 0 /\ stack' = stack /\ line' = line
      /\ mask \in [Chips -> SUBSET IRs] /\ isr \in [Chips -> SUBSET IRs]
      /\ irr \in [Chips -> SUBSET IRs]
      /\ base \in [Chips -> Nat] /\ icw \in [Chips -> 0 .. 4]
    BY DEF IInv, TypeOK
<1>1. HandlersExclusive'
    BY <1>0 DEF HandlersExclusive
<1>2. CASE Command(c)
  <2>1. /\ icw' = [icw EXCEPT ![c] = 2] /\ mask' = [mask EXCEPT ![c] = {}]
        /\ irr' = [irr EXCEPT ![c] = {}] /\ isr' = [isr EXCEPT ![c] = {}]
        /\ missed' = missed \cup {d \in Devices : ChipOf(d) = c /\ line[d] = 1}
        /\ base' = base
      BY <1>2 DEF Command
  <2>2. LatchInv'
      BY <1>0, <2>1 DEF IInv, LatchInv, Chips
  <2>3. ServiceInv'
      BY <1>0, <2>1 DEF IInv, ServiceInv
  <2>4. HeardInv'
    <3> SUFFICES ASSUME NEW d \in {1, 8}, line[d] = 1, d \notin missed'
                 PROVE  IrOf(d) \in irr'[ChipOf(d)]
        BY <1>0 DEF HeardInv
    <3>1. d \notin missed /\ ChipOf(d) # c /\ ChipOf(d) \in Chips
        BY <2>1 DEF Devices, ChipOf, Chips
    <3>2. IrOf(d) \in irr[ChipOf(d)]
        BY <1>0, <3>1 DEF IInv, HeardInv
    <3> QED
        BY <1>0, <2>1, <3>1, <3>2
  <2> QED
      BY <1>0, <1>1, <2>1, <2>2, <2>3, <2>4
<1>3. CASE Data(c, b)
  <2>1. /\ irr' = irr /\ isr' = isr /\ missed' = missed
        /\ base' \in [Chips -> Nat] /\ mask' \in [Chips -> SUBSET IRs]
      BY <1>0, <1>3 DEF Data, BitsOf
  <2>2. icw' \in [Chips -> 0 .. 4]
      BY <1>0, <1>3 DEF Data
  <2> QED
      BY <1>0, <2>1, <2>2, NoFrames
<1> QED
    BY <1>2, <1>3

\* i8259_init: after its twelve writes both controllers are programmed and masked.
LEMMA InitStep ==
    ASSUME IInv, i8259_init
    PROVE  IInv'
<1> DEFINE w == InitWrites[k + 1]
<1>0. /\ pc = "i8259_init" /\ stack = <<>> /\ k \in 0 .. 11
      /\ k' = k + 1
      /\ pc' = IF k = 11 THEN "exceptions" ELSE "i8259_init"
      /\ IF w[2] = "command" THEN Command(w[1]) ELSE Data(w[1], w[3])
      /\ UNCHANGED <<gate, idtr, memory, fileptr, rtc_on, IF_flag, line, stack>>
    BY Writes DEF IInv, ChipInv, i8259_init, Goto
<1>k. k \in {0, 1, 2, 3, 4, 5, 6, 7, 8, 9, 10, 11}
    BY <1>0
<1>1. w[1] \in Chips /\ w[3] \in Nat
    BY <1>k, Writes DEF Chips
<1>2. /\ mask' \in [Chips -> SUBSET IRs] /\ isr' \in [Chips -> SUBSET IRs]
      /\ irr' \in [Chips -> SUBSET IRs]
      /\ base' \in [Chips -> Nat] /\ icw' \in [Chips -> 0 .. 4]
      /\ LatchInv' /\ HandlersExclusive' /\ ServiceInv' /\ HeardInv'
    BY <1>0, <1>1, PortWrite
<1>3. TypeOK'
    BY <1>0, <1>2 DEF IInv, TypeOK, PCs, Gates
<1>4. GateInv' /\ Quiet'
    BY <1>0 DEF IInv, GateInv, Quiet, memory, Gates, Enabling, Up
<1>5. ChipInv'
  <2>0. /\ icw["master"] = MasterWord /\ icw["slave"] = SlaveWord
        /\ k >= 5 => base["master"] = 32
        /\ k >= 6 => base["slave"] = 40
        /\ k >= 11 => mask["master"] = IRs
        /\ mask \in [Chips -> SUBSET IRs] /\ base \in [Chips -> Nat]
        /\ icw \in [Chips -> 0 .. 4]
        /\ "master" \in Chips /\ "slave" \in Chips /\ "master" # "slave"
      BY <1>0 DEF IInv, ChipInv, TypeOK, Chips
  <2>c. ASSUME k \in {2, 3}
        PROVE  /\ icw' = [icw EXCEPT ![w[1]] = 2] /\ base' = base
               /\ w[1] = IF k = 2 THEN "master" ELSE "slave"
      BY <1>0, <2>c, Writes DEF Command
  <2>d. ASSUME k \notin {2, 3}
        PROVE  /\ w[1] = IF k \in {0, 4, 6, 8, 10} THEN "master" ELSE "slave"
               /\ k \in {0, 1, 10, 11} => w[3] = 255
               /\ k = 4 => w[3] = 32
               /\ k = 5 => w[3] = 40
               /\ Data(w[1], w[3])
      BY <1>0, <1>k, <2>d, Writes
  <2> HIDE DEF w
  <2>1. CASE k \in {2, 3}
      BY <1>0, <2>0, <2>1, <2>c
      DEF ChipInv, MasterWord, SlaveWord, Early, Gates, Enabling, Up
  <2>2. CASE k \in {0, 1}
      BY <1>0, <2>0, <2>2, <2>d
      DEF Data, ChipInv, MasterWord, SlaveWord, Early, Gates, Enabling, Up
  <2>3. CASE k \in {4, 5}
      BY <1>0, <2>0, <2>3, <2>d, SMTT(30)
      DEF Data, ChipInv, MasterWord, SlaveWord, Early, Gates, Enabling, Up
  <2>4. CASE k \in {6, 7}
      BY <1>0, <2>0, <2>4, <2>d, SMTT(30)
      DEF Data, ChipInv, MasterWord, SlaveWord, Early, Gates, Enabling, Up
  <2>5. CASE k \in {8, 9}
      BY <1>0, <2>0, <2>5, <2>d, SMTT(30)
      DEF Data, ChipInv, MasterWord, SlaveWord, Early, Gates, Enabling, Up
  <2>6. CASE k = 10
      BY <1>0, <2>0, <2>6, <2>d, AllBits
      DEF Data, ChipInv, MasterWord, SlaveWord, Early, Gates, Enabling, Up
  <2>7. CASE k = 11
      BY <1>0, <2>0, <2>7, <2>d, AllBits
      DEF Data, ChipInv, MasterWord, SlaveWord, Early, Gates, Enabling, Up
  <2> QED
      BY <1>k, <2>1, <2>2, <2>3, <2>4, <2>5, <2>6, <2>7
<1> QED
    BY <1>2, <1>3, <1>4, <1>5 DEF IInv

\* The other statements of entry() touch one thing each.
LEMMA EntryStep ==
    ASSUME IInv, Entry
    PROVE  IInv'
<1> USE DEF Goto, memory, chips, Early, Gates, Enabling, Up
<1>0. /\ TypeOK /\ ChipInv /\ GateInv /\ Quiet
      /\ mask \in [Chips -> SUBSET IRs] /\ k \in 0 .. 15
      /\ "master" \in Chips /\ "slave" \in Chips /\ "master" # "slave"
    BY DEF IInv, TypeOK, Chips
<1>1. CASE TerminalOpen
  <2>1. LatchInv' /\ HandlersExclusive' /\ ServiceInv' /\ HeardInv'
      BY <1>1, NoFrames DEF TerminalOpen
  <2>2. TypeOK' /\ ChipInv' /\ GateInv' /\ Quiet'
      BY <1>0, <1>1 DEF TerminalOpen, TypeOK, PCs, ChipInv, GateInv, Quiet
  <2> QED
      BY <2>1, <2>2 DEF IInv
<1>2. CASE Modules
  <2>1. LatchInv' /\ HandlersExclusive' /\ ServiceInv' /\ HeardInv'
      BY <1>2, NoFrames DEF Modules
  <2>2. TypeOK' /\ ChipInv' /\ GateInv' /\ Quiet'
      BY <1>0, <1>2 DEF Modules, TypeOK, PCs, ChipInv, GateInv, Quiet
  <2> QED
      BY <2>1, <2>2 DEF IInv
<1>3. CASE DisableIrq
  <2>0. /\ pc = "disable" /\ pc' = IF k = 15 THEN "i8259_init" ELSE "disable"
        /\ k' = IF k = 15 THEN 0 ELSE k + 1
        /\ stack = <<>> /\ mask' = Masked(k)
        /\ UNCHANGED <<gate, idtr, memory, IF_flag, irr, isr, base, icw, line, stack,
                       missed>>
      BY <1>0, <1>3 DEF DisableIrq
  <2>1. LatchInv' /\ HandlersExclusive' /\ ServiceInv' /\ HeardInv'
      BY <2>0, NoFrames
  <2>2. mask' \in [Chips -> SUBSET IRs]
      BY <1>0, <2>0 DEF Masked, ChipOf, IrOf, IRs, Chips
  <2>3. TypeOK'
      BY <1>0, <2>0, <2>2 DEF TypeOK, PCs
  <2>4. ChipInv' /\ GateInv' /\ Quiet'
      BY <1>0, <2>0 DEF ChipInv, GateInv, Quiet, MasterWord, SlaveWord
  <2> QED
      BY <2>1, <2>3, <2>4 DEF IInv
<1>4. CASE i8259_init
    BY <1>4, InitStep
<1>5. ASSUME NEW from \in Gates, NEW to \in Gates, NEW v \in Vectors,
             NEW kinds \in SUBSET {"interrupt", "trap"}, SetGate(from, to, v, kinds),
             <<from, to, v>> \in {<<"exceptions", "timer", 0>>, <<"timer", "keyboard", 32>>,
                                  <<"keyboard", "clock", 33>>, <<"clock", "systemcall", 40>>,
                                  <<"systemcall", "lidt", 128>>}
      PROVE  IInv'
  <2>0. /\ pc = from /\ pc' = to /\ stack = <<>>
        /\ UNCHANGED <<k, idtr, memory, IF_flag, chips, line, stack, missed>>
      BY <1>5 DEF SetGate
  <2>1. LatchInv' /\ HandlersExclusive' /\ ServiceInv' /\ HeardInv'
      BY <2>0, NoFrames
  <2>2. PICK g \in {"interrupt", "trap"} : gate' = [gate EXCEPT ![v] = g]
      BY <1>5 DEF SetGate
  <2>3. TypeOK'
      BY <1>0, <2>0, <2>2 DEF TypeOK, PCs
  <2>4. ChipInv' /\ Quiet'
      BY <1>0, <2>0 DEF ChipInv, Quiet
  <2>5. GateInv'
      BY <1>0, <1>5, <2>0, <2>2 DEF GateInv, TypeOK, Vectors, IrqVectors
  <2> QED
      BY <2>1, <2>3, <2>4, <2>5 DEF IInv
<1>6. CASE SetGates
  <2>1. /\ {0, 32, 33, 40, 128} \subseteq Vectors
        /\ {"trap"} \in SUBSET {"interrupt", "trap"}
        /\ {"interrupt", "trap"} \in SUBSET {"interrupt", "trap"}
      BY DEF Vectors, IrqVectors
  <2>2. CASE SetGate("exceptions", "timer", 0, {"trap"})
      BY <1>5, <2>1, <2>2
  <2>3. CASE SetGate("timer", "keyboard", 32, {"interrupt", "trap"})
      BY <1>5, <2>1, <2>3
  <2>4. CASE SetGate("keyboard", "clock", 33, {"interrupt", "trap"})
      BY <1>5, <2>1, <2>4
  <2>5. CASE SetGate("clock", "systemcall", 40, {"interrupt", "trap"})
      BY <1>5, <2>1, <2>5
  <2>6. CASE SetGate("systemcall", "lidt", 128, {"interrupt", "trap"})
      BY <1>5, <2>1, <2>6
  <2> QED
      BY <1>6, <2>2, <2>3, <2>4, <2>5, <2>6 DEF SetGates
<1>7. CASE Lidt \/ PagingInit
  <2>1. LatchInv' /\ HandlersExclusive' /\ ServiceInv' /\ HeardInv'
      BY <1>7, NoFrames DEF Lidt, PagingInit
  <2>2. TypeOK' /\ ChipInv' /\ Quiet'
      BY <1>0, <1>7 DEF Lidt, PagingInit, TypeOK, PCs, ChipInv, Quiet
  <2>3. GateInv'
      BY <1>0, <1>7 DEF Lidt, PagingInit, GateInv
  <2> QED
      BY <2>1, <2>2, <2>3 DEF IInv
<1>8. CASE EnableIrqs
  <2>0. /\ stack = <<>>
        /\ \/ pc = "enable_8" /\ pc' = "enable_2" /\ mask' = Unmasked(8)
           \/ pc = "enable_2" /\ pc' = "enable_1" /\ mask' = Unmasked(2)
           \/ pc = "enable_1" /\ pc' = "sti" /\ mask' = Unmasked(1)
        /\ UNCHANGED <<k, gate, idtr, memory, IF_flag, irr, isr, base, icw, line, stack,
                       missed>>
      BY <1>8 DEF EnableIrqs, Enable
  <2>1. LatchInv' /\ HandlersExclusive' /\ ServiceInv' /\ HeardInv'
      BY <2>0, NoFrames
  <2>2. /\ Unmasked(8) = [mask EXCEPT !["slave"] = @ \ {0}]
        /\ Unmasked(2) = [mask EXCEPT !["master"] = @ \ {2}]
        /\ Unmasked(1) = [mask EXCEPT !["master"] = @ \ {1}]
      BY DEF Unmasked, ChipOf, IrOf
  <2>3. TypeOK'
    <3>1. mask' \in [Chips -> SUBSET IRs]
      <4>1. mask \in [Chips -> SUBSET IRs]
          BY <1>0 DEF TypeOK
      <4>2. \A c \in Chips, i \in 0 .. 7 : [mask EXCEPT ![c] = @ \ {i}] \in [Chips -> SUBSET IRs]
          BY <4>1
      <4> QED
          BY <2>0, <2>2, <4>1, <4>2 DEF Chips
    <3>2. pc' \in PCs
        BY <2>0 DEF PCs, Enabling
    <3>3. /\ k' = k /\ IF_flag' = IF_flag /\ gate' = gate /\ isr' = isr /\ irr' = irr
          /\ base' = base /\ icw' = icw /\ line' = line /\ stack' = stack
        BY <2>0
    <3> QED
        BY <1>0, <3>1, <3>2, <3>3, Zenon DEF TypeOK
  <2>4. GateInv' /\ Quiet'
      BY <1>0, <2>0 DEF GateInv, Quiet
  <2>5. ChipInv'
    <3>0. (IRs \ {2}) \ {1} = IRs \ {1, 2}
        OBVIOUS
    <3>1. CASE pc = "enable_8"
        BY <1>0, <2>0, <2>2, <3>1 DEF ChipInv
    <3>2. CASE pc = "enable_2"
        BY <1>0, <2>0, <2>2, <3>2 DEF ChipInv
    <3>3. CASE pc = "enable_1"
        BY <1>0, <2>0, <2>2, <3>0, <3>3 DEF ChipInv
    <3> QED
        BY <2>0, <3>1, <3>2, <3>3
  <2> QED
      BY <2>1, <2>3, <2>4, <2>5 DEF IInv
<1>9. CASE Sti \/ RtcOpen \/ FilesysInit
  <2>1. LatchInv' /\ HandlersExclusive' /\ ServiceInv' /\ HeardInv'
      BY <1>9, NoFrames DEF Sti, RtcOpen, FilesysInit
  <2>2. /\ pc \in {"sti", "rtc_open", "filesys_init"} /\ pc' \in Up
        /\ IF_flag' \in {IF_flag, 1}
        /\ UNCHANGED <<k, gate, idtr, memory, chips, line, stack, missed>>
      BY <1>9 DEF Sti, RtcOpen, FilesysInit
  <2>3. TypeOK'
      BY <1>0, <2>2 DEF TypeOK, PCs
  <2>4. GateInv' /\ Quiet'
      BY <1>0, <2>2 DEF GateInv, Quiet
  <2>5. ChipInv'
      BY <1>0, <2>2 DEF ChipInv
  <2> QED
      BY <2>1, <2>3, <2>4, <2>5 DEF IInv
<1>10. CASE Idle
  <2>1. LatchInv' /\ HandlersExclusive' /\ ServiceInv' /\ HeardInv'
      BY <1>10, NoFrames DEF Idle, vars
  <2>2. TypeOK' /\ ChipInv' /\ GateInv' /\ Quiet'
      BY <1>0, <1>10 DEF Idle, vars, boot, TypeOK, ChipInv, GateInv, Quiet, MasterWord,
                         SlaveWord
  <2> QED
      BY <2>1, <2>2 DEF IInv
<1> QED
    BY <1>1, <1>2, <1>3, <1>4, <1>6, <1>7, <1>8, <1>9, <1>10 DEF Entry

-----------------------------------------------------------------------------
(* Devices, the processor and the handlers *)

\* The running handler goes on to its next statement; the other frames stay.
LEMMA AdvanceEffect ==
    ASSUME TypeOK, stack # <<>>, Running.at # "iret", Advance
    PROVE  /\ Len(stack) \in Nat \ {0} /\ Running \in Frames
           /\ Len(stack') = Len(stack) /\ stack' \in Seq(Frames)
           /\ \A i \in 1 .. Len(stack) : stack[i] \in Frames /\ stack'[i] \in Frames
           /\ \A i \in 1 .. Len(stack) : i # Len(stack) => stack'[i] = stack[i]
           /\ stack'[Len(stack)].vector = Running.vector
           /\ stack'[Len(stack)].at = NextStep(Running)
<1> DEFINE n == Len(stack)
           f == Running
           g == [f EXCEPT !.at = NextStep(f)]
<1>1. stack \in Seq(Frames) /\ n \in Nat \ {0} /\ f = stack[n] /\ f \in Frames
    BY DEF TypeOK, Running
<1>2. NextStep(f) \in Ats /\ (f.vector = 33 => NextStep(f) # "eoi_slave")
    BY <1>1, NextOf DEF Frames, Ats
<1>3. g \in Frames /\ g.vector = f.vector /\ g.at = NextStep(f)
    BY <1>1, <1>2 DEF Frames
<1>4. stack' = [stack EXCEPT ![n] = g]
    BY <1>1 DEF Advance, Running
<1> HIDE DEF g, f
<1>5. stack' \in Seq(Frames) /\ Len(stack') = n
    BY <1>1, <1>3, <1>4
<1>6. stack'[n] = g /\ \A i \in 1 .. n : i # n => stack'[i] = stack[i]
    BY <1>1, <1>4
<1> QED
    BY <1>1, <1>3, <1>5, <1>6 DEF f

\* What remains of the invariant when a handler makes a step that leaves the
\* controllers' registers and entry() alone.
LEMMA BootKept ==
    ASSUME IInv, UNCHANGED <<boot, mask, base, icw>>, stack # <<>> \/ IF_flag = 1
    PROVE  /\ ChipInv' /\ GateInv' /\ Quiet' /\ pc \in Up
           /\ mask["slave"] = IRs \ {0} /\ mask["master"] = IRs \ {1, 2}
           /\ base["master"] = 32 /\ base["slave"] = 40
<1>1. pc \in Up
    BY DEF IInv, Quiet
<1>2. ChipInv' /\ GateInv'
    BY DEF IInv, ChipInv, GateInv, boot, memory, MasterWord, SlaveWord
<1>3. Quiet'
    BY <1>1 DEF Quiet, boot
<1> QED
    BY <1>1, <1>2, <1>3 DEF IInv, ChipInv, Up, Gates, Enabling

\* A statement of a handler between cli and sti: HandlersExclusive.
LEMMA ExclusiveStep ==
    ASSUME IInv, stack # <<>>, Running.at # "iret", Advance,
           Running.at = "sti" \/ IF_flag' = 0
    PROVE  HandlersExclusive'
<1>1. TypeOK /\ HandlersExclusive
    BY DEF IInv
<1>2. /\ Len(stack) \in Nat \ {0} /\ Running \in Frames
      /\ Len(stack') = Len(stack)
      /\ \A i \in 1 .. Len(stack) : i # Len(stack) => stack'[i] = stack[i]
      /\ stack'[Len(stack)].at = NextStep(Running)
    BY <1>1, AdvanceEffect
<1>3. Running.at = "sti" => NextStep(Running) = "iret"
    BY <1>2, NextOf
<1> QED
    BY <1>1, <1>2, <1>3 DEF HandlersExclusive, Guarded

\* A statement that gives up what the frame no longer holds, and nothing else.
LEMMA ServiceStep ==
    ASSUME IInv, stack # <<>>, Running.at # "iret", Advance,
           isr' \in [Chips -> SUBSET IRs],
           \A c \in Chips :
              /\ Holds(stack'[Len(stack)], c) \subseteq Holds(Running, c)
              /\ isr'[c] = isr[c] \ (Holds(Running, c) \ Holds(stack'[Len(stack)], c))
    PROVE  ServiceInv'
<1> DEFINE n == Len(stack)
<1>1. TypeOK /\ ServiceInv
    BY DEF IInv
<1>2. /\ n \in Nat \ {0} /\ Len(stack') = n /\ Running = stack[n]
      /\ \A i \in 1 .. n : i # n => stack'[i] = stack[i]
    BY <1>1, AdvanceEffect DEF Running
<1>3. ASSUME NEW c \in Chips, NEW i \in 1 .. n
      PROVE  Holds(stack'[i], c) \subseteq Holds(stack[i], c)
    BY <1>2
<1>4. ASSUME NEW c \in Chips, NEW m \in IRs
      PROVE  m \in isr'[c] <=> \E i \in 1 .. n : m \in Holds(stack'[i], c)
  <2>0. \A i, j \in 1 .. n : i # j => Holds(stack[i], c) \cap Holds(stack[j], c) = {}
      BY <1>1 DEF ServiceInv
  <2>1. ASSUME m \in isr'[c] PROVE \E i \in 1 .. n : m \in Holds(stack'[i], c)
    <3>1. m \in isr[c] /\ ~(m \in Holds(stack[n], c) /\ m \notin Holds(stack'[n], c))
        BY <1>2, <2>1
    <3>2. PICK i \in 1 .. n : m \in Holds(stack[i], c)
        BY <1>1, <3>1 DEF ServiceInv
    <3> QED
        BY <1>2, <3>1, <3>2
  <2>2. ASSUME NEW i \in 1 .. n, m \in Holds(stack'[i], c) PROVE m \in isr'[c]
    <3>1. m \in Holds(stack[i], c) /\ n \in 1 .. n
        BY <1>2, <1>3, <2>2
    <3>2. m \in isr[c]
        BY <1>1, <3>1 DEF ServiceInv
    <3>3. i # n => m \notin Holds(stack[n], c)
        BY <2>0, <3>1
    <3> QED
        BY <1>2, <2>2, <3>2, <3>3
  <2> QED
      BY <2>1, <2>2
<1>5. ASSUME NEW c \in Chips, NEW i \in 1 .. n, NEW j \in 1 .. n, i # j
      PROVE  Holds(stack'[i], c) \cap Holds(stack'[j], c) = {}
  <2>1. Holds(stack[i], c) \cap Holds(stack[j], c) = {}
      BY <1>1, <1>5 DEF ServiceInv
  <2> QED
      BY <1>3, <2>1
<1>6. \A c \in Chips, m \in IRs :
          m \in isr'[c] <=> \E i \in 1 .. Len(stack') : m \in Holds(stack'[i], c)
    BY <1>2, <1>4
<1>7. \A c \in Chips : \A i, j \in 1 .. Len(stack') :
          i # j => Holds(stack'[i], c) \cap Holds(stack'[j], c) = {}
    BY <1>2, <1>5
<1> QED
    BY <1>6, <1>7 DEF ServiceInv

\* Until its handler has read it, a device has a frame that will.
LEMMA HeardStep ==
    ASSUME IInv, stack # <<>>, Running.at # "iret", Advance, irr' = irr,
           \/ Running.at # "inb" /\ line' = line /\ missed' = missed
           \/ /\ line' = Lowered(Irq(Running.vector))
              /\ missed' = missed \ {Irq(Running.vector)}
    PROVE  HeardInv'
<1> DEFINE n == Len(stack)
<1>1. TypeOK /\ HeardInv /\ line \in [Devices -> 0 .. 1]
    BY DEF IInv, TypeOK
<1>2. /\ n \in Nat \ {0} /\ Len(stack') = n /\ Running = stack[n] /\ Running \in Frames
      /\ \A i \in 1 .. n : i # n => stack'[i] = stack[i]
      /\ stack'[n].vector = Running.vector
      /\ stack'[n].at = NextStep(Running)
    BY <1>1, AdvanceEffect DEF Running
<1> SUFFICES ASSUME NEW d \in {1, 8}, line'[d] = 1, d \notin missed'
             PROVE  \/ IrOf(d) \in irr'[ChipOf(d)]
                    \/ \E i \in 1 .. Len(stack') :
                          Irq(stack'[i].vector) = d /\ stack'[i].at \in {"cli", "inb"}
    BY DEF HeardInv, Irq
<1>3. /\ line[d] = 1 /\ d \notin missed
      /\ Running.at = "inb" => Irq(Running.vector) # d
    BY <1>1 DEF Lowered, Devices
<1>4. CASE IrOf(d) \in irr[ChipOf(d)]
    BY <1>4
<1>5. ASSUME NEW i \in 1 .. n, Irq(stack[i].vector) = d, stack[i].at \in {"cli", "inb"}
      PROVE  Irq(stack'[i].vector) = d /\ stack'[i].at \in {"cli", "inb"}
  <2>1. CASE i = n
    <3>1. stack[i].at = "cli"
        BY <1>2, <1>3, <1>5, <2>1
    <3>2. NextStep(Running) = "inb"
        BY <1>2, <2>1, <3>1, NextOf
    <3> QED
        BY <1>2, <1>5, <2>1, <3>2
  <2>2. CASE i # n
      BY <1>2, <1>5, <2>2
  <2> QED
      BY <2>1, <2>2
<1> QED
    BY <1>1, <1>2, <1>3, <1>4, <1>5 DEF HeardInv

\* cli, the read of the device, the body of the handler, the ends of interrupt and
\* sti.
LEMMA HandlerStep ==
    ASSUME IInv, Handler, ~Iret
    PROVE  IInv'
<1> DEFINE n == Len(stack)
           f == Running
           g == stack'[n]
<1>a. /\ stack # <<>> /\ Advance /\ f.at # "iret"
      /\ \/ Cli \/ ReadDevice \/ Work \/ StiHandler
         \/ Eoi("eoi_slave", "slave") \/ Eoi("eoi_master", "master")
      /\ UNCHANGED <<boot, mask, irr, base, icw>>
    BY DEF Handler, Cli, ReadDevice, Work, StiHandler, Eoi, At, chips
<1>0. /\ TypeOK /\ LatchInv /\ HandlersExclusive
      /\ isr \in [Chips -> SUBSET IRs] /\ line \in [Devices -> 0 .. 1]
    BY DEF IInv, TypeOK
<1>1. /\ n \in Nat \ {0} /\ f \in Frames /\ g \in Frames
      /\ stack' \in Seq(Frames) /\ f = stack[n]
      /\ g.vector = f.vector /\ g.at = NextStep(f)
    BY <1>0, <1>a, AdvanceEffect DEF Running
<1>2. ChipInv' /\ GateInv' /\ Quiet'
    BY <1>a, BootKept
<1>3. LatchInv'
    BY <1>0, <1>a DEF LatchInv
<1>4. HandlersExclusive'
  <2>1. Running.at = "sti" \/ IF_flag' = 0
    <3>1. Guarded(f) => IF_flag = 0
        BY <1>0, <1>1 DEF HandlersExclusive
    <3> QED
        BY <1>a, <3>1 DEF Guarded, Cli, ReadDevice, Work, StiHandler, Eoi, At
  <2> QED
      BY <1>a, <2>1, ExclusiveStep
<1>5. isr' \in [Chips -> SUBSET IRs] /\ ServiceInv'
  <2>0. f.vector \in {33, 40}
      BY <1>1 DEF Frames
  <2>1. /\ Holds(g, "master") \subseteq Holds(f, "master")
        /\ Holds(g, "slave") \subseteq Holds(f, "slave")
        /\ Holds(f, "master") \ Holds(g, "master") =
              IF f.at = "eoi_master" THEN {IF f.vector = 33 THEN 1 ELSE 2} ELSE {}
        /\ Holds(f, "slave") \ Holds(g, "slave") =
              IF f.at = "eoi_slave" THEN {0} ELSE {}
    <3>1. CASE f.vector = 33
        BY <1>1, <1>a, <3>1, NextOf, HoldsOf DEF Frames, Ats
    <3>2. CASE f.vector = 40
        BY <1>1, <1>a, <3>2, NextOf, HoldsOf DEF Frames, Ats
    <3> QED
        BY <2>0, <3>1, <3>2
  <2>2. isr' = CASE f.at = "eoi_slave" -> [isr EXCEPT !["slave"] = @ \ {0}]
                 [] f.at = "eoi_master" ->
                       [isr EXCEPT !["master"] = @ \ {IF f.vector = 33 THEN 1 ELSE 2}]
                 [] OTHER -> isr
    <3>1. CASE f.at = "eoi_slave"
      <4>1. f.vector = 40
          BY <1>1, <3>1 DEF Frames
      <4> QED
          BY <1>a, <3>1, <4>1
          DEF Cli, ReadDevice, Work, StiHandler, Eoi, At, send_eoi, Irq, ChipOf, IrOf
    <3>2. CASE f.at = "eoi_master"
        BY <1>a, <2>0, <3>2
        DEF Cli, ReadDevice, Work, StiHandler, Eoi, At, send_eoi, Irq, ChipOf, IrOf
    <3>3. CASE f.at \notin {"eoi_slave", "eoi_master"}
        BY <1>a, <3>3 DEF Cli, ReadDevice, Work, StiHandler, Eoi, At, chips
    <3> QED
        BY <3>1, <3>2, <3>3
  <2> HIDE DEF f, g
  <2>3. isr' \in [Chips -> SUBSET IRs]
      BY <1>0, <2>2
  <2>4. ASSUME NEW c \in Chips
        PROVE  /\ Holds(g, c) \subseteq Holds(f, c)
               /\ isr'[c] = isr[c] \ (Holds(f, c) \ Holds(g, c))
    <3>1. CASE c = "master"
        BY <1>0, <2>1, <2>2, <3>1 DEF Chips
    <3>2. CASE c = "slave"
        BY <1>0, <2>1, <2>2, <3>2 DEF Chips
    <3> QED
        BY <3>1, <3>2 DEF Chips
  <2>5. \A c \in Chips :
           /\ Holds(stack'[Len(stack)], c) \subseteq Holds(Running, c)
           /\ isr'[c] = isr[c] \ (Holds(Running, c) \ Holds(stack'[Len(stack)], c))
      BY <2>4 DEF f, g
  <2> QED
      BY <1>a, <2>3, <2>5, ServiceStep DEF f
<1>6. HeardInv'
  <2>1. \/ Running.at # "inb" /\ line' = line /\ missed' = missed
        \/ /\ line' = Lowered(Irq(Running.vector))
           /\ missed' = missed \ {Irq(Running.vector)}
      BY <1>a DEF Cli, ReadDevice, Work, StiHandler, Eoi, At
  <2> QED
      BY <1>a, <2>1, HeardStep
<1>7. TypeOK'
  <2>1. IF_flag' \in 0 .. 1
      BY <1>0, <1>a DEF TypeOK, Cli, ReadDevice, Work, StiHandler, Eoi
  <2>2. line' \in [Devices -> 0 .. 1]
      BY <1>0, <1>a DEF TypeOK, Cli, ReadDevice, Work, StiHandler, Eoi, Lowered
  <2> QED
      BY <1>0, <1>1, <1>5, <1>a, <2>1, <2>2 DEF TypeOK, boot
<1> QED
    BY <1>2, <1>3, <1>4, <1>5, <1>6, <1>7 DEF IInv

\* A stack without its last element.
LEMMA Popped ==
    ASSUME NEW S, NEW s \in Seq(S), s # <<>>
    PROVE  LET t == SubSeq(s, 1, Len(s) - 1) IN
              /\ t \in Seq(S) /\ Len(t) = Len(s) - 1
              /\ \A i \in 1 .. Len(s) - 1 : t[i] = s[i]
<1> DEFINE n == Len(s) - 1
<1>1. n \in Nat /\ 1 .. n \subseteq 1 .. Len(s)
    OBVIOUS
<1>2. \A i \in 1 .. n : s[i] \in S
    BY <1>1
<1> HIDE DEF n
<1>3. /\ SubSeq(s, 1, n) \in Seq(S)
      /\ Len(SubSeq(s, 1, n)) = IF 1 <= n THEN n - 1 + 1 ELSE 0
      /\ \A i \in 1 .. n - 1 + 1 : SubSeq(s, 1, n)[i] = s[1 + i - 1]
    BY <1>1, <1>2, SubSeqProperties
<1>4. Len(SubSeq(s, 1, n)) = n
    BY <1>1, <1>3
<1>5. \A i \in 1 .. n : i \in 1 .. n - 1 + 1 /\ 1 + i - 1 = i
    BY <1>1
<1> QED
    BY <1>1, <1>3, <1>4, <1>5 DEF n

\* iret: a frame that holds nothing goes.
LEMMA IretStep ==
    ASSUME IInv, Iret
    PROVE  IInv'
<1> DEFINE n == Len(stack)
<1>0. /\ TypeOK /\ LatchInv /\ HandlersExclusive /\ ServiceInv /\ HeardInv
      /\ stack \in Seq(Frames) /\ stack # <<>>
    BY DEF IInv, TypeOK, Iret, At
<1>1. /\ n \in Nat \ {0} /\ stack[n] \in Frames /\ stack[n].at = "iret"
      /\ IF_flag' = 1
      /\ UNCHANGED <<boot, chips, line, missed>>
    BY <1>0 DEF Iret, At, Running
<1>2. /\ stack' \in Seq(Frames) /\ Len(stack') = n - 1
      /\ \A i \in 1 .. n - 1 : stack'[i] = stack[i]
    BY <1>0, Popped DEF Iret
<1>3. ChipInv' /\ GateInv' /\ Quiet'
    BY <1>0, <1>1, BootKept DEF chips
<1>4. TypeOK' /\ LatchInv'
    BY <1>0, <1>1, <1>2 DEF TypeOK, LatchInv, boot, chips
<1>5. HandlersExclusive'
    BY <1>0, <1>1, <1>2 DEF HandlersExclusive, Guarded
<1>6. ServiceInv'
  <2>1. \A c \in Chips : Holds(stack[n], c) = {}
      BY <1>1, HoldsOf DEF Chips, Frames
  <2>2. isr' = isr
      BY <1>1 DEF chips
  <2>3. ASSUME NEW c \in Chips, NEW m \in IRs
        PROVE  m \in isr'[c] <=> \E i \in 1 .. Len(stack') : m \in Holds(stack'[i], c)
    <3>1. m \in isr[c] <=> \E i \in 1 .. n : m \in Holds(stack[i], c)
        BY <1>0 DEF ServiceInv
    <3>2. m \notin Holds(stack[n], c)
        BY <2>1
    <3>3. \A i \in 1 .. n : i # n => i \in 1 .. n - 1
        BY <1>1
    <3>4. \A i \in 1 .. n - 1 : i \in 1 .. n
        BY <1>1
    <3> QED
        BY <1>2, <2>2, <3>1, <3>2, <3>3, <3>4
  <2>4. \A c \in Chips : \A i, j \in 1 .. Len(stack') :
           i # j => Holds(stack'[i], c) \cap Holds(stack'[j], c) = {}
    <3>1. \A i \in 1 .. Len(stack') : i \in 1 .. n /\ stack'[i] = stack[i]
        BY <1>1, <1>2
    <3> QED
        BY <1>0, <3>1 DEF ServiceInv
  <2> QED
      BY <2>3, <2>4 DEF ServiceInv
<1>7. HeardInv'
    BY <1>0, <1>1, <1>2 DEF HeardInv, chips
<1> QED
    BY <1>3, <1>4, <1>5, <1>6, <1>7 DEF IInv

\* Only the keyboard and the clock interrupt, and only when the line is free.
LEMMA Candidates ==
    ASSUME IInv, IF_flag = 1, MasterRequests # {}
    PROVE  LET n == Highest(MasterRequests)
               s == Highest(SlaveRequests)
           IN  /\ n \in {1, 2} /\ n \notin isr["master"]
               /\ n = 2 => s = 0 /\ 0 \notin isr["slave"]
               /\ base["slave"] = 40 /\ base["master"] = 32
<1> DEFINE n == Highest(MasterRequests)
           s == Highest(SlaveRequests)
<1>1. pc \in Up /\ TypeOK /\ LatchInv
    BY DEF IInv, Quiet
<1>2. /\ mask["slave"] = IRs \ {0} /\ mask["master"] = IRs \ {1, 2}
      /\ base["master"] = 32 /\ base["slave"] = 40
    BY <1>1 DEF IInv, ChipInv, Up, Gates, Enabling
<1>3. SlaveRequests \subseteq {0} /\ (SlaveRequests # {} => 0 \notin isr["slave"])
    BY <1>1, <1>2 DEF SlaveRequests, Requests, LatchInv, IRs
<1>4. /\ MasterRequests \subseteq {1, 2} \ isr["master"]
      /\ 2 \in MasterRequests => SlaveRequests # {}
    BY <1>1, <1>2 DEF MasterRequests, Requests, LatchInv, IRs
<1>5. \E m \in MasterRequests : \A m2 \in MasterRequests : m <= m2
  <2>1. CASE 1 \in MasterRequests
    <3>1. \A m2 \in MasterRequests : 1 <= m2
        BY <1>4
    <3> QED
        BY <2>1, <3>1
  <2>2. CASE 1 \notin MasterRequests
    <3>1. \A m \in MasterRequests : m = 2
        BY <1>4, <2>2
    <3> QED
        BY <3>1
  <2> QED
      BY <2>1, <2>2
<1>6. n \in MasterRequests
    BY <1>5 DEF Highest
<1>7. SlaveRequests # {} => s \in SlaveRequests
  <2>1. SlaveRequests # {} => \E m \in SlaveRequests : \A m2 \in SlaveRequests : m <= m2
    <3>1. \A m \in SlaveRequests : m = 0
        BY <1>3
    <3> QED
        BY <3>1
  <2> QED
      BY <2>1 DEF Highest
<1> QED
    BY <1>2, <1>3, <1>4, <1>6, <1>7

\* The processor takes an interrupt: the new frame holds its lines, and nobody else
\* does.
LEMMA AcceptStep ==
    ASSUME IInv, Accept
    PROVE  IInv'
<1> DEFINE n == Highest(MasterRequests)
           s == Highest(SlaveRequests)
           v == IF n = 2 THEN base["slave"] + s ELSE base["master"] + n
           f == [vector |-> v, at |-> "cli"]
           l == Len(stack)
<1>0. /\ TypeOK /\ LatchInv /\ HandlersExclusive /\ ServiceInv /\ HeardInv
      /\ stack \in Seq(Frames) /\ l \in Nat
      /\ isr \in [Chips -> SUBSET IRs] /\ irr \in [Chips -> SUBSET IRs]
      /\ "master" \in Chips /\ "slave" \in Chips /\ "master" # "slave"
    BY DEF IInv, TypeOK, Chips
<1>1. /\ n \in {1, 2} /\ n \notin isr["master"]
      /\ n = 2 => s = 0 /\ 0 \notin isr["slave"]
      /\ v = IF n = 2 THEN 40 ELSE 33
    BY Candidates DEF Accept
<1>2. /\ IF_flag = 1
      /\ isr' = [isr EXCEPT !["master"] = @ \cup {n},
                            !["slave"]  = @ \cup IF n = 2 THEN {s} ELSE {}]
      /\ irr' = [irr EXCEPT !["master"] = @ \ {n},
                            !["slave"]  = @ \ IF n = 2 THEN {s} ELSE {}]
      /\ stack' = Append(stack, f)
      /\ IF_flag' \in {0, IF_flag}
      /\ UNCHANGED <<boot, mask, base, icw, line, missed>>
    BY DEF Accept
<1> HIDE DEF n, s, v
<1>3. /\ f \in Frames /\ f.at = "cli" /\ f.vector = v
    BY <1>1 DEF Frames, Ats
<1>4. /\ Holds(f, "master") = {n}
      /\ Holds(f, "slave") = IF n = 2 THEN {s} ELSE {}
    BY <1>1, <1>3, HoldsOf
<1> HIDE DEF f
<1>5. /\ stack' \in Seq(Frames) /\ Len(stack') = l + 1 /\ stack'[l + 1] = f
      /\ \A i \in 1 .. l : stack'[i] = stack[i]
    BY <1>0, <1>2, <1>3
<1>6. /\ isr' \in [Chips -> SUBSET IRs] /\ irr' \in [Chips -> SUBSET IRs]
      /\ \A c \in Chips : isr'[c] = isr[c] \cup Holds(f, c)
      /\ \A c \in Chips : isr[c] \cap Holds(f, c) = {}
    BY <1>0, <1>1, <1>2, <1>4 DEF Chips, IRs
<1>7. ChipInv' /\ GateInv' /\ Quiet'
    BY <1>2, BootKept
<1>8. TypeOK'
  <2>1. IF_flag' \in 0 .. 1
      BY <1>2
  <2>2. /\ pc' = pc /\ k' = k /\ gate' = gate /\ mask' = mask /\ base' = base
        /\ icw' = icw /\ line' = line
      BY <1>2 DEF boot
  <2> QED
      BY <1>0, <1>5, <1>6, <2>1, <2>2 DEF TypeOK
<1>9. LatchInv'
    BY <1>0, <1>2 DEF LatchInv
<1>10. HandlersExclusive'
    BY <1>0, <1>2, <1>3, <1>5 DEF HandlersExclusive, Guarded
<1>11. ServiceInv'
  <2>1. ASSUME NEW c \in Chips, NEW m \in IRs
        PROVE  m \in isr'[c] <=> \E i \in 1 .. l + 1 : m \in Holds(stack'[i], c)
    <3>1. m \in isr[c] <=> \E i \in 1 .. l : m \in Holds(stack[i], c)
        BY <1>0 DEF ServiceInv
    <3>2. (\E i \in 1 .. l + 1 : m \in Holds(stack'[i], c))
             <=> (\E i \in 1 .. l : m \in Holds(stack[i], c)) \/ m \in Holds(f, c)
      <4>1. \A i \in 1 .. l + 1 : i = l + 1 \/ i \in 1 .. l
          BY <1>0
      <4>2. l + 1 \in 1 .. l + 1 /\ \A i \in 1 .. l : i \in 1 .. l + 1
          BY <1>0
      <4> QED
          BY <1>5, <4>1, <4>2
    <3> QED
        BY <1>6, <3>1, <3>2
  <2>2. ASSUME NEW c \in Chips, NEW i \in 1 .. l
        PROVE  Holds(stack[i], c) \cap Holds(f, c) = {}
    <3>1. Holds(stack[i], c) \subseteq IRs
      <4>1. stack[i] \in Frames
          BY <1>0
      <4> QED
          BY <4>1, HoldsOf DEF Chips, IRs
    <3> QED
        BY <1>0, <1>6, <3>1 DEF ServiceInv
  <2>3. ASSUME NEW c \in Chips, NEW i \in 1 .. l + 1, NEW j \in 1 .. l + 1, i # j
        PROVE  Holds(stack'[i], c) \cap Holds(stack'[j], c) = {}
    <3>1. CASE i \in 1 .. l /\ j \in 1 .. l
        BY <1>0, <1>5, <2>3, <3>1 DEF ServiceInv
    <3>2. CASE i = l + 1 /\ j \in 1 .. l
        BY <1>5, <2>2, <3>2
    <3>3. CASE i \in 1 .. l /\ j = l + 1
        BY <1>5, <2>2, <3>3
    <3> QED
        BY <1>0, <2>3, <3>1, <3>2, <3>3
  <2>4. \A c \in Chips, m \in IRs :
           m \in isr'[c] <=> \E i \in 1 .. Len(stack') : m \in Holds(stack'[i], c)
      BY <1>5, <2>1
  <2>5. \A c \in Chips : \A i, j \in 1 .. Len(stack') :
           i # j => Holds(stack'[i], c) \cap Holds(stack'[j], c) = {}
      BY <1>5, <2>3
  <2> QED
      BY <2>4, <2>5 DEF ServiceInv
<1>12. HeardInv'
  <2> SUFFICES ASSUME NEW d \in {1, 8}, line[d] = 1, d \notin missed
               PROVE  \/ IrOf(d) \in irr'[ChipOf(d)]
                      \/ \E i \in 1 .. Len(stack') :
                            Irq(stack'[i].vector) = d /\ stack'[i].at \in {"cli", "inb"}
      BY <1>2 DEF HeardInv, Irq
  <2>1. CASE Irq(v) = d
      BY <1>0, <1>3, <1>5, <2>1
  <2>2. CASE Irq(v) # d
    <3>1. IrOf(d) \in irr[ChipOf(d)] => IrOf(d) \in irr'[ChipOf(d)]
        BY <1>0, <1>1, <1>2, <2>2 DEF IrOf, ChipOf, Irq
    <3>2. \A i \in 1 .. l : i \in 1 .. Len(stack') /\ stack'[i] = stack[i]
        BY <1>0, <1>5
    <3> QED
        BY <1>0, <3>1, <3>2 DEF HeardInv
  <2> QED
      BY <2>1, <2>2
<1> QED
    BY <1>7, <1>8, <1>9, <1>10, <1>11, <1>12 DEF IInv

\* The devices raise their lines, and the timer lowers its own.
LEMMA DeviceStep ==
    ASSUME IInv, TimerFalls \/ \E d \in Devices : Raise(d)
    PROVE  IInv'
<1>0. /\ TypeOK /\ LatchInv /\ HandlersExclusive /\ ServiceInv /\ HeardInv
      /\ irr \in [Chips -> SUBSET IRs] /\ line \in [Devices -> 0 .. 1]
      /\ ChipInv /\ GateInv /\ Quiet
    BY DEF IInv, TypeOK
<1>1. /\ UNCHANGED <<boot, IF_flag, mask, isr, base, icw, stack>>
      /\ line' \in [Devices -> 0 .. 1] /\ irr' \in [Chips -> SUBSET IRs]
    BY <1>0 DEF TimerFalls, Raise, chips, Devices, ChipOf, IrOf, IRs, Chips
<1>2. TypeOK'
    BY <1>0, <1>1 DEF TypeOK, boot
<1>3. ChipInv' /\ GateInv' /\ Quiet'
    BY <1>0, <1>1 DEF ChipInv, GateInv, Quiet, boot, memory, MasterWord, SlaveWord
<1>4. HandlersExclusive' /\ ServiceInv'
    BY <1>0, <1>1 DEF HandlersExclusive, ServiceInv
<1>5. LatchInv'
    BY <1>0 DEF LatchInv, TimerFalls, Raise, chips, Devices, ChipOf, IrOf, Chips
<1>6. CASE TimerFalls
    BY <1>0, <1>1, <1>2, <1>3, <1>4, <1>5, <1>6
    DEF IInv, HeardInv, TimerFalls, chips, Devices
<1>7. ASSUME NEW d \in Devices, Raise(d) PROVE HeardInv'
    BY <1>0, <1>1, <1>7 DEF HeardInv, Raise, Devices, ChipOf, IrOf, Chips
<1> QED
    BY <1>2, <1>3, <1>4, <1>5, <1>6, <1>7 DEF IInv

\* Every step of entry(), of the handlers, of the processor and of the devices
\* preserves the invariant.
LEMMA StepIInv == IInv /\ [Next]_vars => IInv'
<1> SUFFICES ASSUME IInv, [Next]_vars PROVE IInv'
    OBVIOUS
<1>1. CASE UNCHANGED vars
  <2> USE <1>1 DEF vars, boot, memory, chips
  <2>1. TypeOK' /\ LatchInv' /\ Quiet'
      BY DEF IInv, TypeOK, LatchInv, Quiet
  <2>2. ChipInv' /\ GateInv'
      BY DEF IInv, ChipInv, GateInv, MasterWord, SlaveWord
  <2>3. HandlersExclusive' /\ HeardInv'
      BY DEF IInv, HandlersExclusive, HeardInv
  <2>4. ServiceInv'
      BY DEF IInv, ServiceInv
  <2> QED
      BY <2>1, <2>2, <2>3, <2>4 DEF IInv
<1> QED
    BY <1>1, EntryStep, HandlerStep, IretStep, AcceptStep, DeviceStep DEF Next

-----------------------------------------------------------------------------
(* The theorems *)

\* The invariant holds in every reachable state, whatever the size of the page
\* tables and however deep the handlers nest.
THEOREM Inductive == Spec => []IInv
BY InitIInv, StepIInv, PTL DEF Spec

\* When the first interrupt can come descriptor table, paging, controllers and gates
\* are ready for it, and only lines whose handler ends in iret are open.
THEOREM ReadyForInterrupts == Spec => []InterruptsReady
<1>1. IInv => InterruptsReady
  <2> SUFFICES ASSUME IInv, IF_flag = 1 \/ stack # <<>>
               PROVE  /\ idtr = 1 /\ paging = 1
                      /\ \A c \in Chips : icw[c] = 0
                      /\ \A o \in Open : /\ base[o[1]] + o[2] \in {33, 40}
                                         /\ gate[base[o[1]] + o[2]] # "none"
                      /\ \A i \in 1 .. Len(stack) : stack[i].vector \in {33, 40}
      BY DEF InterruptsReady
  <2>1. pc \in Up /\ ChipInv /\ GateInv
      BY DEF IInv, Quiet
  <2>2. /\ idtr = 1 /\ paging = 1 /\ gate[33] # "none" /\ gate[40] # "none"
        /\ icw["master"] = 0 /\ icw["slave"] = 0
        /\ base["master"] = 32 /\ base["slave"] = 40
        /\ mask["slave"] = IRs \ {0} /\ mask["master"] = IRs \ {1, 2}
      BY <2>1 DEF ChipInv, GateInv, Up, Gates, Enabling
  <2>3. ASSUME NEW o \in Open
        PROVE  base[o[1]] + o[2] \in {33, 40} /\ gate[base[o[1]] + o[2]] # "none"
    <3>1. o = <<"master", 1>> \/ o = <<"slave", 0>>
        BY <2>2 DEF Open, Chips, IRs
    <3> QED
        BY <2>2, <3>1
  <2>4. \A i \in 1 .. Len(stack) : stack[i].vector \in {33, 40}
    <3>1. \A i \in 1 .. Len(stack) : stack[i] \in Frames
        BY DEF IInv, TypeOK
    <3> QED
        BY <3>1 DEF Frames
  <2> QED
      BY <2>2, <2>3, <2>4 DEF Chips
<1> QED
    BY <1>1, Inductive, PTL

\* keyboard_input and rtc_intr are never interrupted by one another or by themselves.
THEOREM ExclusiveHandlers == Spec => []HandlersExclusive
BY Inductive, PTL DEF IInv

\* send_eoi balances every interrupt at both controllers, whatever nests.
THEOREM EveryInterruptEnded == Spec => []InServiceMatches
<1>1. IInv => InServiceMatches
  <2> SUFFICES ASSUME IInv, NEW c \in Chips
               PROVE  isr[c] = UNION {Holds(stack[i], c) : i \in 1 .. Len(stack)}
      BY DEF InServiceMatches
  <2>1. isr[c] \subseteq IRs
      BY DEF IInv, TypeOK
  <2>2. ASSUME NEW i \in 1 .. Len(stack) PROVE Holds(stack[i], c) \subseteq IRs
    <3>1. stack[i] \in Frames
        BY DEF IInv, TypeOK
    <3> QED
        BY <3>1, HoldsOf DEF Chips, IRs
  <2>3. \A n \in IRs : n \in isr[c] <=> \E i \in 1 .. Len(stack) : n \in Holds(stack[i], c)
      BY DEF IInv, ServiceInv
  <2> QED
      BY <2>1, <2>2, <2>3
<1> QED
    BY <1>1, Inductive, PTL

\* A device that waits is latched or has a handler that will read it.
THEOREM NoEdgeLost == Spec => []DeviceHeard
<1>1. IInv => DeviceHeard
    BY DEF IInv, HeardInv, DeviceHeard
<1> QED
    BY <1>1, Inductive, PTL

\* With paging on the kernel's pages are where they were, for page tables of any size.
THEOREM KernelStaysMapped == Spec => []KernelMapped
<1>1. IInv => KernelMapped
    BY DirectoryMapped DEF IInv, GateInv, KernelMapped
<1> QED
    BY <1>1, Inductive, PTL
=============================================================================
