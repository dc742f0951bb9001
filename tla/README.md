# A TLA+ model of the mp3 kernel

The repository is a small teaching kernel for a 32-bit PC (`student-distrib/`),
with course-provided user programs (`syscalls/`), a demo (`fish/`) and the tools
that build the file system image. This project models the parts whose correctness
depends on the order of steps or on bounds: the line terminal, the text screen and
the exception screen, the real-time clock driver, start-up, paging and interrupts,
the file system, and of the programs `grep` and the fish animation with its list.

## 1. Inventory

| Component | State | Operations | Interacts with |
|---|---|---|---|
| Terminal, `terminal.c` | `typed[1024]`, `line_pos`, `enter_pressed`, `shift`, `caps_lock`, `ctrl`, `reading` | `terminal_open/read/write/close`, `keyboard_input` | called by the main loop and by the keyboard handler; calls the screen |
| Screen, `lib.c` | `cursor_x`, `cursor_y`, `screen_offset`, `cursor_enabled`, `ATTRIB`, video memory at 0xB8000, saved video memory at 0x100000, CRTC registers | `screen_init`, `putc`, `puts`, `printf`, `clear`, `scroll`, `update_cursor`, `font_color`, `background_color`, `BSOD` | called by the main thread and by the handler, without a lock |
| Main loop, `kernel.c` | its 1024-byte line buffer | prompt, read, terminate, report | terminal, screen |
| RTC, `rtc.c`, `idthandlers.c` | `rtc_intr_recieved`, `rtc_pie`, `rtc_uie`, `rtc_freq`; the MC146818's index and registers A, B, C | `rtc_open/read/write/close`, `rtc_intr`, `rt_clock` | main thread and interrupt share the variables and the chip's index register |
| File system, `filesys.c` | `bytes_read[64]`, `dir_position`, the image in memory | `fopen`, `fread`, `dir_read`, `load`, `read_data`, `read_dentry_by_*`, and operations that only return a value | callers share positions |
| Boot, `kernel.c`, `boot.S` | order of initialisation | `entry` | all |
| Interrupt controller, `i8259.c` | masks, in-service bits | `i8259_init`, `enable_irq`, `disable_irq`, `send_eoi` | handlers, boot |
| Exceptions, `idthandlers.c` | none | handlers that call `BSOD` and stop | screen |
| Paging, `paging.c` | page directory and tables | `paging_init`, `palloc` | boot |
| String helpers, `lib.c` | none | `itoa`, `strrev`, `memmove`, `strncmp`, ... | everyone |
| User programs, `syscalls/` | their own; `grep` a line buffer with an unfinished line | `cat`, `grep`, `ls`, `shell`, `emulate`, ... | system calls the kernel does not provide yet |
| Fish animation, `fish/` | `blink_array` (slots), `mp1_list_head`, the characters on the screen | `mp1_ioctl` (add, remove, find, sync), `mp1_rtc_tasklet`, `mp1_malloc`, `mp1_free`, `add_frames` | the clock and video memory, through system calls |

What is hard here:

* The keyboard and clock handlers run between any two instructions of the main
  thread. There is no lock; each handler disables interrupts for itself only.
* `terminal_read` and `rtc_write` initialise shared flags in several statements
  with interrupts enabled, and then spin on them.
* A chip register is reached by two port accesses, and the clock handler uses the
  same index register.
* `putc` writes two memories, one through a window that moves, with a 32-bit
  unsigned row difference.
* Positions (of files, of the directory) are shared by all callers.
* Nothing limits the growth of the screen's history.
* `BSOD` may be called from any state of the screen, and has to be readable.
* `grep` searches a buffer that reads cut anywhere, and looks one byte behind it.
* The blink list's allocator marks a free slot by a value that data could have.

Nothing is persisted and nothing is sent over a network, so crash recovery and
message loss do not arise.

## 2. Modules

| Module | Models |
|---|---|
| `Terminal` | `terminal.c`, the keyboard handler and the read loop |
| `Screen` | the screen functions of `lib.c` |
| `Viewport` | what the screen promises, independent of the code: a typewriter over a page, seen through a window |
| `ScreenImpl` | the refinement mapping from `Screen` to `Viewport` |
| `Console` | `Terminal` and `Screen` composed by INSTANCE, with the main thread's output one character per step |
| `Rtc` | the clock driver, its handler and the chip |
| `FileSys` | the file system over an image |
| `Interrupts` | `entry()` up to its loop, `i8259.c`, and how the two handlers are entered, nest and return |
| `Paging` | the page tables of `paging.c`, extended by `Interrupts` |
| `Format` | `printf`, `itoa`, `strrev` as functions, and what a numeral means |
| `Panic` | the exception handlers and `BSOD` on top of `Screen` and `Format` |
| `Blink` | the list of `blink.S` and its allocator |
| `Blinkers` | what the list promises: a sequence of blinking characters |
| `Fish` | `add_frames` and `main` of `fish.c` around `Blink` |
| `Grep` | the user program `grep` |
| `MC*` | the constants of the runs |
| `TerminalProofs`, `ScreenProofs`, `ConsoleProofs`, `RtcProofs`, `InterruptsProofs`, `FileSysProofs`, `GrepProofs`, `FishProofs` | for the module of that name, an inductive invariant and the theorems that follow from it; `ScreenProofs` also has those about `ScreenImpl`, `Format` and `Panic`, `FishProofs` those about `Blink` |

### Terminal

One action per statement of the main loop and of `terminal_read` (`pc` is the next
one), one action per kind of keyboard interrupt. A handler is one step: everything
it shares is touched between its `cli` and its `sti`, and `Interrupts` shows that
these parts of two handlers never interleave (`HandlersExclusive`).

| Variable | Code |
|---|---|
| `typed`, `line_pos`, `enter_pressed`, `shift`, `caps_lock`, `ctrl`, `reading` | the variables of the same name |
| `buf`, `rtn_cnt` | the line buffer of `entry()`, the copy counter of `terminal_read` |
| `held` | the modifier keys that are physically down, which the code cannot see |
| `echo` | ghost: what was echoed since the read began |
| `raced` | ghost: 1 when a key changed the line, or ended it, before `terminal_read` had initialised the variable concerned |

A key's scancode is a member of `CharKeys`; the two tables are constants. What
`keyboard_input` does with a character is named once (`ScreenCall`) and its effect
on each variable is a small operator beside it. The release of a table key is
modelled too: the code indexes the 128-entry table with the release bit set, and
the read beyond it yields the other table or zeroes; since the shifted table has
no `l`, no release ever counts as ctrl-L. Releases of a modifier arrive whether
or not a read is running, because the user's fingers do not wait for it.

### Screen, Viewport, ScreenImpl

A cell of memory is `<<row, column>>`; a cell holds a character and its colours.
`saved` extends past the saved video memory (`InSaved`) into rows that hold the
kernel image, so that writing there can be seen. `WORD` stands for 2^32: the
unsigned difference of `screen_y()` and its conversion back to a signed offset in
`putc` are modelled modulo it. `csr` is the upper three bits of CRTC register 0x0A,
to which the code adds and from which it subtracts 0x20.

`Viewport` says nothing of two memories, colours per cell or hardware registers.
`ScreenImpl` maps its page to the characters of `saved`, its display to `video`, and its
caret to the CRTC registers (hidden when the hide bit is set).

### Console

The main thread's `printf`, `puts` and `putc` print one character per step, and a
key may come between any two. Keys act on the terminal and on the screen in the
same step, as the handler does. `ConsoleAssumption` records what the kernel's
strings give: prompt, label and line fit in a row with room to spare. It repeats the
assumptions of the two components, which their instances need.

### Rtc

Every statement that touches shared state or a port is a step. The chip is
external and modelled from how the code uses it: an index register, a control
register A (time base and rate), B (interrupt enables) and C (flags, cleared by
reading, not writable). A tick, an update or an alarm may raise its flag at any
time; `Irq` enables the handler.

### FileSys

The image is a constant, blocks and inodes laid out as in the code; `Content` is what
was stored when the image was built, and the only thing a property compares with.
`ImageAssumption` says that the image was built for it: names are not empty and fit their
field, inode numbers are in range, an inode has the length and the block of every byte.
`InodeWords` and `BlockSize` stand for the 1024 words of an inode block and the 4096 bytes of
a data block, so that the 0x400000 bytes `load` asks for are their product. `WORD` is 2^32:
positions are unsigned words.

Every operation may be called at any time with any index, name, size and buffer; there is
no notion of a caller, since the code has none. `read_data` is a function that gives its
result and what it writes to the buffer, in three cases: -1 for an inode out of bounds or a
NULL buffer, a buffer full of zeros at the end of the file, and the copy. `fread` adds the
result to the position, the -1 too. Three variables record what callers see: `stream`, per
directory entry, where reading started and what all freads have delivered from there;
`listed`, what `dir_read` wrote; and `call`, the last `fopen`, `fread` or `load` with its
outcome. A data block that is read as an inode (the bound of filesys.c:135 is off by one)
gives its first bytes as the words.

### Interrupts

`entry()` is one step per statement that matters for interrupts (`pc`), `i8259_init` one
step per port write, the handlers one step per statement. The controllers, the
device lines and the processor's acceptance of an interrupt are external. The
early returns of `entry()` (bad magic number, contradictory multiboot flags) lead
to the halt in `boot.S`, with interrupts still off. The IRQ gates leave the bit
`reserved3` uninitialised, which makes each an interrupt gate or a trap gate: the
model chooses. It takes the other uninitialised bit, `reserved0`, as 0; with a 1 the
gate would be invalid and the kernel would not take any interrupt. `timer_chip` is
not an action, because its line stays masked (`InterruptsReady`).

`paging_init` is one step of the boot. `Paging` gives the directory it builds as a
function from entries to what the processor takes from them: is the entry present, and to
which frames does it lead.

### Format, Panic

`Format` has the conversions as operators on sequences of characters. `Panic` lets any
operation of `Screen` happen first and an exception at any moment between two; then
`BSOD` runs one `putc` per step, with `printf`'s result behind it. The texts and their
places are constants, `LayoutAssumption` says what the real ones satisfy. An address
is any word. `said` is a ghost: the message that was printed.

### Blink, Blinkers, Fish

A pointer is the number of a slot. A slot's `location` is also the allocator's mark,
as in the code. `Nodes` follows `next` from the head, as every walk of `blink.S` does. The tasklet walks the list once; since it pokes as it goes, the last
item with a given location decides what is seen (`Poked`). `Blinkers` has neither
slots nor pointers nor words: a sequence of items, each with a phase and a number of
ticks left. In `Fish` the reads of `add_frames` go column by column; `main`'s calls come
in any order and with any argument of the constants, of which its fixed script is
one behaviour. `ece391_read` gives a byte or the end of the file: that it never fails on an
open file is an assumption, which `add_frames` makes too (a -1 would leave the old character
in `c0` or `c1` and count as read, fish.c:104). The mapping takes an item's remaining ticks as 1 when its countdown
is about to expire, whatever the word holds.

### Grep

One step per pass of the inner loop. The buffer is a function that keeps what earlier
reads left in it; what it holds at first is the constant byte `garbage`, a newline or
not, since line_end = last makes the code look at a byte nobody wrote. Every call of
the kernel may fail. `Expected` is the reference: the lines of a text, defined without a
buffer, that contain the pattern. It goes over all places where a line can end (`Hits`) and
over all entries of the directory, and joins what they contribute.

## 3. Runs

| Run | Result | Question |
|---|---|---|
| `terminal` | holds | buffer safety, exclusion on the screen, what a read returns, and that it returns |
| `terminal_lost_enter` | violated | is `reading` set for as long as a read waits for Enter? |
| `screen` | holds | do the two memories, the window, the hardware cursor and the colours stay in step, and is the screen a `Viewport`? |
| `screen_overrun` | violated | does the screen stay in its memory? |
| `console` | holds | do handler and main thread share the screen correctly? |
| `rtc` | holds | does the handler disturb the driver, and do calls return? |
| `rtc_lost_write` | violated | does a successful `rtc_write` mean that the rate was set? |
| `filesys` | holds | are files, listings and loads delivered whole and in order? |
| `interrupts` | holds | is everything ready when interrupts come, do handlers nest safely, is every interrupt ended, does every key get read, is everything the kernel touches mapped? |
| `fish` | holds | does the list of slots behave as a list, are the frames all in it, does nothing leak? |
| `panic` | holds | is the exception screen complete from any state, and does it show the right number? |
| `grep` | holds | is every matching line printed once and whole, and every file read to its end? |

What the violations show:

* **Lost Enter.** `terminal_read` sets `reading` (terminal.c:53) before it resets
  `line_pos` (:54) and `enter_pressed` (:56). An Enter between them clears `reading`,
  its `enter_pressed = 1` is overwritten, and the read waits with every key dropped.
  The `terminal` run and the theorem `HangNeedsRace` show that this is the only way
  for a read to hang.
* **Overrun.** Saved video memory has 19660 rows and 64 cells before 0x400000;
  `putc` and `clear` go on into the kernel image. The run has a saved memory of two
  rows and one cell, which moves the end nearer and changes nothing else.
* **Lost rate.** `rt_clock` between the two port writes of `rtc_write` (rtc.c:73, :74)
  leaves register C selected; the byte is lost and the call still returns 0 at the next
  update interrupt. `NoCrossWrite` shows that the byte at least never reaches a wrong
  writable register.

Other disagreements between the code and its comments, and oddities, seen while
reading and not given a run: `keyboard_input` drops the release of shift while no read
runs (terminal.c:208), so shift can stay set, where :12 says 'Active high' (ctrl cannot,
`CtrlIsHeld`); `fopen` takes the first entry its argument is a prefix of (filesys.c:24),
where :14 says 'find directory entry for file(fname)' (`OpensUnlessHidden` states what does
hold: in the run, opening `a` opens `ab`); an `fread` that fails because its buffer is NULL
moves the position back by one byte, at the start of a file to 2^32 - 1, where :40 and :41
say '-1 for failure' and 'SIDE EFFECTS: none' (`StreamIntact` has the step back in it);
`load` of an empty file blanks 4 MB of memory (:147, :260); keys between terminal.c:53 and :54 are echoed and then discarded; the
line limit is 10 where the comment at :313 says 1024; an interrupt whose flags
include the alarm is ignored by `rtc_intr`, which compares whole bytes (rtc.c:20);
`rtc_close` can lose its writes in the same way as `rtc_write`; the inode bound of
`read_data` admits `num_inodes` itself (filesys.c:135); `dir_read` returns 0 for
success and for the end (filesys.c:211); the cursor that `BSOD` hides is enabled again
by the `printf` that follows; `master_mask` and `slave_mask` are not updated by
`enable_irq`; `palloc`, which paging.c:72 says 'Allocates 4mb of physical memory', never allocates: it
tests `pdbr[i] && 1` (:98) where the present bit is meant, and `paging_init` leaves a 2 in
every entry that is not present; its branch for 4 KB pages would give all of them the same
frame and writes the table through an address that is not mapped; a format that ends in a lone `%` makes `printf` run past its
end; RTC_SYNC always shows the off character, because `cmovl` follows a `testb`, which
never gives "less" (blink.S:282); `main` of fish passes its loop counter, 200, to
RTC_REMOVE after setting the structure's location to 60 (fish.c:67); `grep` takes an
unfinished line for a finished one if the byte behind the first buffer happens to be a
newline (ece391grep.c:33), prints a line up to its first zero byte only, and loses the
rest of an unfinished one behind a zero byte when it moves it; `boot.S:54` says that `entry()` never
returns. A key pressed before ICW1 (i8259.c:25) leaves the keyboard's line high with its
latch cleared: on a real 8259A no key is seen until something reads the byte.

### Bounds, and why they are enough

* `terminal`: a line of two characters, an array of four. Two is the least at which
  remains of a longer line lie behind a shorter one, with the limit reached and
  passed. Two letters (shifted and not), backspace, Enter, a dead key, one ctrl, one
  shift. The reads go on without bound. Larger values are covered by the proofs.
* `screen`: 2 x 3 cells over memory for cursor rows 0 to 3 (`MaxRow`), scrolling by one
  and by two rows (the code's one row and one page), three colours, so that both
  wrap around separately. The history is twice the height of the screen, so the
  cursor can leave the window by scrolling and come back by typing and by
  backspace across the window's top. `WORD` is 64: large compared with any row.
* `console`: a line of one character, a prompt and label of one, rows of four, cursor
  rows 0 to 3: one whole turn of the main loop and the beginning of the next. At the
  last row the operations that need another row are disabled. One colour, since
  colour changes have no effect on what is compared here.
* `rtc`: the rates 2 and 8 Hz, arguments below, at and above the table's range, one alarm.
  `cntr` is bounded by `rtc_freq`, so faster rates only lengthen the wait.
* `filesys`: blocks of three bytes; a file of five bytes in two blocks out of order, one
  ending exactly at a block, an empty one, one name a prefix of another; reads of less
  and more than a block; buffers NULL and not. A word has seven values, so that failed
  reads take the position back over 0 and down into the file again. The name field has two
  bytes: a name that fills it, and one that is padded.
* `interrupts`: four directory entries of eight pages, with the special pages apart
  from each other. Up to three frames on the stack, which is one more than can be there
  before their first end-of-interrupt. The whole boot from the firmware's state,
  with every device raising its line at any time.
* `fish`: six cells in rows of two, five slots, all files of up to three and two
  characters: lines that end in either file first, empty lines, a missing last
  newline, characters beyond the screen, a full array. Two calls after the frames
  (`MaxCalls`), with any number of ticks between them; lengths 1 and 2.
* `panic`: a window of 3 x 4 cells, words of six bits, so that numbers have one or two
  digits in both bases and both signs, and every address is tried; six operations
  (`MaxOps`), enough to leave the window and to scroll back.
* `grep`: a buffer of three bytes and files of up to six, so that a file takes three
  reads and a line can end before, at and behind the buffer's end; patterns of one and
  two characters; zero bytes; files that cannot be opened.

Deadlock is checked in all runs but those of `Rtc` and `Fish`: `rtc_read` after `rtc_close`
really waits forever, since no interrupt can come, and the fish program ends when it
cannot open its files.

### Fairness

`Terminal`: weak fairness of the main thread (only interrupt handlers preempt it and
they end); strong fairness of an accepted Enter and weak fairness of releasing ctrl
are assumptions on the user, who is the environment: a read that nobody ends
does not return. `ReadReturns` is stated for a wait that accepts keys; the other one
is the hang above. `Rtc`: weak fairness of the driver's steps, of taking a pending
interrupt, and of the running chip's ticks and updates. Nothing is assumed of alarms.
`Interrupts`: weak fairness of the instruction stream and of taking an offered
interrupt. Nothing is assumed of the devices. `Panic`: weak fairness of the handler's
own steps, which nothing can disturb since interrupts are off. There is no such property for the
clock, since the keyboard's priority allows keys to hold it off.

## 4. Proofs

The theorems hold for every value of the constants that the named assumptions admit;
the runs evaluate these assumptions. Each proof module has the same shape: an invariant
`IInv`, checked by TLC on the run's instance before it was proved, the lemmas that it holds
initially and that every action preserves it, `Inductive` (`Spec => []IInv`), and the
properties as consequences.

| Theorem | States | Module, and what is arbitrary |
|---|---|---|
| `TypeCorrect` | `TypeOK` | `Terminal`: buffer size, line limit, read count, the two tables, the modifier keys |
| `CopyAlwaysStops` | `CopyStops` | |
| `ScreenIsExclusive` | `ScreenExclusion` | |
| `CtrlNeverStuck` | `CtrlIsHeld` | |
| `ReadIsEcho` | `ReadReturnsEcho` | |
| `HangNeedsRace` | `OnlyRaceHangs` | |
| `LineIsStable` | `LineStableWhileCopied` (action property) | |
| `ScreenMirrorsMemory` | `Mirror` | `Screen`: the sizes of screen and memory, colours, scroll offsets, `MaxRow` |
| `CursorAgrees` | `HardwareCursor` | |
| `NothingAhead` | `BlankAhead` | |
| `WrittenTextKept` | `TextKept` (action property) | under `HistoryFits` |
| `ScreenIsViewport` | `ImplementsViewport` (refinement) | under `HistoryFits` |
| `OutputNeverBroken` | `OutputUnbroken` | `Console`: all of the above, prompt and label |
| `LineStaysOnScreen` | `LineOnScreen` | |
| `EraseInRow` | `EraseStaysInRow` | |
| `RunsTerminal`, `RunsScreen` | `Spec => T!Spec`, `Spec => S!Spec` | |
| `NeverCrossWrites` | `NoCrossWrite` | `Rtc`: arguments of `rtc_write`, number of alarms |
| `RateIsRecorded` | `RateWritten` | |
| `ReadNeedsTick` | `ReadSawTick` (action property) | |
| `WriteNeedsAck` | `WriteAcked` (action property) | |
| `ReadyForInterrupts` | `InterruptsReady` | `Interrupts`, `Paging`: depth of the stack, size and layout of the page tables |
| `ExclusiveHandlers` | `HandlersExclusive` | |
| `EveryInterruptEnded` | `InServiceMatches` | |
| `NoEdgeLost` | `DeviceHeard` | |
| `KernelStaysMapped` | `KernelMapped` | |
| `FilesReadInOrder` | `StreamIntact` | `FileSys`: sizes of blocks, inodes and words, image, names, buffers and sizes asked for |
| `ShortOnlyAtEnd` | `ShortMeansEnd` | |
| `OpenFindsFiles` | `OpensUnlessHidden` | |
| `DirectoryListed` | `ListedInOrder` | |
| `FilesLoadedWhole` | `LoadWhole` | |
| `FilesReadWhole` | `WholeFileRead` | `Grep`: buffer size, patterns, directories |
| `GrepPrintsMatches` | `GrepFinds` | |
| `PoolStaysSound` | `PoolSound` | `Fish`, `Blink`: number of slots, size of the screen, the two files, `main`'s calls |
| `FramesAreListed` | `FramesListed` | |
| `ListImplementsBlinkers` | `ImplementsBlinkers` (refinement) | |
| `ItoaIsNumeral` | every number, radix 2 to 16 | `Format` |
| `NumbersAreRead` | `NumbersRead` | `Format`, `Panic`: width of a word, page_fault's text |
| `PanicPictureComplete` | `PictureComplete`: the safety half of `PanicVisible` | `Panic`: all of `Screen`, banner, messages and their places |

The assumptions are what the code's own numbers, tables and strings satisfy. Some need a
word. `FormatAssumption` and `LayoutAssumption` describe the texts of `lib.c` and
`idthandlers.c`: page_fault's text ends in its only conversion, no other message has one,
every line of the banner is below the one before, and every text ends before the last
column of its row. `FishAssumption` says that the two files fit into the array (361
characters, 2000 slots) and that their rows are few enough for a location to be a 16-bit
word: in a text of more than 800 lines it could come back to 0, the allocator's mark. `ImageAssumption` is about a file, not about the code: `filesys.c` trusts the
image it is given, so its properties are those of a well-formed one. `HistoryFits`
(`MaxRow + NUM_ROWS < SavedRows`) is a hypothesis of two theorems, not an assumption: the
code does not ensure it, and the run `screen_overrun` shows what happens without it.
`Mirror`, `HardwareCursor` and `BlankAhead` hold beyond the end of saved memory too.

### Why the invariants are strengthened, and how

None of the properties is inductive alone. What the proofs add:

* **Terminal.** `Gate`: `reading` is 0 before a read, while it copies, and while the main
  thread prints; everything about exclusion follows from it. `CtrlInv`: ctrl is 0 whenever
  `reading` is, so a dropped release cannot leave it set. `LineInv`, `EnterInv`: from the
  reset of `line_pos` on, the slots below it are printable characters, and when the wait
  ends the slot at `line_pos` holds the newline, so the copy stops exactly there, whatever
  lies behind. `EchoInv`, `CopyInv`: the echo is the line, the buffer is a prefix of it.
  `HangInv`: a gate that closes before the read is ready means interference. The proof for
  table keys splits on the five things `keyboard_input` can do (`CallCases`).
* **Screen.** The three invariants need each other and the types: a write reaches
  displayed memory only if the row difference does not wrap (`HardwareCursor`), and the
  window can only be right after a scroll if it was right before (`Mirror`). `FollowEffect`
  carries the one case where the difference does wrap, the backspace over the top of the
  window, through `Signed`. For the refinement `Uniform` is added: all of saved memory has
  the current colour, which is what makes recolouring a step of `Viewport`.
* **Console.** The composition has an invariant of its own, because the components'
  actions happen together. `Printing`: what is still to print is the end of the current
  line, and the row holds the rest. `CursorInRow`: the cursor's column is at least
  `line_pos` and at most the prompt, the keys typed before `line_pos` was reset, and the
  line together. That the sum is less than a row (`Len(Prompt) + 2 * LineLimit <
  NUM_COLS`) is the reason why no echo wraps. `LineShown`: the cells left of the cursor are
  the line; this holds also when a key raced with the initialisation. `RunsTerminal` and
  `RunsScreen` are step simulations: hiding the other component, the console does nothing
  a component does not do by itself, so all the theorems above hold in it.
* **Rtc.** `FreqInv`: from its range check on `rtc_write` works on an entry of the table,
  and if register A is still selected behind the write it holds the byte for it. `ArmInv`: only
  an interrupt with the right flag disarms a waiting call. `CountInv` bounds the loop.
* **Interrupts.** `ChipInv` follows the initialisation words of `i8259_init` through both
  controllers; `GateInv` and `Quiet` say what is done before `sti`. `ServiceInv` is the core:
  a level is in service exactly if some frame of the stack has still to end it, and never
  two frames for one level. With it a controller offers nothing to a handler that has not
  finished, whatever nests. `HeardInv` is `DeviceHeard` from power-on, with keys lost to
  ICW1 set apart.
* **FileSys.** `Streams`: an entry has delivered exactly the bytes between the start of its
  stream and the position, and the position is past the end of the file only where nothing
  has been delivered, after failures have wrapped it. So the addition modulo the word only
  ever wraps in a failed read. `ReadData` gives the three cases of `read_data`. `ByteFound` is the arithmetic of blocks: byte `k` is at `k % BlockSize`
  of the block whose number is at `k \div BlockSize + 1` of the inode.
* **Grep.** `RoomToRead`: a read always finds room in the buffer, since only a line that
  does not start it is moved to the front. Hence (`EndMeansEnd`) a read of no bytes means
  the end of the file and not a full buffer. For what is printed `FInv` adds a position
  in the text: everything before it has been searched (`Reached`: the output is what the
  places up to there contribute), and behind it the text is the used part of the buffer
  followed by what the file still has (`Buffered`). `ByteBehind` says what the code finds
  in the byte behind the used part, which nobody wrote in this round: never a newline
  where it would cut a line. A line of the buffer is then a line of the text, with the
  same matches (`MatchIs`), and a place that ends no line contributes nothing.
* **Fish.** `Links` describes the list without a walk: a sequence of different slots, each
  one's `next` is the following one, and the slots in it are those with a location. Adding at
  the head, unlinking and ticking keep it; that `Nodes` is this sequence follows from the
  least index at which they would differ. `ReadTo` places each of the two files in a row and
  column of its frame, together with the character and the end mark that `add_frames` holds.
  `ListedUpTo`: the list has exactly the inked places before the current one. The refinement
  maps each linked slot to an item and needs `Links` for the order and for the fact that a
  tick or a call touches an item only once.
* **Numbers.** `Recursion` shows that a function defined by recursion over a descending
  argument exists and satisfies its equation, once for `LowFirst`, `Value`, `printf` and
  `RowOf`. `ItoaIsNumeral` and the digits of a word (`HexDigits`) then follow from the least
  number for which they would fail.
* **Panic.** `PanicInv`: before an exception the screen's `IInv`, of which the window's place
  is needed; from then on every cell is what the lines already put and the first `k`
  characters of the current one make of it (`BannerAt`, `MessageAt`), with the cursor right
  behind them. Since every text ends before the last column no `putc` wraps or scrolls
  (`PutEffect`), and since the rows differ no line overwrites another (`RowsApart`).

Searches written with CHOOSE (the first match of `fopen`, the end of a line in `grep`) are
shown to succeed with the least-element principle (`Least`, `LeastOf`), which follows
from the well-foundedness of the natural numbers. The same principle, applied to the set of
counterexamples, takes the place of induction wherever a recursive function or a joined
sequence is involved.

### Only model-checked

* Liveness: `ReadReturns`, `WriteReturns`, `KeyServed`, and of `PanicVisible` the part that
  the screen is ever complete. It needs fairness and ENABLED, which the prover does not
  handle.
* The three violations, which are counterexamples.

## 5. Not modelled

* `terminal_write`: nothing calls it; its copy onto the stack has no bound.
* `palloc`: nothing calls it, and on the tables of `paging_init` it only returns -1.
* `read_dentry_by_name`: nothing calls it, and it uses name bytes as a pointer.
* `systemcall` and `timer_chip`: they print a line and return with the wrong instruction;
  the first has no caller, the second's line stays masked.
* `memcpy`, `memmove`, `memset`, `strcpy`, `strncpy`, `strncmp` of `lib.c`: string instructions or
  textbook loops, used in the models as the operations they implement. The self-tests
  of `lib.c` (`test_interrupts`) only increment video memory.
* RTC_FIND of `blink.S`: it copies an item to its caller.
* `cat`, `ls`, `shell`, `hello`, `pingpong`, `testprint`: one read and one write in a loop. `sigtest` needs
  signals, `emulate` replaces the kernel by Linux.
* Descriptor tables and start-up assembly: data. The tools that build the image
  (`elfconvert`, `createfs`) are outside the program.

## 6. Plan

All components with behaviour of their own have a model, every invariant and every safety
action property of the runs has a theorem, and so have the two refinements. What could be
added:

1. `Grep` over the operations of `FileSys` instead of over an assumed `read`, and
   `cat` and `ls` in the same way, once the kernel provides system calls.
2. A scheduler or a second terminal would make `Console` the place to start: its theorems
   `RunsTerminal` and `RunsScreen` show what a new main thread has to respect.
3. `terminal_write`, once something calls it and bounds its copy.
