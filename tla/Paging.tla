------------------------------- MODULE Paging -------------------------------
(***************************************************************************)
(* The page tables of student-distrib/paging.c.  Addresses and frames are  *)
(* counted in pages of 4 KB.  A directory entry is what the processor      *)
(* takes from its word: whether it is present, and the frames it leads to; *)
(* a page without a present table entry leads to Fault.                    *)
(*                                                                         *)
(* palloc, which nothing calls, is not modelled.                           *)
(***************************************************************************)
EXTENDS Integers

CONSTANTS
    Dirs, Pages,            \* 1024, 1024
    DirPage, TablePage,     \* 1, 2: where the directory and the table are
    VideoPage, SavedPage    \* 0xB8; 0x100, the first of saved video memory

ASSUME PagingAssumption ==
    /\ {Dirs, Pages, DirPage, TablePage, VideoPage, SavedPage} \subseteq Nat
    /\ Dirs > 1
    /\ 0 < DirPage /\ DirPage < TablePage /\ TablePage < VideoPage
    /\ VideoPage < SavedPage /\ SavedPage < Pages

Fault == -1

InDir == 0 .. Pages - 1

\* Mutant: the loop over saved video memory starts one page late.
FirstTable_OffByOne ==
    [p \in InDir |-> IF p \in {DirPage, TablePage, VideoPage} \/ p > SavedPage
                     THEN p ELSE Fault]

\* table_entry[] after paging_init
FirstTable ==
    [p \in InDir |-> IF p \in {DirPage, TablePage, VideoPage} \/ p >= SavedPage
                     THEN p ELSE Fault]

\* page_directory[] after paging_init: the table, the kernel's 4 MB page, and
\* entries that are not present
Directory ==
    [d \in 0 .. Dirs - 1 |->
        [present |-> d \in {0, 1},
         maps    |-> IF d = 0 THEN FirstTable ELSE [p \in InDir |-> d * Pages + p]]]

\* What the processor makes of a page.
Translate(dir, a) ==
    LET e == dir[a \div Pages] IN IF e.present THEN e.maps[a % Pages] ELSE Fault

-----------------------------------------------------------------------------
(* What the kernel needs *)

\* The pages the kernel touches with paging on: its tables, displayed and saved
\* video memory, and its own image and stack.
KernelPages == {DirPage, TablePage, VideoPage} \cup (SavedPage .. 2 * Pages - 1)

\* They are where they were before paging was on, and NULL faults.
Mapped(dir) ==
    /\ \A a \in KernelPages : Translate(dir, a) = a
    /\ Translate(dir, 0) = Fault
=============================================================================
