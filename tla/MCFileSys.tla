----------------------------- MODULE MCFileSys -----------------------------
(* Three entries: the directory, which is empty, a file whose blocks are out  *)
(* of order and end inside a block, and a file whose name is a prefix of the  *)
(* one before it, ending exactly at a block boundary.                         *)
EXTENDS FileSys

Entry(name, inode) == [fname |-> name, inode_num |-> inode]

Dot == 46
A   == 97
B   == 98

MCDir == << Entry(<<Dot>>, 0), Entry(<<A, B>>, 2), Entry(<<A>>, 1) >>

Block(a, b, c) == [i \in 0 .. 2 |-> CASE i = 0 -> a [] i = 1 -> b [] OTHER -> c]

MCimage ==
    [n \in 0 .. 6 |->
        CASE n = 0 -> Block(0, 0, 0)     \* inode 0: the directory
          [] n = 1 -> Block(3, 1, 0)     \* inode 1: 3 bytes in block 1
          [] n = 2 -> Block(5, 2, 0)     \* inode 2: 5 bytes in blocks 2, 0
          [] n = 3 -> Block(2, 1, 9)     \* data block 0
          [] n = 4 -> Block(4, 5, 6)     \* data block 1
          [] n = 5 -> Block(7, 8, 7)     \* data block 2
          [] OTHER -> Block(0, 0, 0)]

MCContent ==
    ( <<Dot>> :> <<>> ) @@ ( <<A, B>> :> <<7, 8, 7, 2, 1>> ) @@ ( <<A>> :> <<4, 5, 6>> )

MCNames == {<<Dot>>, <<A>>, <<A, B>>, <<B>>}
=============================================================================
