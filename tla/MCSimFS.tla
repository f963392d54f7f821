------------------------------ MODULE MCSimFS ------------------------------
(***************************************************************************)
(* SimFS with a text that is the number of an inode, for TLC.  "!" is the  *)
(* number 33, here the last inode of a small table; a letter is a number   *)
(* past the table.                                                         *)
(***************************************************************************)
EXTENDS SimFS

FsLinks == [t \in Texts |-> IF t = "!" THEN InodeSlots - 1 ELSE TextLink]
=============================================================================
