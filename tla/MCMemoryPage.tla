---------------------------- MODULE MCMemoryPage ----------------------------
(* Rows of 4 bytes, pages of 8, headers of 2: a chunk of 7 bytes at 2 spans  *)
(* three rows and two pages, the headers of 4 and 8 end a row, and no header *)
(* is cut in two by the start of its chunk's row, as with rows of 0x80 bytes *)
(* and headers of 8.                                                         *)
EXTENDS MemoryPage
=============================================================================
