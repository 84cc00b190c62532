---------------------------- MODULE MCWireReader ----------------------------
(* TLC instances of WireReader: the records the hooks report.              *)
EXTENDS WireReader

Alloc(lo, hi, trace) ==
  [op |-> ALLOCATE, size |-> 2, addr |-> <<lo, hi>>, trace |-> trace]
Freed(lo, hi, trace) ==
  [op |-> FREE, size |-> 0, addr |-> <<lo, hi>>, trace |-> trace]

\* A 32 bit target: an allocation, a free, an allocation that failed and a free
\* whose trace is empty.
Win32Records == {Alloc(1, 0, <<2, 1>>), Freed(1, 0, <<3>>),
                 Alloc(0, 0, <<1>>), Freed(2, 0, <<>>)}

\* A 64 bit target: the second address lies above 4 GB.
X64Records == {Alloc(1, 0, <<>>), Alloc(1, 1, <<>>)}
=============================================================================
