------------------------------- MODULE Hde64 -------------------------------
(* The 64-bit disassembler: the table of table64.h, and where its parts are. *)
EXTENDS Naturals

Table64 == <<
    165, 170, 165, 184, 165, 170, 165, 170, 165, 184, 165, 184, 165, 184, 165, 184, 192, 192,
    192, 192, 192, 192, 192, 192, 172, 192, 204, 192, 161, 161, 161, 161, 177, 165, 165, 166,
    192, 192, 215, 218, 224, 192, 228, 192, 234, 234, 224, 224, 152, 200, 238, 241, 165, 211,
    165, 165, 161, 234, 158, 192, 192, 194, 192, 230, 3, 127, 17, 127, 1, 127, 1, 63, 1, 1, 171,
    139, 144, 100, 91, 91, 91, 91, 91, 146, 91, 91, 118, 144, 146, 146, 91, 91, 91, 91, 91, 91,
    91, 91, 91, 91, 91, 91, 106, 115, 144, 91, 82, 82, 82, 82, 91, 91, 91, 91, 119, 124, 119,
    133, 91, 91, 112, 91, 122, 175, 118, 118, 91, 91, 91, 91, 91, 91, 91, 91, 91, 91, 91, 134,
    1, 3, 1, 4, 3, 213, 3, 213, 3, 204, 1, 188, 3, 240, 3, 3, 4, 0, 80, 80, 80, 80, 255, 32, 32,
    32, 32, 1, 1, 1, 1, 196, 2, 16, 255, 255, 255, 1, 0, 3, 17, 255, 3, 196, 198, 200, 2, 16, 0,
    255, 204, 1, 1, 1, 0, 0, 0, 0, 1, 1, 3, 1, 255, 255, 192, 194, 16, 17, 2, 3, 1, 1, 1, 255,
    255, 255, 0, 0, 0, 255, 0, 0, 255, 255, 255, 255, 16, 16, 16, 16, 2, 16, 0, 0, 198, 200, 2,
    2, 2, 2, 6, 0, 4, 0, 2, 255, 0, 192, 194, 1, 1, 3, 3, 3, 202, 64, 0, 10, 0, 4, 0, 0, 0, 0,
    127, 0, 51, 1, 0, 0, 0, 0, 0, 0, 255, 191, 255, 255, 0, 0, 0, 0, 7, 0, 0, 255, 0, 0, 0, 0,
    0, 0, 0, 0, 0, 0, 0, 0, 0, 0, 255, 255, 0, 0, 0, 191, 0, 0, 0, 0, 0, 0, 0, 0, 127, 0, 0,
    255, 64, 64, 64, 64, 65, 73, 64, 64, 64, 64, 76, 66, 64, 64, 64, 64, 64, 64, 64, 64, 79, 68,
    83, 64, 64, 64, 68, 87, 67, 92, 64, 96, 64, 64, 64, 64, 64, 64, 64, 64, 64, 64, 64, 64, 64,
    64, 100, 102, 110, 107, 64, 64, 106, 70, 64, 64, 68, 70, 64, 64, 91, 68, 64, 64, 0, 0, 0, 0,
    6, 6, 6, 6, 1, 6, 6, 2, 6, 6, 0, 6, 0, 10, 10, 0, 0, 0, 2, 7, 7, 6, 2, 13, 6, 6, 6, 14, 5,
    5, 2, 2, 0, 0, 4, 4, 4, 4, 5, 6, 6, 6, 0, 0, 0, 14, 0, 0, 8, 0, 16, 0, 24, 0, 32, 0, 40, 0,
    48, 0, 128, 1, 130, 1, 134, 0, 246, 207, 254, 63, 171, 0, 176, 0, 177, 0, 179, 0, 186, 248,
    187, 0, 192, 0, 193, 0, 199, 191, 98, 255, 0, 141, 255, 0, 196, 255, 0, 197, 255, 0, 255,
    255, 235, 1, 255, 14, 18, 8, 0, 19, 9, 0, 22, 8, 0, 23, 9, 0, 43, 9, 0, 174, 255, 7, 178,
    255, 0, 180, 255, 0, 181, 255, 0, 195, 1, 0, 199, 255, 191, 231, 8, 0, 240, 2, 0 >>

Delta64 == [opcodes |-> 74, fpuReg |-> 253, fpuModrm |-> 260,
            prefixes |-> 316, opLockOk |-> 430, op2LockOk |-> 454,
            opOnlyMem |-> 472, op2OnlyMem |-> 487]

INSTANCE Hde WITH Table <- Table64, Delta <- Delta64, Long <- TRUE

hde64_disasm(code) == Decode(code)
=============================================================================
