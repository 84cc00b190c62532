------------------------------- MODULE Hde32 -------------------------------
(* The 32-bit disassembler: the table of table32.h, and where its parts are. *)
EXTENDS Naturals

Table32 == <<
    163, 168, 163, 168, 163, 168, 163, 168, 163, 168, 163, 168, 163, 168, 163, 168, 170, 170,
    170, 170, 170, 170, 170, 170, 172, 170, 178, 170, 159, 159, 159, 159, 181, 163, 163, 164,
    170, 170, 186, 170, 150, 170, 168, 170, 195, 195, 150, 150, 183, 174, 214, 189, 163, 197,
    163, 163, 159, 195, 156, 170, 170, 172, 170, 191, 3, 127, 17, 127, 1, 127, 1, 63, 1, 1, 144,
    130, 125, 151, 89, 89, 89, 89, 89, 127, 89, 89, 96, 125, 127, 127, 89, 89, 89, 89, 89, 89,
    89, 89, 89, 89, 89, 89, 154, 136, 125, 89, 80, 80, 80, 80, 89, 89, 89, 89, 97, 148, 97, 158,
    89, 89, 133, 89, 146, 163, 96, 96, 89, 89, 89, 89, 89, 89, 89, 89, 89, 89, 89, 159, 1, 3, 1,
    4, 3, 213, 3, 204, 1, 188, 3, 240, 16, 16, 16, 16, 80, 80, 80, 80, 20, 32, 32, 32, 32, 1, 1,
    1, 1, 196, 2, 16, 0, 0, 0, 0, 1, 1, 192, 194, 16, 17, 2, 3, 17, 3, 3, 4, 0, 0, 20, 0, 2, 0,
    0, 198, 200, 2, 2, 2, 2, 0, 0, 255, 255, 255, 255, 0, 0, 0, 255, 202, 1, 1, 1, 0, 6, 0, 4,
    0, 192, 194, 1, 1, 3, 1, 255, 255, 1, 0, 3, 196, 196, 198, 3, 1, 1, 1, 255, 3, 3, 3, 200,
    64, 0, 10, 0, 4, 0, 0, 0, 0, 127, 0, 51, 1, 0, 0, 0, 0, 0, 0, 255, 191, 255, 255, 0, 0, 0,
    0, 7, 0, 0, 255, 0, 0, 0, 0, 0, 0, 0, 0, 0, 0, 0, 0, 0, 0, 255, 255, 0, 0, 0, 191, 0, 0, 0,
    0, 0, 0, 0, 0, 127, 0, 0, 255, 74, 74, 74, 74, 75, 82, 74, 74, 74, 74, 79, 76, 74, 74, 74,
    74, 74, 74, 74, 74, 85, 69, 64, 74, 74, 74, 69, 89, 77, 70, 74, 93, 74, 74, 74, 74, 74, 74,
    74, 74, 74, 74, 74, 74, 74, 74, 97, 99, 103, 78, 74, 74, 107, 109, 74, 74, 69, 109, 74, 74,
    68, 69, 74, 74, 0, 0, 0, 2, 13, 6, 6, 6, 6, 14, 0, 0, 0, 0, 6, 6, 6, 0, 6, 6, 2, 6, 0, 10,
    10, 7, 7, 6, 2, 5, 5, 2, 2, 0, 0, 4, 4, 4, 4, 0, 0, 0, 14, 5, 6, 6, 6, 1, 6, 0, 0, 8, 0, 16,
    0, 24, 0, 32, 0, 40, 0, 48, 0, 128, 1, 130, 1, 134, 0, 246, 207, 254, 63, 171, 0, 176, 0,
    177, 0, 179, 0, 186, 248, 187, 0, 192, 0, 193, 0, 199, 191, 98, 255, 0, 141, 255, 0, 196,
    255, 0, 197, 255, 0, 255, 255, 235, 1, 255, 14, 18, 8, 0, 19, 9, 0, 22, 8, 0, 23, 9, 0, 43,
    9, 0, 174, 255, 7, 178, 255, 0, 180, 255, 0, 181, 255, 0, 195, 1, 0, 199, 255, 191, 231, 8,
    0, 240, 2, 0 >>

Delta32 == [opcodes |-> 74, fpuReg |-> 241, fpuModrm |-> 248,
            prefixes |-> 304, opLockOk |-> 417, op2LockOk |-> 441,
            opOnlyMem |-> 459, op2OnlyMem |-> 474]

INSTANCE Hde WITH Table <- Table32, Delta <- Delta32, Long <- FALSE

hde32_disasm(code) == Decode(code)
=============================================================================
