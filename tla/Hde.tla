--------------------------------- MODULE Hde ---------------------------------
(***************************************************************************)
(* The length disassembler MinHook walks a function with (hde64.c; hde32.c *)
(* is the same but for what depends on Long).  A table tells, in two steps *)
(* of a look-up, which fields follow an opcode; the errors it knows end    *)
(* the walk.  Code is a sequence of bytes; the first is code[1].           *)
(***************************************************************************)
EXTENDS Naturals, Sequences

CONSTANTS Table,  \* hde64_table or hde32_table
          Delta,  \* where its parts begin
          Long    \* is it hde64?

\* Bits of an entry of the table: the fields that follow.
ModRM == 1    Imm8 == 2    Imm16 == 4    ImmP66 == 16    Rel8 == 32    Rel32 == 64
Group == 128
Error == 255

\* Bits of a set of prefixes; a set of them stands for the mask.
None == 1    F2 == 2    F3 == 4    P66 == 8    P67 == 16    Lock == 32    Seg == 64

PrefixOf == [b \in {242, 243, 240, 38, 46, 54, 62, 100, 101, 102, 103} |->
              CASE b = 242 -> F2 [] b = 243 -> F3 [] b = 240 -> Lock
                [] b = 102 -> P66 [] b = 103 -> P67 [] OTHER -> Seg]
PrefixBytes == DOMAIN PrefixOf

Has(mask, bit) == (mask \div bit) % 2 = 1
HasAny(mask, bits) == \E b \in bits : Has(mask, b)

\* (mask << n) & 0x80
Shifted(mask, n) == Has(mask, 2 ^ (7 - n))

At(i) == Table[i + 1]
Entry(base, opcode) == At(base + At(base + (opcode \div 4)) + (opcode % 4))
Byte(code, n) == IF n <= Len(code) THEN code[n] ELSE 0

\* At most 16 bytes are looked at; the last is taken for the opcode then.
Prefixed(code) ==
  LET n == CHOOSE n \in 0 .. 16 :
             /\ \A k \in 1 .. n : Byte(code, k) \in PrefixBytes
             /\ n = 16 \/ Byte(code, n + 1) \notin PrefixBytes
      bits == {PrefixOf[Byte(code, k)] : k \in 1 .. n}
  IN [at |-> IF n = 16 THEN 16 ELSE n + 1, pref |-> IF n = 0 THEN {None} ELSE bits]

\* A REX prefix in front of the opcode, but not two.
Rexed(code, s) ==
  LET rex == Long /\ Byte(code, s.at) \in 64 .. 79
      next == Byte(code, s.at + 1)
  IN [at |-> IF rex THEN s.at + 1 ELSE s.at, pref |-> s.pref,
      op64 |-> rex /\ Has(Byte(code, s.at), 8) /\ next \in 184 .. 191,
      error |-> rex /\ next \in 64 .. 79]

\* The opcode, its entry and the groups' mask of the values of reg that are errors.
Opcode(code, s) ==
  LET c == Byte(code, s.at)
      two == c = 15
      opcode == IF two THEN Byte(code, s.at + 1) ELSE c
      moffs == c \in 160 .. 163
      base == IF two THEN Delta.opcodes ELSE 0
      found == IF s.error THEN Error ELSE Entry(base, opcode)
      group == found # Error /\ Has(found, Group)
      \* C_ERROR: only the byte after 0x24 and 0x26 is still looked at
      entry == IF found = Error THEN IF opcode \in {36, 38} THEN ModRM ELSE 0
               ELSE IF group THEN At(base + (found % 128)) ELSE found
      pref == IF ~moffs THEN s.pref
              ELSE IF P67 \in s.pref THEN s.pref \cup {P66} ELSE s.pref \ {P66}
      opcode2 == IF two THEN opcode ELSE 0
  IN [at |-> IF two THEN s.at + 2 ELSE s.at + 1, pref |-> pref,
      op64 |-> s.op64 \/ (Long /\ moffs),
      first |-> c, opcode |-> opcode, opcode2 |-> opcode2, entry |-> entry,
      bad |-> IF group THEN At(base + (found % 128) + 1) ELSE 0,
      error |-> found = Error
                \/ (opcode2 # 0 /\ HasAny(Entry(Delta.prefixes, opcode), pref))]

-----------------------------------------------------------------------------
(* ModR/M                                                                  *)

FpuError(s, mod, reg, rm) ==
  /\ s.opcode2 = 0 /\ s.opcode \in 217 .. 223
  /\ LET n == s.opcode - 217
     IN IF mod = 3 THEN Shifted(At(Delta.fpuModrm + n * 8 + reg), rm)
                   ELSE Shifted(At(Delta.fpuReg + n), reg)

\* The first pair for the opcode says for which values of reg a lock is allowed.
LockError(s, mod, reg) ==
  LET from == IF s.opcode2 # 0 THEN Delta.op2LockOk ELSE Delta.opLockOk
      to == IF s.opcode2 # 0 THEN Delta.opOnlyMem ELSE Delta.op2LockOk
      op == IF s.opcode2 # 0 THEN s.opcode ELSE s.opcode - (s.opcode % 2)
      pairs == {k \in 0 .. ((to - from) \div 2) - 1 : At(from + 2 * k) = op}
  IN /\ Lock \in s.pref
     /\ \/ mod = 3 \/ pairs = {}
        \/ \E k \in pairs : (\A j \in pairs : k <= j) /\ Shifted(At(from + 2 * k + 1), reg)

\* Moves to and from control, debug and segment registers.
MoveError(s, reg) ==
  IF s.opcode2 # 0 THEN \/ s.opcode \in {32, 34} /\ reg \in {1, 5, 6, 7}
                        \/ s.opcode \in {33, 35} /\ reg \in {4, 5}
  ELSE \/ s.opcode = 140 /\ reg > 5
       \/ s.opcode = 142 /\ reg \in {1, 6, 7}
MovesRegister(s) ==
  IF s.opcode2 # 0 THEN s.opcode \in 32 .. 35 ELSE s.opcode \in {140, 142}

\* Instructions without a form for registers, and without one for memory.
OperandError(s, mod, reg) ==
  LET from == IF s.opcode2 # 0 THEN Delta.op2OnlyMem ELSE Delta.opOnlyMem
      to == IF s.opcode2 # 0 THEN Len(Table) ELSE Delta.op2OnlyMem
      rows == {k \in 0 .. ((to - from) \div 3) - 1 : At(from + 3 * k) = s.opcode}
  IN IF MovesRegister(s) THEN MoveError(s, reg)
     ELSE IF mod = 3
     THEN \E k \in rows : (\A j \in rows : k <= j) /\ HasAny(At(from + 3 * k + 1), s.pref)
                          /\ ~Shifted(At(from + 3 * k + 2), reg)
     ELSE s.opcode2 # 0 /\ CASE s.opcode \in {80, 215, 247} -> s.pref \cap {None, P66} # {}
                             [] s.opcode = 214 -> s.pref \cap {F2, F3} # {}
                             [] OTHER -> s.opcode = 197

\* Mutant of AddressSize: a SIB byte without a base has no displacement.
AddressSizeByMod(s, mod, rm, sib) ==
  LET short == P67 \in s.pref
      hasSib == mod # 3 /\ rm = 4 /\ (Long \/ ~short)
  IN (CASE mod = 0 -> IF rm = 5 THEN 4 ELSE 0 [] mod = 1 -> 1 [] mod = 2 -> 4 [] mod = 3 -> 0)
     + (IF hasSib THEN 1 ELSE 0)

\* Displacement and SIB byte.
AddressSize(s, mod, rm, sib) ==
  LET short == P67 \in s.pref
      hasSib == mod # 3 /\ rm = 4 /\ (Long \/ ~short)
      disp == IF hasSib /\ sib % 8 = 5 /\ mod \in {0, 2} THEN 4
              ELSE CASE mod = 0 -> IF short THEN IF rm = 6 THEN 2 ELSE 0
                                   ELSE IF rm = 5 THEN 4 ELSE 0
                     [] mod = 1 -> 1
                     [] mod = 2 -> IF short THEN 2 ELSE 4
                     [] mod = 3 -> 0
  IN disp + (IF hasSib THEN 1 ELSE 0)

WithModRM(code, s) ==
  LET m == Byte(code, s.at)
      reg == (m \div 8) % 8
      rm == m % 8
      mod == IF s.opcode2 # 0 /\ s.opcode \in 32 .. 35 THEN 3 ELSE m \div 64
      \* F6 and F7 have an immediate if they test
      more == IF reg > 1 THEN {} ELSE CASE s.opcode = 246 -> {Imm8}
                                        [] s.opcode = 247 -> {ImmP66}
                                        [] OTHER -> {}
  IN [at |-> s.at + 1 + AddressSize(s, mod, rm, Byte(code, s.at + 1)),
      modrm |-> m,
      fields |-> {b \in {Imm8, Imm16, ImmP66, Rel8, Rel32} : Has(s.entry, b)} \cup more,
      error |-> Shifted(s.bad, reg) \/ FpuError(s, m \div 64, reg, rm)
                \/ LockError(s, m \div 64, reg) \/ OperandError(s, m \div 64, reg)]

WithoutModRM(s) ==
  [at |-> s.at, modrm |-> 0,
   fields |-> {b \in {Imm8, Imm16, ImmP66, Rel8, Rel32} : Has(s.entry, b)},
   error |-> Lock \in s.pref]

-----------------------------------------------------------------------------
(* Immediates                                                              *)

\* The sizes of the immediates that follow, in their order.
Immediates(f, pref, op64) ==
  LET p66 == IF Long /\ op64 THEN 8 ELSE IF P66 \in pref THEN 2 ELSE 4
      word == Imm16 \in f /\ ~(Long /\ ImmP66 \in f /\ p66 = 2)
  IN IF {ImmP66, Rel32} \subseteq f THEN <<IF P66 \in pref THEN 2 ELSE 4>>
     ELSE (IF ImmP66 \in f THEN <<p66>> ELSE <<>>) \o (IF word THEN <<2>> ELSE <<>>)
          \o (IF Imm8 \in f THEN <<1>> ELSE <<>>)
          \o (IF Rel32 \in f THEN <<4>> ELSE IF Rel8 \in f THEN <<1>> ELSE <<>>)

\* What CreateTrampolineFunction reads of the result: flags & F_ERROR, the length,
\* opcode, opcode2 and modrm, and the size of the immediates.
Decode(code) ==
  LET s == Opcode(code, Rexed(code, Prefixed(code)))
      m == IF Has(s.entry, ModRM) THEN WithModRM(code, s) ELSE WithoutModRM(s)
      sizes == Immediates(m.fields, s.pref, s.op64)
      sum[n \in 0 .. Len(sizes)] == IF n = 0 THEN 0 ELSE sum[n - 1] + sizes[n]
      len == m.at - 1 + sum[Len(sizes)]
  IN [error |-> s.error \/ m.error \/ len > 15,
      len |-> IF len > 15 THEN 15 ELSE len,
      opcode |-> s.first, opcode2 |-> s.opcode2, modrm |-> m.modrm,
      imm |-> sum[Len(sizes)]]
=============================================================================
