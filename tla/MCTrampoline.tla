---------------------------- MODULE MCTrampoline ----------------------------
(* Functions for Trampoline: one of every kind of instruction, as the      *)
(* processor's manuals encode it, in front of plain ones, and all short    *)
(* functions of a few instructions that jump.                              *)
EXTENDS Trampoline

Instr(bytes, flow, rel, cond, rip) ==
  [bytes |-> bytes, flow |-> flow, rel |-> rel, cond |-> cond, rip |-> rip]
Plain(bytes) == Instr(bytes, "next", 0, 0, 0)

Disp32 == <<16, 1, 0, 0>>
Zeros(n) == [i \in 1 .. n |-> 0]

\* ModR/M byte, SIB byte and displacement for register reg, mod and rm.
Sib == {36, 101}
Operands(reg, mods) ==
  LET modrm(mod, rm) == mod * 64 + reg * 8 + rm
      disp(mod, rm) == CASE mod = 0 -> IF rm = 5 THEN Disp32 ELSE <<>>
                         [] mod = 1 -> <<17>>
                         [] mod = 2 -> Disp32
                         [] OTHER -> <<>>
  IN {<<modrm(mod, rm)>> \o disp(mod, rm) : mod \in mods, rm \in 0 .. 7 \ {4}}
     \cup {<<modrm(mod, 4), sib>> \o disp(mod, sib % 8) : mod \in mods \ {3}, sib \in Sib}
     \cup {<<modrm(mod, 4)>> : mod \in mods \cap {3}}

All == 0 .. 3
Memory == 0 .. 2

\* [ops, regs, mods, imm]: opcodes with the same fields; imm: "b" one byte, "z" four
\* or, with the prefix 66, two, "v" eight with REX.W and else as "z".
Shape(ops, regs, mods, imm) == [ops |-> ops, regs |-> regs, mods |-> mods, imm |-> imm]
WithModRM ==
  {Shape({<<o>> : o \in {0, 3, 57, 132, 137, 139, 99, 208, 211}}, {3}, All, ""),
   Shape({<<141>>}, {1}, Memory, ""),
   Shape({<<o>> : o \in {128, 131, 192, 193}}, {0, 7}, All, "b"), Shape({<<107>>}, {2}, All, "b"),
   Shape({<<129>>, <<105>>}, {0, 5}, All, "z"),
   Shape({<<198>>}, {0}, All, "b"), Shape({<<199>>}, {0}, All, "z"),
   Shape({<<246>>}, {0}, All, "b"), Shape({<<247>>}, {0}, All, "z"),
   Shape({<<246>>, <<247>>}, {2, 7}, All, ""), Shape({<<254>>}, {0, 1}, All, ""),
   Shape({<<255>>}, {0, 1, 6}, All, ""), Shape({<<217>>, <<221>>}, {0, 3}, Memory, ""),
   Shape({<<15, o>> : o \in {16, 31, 40, 69, 110, 111, 149, 163, 175, 182, 191, 193, 239}},
         {0}, All, ""),
   Shape({<<15, o>> : o \in {112, 164, 172}}, {1}, All, "b"),
   Shape({<<15, 186>>}, {4, 7}, All, "b"), Shape({<<15, 199>>}, {1}, Memory, "")}
WithoutModRM ==
  {[ops |-> {<<o>> : o \in 80 .. 95 \cup 144 .. 153 \cup {156, 164, 165, 170, 201, 204}},
    imm |-> ""],
   [ops |-> {<<4>>, <<60>>, <<168>>, <<106>>, <<176>>, <<183>>, <<205>>}, imm |-> "b"],
   [ops |-> {<<5>>, <<61>>, <<169>>, <<104>>}, imm |-> "z"],
   [ops |-> {<<184>>, <<191>>}, imm |-> "v"],
   [ops |-> {<<15, 162>>, <<15, 49>>, <<15, 200>>}, imm |-> ""]}

Imm(imm, prefix) ==
  Zeros(CASE imm = "" -> 0
          [] imm = "b" -> 1
          [] imm = "v" /\ prefix = <<72>> -> 8
          [] OTHER -> IF prefix = <<102>> THEN 2 ELSE 4)

\* Operand size, segment, and REX.W and REX.B in 64-bit code.
PrefixesOf(x64) == {<<>>, <<102>>, <<100>>} \cup (IF x64 THEN {<<72>>, <<65>>} ELSE {})

Single(x64) ==
  UNION {{LET start == prefix \o op
              rip == x64 /\ operand[1] \div 64 = 0 /\ operand[1] % 8 = 5
          IN Instr(start \o operand \o Imm(s.imm, prefix), "next", 0, 0,
                   IF rip THEN Len(start) + 1 ELSE 0)
          : prefix \in PrefixesOf(x64), op \in s.ops,
            operand \in UNION {Operands(reg, s.mods) : reg \in s.regs}} : s \in WithModRM}
  \cup UNION {{Plain(prefix \o op \o Imm(s.imm, prefix))
               : prefix \in PrefixesOf(x64), op \in s.ops} : s \in WithoutModRM}
  \* locked, repeated, with an address or with two immediates
  \cup {Plain(b) : b \in {<<240, 15, 177, 10>>, <<240, 255, 0>>, <<243, 165>>, <<243, 144>>,
                          <<243, 15, 16, 0>>, <<242, 15, 17, 69, 8>>, <<200, 16, 0, 0>>,
                          <<161>> \o Zeros(IF x64 THEN 8 ELSE 4)}}
  \cup (IF x64 THEN {} ELSE {Plain(<<o>>) : o \in 64 .. 79})

-----------------------------------------------------------------------------
(* Functions that jump                                                     *)

Byte8(rel) == <<IF rel < 0 THEN rel + 256 ELSE rel>>
Bytes32(rel) == <<(IF rel < 0 THEN rel + 256 ELSE rel)>> \o
                [i \in 1 .. 3 |-> IF rel < 0 THEN 255 ELSE 0]
Rels == {-3, -2, 0, 1, 2, 100}

Moves == {Plain(<<144>>), Plain(<<131, 192, 1>>), Plain(<<104, 1, 0, 0, 0>>)}
Jumps == {Instr(<<116>> \o Byte8(r), "branch", r, 4, 0) : r \in Rels}
         \cup {Instr(<<235>> \o Byte8(r), "jump", r, 0, 0) : r \in Rels}
         \cup {Instr(<<226>> \o Byte8(r), "branch", r, 2, 0) : r \in Rels}
         \cup {Instr(<<15, 143>> \o Bytes32(r), "branch", r, 15, 0) : r \in {-6, 100}}
         \cup {Instr(<<233>> \o Bytes32(r), "jump", r, 0, 0) : r \in {-100, 100}}
         \cup {Instr(<<232>> \o Bytes32(r), "call", r, 0, 0) : r \in {0, 100}}

MCSamples == [x64 \in BOOLEAN |-> Single(x64)]
MCSteps == [x64 \in BOOLEAN |-> Moves \cup Jumps]
MCLasts == [x64 \in BOOLEAN |->
             {Ret, Instr(<<194, 8, 0>>, "end", 0, 0, 0)}
             \cup {j \in Jumps : j.flow = "jump"}
             \cup IF x64 THEN {Instr(<<255, 37>> \o Disp32, "end", 0, 0, 2)} ELSE {}]
MCSurroundings == {[fill |-> 204, above |-> "code"], [fill |-> 0, above |-> "code"],
                   [fill |-> 85, above |-> "padding"], [fill |-> 85, above |-> "code"],
                   [fill |-> 85, above |-> "data"]}
=============================================================================
