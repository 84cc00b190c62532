----------------------------- MODULE Trampoline -----------------------------
(***************************************************************************)
(* How MinHook copies the head of a function, so that the function can be  *)
(* called after its first bytes are overwritten by a jump (trampoline.cpp: *)
(* CreateTrampolineFunction, ResolveTemporaryAddresses).  Instructions are *)
(* copied until five bytes are free; relative calls and branches that      *)
(* leave those bytes are replaced by forms of another length.              *)
(*                                                                         *)
(* The function begins at address 0, its trampoline at TrampolineAt.  Its  *)
(* bytes are real ones, and Hde64 or Hde32 disassembles them; what they    *)
(* mean is told beside them, by the record the program is made of.         *)
(***************************************************************************)
EXTENDS Integers, Sequences, FiniteSets, SequencesExt, FiniteSetsExt

CONSTANTS Samples,       \* x64? |-> instructions, each of which begins a function
          Steps,         \* x64? |-> instructions that short functions are made of
          Lasts,         \* x64? |-> instructions that end one
          Surroundings,  \* what is behind and before a short function
          MaxSteps,      \* bound: instructions of a short function before the last
          TrampolineAt,  \* where the buffers of the trampoline and of its table are
          TableAt

D64 == INSTANCE Hde64
D32 == INSTANCE Hde32

(* A program is [x64, instrs, bytes, fill, above]: bytes are those of instrs in *)
(* order, followed by the byte fill for ever; above tells what is before the    *)
(* function: "padding" or "code" that can be executed, or "data".  An           *)
(* instruction is [bytes, flow, rel, cond, rip]: flow is "next", "jump", "call",*)
(* "branch" (on cond) or "end", rel its operand, and rip the place of an        *)
(* address relative to the next instruction, or 0.                              *)

VARIABLES
  program,
  stage,       \* the next thing to do, or how it ended
  oldPos, newPos,
  jmpDest,
  hs,          \* what the disassembler said of the instruction at oldPos
  pieces,      \* what has been written to the trampoline, with oldIPs and newIPs
  tempAddr,    \* [address, position, pc, slot]: addresses to fill in; slot: in the table?
  table,       \* x64: the destinations of the replaced calls and jumps
  written,     \* after the resolution: position |-> value
  patchAbove

vars == <<program, stage, oldPos, newPos, jmpDest, hs, pieces, tempAddr, table,
          written, patchAbove>>

JumpRel == 5    JumpRelShort == 2   \* sizeof(JMP_REL), sizeof(JMP_REL_SHORT)

ByteAt(p) == IF p < 0 THEN IF program.above = "padding" THEN 204 ELSE 85
             ELSE IF p < Len(program.bytes) THEN program.bytes[p + 1]
             ELSE program.fill
CodeAt(p) == [n \in 1 .. 17 |-> ByteAt(p + n - 1)]

\* The little-endian number in the n bytes that end before p; the sign is the last's.
Signed(p, n) ==
  LET top == ByteAt(p - 1)
  IN FoldSet(LAMBDA k, sum : sum + ByteAt(p - n + k) * 256 ^ k, 0, 0 .. n - 2)
     + (IF top > 127 THEN top - 256 ELSE top) * 256 ^ (n - 1)

Ended == {"created", "cannotDecode", "cannotBranch", "changesLength", "noRoom", "unresolved"}

\* The forms that replace relative calls and branches, and where their operands are.
Form == IF program.x64
        THEN [call |-> [size |-> 6, operand |-> 2], jump |-> [size |-> 6, operand |-> 2],
              branch |-> [size |-> 10, operand |-> 6]]
        ELSE [call |-> [size |-> 5, operand |-> 1], jump |-> [size |-> 5, operand |-> 1],
              branch |-> [size |-> 6, operand |-> 2]]

NoHs == [error |-> FALSE, len |-> 0, opcode |-> 0, opcode2 |-> 0, modrm |-> 0, imm |-> 0]

Program(x64, is, fill, above) ==
  [x64 |-> x64, instrs |-> is, fill |-> fill, above |-> above,
   bytes |-> FoldLeft(LAMBDA code, i : code \o i.bytes, <<>>, is)]

\* Jumps to the function, or to what is overwritten with it, lead to the beginning
\* of an instruction.
WellFormed(is) ==
  LET offset[k \in 0 .. Len(is)] == IF k = 0 THEN 0 ELSE offset[k - 1] + Len(is[k].bytes)
      starts == {offset[k] : k \in 0 .. Len(is) - 1}
      inside == 0 .. Max({JumpRel, offset[Len(is)] - 1})
  IN \A k \in DOMAIN is : is[k].flow \notin {"next", "end"} /\ offset[k] + is[k].rel \in inside
                            => offset[k] + is[k].rel \in starts

Nop == [bytes |-> <<144>>, flow |-> "next", rel |-> 0, cond |-> 0, rip |-> 0]
Ret == [Nop EXCEPT !.bytes = <<195>>, !.flow = "end"]

Init ==
  /\ \E x64 \in BOOLEAN :
       \/ \E i \in Samples[x64] :
            program = Program(x64, <<i, Nop, Nop, Nop, Nop, Ret>>, 204, "code")
       \/ \E n \in 0 .. MaxSteps, last \in Lasts[x64], s \in Surroundings :
          \E is \in [1 .. n -> Steps[x64]] :
            /\ WellFormed(is \o <<last>>)
            /\ program = Program(x64, is \o <<last>>, s.fill, s.above)
  /\ stage = "disassemble" /\ hs = NoHs
  /\ oldPos = 0 /\ newPos = 0 /\ jmpDest = 0
  /\ pieces = <<>> /\ tempAddr = <<>> /\ table = <<>> /\ written = <<>>
  /\ patchAbove = FALSE

-----------------------------------------------------------------------------
(* CreateTrampolineFunction                                                *)

Disassemble ==
  /\ stage = "disassemble"
  /\ hs' = IF program.x64 THEN D64!hde64_disasm(CodeAt(oldPos)) ELSE D32!hde32_disasm(CodeAt(oldPos))
  /\ stage' = IF hs'.error THEN "cannotDecode" ELSE "copy"
  /\ UNCHANGED <<program, oldPos, newPos, jmpDest, pieces, tempAddr, table, written,
                 patchAbove>>

IsShort == hs.opcode \in 112 .. 127 \cup 224 .. 227 \cup {235}

GetRelativeBranchDestination ==
  oldPos + hs.len + Signed(oldPos + hs.len, IF IsShort THEN 1 ELSE 4)

IsInternalJump(dest) == dest \in 0 .. JumpRel

\* What the instruction is taken for; the order of the tests matters.
Kind ==
  IF oldPos >= JumpRel THEN "back"
  ELSE IF program.x64 /\ hs.modrm \div 64 = 0 /\ hs.modrm % 8 = 5 THEN "rip"
  ELSE IF hs.opcode = 232 THEN "call"
  ELSE IF hs.opcode \in {233, 235} THEN "jump"
  ELSE IF hs.opcode \in 112 .. 127 \cup 224 .. 227 \/ hs.opcode2 \in 128 .. 143 THEN "branch"
  ELSE IF hs.opcode \in {194, 195} THEN "return"
  ELSE "other"

\* No length may change before the place a copied jump leads to.
AppendPiece(form, size, finished) ==
  /\ IF oldPos < jmpDest' /\ size # hs.len
     THEN stage' = "changesLength" /\ UNCHANGED <<pieces, oldPos, newPos>>
     ELSE /\ pieces' = Append(pieces, [old |-> oldPos, new |-> newPos, len |-> hs.len,
                                       size |-> size, form |-> form,
                                       cond |-> (IF hs.opcode = 15 THEN hs.opcode2
                                                 ELSE hs.opcode) % 16])
          /\ oldPos' = oldPos + hs.len /\ newPos' = newPos + size
          /\ stage' = IF finished THEN "place" ELSE "disassemble"
  /\ UNCHANGED <<program, hs, written, patchAbove>>

Copy(finished) == AppendPiece("copy", hs.len, finished) /\ UNCHANGED <<tempAddr, table>>

\* Mutant of AppendTempAddress: relative to the operand.
AppendFromOperand(dest, form) ==
  /\ tempAddr' = Append(tempAddr,
       [address |-> dest, position |-> newPos + Form[form].operand,
        pc |-> newPos + Form[form].operand, slot |-> program.x64])
  /\ table' = IF program.x64 THEN Append(table, dest) ELSE table

\* The destination goes to the table in x64, and its slot's address is resolved.
AppendTempAddress(dest, form) ==
  /\ tempAddr' = Append(tempAddr,
       [address |-> dest, position |-> newPos + Form[form].operand,
        pc |-> newPos + Form[form].size, slot |-> program.x64])
  /\ table' = IF program.x64 THEN Append(table, dest) ELSE table

Replace(form, dest, finished) ==
  AppendTempAddress(dest, form) /\ AppendPiece(form, Form[form].size, finished)

\* Enough is copied: jump to the rest of the function.
JumpBack ==
  /\ stage = "copy" /\ Kind = "back"
  /\ UNCHANGED jmpDest
  /\ Replace("jump", oldPos, TRUE)

\* An operand relative to the instruction pointer; JMP (FF /4) ends the function.
AppendRipRelativeAddress ==
  /\ stage = "copy" /\ Kind = "rip"
  /\ UNCHANGED <<jmpDest, table>>
  /\ tempAddr' = Append(tempAddr,
       [address |-> oldPos + hs.len + Signed(oldPos + hs.len - hs.imm, 4),
        position |-> newPos + hs.len - hs.imm - 4, pc |-> newPos + hs.len,
        slot |-> FALSE])
  /\ AppendPiece("copy", hs.len, hs.opcode = 255 /\ (hs.modrm \div 8) % 8 = 4)

ReplaceCall ==
  /\ stage = "copy" /\ Kind = "call"
  /\ UNCHANGED jmpDest
  /\ Replace("call", GetRelativeBranchDestination, FALSE)

\* A jump or branch inside the overwritten bytes is copied as it is.
CopyInternal ==
  /\ stage = "copy" /\ Kind \in {"jump", "branch"}
  /\ IsInternalJump(GetRelativeBranchDestination)
  /\ jmpDest' = Max({jmpDest, GetRelativeBranchDestination})
  /\ Copy(FALSE)

\* Outside of a branch a jump ends the function.
ReplaceJump ==
  /\ stage = "copy" /\ Kind = "jump"
  /\ UNCHANGED jmpDest
  /\ ~IsInternalJump(GetRelativeBranchDestination)
  /\ Replace("jump", GetRelativeBranchDestination, oldPos >= jmpDest)

\* There is no near form of LOOP and JCXZ.
ReplaceBranch ==
  /\ stage = "copy" /\ Kind = "branch"
  /\ UNCHANGED jmpDest
  /\ ~IsInternalJump(GetRelativeBranchDestination)
  /\ IF hs.opcode \in 224 .. 227
     THEN stage' = "cannotBranch"
          /\ UNCHANGED <<program, oldPos, newPos, hs, pieces, tempAddr, table, written,
                         patchAbove>>
     ELSE Replace("branch", GetRelativeBranchDestination, FALSE)

CopyReturn ==
  /\ stage = "copy" /\ Kind = "return"
  /\ UNCHANGED jmpDest
  /\ Copy(oldPos >= jmpDest)

CopyOther ==
  /\ stage = "copy" /\ Kind = "other"
  /\ UNCHANGED jmpDest
  /\ Copy(FALSE)

\* Mutant of IsCodePadding: the first byte is looked at.
IsPaddingByte(p, size) == ByteAt(p) \in {0, 144, 204}

IsCodePadding(p, size) ==
  ByteAt(p) \in {0, 144, 204} /\ \A n \in 1 .. size - 1 : ByteAt(p + n) = ByteAt(p)

IsExecutableAddress(p) == p >= 0 \/ program.above # "data"

\* Is there room for a long jump, or for a short one to a long one above?
Place ==
  LET room(jump) == oldPos >= jump \/ IsCodePadding(oldPos, jump - oldPos)
      above == /\ room(JumpRelShort)
               /\ IsExecutableAddress(-JumpRel) /\ IsCodePadding(-JumpRel, JumpRel)
  IN /\ stage = "place"
     /\ patchAbove' = (~room(JumpRel) /\ above)
     /\ stage' = IF room(JumpRel) \/ above THEN "resolve" ELSE "noRoom"
     /\ UNCHANGED <<program, oldPos, newPos, jmpDest, hs, pieces, tempAddr, table, written>>

-----------------------------------------------------------------------------
(* ResolveTemporaryAddresses.  The operands are 32 bits wide; the numbers  *)
(* here are small, so that none of them is cut.                            *)

\* The slots of the table are given out in order.
AddressOf(i) ==
  IF tempAddr[i].slot
  THEN TableAt + 8 * Cardinality({j \in 1 .. i - 1 : tempAddr[j].slot})
  ELSE tempAddr[i].address

ResolveTemporaryAddresses ==
  /\ stage = "resolve"
  /\ stage' = IF \E i \in DOMAIN tempAddr : tempAddr[i].position > newPos - 4
              THEN "unresolved" ELSE "created"
  /\ written' = [p \in {tempAddr[i].position : i \in DOMAIN tempAddr} |->
                  LET i == CHOOSE i \in DOMAIN tempAddr : tempAddr[i].position = p
                  IN AddressOf(i) - (TrampolineAt + tempAddr[i].pc)]
  /\ UNCHANGED <<program, oldPos, newPos, jmpDest, hs, pieces, tempAddr, table, patchAbove>>

Next ==
  \/ Disassemble
  \/ JumpBack \/ AppendRipRelativeAddress \/ ReplaceCall \/ CopyInternal
  \/ ReplaceJump \/ ReplaceBranch \/ CopyReturn \/ CopyOther
  \/ Place
  \/ ResolveTemporaryAddresses

Spec == Init /\ [][Next]_vars

-----------------------------------------------------------------------------
(* Properties                                                              *)

Offset(k) == FoldLeft(LAMBDA sum, i : sum + Len(i.bytes), 0, SubSeq(program.instrs, 1, k - 1))
InstrAt(p) == program.instrs[CHOOSE k \in DOMAIN program.instrs : Offset(k) = p]

\* The walk stays on the instructions of the function: none of them is refused,
\* and each is taken to be as long as it is.
DecodedRight ==
  /\ stage # "cannotDecode"
  /\ stage = "copy" /\ oldPos < Len(program.bytes)
       => /\ \E k \in DOMAIN program.instrs : Offset(k) = oldPos
          /\ hs.len = Len(InstrAt(oldPos).bytes)

\* Where control may go from an instruction, and on what condition; and the
\* address it reads relative to itself.
Flow(flow, cond, next, dest) ==
  CASE flow = "next" -> {<<"next", next>>}
    [] flow = "end" -> {}
    [] flow = "jump" -> {<<"next", dest>>}
    [] flow = "call" -> {<<"call", dest>>, <<"next", next>>}
    [] flow = "branch" -> {<<"if", cond, dest>>, <<"next", next>>}

\* The place of the function that a place of the trampoline stands for.
Home(p) == LET here == {i \in DOMAIN pieces : pieces[i].new = p}
           IN IF here = {} THEN -1000 ELSE pieces[CHOOSE i \in here : TRUE].old

\* What the operand at that place of the trampoline means to an instruction
\* that ends at the other, and where a replaced call or branch leads.
Points(operand, end) == written[operand] + TrampolineAt + end
Leads(piece) ==
  LET p == Points(piece.new + Form[piece.form].operand, piece.new + piece.size)
  IN IF program.x64 THEN table[(p - TableAt) \div 8 + 1] ELSE p

\* A loop over a piece that has become longer; only forward jumps are guarded.
Stretched ==
  \E i, j \in DOMAIN pieces :
    LET jump == InstrAt(pieces[i].old) IN
    /\ j <= i /\ pieces[i].form = "copy" /\ pieces[i].old < Len(program.bytes)
    /\ jump.flow \in {"jump", "branch"}
    /\ pieces[j].old >= pieces[i].old + pieces[i].len + jump.rel
    /\ pieces[j].size # pieces[j].len

\* The trampoline does what the head of the function does: from every piece
\* control goes, on the same conditions, to the piece that stands for the place
\* it goes to in the function, or to that place itself, and what is addressed
\* relative to the instruction pointer stays the same.
SameFlow ==
  stage = "created" /\ ~Stretched =>
    \A i \in DOMAIN pieces :
      LET p == pieces[i]
          in == InstrAt(p.old)
          next == p.old + p.len
          end == p.new + p.size
      IN IF p.old >= JumpRel THEN Leads(p) = p.old
         ELSE IF p.old >= Len(program.bytes) THEN p.form = "copy"
         ELSE /\ Flow(in.flow, in.cond, next, next + in.rel) =
                   IF p.form = "copy"
                   THEN Flow(in.flow, in.cond, Home(end), Home(end + in.rel))
                   ELSE Flow(p.form, p.cond, Home(end), Leads(p))
              /\ in.rip # 0 => Points(p.new + in.rip, end) = next + Signed(p.old + in.rip + 4, 4)

\* Does the function end with an instruction the walk takes for an end?  It does
\* not know other ones than a return and a jump out of the first bytes.
EndsPlainly ==
  LET n == Len(program.instrs)
      last == program.instrs[n]
  IN last.flow = "end" \/ ~IsInternalJump(Len(program.bytes) + last.rel)

\* The jump to the detour overwrites bytes of the function and padding, no
\* byte of the function behind it or before it.
OverwritesItsOwn ==
  stage = "created" /\ EndsPlainly =>
    /\ Len(program.bytes) >= (IF patchAbove THEN JumpRelShort ELSE JumpRel) \/ program.fill # 85
    /\ patchAbove => program.above = "padding"
=============================================================================
