----------------------------- MODULE CodeBuffer -----------------------------
(***************************************************************************)
(* Where MinHook keeps the code and data it makes for a hook (buffer.cpp,  *)
(* and the calls of it in CreateHook and RemoveHook).  Blocks are reserved *)
(* near the function; in a block, pieces are given out one behind the      *)
(* other.  What a creation has been given stays uncommitted until the      *)
(* whole of it has succeeded, and is rolled back if a call fails.          *)
(* Everything runs under MinHook's lock, one call after another.           *)
(***************************************************************************)
EXTENDS Integers, Sequences, FiniteSets

CONSTANTS X64,        \* compiled for x64?  Else no piece needs to be near
          Targets,    \* functions, by the address of their jump
          Places,     \* addresses at which a block may be reserved
          BlockSize,
          MaxRange,   \* how far from its origin a block is looked for: 512 MB
          Size,       \* target |-> kind |-> size of the piece, aligned
          Anywhere,   \* the origin NULL
          Null

Kinds == {"trampoline", "table", "backup", "relay"}

\* The pieces of a hook, in the order they are allocated and freed.
Order == IF X64 THEN <<"trampoline", "table", "backup", "relay">>
         ELSE <<"trampoline", "backup">>

ASSUME ModeAssumption == X64 \in BOOLEAN
ASSUME TargetsAssumption == Targets \subseteq Int /\ IsFiniteSet(Targets)
ASSUME PlacesAssumption ==
  /\ Places \subseteq Int
  /\ \A a, b \in Places : a < b => a + BlockSize <= b
ASSUME SizeAssumption ==
  /\ BlockSize \in Nat \ {0}
  /\ Size \in [Targets -> [Kinds -> 1 .. BlockSize]]
ASSUME RangeAssumption == MaxRange \in Nat /\ 3 * BlockSize <= MaxRange
ASSUME NullAssumption == Anywhere \notin Int /\ Null \notin Int

VARIABLES
  blocks,   \* gMemoryBlocks: address |-> what has been given out of the block
  hooks,    \* the targets that have a hook
  address,  \* target |-> kind |-> where the piece is
  call,     \* "none", "create", "rollback" or "remove"
  target,   \* of the call, and how many pieces it has allocated or freed
  count

vars == <<blocks, hooks, address, call, target, count>>

Block == [protect : {"code", "data"}, fixedSize : Nat, fixedCount : Nat,
          uncommittedSize : Nat, uncommittedCount : Nat]

TypeOK ==
  /\ DOMAIN blocks \subseteq Places /\ blocks \in [DOMAIN blocks -> Block]
  /\ hooks \subseteq Targets
  /\ address \in [Targets -> [Kinds -> Int \cup {Null}]]
  /\ call \in {"none", "create", "rollback", "remove"}
  /\ target \in Targets \cup {Null} /\ (call # "none" <=> target # Null)
  /\ count \in 0 .. Len(Order)

NoPieces == [k \in Kinds |-> Null]

Init ==
  /\ blocks = <<>> /\ hooks = {}
  /\ address = [t \in Targets |-> NoPieces]
  /\ call = "none" /\ target = Null /\ count = 0

-----------------------------------------------------------------------------
(* GetMemoryBlock and AllocateBuffer                                       *)

Protect(kind) == IF kind \in {"trampoline", "relay"} THEN "code" ELSE "data"

Origin(t, kind) == CASE ~X64 -> Anywhere
                     [] X64 /\ kind = "backup" -> Anywhere
                     [] X64 /\ kind = "table" -> address[t]["trampoline"]
                     [] X64 /\ kind \in {"trampoline", "relay"} -> t

\* Mutant of InRange: the blocks below minAddr are not left out.
InRangeAbove(b, origin) == origin # Anywhere => b < origin + MaxRange

\* Registered blocks are taken from minAddr up to maxAddr.
InRange(b, origin) ==
  origin # Anywhere => origin - MaxRange <= b /\ b < origin + MaxRange

\* New ones are searched from the block that holds minAddr on.
Searched(b, origin) ==
  origin # Anywhere => origin - MaxRange < b + BlockSize /\ b <= origin + MaxRange

HasRoom(b, size) ==
  blocks[b].fixedSize + blocks[b].uncommittedSize + size <= BlockSize

Usable(t, kind) ==
  {b \in DOMAIN blocks : /\ InRange(b, Origin(t, kind))
                         /\ blocks[b].protect = Protect(kind)
                         /\ HasRoom(b, Size[t][kind])}

\* Is b the block to allocate from?  A registered one, on x64 the first of them by
\* its address, and only if there is none a new one; which one the system decides.
GetMemoryBlock(b, t, kind) ==
  /\ b \in DOMAIN blocks => b \in Usable(t, kind)
                            /\ (X64 => \A c \in Usable(t, kind) : b <= c)
  /\ b \notin DOMAIN blocks => Usable(t, kind) = {} /\ Searched(b, Origin(t, kind))

\* The blocks once b is among them.
With(b, kind) ==
  [c \in DOMAIN blocks \cup {b} |->
    IF c \in DOMAIN blocks THEN blocks[c]
    ELSE [protect |-> Protect(kind), fixedSize |-> 0, fixedCount |-> 0,
          uncommittedSize |-> 0, uncommittedCount |-> 0]]

-----------------------------------------------------------------------------
(* CreateHook, from the trampoline function on                             *)

Kind == Order[count + 1]

BeginCreate(t) ==
  /\ call = "none" /\ t \notin hooks
  /\ call' = "create" /\ target' = t /\ count' = 0
  /\ UNCHANGED <<blocks, hooks, address>>

\* Mutant of AllocateBuffer: the piece is put behind the committed ones.
AllocateAgain(b) ==
  /\ call = "create" /\ count < Len(Order)
  /\ GetMemoryBlock(b, target, Kind)
  /\ blocks' = [With(b, Kind) EXCEPT ![b].uncommittedSize = @ + Size[target][Kind],
                                     ![b].uncommittedCount = @ + 1]
  /\ address' = [address EXCEPT ![target][Kind] = b + With(b, Kind)[b].fixedSize]
  /\ count' = count + 1
  /\ UNCHANGED <<hooks, call, target>>

AllocateBuffer(b) ==
  /\ call = "create" /\ count < Len(Order)
  /\ GetMemoryBlock(b, target, Kind)
  /\ blocks' = [With(b, Kind) EXCEPT ![b].uncommittedSize = @ + Size[target][Kind],
                                     ![b].uncommittedCount = @ + 1]
  /\ address' = [address EXCEPT ![target][Kind] =
                   b + With(b, Kind)[b].fixedSize + With(b, Kind)[b].uncommittedSize]
  /\ count' = count + 1
  /\ UNCHANGED <<hooks, call, target>>

\* VirtualAlloc or VirtualProtect fails on the piece: a new block stays registered.
AllocationFails(b) ==
  /\ call = "create" /\ count < Len(Order)
  /\ GetMemoryBlock(b, target, Kind)
  /\ blocks' = With(b, Kind)
  /\ call' = "rollback"
  /\ UNCHANGED <<hooks, address, target, count>>

\* There is no block and none can be reserved; or, before the backup is made, an
\* operand of the trampoline cannot be resolved.
CreationFails ==
  /\ call = "create" /\ count < Len(Order)
  /\ Usable(target, Kind) = {} \/ Kind = "backup"
  /\ call' = "rollback"
  /\ UNCHANGED <<blocks, hooks, address, target, count>>

\* Mutant of RollbackBuffer: every block that was allocated from is released.
RollbackAll ==
  /\ call = "rollback"
  /\ blocks' = [b \in {b \in DOMAIN blocks : blocks[b].uncommittedSize = 0} |-> blocks[b]]
  /\ address' = [address EXCEPT ![target] = NoPieces]
  /\ call' = "none" /\ target' = Null /\ count' = 0
  /\ UNCHANGED hooks

RollbackBuffer ==
  /\ call = "rollback"
  /\ blocks' = [b \in {b \in DOMAIN blocks :
                         blocks[b].uncommittedSize = 0 \/ blocks[b].fixedCount # 0} |->
                 [blocks[b] EXCEPT !.uncommittedSize = 0, !.uncommittedCount = 0]]
  /\ address' = [address EXCEPT ![target] = NoPieces]
  /\ call' = "none" /\ target' = Null /\ count' = 0
  /\ UNCHANGED hooks

CommitBuffer ==
  /\ call = "create" /\ count = Len(Order)
  /\ blocks' = [b \in DOMAIN blocks |->
                 [blocks[b] EXCEPT !.fixedSize = @ + blocks[b].uncommittedSize,
                                   !.fixedCount = @ + blocks[b].uncommittedCount,
                                   !.uncommittedSize = 0, !.uncommittedCount = 0]]
  /\ hooks' = hooks \cup {target}
  /\ call' = "none" /\ target' = Null /\ count' = 0
  /\ UNCHANGED address

-----------------------------------------------------------------------------
(* RemoveHook, once the hook is disabled, and UninitializeBuffer           *)

BeginRemove(t) ==
  /\ call = "none" /\ t \in hooks
  /\ call' = "remove" /\ target' = t /\ count' = 0
  /\ UNCHANGED <<blocks, hooks, address>>

\* The block that a committed piece at a is in.
Holds(b, a) == b <= a /\ a < b + blocks[b].fixedSize

\* The block is released with its last piece.
FreeBuffer(b) ==
  /\ call = "remove" /\ count < Len(Order)
  /\ Holds(b, address[target][Kind])
  /\ blocks' = IF blocks[b].fixedCount = 1
               THEN [c \in DOMAIN blocks \ {b} |-> blocks[c]]
               ELSE [blocks EXCEPT ![b].fixedCount = @ - 1]
  /\ count' = count + 1
  /\ UNCHANGED <<hooks, address, call, target>>

EndRemove ==
  /\ call = "remove" /\ count = Len(Order)
  /\ hooks' = hooks \ {target}
  /\ address' = [address EXCEPT ![target] = NoPieces]
  /\ call' = "none" /\ target' = Null /\ count' = 0
  /\ UNCHANGED blocks

\* MH_Uninitialize forgets the hooks and releases every block.
UninitializeBuffer ==
  /\ call = "none"
  /\ blocks' = <<>> /\ hooks' = {}
  /\ address' = [t \in Targets |-> NoPieces]
  /\ UNCHANGED <<call, target, count>>

Next ==
  \/ \E t \in Targets : BeginCreate(t) \/ BeginRemove(t)
  \/ \E b \in Places : AllocateBuffer(b) \/ AllocationFails(b)
  \/ \E b \in DOMAIN blocks : FreeBuffer(b)
  \/ CreationFails \/ RollbackBuffer \/ CommitBuffer
  \/ EndRemove
  \/ UninitializeBuffer

Spec == Init /\ [][Next]_vars

-----------------------------------------------------------------------------
(* Properties                                                              *)

Done == {Order[i] : i \in 1 .. count}

\* Pieces in use: those of the hooks, and those given to a creation.
Live == {p \in hooks \X Kinds : /\ p[2] \in {Order[i] : i \in DOMAIN Order}
                                /\ ~(call = "remove" /\ p[1] = target /\ p[2] \in Done)}
Pending == IF call \in {"create", "rollback"} THEN {target} \X Done ELSE {}

At(p) == address[p[1]][p[2]]
End(p) == At(p) + Size[p[1]][p[2]]

\* Two pieces in use never overlap: no trampoline is written over another one.
PiecesDisjoint ==
  \A p, q \in Live \cup Pending : p # q => End(p) <= At(q) \/ End(q) <= At(p)

\* Every piece of a hook is in the committed part of a registered block, which
\* allows what the piece is for: no failure of another creation and no removal
\* of another hook has released it.
PiecesBacked ==
  \A p \in Live : \E b \in DOMAIN blocks :
    /\ blocks[b].protect = Protect(p[2])
    /\ b <= At(p) /\ End(p) <= b + blocks[b].fixedSize

InBlock(pieces, b) == {p \in pieces : b <= At(p) /\ At(p) < b + BlockSize}

\* A block counts the pieces that are in it, committed and uncommitted ones, so
\* that it is released with the last of them and never before.
CountsRight ==
  \A b \in DOMAIN blocks :
    /\ blocks[b].fixedCount = Cardinality(InBlock(Live, b))
    /\ blocks[b].uncommittedCount = Cardinality(InBlock(Pending, b))

\* What refers to each other by 32 bits is within their reach, which is four
\* times as far as blocks are looked for: the function and its trampoline and
\* relay, and these two and the table.
WithinReach ==
  X64 => \A t \in hooks :
    LET near(a, b) == a - b < 4 * MaxRange /\ b - a < 4 * MaxRange
        at == address[t]
    IN call # "remove" => /\ near(at["trampoline"], t) /\ near(at["relay"], t)
                          /\ near(at["trampoline"], at["table"])
                          /\ near(at["relay"], at["table"])
=============================================================================
