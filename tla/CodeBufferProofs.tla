-------------------------- MODULE CodeBufferProofs --------------------------
(***************************************************************************)
(* Theorems about CodeBuffer, for every set of functions, every set of     *)
(* places for blocks and all sizes: pieces in use never overlap, are never *)
(* released too early, are counted right and lie within reach.             *)
(***************************************************************************)
EXTENDS CodeBuffer, FiniteSetTheorems, TLAPS

\* What has been given out of a block fits into it.
Fits ==
  \A b \in DOMAIN blocks : blocks[b].fixedSize + blocks[b].uncommittedSize <= BlockSize

\* Every piece of a creation is in the uncommitted part of a registered block.
InFresh(p, b) ==
  /\ blocks[b].protect = Protect(p[2])
  /\ b + blocks[b].fixedSize <= At(p)
  /\ End(p) <= b + blocks[b].fixedSize + blocks[b].uncommittedSize
PendingBacked == \A p \in Pending : \E b \in DOMAIN blocks : InFresh(p, b)

Located == \A p \in Live \cup Pending : At(p) \in Int

\* What a call is about.
CallAbout ==
  /\ call \in {"create", "rollback"} => target \in Targets \ hooks
  /\ call = "remove" => target \in hooks

\* How far a piece is from what it was allocated near.
Near(a, b) == b - MaxRange - BlockSize < a /\ a < b + MaxRange + BlockSize
PiecesNear ==
  X64 => \A p \in Live \cup Pending :
    /\ p[2] \in {"trampoline", "relay"} => Near(At(p), p[1])
    /\ p[2] = "table" => Near(At(p), address[p[1]]["trampoline"])
                         /\ (p \in Pending => <<p[1], "trampoline">> \in Pending)

\* The inductive invariant.
IInv ==
  /\ TypeOK /\ Fits /\ PendingBacked /\ PiecesBacked /\ CountsRight /\ PiecesDisjoint
  /\ Located /\ CallAbout

Used == {Order[i] : i \in DOMAIN Order}

-----------------------------------------------------------------------------
(* The order of the pieces, and what is in use after each action           *)

\* The pieces of a hook are of different kinds, the trampoline first and, on x64,
\* the table second.
LEMMA OrderFacts ==
  /\ Len(Order) \in Nat /\ DOMAIN Order = 1 .. Len(Order)
  /\ \A i \in 1 .. Len(Order) : Order[i] \in Kinds
  /\ \A i, j \in 1 .. Len(Order) : Order[i] = Order[j] => i = j
  /\ 2 <= Len(Order) /\ Order[1] = "trampoline" /\ (X64 => Order[2] = "table")
<1>1. CASE X64
  BY <1>1 DEF Order, Kinds
<1>2. CASE ~X64
  BY <1>2 DEF Order, Kinds
<1> QED
  BY <1>1, <1>2

\* The kind that a call is at is one of the order and not done yet; then it is.
LEMMA NextKind ==
  ASSUME TypeOK, count < Len(Order), count' = count + 1
  PROVE  /\ Kind \in Kinds /\ Kind \in Used /\ Kind \notin Done
         /\ Done' = Done \cup {Kind}
<1>1. count \in Nat /\ count + 1 \in 1 .. Len(Order)
  BY OrderFacts DEF TypeOK
<1>2. Kind \in Kinds /\ Kind \in Used /\ Kind \notin Done
  BY <1>1, OrderFacts DEF Kind, Done, Used
<1>3. 1 .. count + 1 = (1 .. count) \cup {count + 1}
  BY <1>1
<1>4. Done' = {Order[i] : i \in 1 .. count + 1}
  BY DEF Done, Order
<1>5. Done' = Done \cup {Kind}
  BY <1>3, <1>4 DEF Done, Kind
<1> QED
  BY <1>2, <1>5

\* Every piece in use belongs to a function and has a kind.
LEMMA PieceTypes ==
  ASSUME TypeOK, CallAbout, NEW p \in Live \cup Pending
  PROVE  p \in Targets \X Kinds /\ Size[p[1]][p[2]] \in 1 .. BlockSize
<1>1. Done \subseteq Kinds
  BY OrderFacts DEF Done, TypeOK
<1>2. p \in Targets \X Kinds
  BY <1>1 DEF Live, Pending, TypeOK, CallAbout
<1> QED
  BY <1>2, SizeAssumption

\* The pieces in use are finitely many.
LEMMA PiecesFinite ==
  ASSUME TypeOK, CallAbout
  PROVE  IsFiniteSet(Live) /\ IsFiniteSet(Pending)
<1>1. IsFiniteSet(Kinds)
  <2>1. Kinds = (({} \cup {"trampoline"}) \cup {"table"}) \cup {"backup"} \cup {"relay"}
    BY DEF Kinds
  <2> QED
    BY <2>1, FS_EmptySet, FS_AddElement
<1>2. IsFiniteSet(Targets \X Kinds)
  BY <1>1, TargetsAssumption, FS_Product
<1>3. Live \subseteq Targets \X Kinds /\ Pending \subseteq Targets \X Kinds
  BY PieceTypes
<1> QED
  BY <1>2, <1>3, FS_Subset

\* A block is where its pieces are: no address is in two blocks.
LEMMA OneBlock ==
  ASSUME NEW b \in Places, NEW c \in Places, NEW a \in Int,
         b <= a, a < b + BlockSize, c <= a, a < c + BlockSize
  PROVE  b = c
BY PlacesAssumption, SizeAssumption

\* BeginCreate, BeginRemove, EndRemove and CreationFails put no piece into use or out of it.
LEMMA CallPieces ==
  ASSUME IInv, NEW t \in Targets, BeginCreate(t) \/ BeginRemove(t) \/ EndRemove \/ CreationFails
  PROVE  Live' = Live /\ Pending' = Pending /\ \A p \in Live : At(p)' = At(p)
<1> USE DEF IInv
<1>0. 1 .. 0 = {} /\ Done = {Order[i] : i \in 1 .. count}
  BY DEF Done
<1>1. CASE BeginCreate(t) \/ BeginRemove(t)
  <2>1. Done' = {} /\ hooks' = hooks /\ address' = address /\ call = "none"
    BY <1>1, <1>0 DEF BeginCreate, BeginRemove, Done
  <2>2. Live' = Live
    BY <2>1, <1>1 DEF Live, BeginCreate, BeginRemove, Order
  <2>3. Pending' = Pending
    BY <2>1, <1>1 DEF Pending, BeginCreate, BeginRemove
  <2> QED
    BY <2>1, <2>2, <2>3 DEF At
<1>2. CASE EndRemove
  <2>1. Done = Used
    BY <1>2, OrderFacts DEF EndRemove, Done, Used
  <2>2. Live' = Live
    BY <1>2, <2>1 DEF Live, EndRemove, Order, Used
  <2>3. Pending' = Pending
    BY <1>2 DEF Pending, EndRemove
  <2>4. ASSUME NEW p \in Live PROVE At(p)' = At(p)
    <3>1. p[1] \in Targets /\ p[1] # target
      BY <1>2, <2>1 DEF Live, EndRemove, Used, TypeOK
    <3> QED
      BY <1>2, <3>1 DEF At, EndRemove, TypeOK
  <2> QED
    BY <2>2, <2>3, <2>4
<1>3. CASE CreationFails
  BY <1>3 DEF CreationFails, Live, Pending, Done, At, Order
<1> QED
  BY <1>1, <1>2, <1>3

\* AllocateBuffer puts the next piece into use, AllocationFails none.
LEMMA AllocatePieces ==
  ASSUME IInv, NEW b \in Places, AllocateBuffer(b),
         NEW t, t = target, NEW k, k = Kind
  PROVE  LET q == <<t, k>> IN
         /\ Live' = Live /\ Pending' = Pending \cup {q}
         /\ q \in Targets \X Kinds /\ q \notin Live \cup Pending
         /\ \A p \in Live \cup Pending : At(p)' = At(p)
         /\ At(q)' = b + With(b, k)[b].fixedSize + With(b, k)[b].uncommittedSize
<1> USE DEF IInv
<1>1. /\ k = Kind /\ t = target /\ Kind \in Kinds /\ Kind \notin Done /\ Done' = Done \cup {Kind}
      /\ call = "create" /\ target \in Targets \ hooks
  BY NextKind DEF AllocateBuffer, CallAbout
<1>2. Live' = Live
  BY <1>1 DEF Live, AllocateBuffer, Order
<1>3. Pending' = Pending \cup {<<t, k>>}
  BY <1>1 DEF Pending, AllocateBuffer
<1>4. <<t, k>> \in Targets \X Kinds /\ <<t, k>> \notin Live \cup Pending
  BY <1>1 DEF Live, Pending
<1>5. address' = [address EXCEPT ![target][Kind] =
                   b + With(b, Kind)[b].fixedSize + With(b, Kind)[b].uncommittedSize]
  BY DEF AllocateBuffer
<1>6. address \in [Targets -> [Kinds -> Int \cup {Null}]]
  BY DEF TypeOK
<1>7. ASSUME NEW p \in Live \cup Pending PROVE At(p)' = At(p)
  <2>1. p[1] \in Targets /\ p[2] \in Kinds /\ (p[1] # target \/ p[2] # Kind)
    BY <1>1, <1>4, PieceTypes
  <2> QED
    BY <1>1, <1>5, <1>6, <2>1 DEF At
<1>8. At(<<t, k>>)' = b + With(b, k)[b].fixedSize + With(b, k)[b].uncommittedSize
  BY <1>1, <1>5, <1>6 DEF At
<1> QED
  BY <1>2, <1>3, <1>4, <1>7, <1>8

\* CommitBuffer: the pieces of the creation become those of a hook.
LEMMA CommitPieces ==
  ASSUME IInv, CommitBuffer
  PROVE  /\ Live' = Live \cup Pending /\ Pending' = {} /\ Live \cap Pending = {}
         /\ \A p \in Live \cup Pending : At(p)' = At(p)
<1> USE DEF IInv
<1>1. call = "create" /\ target \in Targets \ hooks /\ Done = Used /\ Used \subseteq Kinds
  BY OrderFacts DEF CommitBuffer, CallAbout, Done, Used
<1>2. Live' = {p \in (hooks \cup {target}) \X Kinds : p[2] \in Used}
  BY DEF Live, CommitBuffer, Order, Used
<1>3. Live = {p \in hooks \X Kinds : p[2] \in Used}
  BY <1>1 DEF Live, Used
<1>4. Pending = {target} \X Used
  BY <1>1 DEF Pending
<1> QED
  BY <1>1, <1>2, <1>3, <1>4 DEF CommitBuffer, At, Pending

\* RollbackBuffer: the pieces of the creation are given up.
LEMMA RollbackPieces ==
  ASSUME IInv, RollbackBuffer
  PROVE  Live' = Live /\ Pending' = {} /\ \A p \in Live : At(p)' = At(p)
<1> USE DEF IInv
<1>1. target \in Targets \ hooks
  BY DEF RollbackBuffer, CallAbout
<1>2. Live' = Live /\ Pending' = {}
  BY DEF RollbackBuffer, Live, Pending, Order
<1>3. ASSUME NEW p \in Live PROVE At(p)' = At(p)
  <2>1. p[1] # target
    BY <1>1 DEF Live
  <2>2. address' = [address EXCEPT ![target] = NoPieces] /\ DOMAIN address = Targets
    BY DEF RollbackBuffer, TypeOK
  <2>3. p[1] \in Targets
    BY DEF Live, TypeOK
  <2> QED
    BY <2>1, <2>2, <2>3 DEF At
<1> QED
  BY <1>2, <1>3

\* FreeBuffer takes one piece out of use, which was in use.
LEMMA FreePieces ==
  ASSUME IInv, NEW b \in DOMAIN blocks, FreeBuffer(b),
         NEW t, t = target, NEW k, k = Kind
  PROVE  LET q == <<t, k>> IN
         /\ q \in Live /\ Live' = Live \ {q} /\ Pending = {} /\ Pending' = {}
         /\ \A p \in Live : At(p)' = At(p)
<1> USE DEF IInv
<1>1. /\ k = Kind /\ t = target /\ Kind \in Kinds /\ Kind \in Used /\ Kind \notin Done
      /\ Done' = Done \cup {Kind} /\ call = "remove" /\ target \in hooks
  BY NextKind DEF FreeBuffer, CallAbout
<1>2. Live' = {p \in hooks \X Kinds : p[2] \in Used /\ ~(p[1] = target /\ p[2] \in Done \cup {Kind})}
  BY <1>1 DEF FreeBuffer, Live, Used, Order
<1>3. Live = {p \in hooks \X Kinds : p[2] \in Used /\ ~(p[1] = target /\ p[2] \in Done)}
  BY <1>1 DEF Live, Used
<1>4. <<t, k>> \in Live
  BY <1>1, <1>3
<1>5. ASSUME NEW p \in hooks \X Kinds
      PROVE  p \in Live' <=> p \in Live \ {<<t, k>>}
  <2>1. p = <<t, k>> <=> p[1] = target /\ p[2] = Kind
    BY <1>1
  <2> QED
    BY <1>2, <1>3, <2>1
<1>6. Live' = Live \ {<<t, k>>}
  BY <1>2, <1>3, <1>5
<1>7. Pending = {} /\ Pending' = {}
  BY DEF FreeBuffer, Pending
<1>8. \A p \in Live : At(p)' = At(p)
  BY DEF FreeBuffer, At
<1> QED
  BY <1>4, <1>6, <1>7, <1>8

-----------------------------------------------------------------------------
(* Where the pieces are                                                    *)

\* A piece in use is in one registered block, of the right protection.
LEMMA InItsBlock ==
  ASSUME IInv, NEW p \in Live \cup Pending
  PROVE  /\ At(p) \in Int /\ End(p) \in Int /\ At(p) < End(p)
         /\ \E c \in DOMAIN blocks :
              /\ c \in Places /\ c \in Int /\ blocks[c] \in Block
              /\ blocks[c].protect = Protect(p[2])
              /\ c <= At(p) /\ End(p) <= c + BlockSize
              /\ End(p) <= c + blocks[c].fixedSize + blocks[c].uncommittedSize
              /\ p \in Live => End(p) <= c + blocks[c].fixedSize
<1> USE DEF IInv
<1>1. Size[p[1]][p[2]] \in 1 .. BlockSize /\ BlockSize \in Nat
  BY PieceTypes, SizeAssumption
<1>2. At(p) \in Int /\ End(p) \in Int /\ At(p) < End(p)
  BY <1>1 DEF Located, End
<1>3. DOMAIN blocks \subseteq Places /\ Places \subseteq Int /\ blocks \in [DOMAIN blocks -> Block]
  BY PlacesAssumption DEF TypeOK
<1>4. CASE p \in Live
  <2>1. PICK c \in DOMAIN blocks :
          /\ blocks[c].protect = Protect(p[2])
          /\ c <= At(p) /\ End(p) <= c + blocks[c].fixedSize
    BY <1>4 DEF PiecesBacked
  <2>2. /\ blocks[c].fixedSize \in Nat /\ blocks[c].uncommittedSize \in Nat
        /\ blocks[c].fixedSize + blocks[c].uncommittedSize <= BlockSize
    BY <1>3 DEF Block, Fits
  <2> QED
    BY <1>1, <1>2, <1>3, <2>1, <2>2
<1>5. CASE p \in Pending /\ p \notin Live
  <2>1. PICK c \in DOMAIN blocks : InFresh(p, c)
    BY <1>5 DEF PendingBacked
  <2>2. /\ blocks[c].fixedSize \in Nat /\ blocks[c].uncommittedSize \in Nat
        /\ blocks[c].fixedSize + blocks[c].uncommittedSize <= BlockSize
    BY <1>3 DEF Block, Fits
  <2> QED
    BY <1>1, <1>2, <1>3, <1>5, <2>1, <2>2 DEF InFresh
<1> QED
  BY <1>4, <1>5

\* A place without a block has no piece in it.
LEMMA NothingElsewhere ==
  ASSUME IInv, NEW b \in Places \ DOMAIN blocks
  PROVE  InBlock(Live, b) = {} /\ InBlock(Pending, b) = {}
<1>1. ASSUME NEW p \in Live \cup Pending, b <= At(p), At(p) < b + BlockSize
      PROVE  FALSE
  <2>1. PICK c \in DOMAIN blocks : c \in Places /\ c <= At(p) /\ End(p) <= c + BlockSize
    BY InItsBlock
  <2>2. At(p) \in Int /\ At(p) < c + BlockSize
    BY <2>1, InItsBlock, PlacesAssumption, SizeAssumption
  <2>3. b = c
    BY <1>1, <2>1, <2>2, OneBlock
  <2> QED
    BY <2>3
<1> QED
  BY <1>1 DEF InBlock

\* The block to allocate from, new or not, allows the piece, has room for it and
\* counts what is in it.
LEMMA BlockChosen ==
  ASSUME IInv, NEW b \in Places, NEW t \in Targets, NEW k \in Kinds, GetMemoryBlock(b, t, k)
  PROVE  /\ With(b, k) \in [DOMAIN blocks \cup {b} -> Block]
         /\ \A c \in DOMAIN blocks : With(b, k)[c] = blocks[c]
         /\ With(b, k)[b].protect = Protect(k)
         /\ With(b, k)[b].fixedSize + With(b, k)[b].uncommittedSize + Size[t][k] <= BlockSize
         /\ With(b, k)[b].fixedCount = Cardinality(InBlock(Live, b))
         /\ With(b, k)[b].uncommittedCount = Cardinality(InBlock(Pending, b))
<1> USE DEF IInv
<1>1. Size[t][k] \in 1 .. BlockSize /\ BlockSize \in Nat
  BY SizeAssumption
<1>2. Protect(k) \in {"code", "data"}
  BY DEF Protect
<1>3. With(b, k) \in [DOMAIN blocks \cup {b} -> Block] /\ \A c \in DOMAIN blocks : With(b, k)[c] = blocks[c]
  BY <1>2 DEF With, Block, TypeOK
<1>4. CASE b \in DOMAIN blocks
  BY <1>3, <1>4 DEF GetMemoryBlock, Usable, HasRoom, CountsRight
<1>5. CASE b \notin DOMAIN blocks
  <2>1. With(b, k)[b] = [protect |-> Protect(k), fixedSize |-> 0, fixedCount |-> 0,
                         uncommittedSize |-> 0, uncommittedCount |-> 0]
    BY <1>5 DEF With
  <2>2. Cardinality(InBlock(Live, b)) = 0 /\ Cardinality(InBlock(Pending, b)) = 0
    BY <1>5, NothingElsewhere, FS_EmptySet
  <2> QED
    BY <1>1, <1>3, <2>1, <2>2
<1> QED
  BY <1>4, <1>5

-----------------------------------------------------------------------------
(* Each action keeps the invariant                                         *)

\* What the invariant says of the pieces and the blocks.
Kept == Fits /\ PendingBacked /\ PiecesBacked /\ CountsRight /\ PiecesDisjoint /\ Located

\* The actions that touch neither blocks nor pieces.
LEMMA CallKeeps ==
  ASSUME IInv, NEW t \in Targets, BeginCreate(t) \/ BeginRemove(t) \/ EndRemove \/ CreationFails
  PROVE  Kept'
<1> USE DEF IInv
<1>1. Live' = Live /\ Pending' = Pending /\ \A p \in Live : At(p)' = At(p)
  BY CallPieces
<1>2. blocks' = blocks
  BY DEF BeginCreate, BeginRemove, EndRemove, CreationFails
<1>3. \A p \in Live \cup Pending : At(p)' = At(p)
  BY <1>1 DEF BeginCreate, BeginRemove, EndRemove, CreationFails, Pending, At
<1>4. \A p \in Live \cup Pending : End(p)' = End(p)
  BY <1>3 DEF End
<1>5. Fits' /\ Located'
  BY <1>1, <1>2, <1>3 DEF Fits, Located
<1>6. PendingBacked' /\ PiecesBacked'
  BY <1>1, <1>2, <1>3, <1>4 DEF PendingBacked, PiecesBacked, InFresh
<1>7. PiecesDisjoint'
  BY <1>1, <1>3, <1>4 DEF PiecesDisjoint
<1>8. \A b : InBlock(Live, b)' = InBlock(Live, b) /\ InBlock(Pending, b)' = InBlock(Pending, b)
  BY <1>1, <1>3 DEF InBlock
<1>9. CountsRight'
  BY <1>2, <1>8 DEF CountsRight
<1> QED
  BY <1>5, <1>6, <1>7, <1>9 DEF Kept

\* AllocationFails at most registers an empty block.
LEMMA FailureKeeps ==
  ASSUME IInv, NEW b \in Places, AllocationFails(b)
  PROVE  Kept' /\ TypeOK' /\ CallAbout'
<1> USE DEF IInv
<1> DEFINE k == Kind
           W == With(b, k)
<1>1. /\ target \in Targets \ hooks /\ call = "create" /\ call' = "rollback"
      /\ UNCHANGED <<hooks, address, target, count>> /\ blocks' = W
      /\ count < Len(Order) /\ GetMemoryBlock(b, target, k)
  BY DEF AllocationFails, CallAbout
<1>2. k \in Kinds
  BY <1>1, OrderFacts DEF Kind, TypeOK
<1>3. /\ W \in [DOMAIN blocks \cup {b} -> Block]
      /\ \A c \in DOMAIN blocks : W[c] = blocks[c]
      /\ W[b].fixedSize + W[b].uncommittedSize + Size[target][k] <= BlockSize
      /\ W[b].fixedCount = Cardinality(InBlock(Live, b))
      /\ W[b].uncommittedCount = Cardinality(InBlock(Pending, b))
  BY <1>1, <1>2, BlockChosen
<1> HIDE DEF k, W
<1>4. Live' = Live /\ Pending' = Pending
  BY <1>1 DEF Live, Pending, Done, Order
<1>5. \A p : At(p)' = At(p) /\ End(p)' = End(p)
  BY <1>1 DEF At, End
<1>6. DOMAIN blocks' = DOMAIN blocks \cup {b}
  BY <1>1, <1>3
<1>7. Size[target][k] \in Nat /\ W[b].fixedSize \in Nat /\ W[b].uncommittedSize \in Nat /\ BlockSize \in Nat
  BY <1>1, <1>2, <1>3, SizeAssumption DEF Block
<1>8. Fits' /\ Located'
  BY <1>1, <1>3, <1>4, <1>5, <1>6, <1>7 DEF Fits, Located
<1>9. PendingBacked'
  BY <1>1, <1>3, <1>4, <1>5, <1>6 DEF PendingBacked, InFresh
<1>10. PiecesBacked'
  BY <1>1, <1>3, <1>4, <1>5, <1>6 DEF PiecesBacked
<1>11. PiecesDisjoint'
  BY <1>4, <1>5 DEF PiecesDisjoint
<1>12. \A c : InBlock(Live, c)' = InBlock(Live, c) /\ InBlock(Pending, c)' = InBlock(Pending, c)
  BY <1>4, <1>5 DEF InBlock
<1>13. CountsRight'
  BY <1>1, <1>3, <1>6, <1>12 DEF CountsRight
<1>14. TypeOK'
  BY <1>1, <1>3, <1>6 DEF TypeOK, Order
<1>15. CallAbout'
  BY <1>1 DEF CallAbout
<1> QED
  BY <1>8, <1>9, <1>10, <1>11, <1>13, <1>14, <1>15 DEF Kept

\* A block with another uncommitted part.
LEMMA BlockGrows ==
  ASSUME NEW r \in Block, NEW size \in Nat
  PROVE  LET g == [r EXCEPT !.uncommittedSize = @ + size, !.uncommittedCount = @ + 1] IN
         /\ g \in Block /\ g.protect = r.protect
         /\ g.fixedSize = r.fixedSize /\ g.fixedCount = r.fixedCount
         /\ g.uncommittedSize = r.uncommittedSize + size
         /\ g.uncommittedCount = r.uncommittedCount + 1
<1>1. r.uncommittedSize + size \in Nat /\ r.uncommittedCount + 1 \in Nat
  BY DEF Block
<1>2. ASSUME NEW m \in Nat, NEW n \in Nat
      PROVE  LET g == [r EXCEPT !.uncommittedSize = m, !.uncommittedCount = n] IN
             /\ g \in Block /\ g.protect = r.protect
             /\ g.fixedSize = r.fixedSize /\ g.fixedCount = r.fixedCount
             /\ g.uncommittedSize = m /\ g.uncommittedCount = n
  BY DEF Block
<1> QED
  BY <1>1, <1>2

\* AllocateBuffer puts a piece behind all that has been given out of its block.
LEMMA AllocationKeeps ==
  ASSUME IInv, NEW b \in Places, AllocateBuffer(b)
  PROVE  Kept' /\ TypeOK' /\ CallAbout'
<1> USE DEF IInv
<1>1. PICK k, t : k = Kind /\ t = target
  OBVIOUS
<1> DEFINE W == With(b, k)
           q == <<t, k>>
<1>2. /\ t \in Targets \ hooks /\ call = "create" /\ count < Len(Order)
      /\ GetMemoryBlock(b, t, k) /\ UNCHANGED <<hooks, call, target>> /\ count' = count + 1
      /\ blocks' = [W EXCEPT ![b].uncommittedSize = @ + Size[t][k], ![b].uncommittedCount = @ + 1]
  BY <1>1 DEF AllocateBuffer, CallAbout
<1>3. /\ Live' = Live /\ Pending' = Pending \cup {q} /\ q \in Targets \X Kinds
      /\ q \notin Live \cup Pending /\ \A p \in Live \cup Pending : At(p)' = At(p)
      /\ At(q)' = b + W[b].fixedSize + W[b].uncommittedSize
  BY <1>1, AllocatePieces
<1>4. /\ W \in [DOMAIN blocks \cup {b} -> Block]
      /\ \A c \in DOMAIN blocks : W[c] = blocks[c]
      /\ W[b].protect = Protect(k)
      /\ W[b].fixedSize + W[b].uncommittedSize + Size[t][k] <= BlockSize
      /\ W[b].fixedCount = Cardinality(InBlock(Live, b))
      /\ W[b].uncommittedCount = Cardinality(InBlock(Pending, b))
  BY <1>2, <1>3, BlockChosen
<1> HIDE DEF W
<1>5. /\ Size[t][k] \in Nat \ {0} /\ BlockSize \in Nat /\ b \in Int
      /\ W[b].fixedSize \in Nat /\ W[b].uncommittedSize \in Nat
      /\ W[b].fixedCount \in Nat /\ W[b].uncommittedCount \in Nat
  BY <1>3, <1>4, SizeAssumption, PlacesAssumption DEF Block
<1>6. /\ DOMAIN blocks' = DOMAIN blocks \cup {b} /\ blocks' \in [DOMAIN blocks \cup {b} -> Block]
      /\ \A c \in DOMAIN blocks \ {b} : blocks'[c] = blocks[c]
      /\ blocks'[b] = [W[b] EXCEPT !.uncommittedSize = @ + Size[t][k], !.uncommittedCount = @ + 1]
  <2>1. W[b] \in Block
    BY <1>4
  <2>2. [W[b] EXCEPT !.uncommittedSize = @ + Size[t][k], !.uncommittedCount = @ + 1] \in Block
    BY <1>5, <2>1, BlockGrows
  <2> QED
    BY <1>2, <1>4, <2>2
<1>7. /\ blocks'[b].protect = Protect(k) /\ blocks'[b].fixedSize = W[b].fixedSize
      /\ blocks'[b].uncommittedSize = W[b].uncommittedSize + Size[t][k]
      /\ blocks'[b].fixedCount = W[b].fixedCount
      /\ blocks'[b].uncommittedCount = W[b].uncommittedCount + 1
  <2>1. W[b] \in Block
    BY <1>4
  <2> DEFINE g == [W[b] EXCEPT !.uncommittedSize = @ + Size[t][k], !.uncommittedCount = @ + 1]
  <2>2. /\ g.protect = W[b].protect /\ g.fixedSize = W[b].fixedSize
        /\ g.fixedCount = W[b].fixedCount
        /\ g.uncommittedSize = W[b].uncommittedSize + Size[t][k]
        /\ g.uncommittedCount = W[b].uncommittedCount + 1
    BY <1>5, <2>1, BlockGrows
  <2>3. blocks'[b] = g
    BY <1>6
  <2> HIDE DEF g
  <2> QED
    BY <1>4, <2>2, <2>3
<1>8. \A c \in DOMAIN blocks : /\ blocks'[c].protect = blocks[c].protect
                               /\ blocks'[c].fixedSize = blocks[c].fixedSize
                               /\ blocks[c].uncommittedSize \in Nat
                               /\ blocks'[c].uncommittedSize \in Nat
                               /\ blocks[c].uncommittedSize <= blocks'[c].uncommittedSize
  <2> TAKE c \in DOMAIN blocks
  <2>1. blocks[c] \in Block /\ blocks[c].uncommittedSize \in Nat
    BY DEF TypeOK, Block
  <2>2. CASE c = b
    BY <1>4, <1>5, <1>7, <2>1, <2>2
  <2>3. CASE c # b
    BY <1>6, <2>1, <2>3
  <2> QED
    BY <2>2, <2>3
<1>9. \A p \in Live \cup Pending : End(p)' = End(p)
  BY <1>3 DEF End
<1>10. End(q)' = At(q)' + Size[t][k] /\ At(q)' \in Int
  BY <1>3, <1>5 DEF End
<1>11. Fits'
  <2>1. blocks'[b].fixedSize + blocks'[b].uncommittedSize <= BlockSize
    BY <1>4, <1>5, <1>7
  <2>2. \A c \in DOMAIN blocks \ {b} : blocks'[c].fixedSize + blocks'[c].uncommittedSize <= BlockSize
    BY <1>6 DEF Fits
  <2> QED
    BY <1>6, <2>1, <2>2 DEF Fits
<1>12. Located'
  BY <1>3, <1>10 DEF Located
<1>13. PendingBacked'
  <2>1. InFresh(q, b)'
    BY <1>3, <1>5, <1>7, <1>10 DEF InFresh
  <2>2. ASSUME NEW p \in Pending PROVE \E c \in DOMAIN blocks' : InFresh(p, c)'
    <3>1. PICK c \in DOMAIN blocks : InFresh(p, c)
      BY DEF PendingBacked
    <3>2. c \in Int /\ blocks[c].fixedSize \in Nat /\ End(p) \in Int
      BY InItsBlock, PlacesAssumption DEF TypeOK, Block
    <3>3. InFresh(p, c)'
      BY <1>3, <1>8, <1>9, <3>1, <3>2 DEF InFresh
    <3> QED
      BY <1>6, <3>3
  <2> QED
    BY <1>3, <1>6, <2>1, <2>2 DEF PendingBacked
<1>14. PiecesBacked'
  BY <1>3, <1>6, <1>8, <1>9 DEF PiecesBacked
<1>15. PiecesDisjoint'
  <2>1. ASSUME NEW p \in Live \cup Pending
        PROVE  End(p)' <= At(q)' \/ End(q)' <= At(p)'
    <3>1. At(p) \in Int /\ End(p) \in Int
      BY InItsBlock
    <3>2. PICK c \in DOMAIN blocks :
            /\ c \in Places /\ c \in Int /\ blocks[c] \in Block
            /\ c <= At(p) /\ End(p) <= c + BlockSize
            /\ End(p) <= c + blocks[c].fixedSize + blocks[c].uncommittedSize
      BY InItsBlock
    <3>3. CASE c = b
      BY <1>3, <1>4, <1>5, <1>9, <3>1, <3>2, <3>3
    <3>4. CASE c # b
      <4>1. c + BlockSize <= b \/ b + BlockSize <= c
        BY <1>5, <3>2, <3>4, PlacesAssumption
      <4> QED
        BY <1>3, <1>4, <1>5, <1>9, <1>10, <3>1, <3>2, <4>1
    <3> QED
      BY <3>3, <3>4
  <2> QED
    BY <1>3, <1>9, <2>1 DEF PiecesDisjoint
<1>16. CountsRight'
  <2>1. \A c : InBlock(Live, c)' = InBlock(Live, c)
    BY <1>3 DEF InBlock
  <2>2. InBlock(Pending, b)' = InBlock(Pending, b) \cup {q}
    <3>1. b <= At(q)' /\ At(q)' < b + BlockSize
      BY <1>3, <1>4, <1>5
    <3> QED
      BY <1>3, <3>1 DEF InBlock
  <2>3. ASSUME NEW c \in DOMAIN blocks, c # b PROVE InBlock(Pending, c)' = InBlock(Pending, c)
    <3>1. b <= At(q)' /\ At(q)' < b + BlockSize
      BY <1>3, <1>4, <1>5
    <3>2. c \in Places
      BY DEF TypeOK
    <3>3. ~(c <= At(q)' /\ At(q)' < c + BlockSize)
      BY <1>10, <2>3, <3>1, <3>2, OneBlock
    <3> QED
      BY <1>3, <3>3 DEF InBlock
  <2>4. IsFiniteSet(InBlock(Pending, b)) /\ q \notin InBlock(Pending, b)
    BY <1>3, PiecesFinite, FS_Subset DEF InBlock
  <2>5. Cardinality(InBlock(Pending, b)') = Cardinality(InBlock(Pending, b)) + 1
    BY <2>2, <2>4, FS_AddElement
  <2> QED
    BY <1>4, <1>6, <1>7, <2>1, <2>3, <2>5, ZenonT(30) DEF CountsRight
<1>17. TypeOK'
  <2>1. address' \in [Targets -> [Kinds -> Int \cup {Null}]]
    <3>1. address' = [address EXCEPT ![t][k] = b + W[b].fixedSize + W[b].uncommittedSize]
      BY <1>1 DEF AllocateBuffer, W
    <3>2. address \in [Targets -> [Kinds -> Int \cup {Null}]]
      BY DEF TypeOK
    <3>3. b + W[b].fixedSize + W[b].uncommittedSize \in Int
      BY <1>5
    <3> QED
      BY <3>1, <3>2, <3>3
  <2>2. DOMAIN blocks' \subseteq Places /\ blocks' \in [DOMAIN blocks' -> Block]
    BY <1>6 DEF TypeOK
  <2>3. count' \in 0 .. Len(Order)'
    BY <1>2, OrderFacts DEF TypeOK, Order
  <2> QED
    BY <1>2, <2>1, <2>2, <2>3 DEF TypeOK
<1>18. CallAbout'
  BY <1>1, <1>2 DEF CallAbout
<1> QED
  BY <1>11, <1>12, <1>13, <1>14, <1>15, <1>16, <1>17, <1>18 DEF Kept

\* CommitBuffer turns what is uncommitted in a block into what is committed.
LEMMA CommitKeeps ==
  ASSUME IInv, CommitBuffer
  PROVE  Kept' /\ TypeOK' /\ CallAbout'
<1> USE DEF IInv
<1>1. /\ Live' = Live \cup Pending /\ Pending' = {} /\ Live \cap Pending = {}
      /\ \A p \in Live \cup Pending : At(p)' = At(p)
  BY CommitPieces
<1>2. \A p \in Live \cup Pending : End(p)' = End(p)
  BY <1>1 DEF End
<1>3. DOMAIN blocks' = DOMAIN blocks /\ blocks' \in [DOMAIN blocks -> Block]
      /\ \A b \in DOMAIN blocks :
           /\ blocks'[b].protect = blocks[b].protect
           /\ blocks'[b].fixedSize = blocks[b].fixedSize + blocks[b].uncommittedSize
           /\ blocks'[b].fixedCount = blocks[b].fixedCount + blocks[b].uncommittedCount
           /\ blocks'[b].uncommittedSize = 0 /\ blocks'[b].uncommittedCount = 0
           /\ blocks[b].fixedSize \in Nat /\ blocks[b].uncommittedSize \in Nat
           /\ blocks[b].fixedCount \in Nat /\ blocks[b].uncommittedCount \in Nat
  <2> DEFINE made(r, m, n) == [r EXCEPT !.fixedSize = m, !.fixedCount = n,
                                        !.uncommittedSize = 0, !.uncommittedCount = 0]
  <2>1. ASSUME NEW r \in Block, NEW m \in Nat, NEW n \in Nat
        PROVE  /\ made(r, m, n) \in Block /\ made(r, m, n).protect = r.protect
               /\ made(r, m, n).fixedSize = m /\ made(r, m, n).fixedCount = n
               /\ made(r, m, n).uncommittedSize = 0 /\ made(r, m, n).uncommittedCount = 0
    BY DEF Block
  <2>2. ASSUME NEW b \in DOMAIN blocks
        PROVE  /\ blocks[b] \in Block
               /\ blocks[b].fixedSize \in Nat /\ blocks[b].uncommittedSize \in Nat
               /\ blocks[b].fixedCount \in Nat /\ blocks[b].uncommittedCount \in Nat
    BY DEF TypeOK, Block
  <2> DEFINE g(b) == made(blocks[b], blocks[b].fixedSize + blocks[b].uncommittedSize,
                          blocks[b].fixedCount + blocks[b].uncommittedCount)
  <2>3. blocks' = [b \in DOMAIN blocks |-> g(b)]
    BY DEF CommitBuffer
  <2>4. ASSUME NEW b \in DOMAIN blocks
        PROVE  /\ g(b) \in Block /\ g(b).protect = blocks[b].protect
               /\ g(b).fixedSize = blocks[b].fixedSize + blocks[b].uncommittedSize
               /\ g(b).fixedCount = blocks[b].fixedCount + blocks[b].uncommittedCount
               /\ g(b).uncommittedSize = 0 /\ g(b).uncommittedCount = 0
    <3>1. /\ blocks[b].fixedSize + blocks[b].uncommittedSize \in Nat
          /\ blocks[b].fixedCount + blocks[b].uncommittedCount \in Nat
      BY <2>2
    <3>2. PICK m \in Nat, n \in Nat : /\ m = blocks[b].fixedSize + blocks[b].uncommittedSize
                                     /\ n = blocks[b].fixedCount + blocks[b].uncommittedCount
      BY <3>1
    <3>3. g(b) = made(blocks[b], m, n)
      BY <3>2
    <3>4. /\ made(blocks[b], m, n) \in Block /\ made(blocks[b], m, n).protect = blocks[b].protect
          /\ made(blocks[b], m, n).fixedSize = m /\ made(blocks[b], m, n).fixedCount = n
          /\ made(blocks[b], m, n).uncommittedSize = 0
          /\ made(blocks[b], m, n).uncommittedCount = 0
      <4>1. PICK r \in Block : r = blocks[b]
        BY <2>2
      <4> HIDE DEF made
      <4>2. /\ made(r, m, n) \in Block /\ made(r, m, n).protect = r.protect
            /\ made(r, m, n).fixedSize = m /\ made(r, m, n).fixedCount = n
            /\ made(r, m, n).uncommittedSize = 0 /\ made(r, m, n).uncommittedCount = 0
        BY <2>1
      <4> QED
        BY <4>1, <4>2
    <3> HIDE DEF made, g
    <3> QED
      BY <3>2, <3>3, <3>4
  <2> HIDE DEF g
  <2> QED
    BY <2>2, <2>3, <2>4
<1>4. Fits' /\ Located'
  BY <1>1, <1>3 DEF Fits, Located
<1>5. PendingBacked'
  BY <1>1 DEF PendingBacked
<1>6. PiecesBacked'
  <2> SUFFICES ASSUME NEW p \in Live \cup Pending
               PROVE  \E b \in DOMAIN blocks' : /\ blocks'[b].protect = Protect(p[2])
                                                /\ b <= At(p)'
                                                /\ End(p)' <= b + blocks'[b].fixedSize
    BY <1>1 DEF PiecesBacked
  <2>1. PICK c \in DOMAIN blocks :
          /\ c \in Int /\ blocks[c].protect = Protect(p[2]) /\ c <= At(p)
          /\ End(p) <= c + blocks[c].fixedSize + blocks[c].uncommittedSize
    BY InItsBlock
  <2> QED
    BY <1>1, <1>2, <1>3, <2>1
<1>7. PiecesDisjoint'
  BY <1>1, <1>2 DEF PiecesDisjoint
<1>8. CountsRight'
  <2> SUFFICES ASSUME NEW b \in DOMAIN blocks
               PROVE  /\ blocks'[b].fixedCount = Cardinality(InBlock(Live, b)')
                      /\ blocks'[b].uncommittedCount = Cardinality(InBlock(Pending, b)')
    BY <1>3 DEF CountsRight
  <2>1. InBlock(Live, b)' = InBlock(Live, b) \cup InBlock(Pending, b)
    BY <1>1 DEF InBlock
  <2>2. InBlock(Pending, b)' = {} /\ InBlock(Live, b) \cap InBlock(Pending, b) = {}
    BY <1>1 DEF InBlock
  <2>3. IsFiniteSet(InBlock(Live, b)) /\ IsFiniteSet(InBlock(Pending, b))
    BY PiecesFinite, FS_Subset DEF InBlock
  <2>4. Cardinality(InBlock(Live, b)') = Cardinality(InBlock(Live, b)) + Cardinality(InBlock(Pending, b)) - 0
    BY <2>1, <2>2, <2>3, FS_Union, FS_EmptySet
  <2>5. /\ blocks[b].fixedCount = Cardinality(InBlock(Live, b))
        /\ blocks[b].uncommittedCount = Cardinality(InBlock(Pending, b))
    BY DEF CountsRight
  <2> QED
    BY <1>3, <2>2, <2>4, <2>5, FS_EmptySet
<1>9. CallAbout' /\ TypeOK'
  <2>1. target \in Targets
    BY DEF CommitBuffer, CallAbout
  <2>2. /\ hooks' = hooks \cup {target} /\ address' = address
        /\ call' = "none" /\ target' = Null /\ count' = 0
    BY DEF CommitBuffer
  <2> QED
    BY <1>3, <2>1, <2>2, OrderFacts DEF CallAbout, TypeOK, Order
<1> QED
  BY <1>4, <1>5, <1>6, <1>7, <1>8, <1>9 DEF Kept

\* RollbackBuffer releases blocks that hold no piece of a hook, and no other.
LEMMA RollbackKeeps ==
  ASSUME IInv, RollbackBuffer
  PROVE  Kept' /\ TypeOK' /\ CallAbout'
<1> USE DEF IInv
<1>1. Live' = Live /\ Pending' = {} /\ \A p \in Live : At(p)' = At(p)
  BY RollbackPieces
<1>2. \A p \in Live : End(p)' = End(p)
  BY <1>1 DEF End
<1>3. /\ DOMAIN blocks' \subseteq DOMAIN blocks /\ blocks' \in [DOMAIN blocks' -> Block]
      /\ \A b \in DOMAIN blocks : blocks[b].fixedCount # 0 => b \in DOMAIN blocks'
      /\ \A b \in DOMAIN blocks' :
           /\ blocks'[b].protect = blocks[b].protect
           /\ blocks'[b].fixedSize = blocks[b].fixedSize
           /\ blocks'[b].fixedCount = blocks[b].fixedCount
           /\ blocks'[b].uncommittedSize = 0 /\ blocks'[b].uncommittedCount = 0
           /\ blocks[b].fixedSize \in Nat /\ blocks[b].uncommittedSize \in Nat
  <2>1. \A b \in DOMAIN blocks :
          /\ blocks[b] \in Block
          /\ blocks[b].fixedSize \in Nat /\ blocks[b].uncommittedSize \in Nat
    BY DEF TypeOK, Block
  <2> DEFINE g(b) == [blocks[b] EXCEPT !.uncommittedSize = 0, !.uncommittedCount = 0]
             D == {b \in DOMAIN blocks : blocks[b].uncommittedSize = 0 \/ blocks[b].fixedCount # 0}
  <2>2. blocks' = [b \in D |-> g(b)]
    BY DEF RollbackBuffer
  <2>3. ASSUME NEW b \in DOMAIN blocks
        PROVE  /\ g(b) \in Block /\ g(b).protect = blocks[b].protect
               /\ g(b).fixedSize = blocks[b].fixedSize /\ g(b).fixedCount = blocks[b].fixedCount
               /\ g(b).uncommittedSize = 0 /\ g(b).uncommittedCount = 0
    BY <2>1 DEF Block
  <2> HIDE DEF g
  <2> QED
    BY <2>1, <2>2, <2>3
<1>4. Fits' /\ Located'
  <2>1. \A b \in DOMAIN blocks' : blocks'[b].fixedSize + blocks'[b].uncommittedSize <= BlockSize
    BY <1>3, SizeAssumption DEF Fits
  <2> QED
    BY <1>1, <2>1 DEF Fits, Located
<1>5. PendingBacked'
  BY <1>1 DEF PendingBacked
<1>6. PiecesBacked'
  <2> SUFFICES ASSUME NEW p \in Live
               PROVE  \E b \in DOMAIN blocks' : /\ blocks'[b].protect = Protect(p[2])
                                                /\ b <= At(p)'
                                                /\ End(p)' <= b + blocks'[b].fixedSize
    BY <1>1 DEF PiecesBacked
  <2>1. PICK c \in DOMAIN blocks :
          /\ c \in Int /\ blocks[c].protect = Protect(p[2]) /\ c <= At(p)
          /\ End(p) <= c + BlockSize /\ End(p) <= c + blocks[c].fixedSize
    BY InItsBlock
  <2>2. p \in InBlock(Live, c)
    BY <2>1, InItsBlock, SizeAssumption DEF InBlock
  <2>3. IsFiniteSet(InBlock(Live, c))
    BY PiecesFinite, FS_Subset DEF InBlock
  <2>4. blocks[c].fixedCount # 0
    BY <2>2, <2>3, FS_EmptySet DEF CountsRight
  <2> QED
    BY <1>1, <1>2, <1>3, <2>1, <2>4
<1>7. PiecesDisjoint'
  BY <1>1, <1>2 DEF PiecesDisjoint
<1>8. CountsRight'
  <2>1. \A b : InBlock(Live, b)' = InBlock(Live, b) /\ InBlock(Pending, b)' = {}
    BY <1>1 DEF InBlock
  <2> QED
    BY <1>3, <2>1, FS_EmptySet DEF CountsRight
<1>9. CallAbout'
  BY DEF RollbackBuffer, CallAbout
<1>10. TypeOK'
  <2>1. address' \in [Targets -> [Kinds -> Int \cup {Null}]]
    BY DEF RollbackBuffer, TypeOK, NoPieces
  <2>2. hooks' = hooks /\ call' = "none" /\ target' = Null /\ count' = 0
    BY DEF RollbackBuffer
  <2> QED
    BY <1>3, <2>1, <2>2, OrderFacts DEF TypeOK, Order
<1> QED
  BY <1>4, <1>5, <1>6, <1>7, <1>8, <1>9, <1>10 DEF Kept

\* FreeBuffer releases a block with its last piece only.
LEMMA FreeKeeps ==
  ASSUME IInv, NEW b \in DOMAIN blocks, FreeBuffer(b)
  PROVE  Kept' /\ TypeOK' /\ CallAbout'
<1> USE DEF IInv
<1>1. PICK k, t : k = Kind /\ t = target
  OBVIOUS
<1> DEFINE q == <<t, k>>
<1>2. /\ q \in Live /\ Live' = Live \ {q} /\ Pending = {} /\ Pending' = {}
      /\ \A p \in Live : At(p)' = At(p)
  BY <1>1, FreePieces
<1>3. \A p \in Live : End(p)' = End(p)
  BY <1>2 DEF End
<1>4. /\ call = "remove" /\ count < Len(Order) /\ Holds(b, At(q)) /\ count' = count + 1
      /\ UNCHANGED <<hooks, address, call, target>>
  BY <1>1 DEF FreeBuffer, At
<1>5. /\ b \in Places /\ b \in Int /\ blocks[b] \in Block /\ BlockSize \in Nat
      /\ blocks[b].fixedSize \in Nat /\ blocks[b].uncommittedSize \in Nat
      /\ blocks[b].fixedCount \in Nat
  BY PlacesAssumption, SizeAssumption DEF TypeOK, Block
<1>6. /\ At(q) \in Int /\ At(q) < End(q)
      /\ b <= At(q) /\ At(q) < b + BlockSize
  <2>1. At(q) \in Int /\ At(q) < End(q)
    BY <1>2, InItsBlock
  <2>2. b <= At(q) /\ At(q) < b + blocks[b].fixedSize
    BY <1>4 DEF Holds
  <2>3. blocks[b].fixedSize + blocks[b].uncommittedSize <= BlockSize
    BY DEF Fits
  <2> QED
    BY <1>5, <2>1, <2>2, <2>3
<1>7. \A c \in DOMAIN blocks : InBlock(Live, c)' = InBlock(Live, c) \ {q}
  BY <1>2 DEF InBlock
<1>8. q \in InBlock(Live, b) /\ IsFiniteSet(InBlock(Live, b))
  BY <1>2, <1>6, PiecesFinite, FS_Subset DEF InBlock
<1>9. \A c \in DOMAIN blocks : c # b => q \notin InBlock(Live, c)
  BY <1>5, <1>6, OneBlock DEF InBlock, TypeOK
<1>10. blocks[b].fixedCount = Cardinality(InBlock(Live, b)) /\ blocks[b].fixedCount # 0
  BY <1>8, FS_EmptySet DEF CountsRight
<1>11. /\ DOMAIN blocks' = IF blocks[b].fixedCount = 1 THEN DOMAIN blocks \ {b} ELSE DOMAIN blocks
       /\ \A c \in DOMAIN blocks \ {b} : blocks'[c] = blocks[c]
       /\ blocks[b].fixedCount # 1 =>
            /\ blocks'[b] \in Block /\ blocks'[b].protect = blocks[b].protect
            /\ blocks'[b].fixedSize = blocks[b].fixedSize
            /\ blocks'[b].fixedCount = blocks[b].fixedCount - 1
            /\ blocks'[b].uncommittedSize = blocks[b].uncommittedSize
            /\ blocks'[b].uncommittedCount = blocks[b].uncommittedCount
  <2>1. CASE blocks[b].fixedCount = 1
    BY <2>1 DEF FreeBuffer
  <2>2. CASE blocks[b].fixedCount # 1
    <3> DEFINE g == [blocks[b] EXCEPT !.fixedCount = @ - 1]
    <3>1. PICK n \in Nat : n = blocks[b].fixedCount - 1
      BY <1>5, <1>10
    <3>2. /\ g \in Block /\ g.protect = blocks[b].protect
          /\ g.fixedSize = blocks[b].fixedSize /\ g.fixedCount = n
          /\ g.uncommittedSize = blocks[b].uncommittedSize
          /\ g.uncommittedCount = blocks[b].uncommittedCount
      BY <1>5, <3>1 DEF Block
    <3>3. blocks' = [blocks EXCEPT ![b] = g]
      BY <2>2 DEF FreeBuffer
    <3>4. blocks \in [DOMAIN blocks -> Block]
      BY DEF TypeOK
    <3> HIDE DEF g
    <3> QED
      BY <2>2, <3>1, <3>2, <3>3, <3>4
  <2> QED
    BY <2>1, <2>2
<1>12. Fits'
  BY <1>11 DEF Fits
<1>13. PendingBacked'
  BY <1>2 DEF PendingBacked
<1>14. Located' /\ PiecesDisjoint'
  BY <1>2, <1>3 DEF Located, PiecesDisjoint
<1>15. PiecesBacked'
  <2> SUFFICES ASSUME NEW p \in Live \ {q}
               PROVE  \E c \in DOMAIN blocks' : /\ blocks'[c].protect = Protect(p[2])
                                                /\ c <= At(p)'
                                                /\ End(p)' <= c + blocks'[c].fixedSize
    BY <1>2 DEF PiecesBacked
  <2>1. PICK c \in DOMAIN blocks :
          /\ c \in Int /\ blocks[c].protect = Protect(p[2]) /\ c <= At(p)
          /\ End(p) <= c + BlockSize /\ End(p) <= c + blocks[c].fixedSize
    BY InItsBlock
  <2>2. p \in InBlock(Live, c)
    BY <2>1, InItsBlock, SizeAssumption DEF InBlock
  <2>3. ASSUME blocks[b].fixedCount = 1 PROVE c # b
    <3>1. PICK r : InBlock(Live, b) = {r}
      BY <1>8, <1>10, <2>3, FS_Singleton
    <3> QED
      BY <1>8, <2>2, <3>1
  <2> QED
    BY <1>2, <1>3, <1>11, <2>1, <2>3
<1>16. CountsRight'
  <2>1. Cardinality(InBlock(Live, b)') = Cardinality(InBlock(Live, b)) - 1
    BY <1>7, <1>8, FS_RemoveElement
  <2>2. \A c \in DOMAIN blocks \ {b} : InBlock(Live, c)' = InBlock(Live, c)
    BY <1>7, <1>9
  <2>3. \A c : InBlock(Pending, c)' = InBlock(Pending, c)
    BY <1>2 DEF InBlock
  <2> QED
    BY <1>10, <1>11, <2>1, <2>2, <2>3 DEF CountsRight
<1>17. TypeOK' /\ CallAbout'
  <2>1. DOMAIN blocks' \subseteq Places /\ blocks' \in [DOMAIN blocks' -> Block]
    <3>1. blocks' = [c \in DOMAIN blocks' |-> blocks'[c]]
      BY DEF FreeBuffer
    <3>2. \A c \in DOMAIN blocks' : blocks'[c] \in Block
      BY <1>11 DEF TypeOK
    <3> QED
      BY <1>11, <3>1, <3>2 DEF TypeOK
  <2>2. count' \in 0 .. Len(Order)'
    BY <1>4, OrderFacts DEF TypeOK, Order
  <2> QED
    BY <1>4, <2>1, <2>2 DEF TypeOK, CallAbout
<1> QED
  BY <1>12, <1>13, <1>14, <1>15, <1>16, <1>17 DEF Kept

\* Before the first call and after UninitializeBuffer there is nothing.
LEMMA NothingKept ==
  ASSUME blocks = <<>>, hooks = {}, call = "none"
  PROVE  Kept
<1>1. Live = {} /\ Pending = {} /\ DOMAIN blocks = {}
  BY DEF Live, Pending
<1> QED
  BY <1>1 DEF Kept, Fits, PendingBacked, PiecesBacked, CountsRight, PiecesDisjoint, Located

LEMMA Initially == Init => IInv
<1> SUFFICES ASSUME Init PROVE IInv
  OBVIOUS
<1>1. Kept
  BY NothingKept DEF Init
<1>2. TypeOK
  BY OrderFacts DEF Init, TypeOK, NoPieces
<1>3. CallAbout
  BY DEF Init, CallAbout
<1> QED
  BY <1>1, <1>2, <1>3 DEF IInv, Kept

LEMMA Stuttering == IInv /\ UNCHANGED vars => IInv'
<1> SUFFICES ASSUME IInv, UNCHANGED vars PROVE IInv'
  OBVIOUS
<1> USE DEF IInv, vars
<1>1. Live' = Live /\ Pending' = Pending
  BY DEF Live, Pending, Done, Order
<1>2. \A p : At(p)' = At(p) /\ End(p)' = End(p)
  BY DEF At, End
<1>3. \A b : InBlock(Live, b)' = InBlock(Live, b) /\ InBlock(Pending, b)' = InBlock(Pending, b)
  BY <1>1, <1>2 DEF InBlock
<1>4. TypeOK' /\ Fits' /\ CallAbout'
  BY DEF TypeOK, Fits, CallAbout, Order
<1>5. PendingBacked' /\ PiecesBacked'
  BY <1>1, <1>2 DEF PendingBacked, InFresh, PiecesBacked
<1>6. CountsRight'
  BY <1>3 DEF CountsRight
<1>7. PiecesDisjoint' /\ Located'
  BY <1>1, <1>2 DEF PiecesDisjoint, Located
<1> QED
  BY <1>4, <1>5, <1>6, <1>7

LEMMA Preserved == IInv /\ [Next]_vars => IInv'
<1> SUFFICES ASSUME IInv, Next PROVE IInv'
  BY Stuttering
<1> USE DEF IInv
<1>1. ASSUME NEW t \in Targets, BeginCreate(t) \/ BeginRemove(t) PROVE IInv'
  <2>1. Kept'
    BY <1>1, CallKeeps
  <2>2. TypeOK' /\ CallAbout'
    BY <1>1, OrderFacts, NullAssumption, TargetsAssumption
       DEF BeginCreate, BeginRemove, TypeOK, CallAbout, Order
  <2> QED
    BY <2>1, <2>2 DEF Kept
<1>2. CASE EndRemove \/ CreationFails
  <2>1. target \in Targets
    BY <1>2 DEF EndRemove, CreationFails, TypeOK
  <2>2. Kept'
    BY <1>2, <2>1, CallKeeps
  <2>3. CASE EndRemove
    <3>1. address' \in [Targets -> [Kinds -> Int \cup {Null}]]
      BY <2>3 DEF EndRemove, TypeOK, NoPieces
    <3> QED
      BY <2>2, <2>3, <3>1, OrderFacts DEF EndRemove, TypeOK, CallAbout, Order, Kept
  <2>4. CASE CreationFails
    BY <2>2, <2>4 DEF CreationFails, TypeOK, CallAbout, Order, Kept
  <2> QED
    BY <1>2, <2>3, <2>4
<1>3. CASE \E b \in Places : AllocateBuffer(b) \/ AllocationFails(b)
  BY <1>3, AllocationKeeps, FailureKeeps DEF Kept
<1>4. CASE \E b \in DOMAIN blocks : FreeBuffer(b)
  BY <1>4, FreeKeeps DEF Kept
<1>5. CASE RollbackBuffer
  BY <1>5, RollbackKeeps DEF Kept
<1>6. CASE CommitBuffer
  BY <1>6, CommitKeeps DEF Kept
<1>7. CASE UninitializeBuffer
  <2>1. blocks' = <<>> /\ hooks' = {} /\ call' = "none"
    BY <1>7 DEF UninitializeBuffer
  <2>2. Kept'
    BY <2>1 DEF Kept, Fits, PendingBacked, PiecesBacked, CountsRight, PiecesDisjoint, Located,
                Live, Pending
  <2>3. TypeOK' /\ CallAbout'
    BY <1>7, <2>1, OrderFacts DEF UninitializeBuffer, TypeOK, CallAbout, NoPieces, Order
  <2> QED
    BY <2>2, <2>3 DEF Kept
<1> QED
  BY <1>1, <1>2, <1>3, <1>4, <1>5, <1>6, <1>7 DEF Next

-----------------------------------------------------------------------------
(* The theorems                                                            *)

\* The invariant behind the theorems that follow: CreateHook, RemoveHook and the
\* calls of buffer.cpp they make keep all of it.
THEOREM Invariant == Spec => []IInv
  BY Initially, Preserved, PTL DEF Spec

\* The variables keep their types: the blocks stay at places and their counters
\* (buffer.cpp:45-52) never go below zero.
THEOREM TypeCorrect == Spec => []TypeOK
<1>1. IInv => TypeOK
  BY DEF IInv
<1> QED
  BY <1>1, Invariant, PTL

\* No two pieces in use overlap, those of a creation under way included.
THEOREM Disjoint == Spec => []PiecesDisjoint
<1>1. IInv => PiecesDisjoint
  BY DEF IInv
<1> QED
  BY <1>1, Invariant, PTL

\* No failure of a creation and no removal releases a piece of another hook.
THEOREM Backed == Spec => []PiecesBacked
<1>1. IInv => PiecesBacked
  BY DEF IInv
<1> QED
  BY <1>1, Invariant, PTL

\* Each block counts the pieces in it, through every commit, rollback and removal.
THEOREM Counted == Spec => []CountsRight
<1>1. IInv => CountsRight
  BY DEF IInv
<1> QED
  BY <1>1, Invariant, PTL

-----------------------------------------------------------------------------
(* How far the pieces are from each other                                  *)

\* A piece that AllocateBuffer places is near its origin.
LEMMA PlacedNear ==
  ASSUME IInv, NEW b \in Places, AllocateBuffer(b), NEW t, t = target, NEW k, k = Kind,
         NEW o \in Int, Origin(t, k) = o
  PROVE  Near(At(<<t, k>>)', o)
<1> USE DEF IInv
<1>1. /\ k \in Kinds /\ t \in Targets /\ GetMemoryBlock(b, t, k)
      /\ At(<<t, k>>)' = b + With(b, k)[b].fixedSize + With(b, k)[b].uncommittedSize
  BY AllocatePieces DEF AllocateBuffer
<1> DEFINE W == With(b, k)
<1>2. /\ W \in [DOMAIN blocks \cup {b} -> Block]
      /\ W[b].fixedSize + W[b].uncommittedSize + Size[t][k] <= BlockSize
  BY <1>1, BlockChosen
<1> HIDE DEF W
<1>3. /\ W[b].fixedSize \in Nat /\ W[b].uncommittedSize \in Nat /\ b \in Int
      /\ BlockSize \in Nat \ {0} /\ Size[t][k] \in Nat \ {0} /\ MaxRange \in Nat
  BY <1>1, <1>2, SizeAssumption, PlacesAssumption, RangeAssumption DEF Block
<1>4. o # Anywhere
  BY NullAssumption
<1>5. (o - MaxRange <= b /\ b < o + MaxRange) \/ (o - MaxRange < b + BlockSize /\ b <= o + MaxRange)
  BY <1>1, <1>4 DEF GetMemoryBlock, Usable, InRange, Searched
<1>6. At(<<t, k>>)' = b + W[b].fixedSize + W[b].uncommittedSize
  BY <1>1 DEF W
<1> QED
  BY <1>2, <1>3, <1>5, <1>6 DEF Near

\* AllocateBuffer keeps the pieces near their origins: the table is placed once the
\* trampoline is, and the trampoline stays where it is.
LEMMA AllocationNear ==
  ASSUME IInv, PiecesNear, X64, NEW b \in Places, AllocateBuffer(b)
  PROVE  PiecesNear'
<1> USE DEF IInv
<1>1. PICK k, t : k = Kind /\ t = target
  OBVIOUS
<1> DEFINE q == <<t, k>>
<1>2. /\ Live' = Live /\ Pending' = Pending \cup {q} /\ q \in Targets \X Kinds
      /\ q \notin Live \cup Pending /\ \A p \in Live \cup Pending : At(p)' = At(p)
  BY <1>1, AllocatePieces
<1>3. t \in Targets \ hooks /\ t \in Int /\ call = "create" /\ count < Len(Order)
  BY <1>1, TargetsAssumption DEF AllocateBuffer, CallAbout
<1>4. ASSUME k = "table" PROVE <<t, "trampoline">> \in Pending
  <2>1. count \in Nat /\ count # 0
    <3>1. count \in Nat /\ Order[count + 1] = "table"
      BY <1>1, <1>4, OrderFacts DEF Kind, TypeOK
    <3>2. count = 0 => Order[count + 1] = Order[1]
      OBVIOUS
    <3>3. Order[1] = "trampoline"
      BY OrderFacts
    <3> QED
      BY <3>1, <3>2, <3>3
  <2>2. "trampoline" \in Done
    BY <2>1, OrderFacts DEF Done
  <2> QED
    BY <1>1, <1>3, <2>2 DEF Pending
<1>5. q[2] \in {"trampoline", "relay"} => Near(At(q)', q[1])
  <2> SUFFICES ASSUME k \in {"trampoline", "relay"} PROVE Near(At(q)', t)
    OBVIOUS
  <2>1. Origin(t, k) = t
    BY DEF Origin
  <2> QED
    BY <1>1, <1>3, <2>1, PlacedNear
<1>6. ASSUME k = "table"
      PROVE  Near(At(q)', At(<<t, "trampoline">>)')
  <2>1. At(<<t, "trampoline">>) \in Int /\ At(<<t, "trampoline">>)' = At(<<t, "trampoline">>)
    BY <1>2, <1>4, <1>6 DEF Located
  <2>2. Origin(t, k) = At(<<t, "trampoline">>)
    BY <1>6 DEF Origin, At
  <2> QED
    BY <1>1, <2>1, <2>2, PlacedNear
<1>7. ASSUME NEW p \in Live \cup Pending, p[2] = "table"
      PROVE  /\ Near(At(p)', At(<<p[1], "trampoline">>)')
             /\ p \in Pending' => <<p[1], "trampoline">> \in Pending'
  <2>1. /\ Near(At(p), At(<<p[1], "trampoline">>))
        /\ p \in Pending => <<p[1], "trampoline">> \in Pending
    BY <1>7 DEF PiecesNear, At
  <2>2. p[1] = t => <<p[1], "trampoline">> \in Pending
    BY <1>2, <1>3, <2>1 DEF Live
  <2>3. At(<<p[1], "trampoline">>)' = At(<<p[1], "trampoline">>)
    <3>1. CASE p[1] = t
      BY <1>2, <2>2, <3>1
    <3>2. CASE p[1] # t
      <4>1. address' = [address EXCEPT ![t][k] = b + With(b, k)[b].fixedSize + With(b, k)[b].uncommittedSize]
        BY <1>1 DEF AllocateBuffer
      <4>2. p[1] \in Targets /\ DOMAIN address = Targets
        BY PieceTypes DEF TypeOK
      <4> QED
        BY <3>2, <4>1, <4>2 DEF At
    <3> QED
      BY <3>1, <3>2
  <2> QED
    BY <1>2, <2>1, <2>3
<1>8. ASSUME NEW p \in Live \cup Pending
      PROVE  p[2] \in {"trampoline", "relay"} => Near(At(p)', p[1])
  BY <1>2 DEF PiecesNear
<1>9. SUFFICES ASSUME NEW p \in Live' \cup Pending'
               PROVE  /\ p[2] \in {"trampoline", "relay"} => Near(At(p)', p[1])
                      /\ p[2] = "table" => Near(At(p)', At(<<p[1], "trampoline">>)')
                                           /\ (p \in Pending' => <<p[1], "trampoline">> \in Pending')
  BY DEF PiecesNear, At
<1>10. CASE p = q
  BY <1>2, <1>4, <1>5, <1>6, <1>10
<1>11. CASE p # q
  BY <1>2, <1>7, <1>8, <1>11
<1> QED
  BY <1>10, <1>11

\* No other action moves a piece or its origin.
LEMMA NearPreserved == IInv /\ PiecesNear /\ [Next]_vars => PiecesNear'
<1> SUFFICES ASSUME IInv, PiecesNear, [Next]_vars, X64 PROVE PiecesNear'
  BY DEF PiecesNear
<1> USE DEF IInv
<1>1. ASSUME /\ Live' \subseteq Live \cup Pending
             /\ Pending' = {} \/ (Pending' = Pending /\ call # "none")
             /\ \A p \in Live' \cup Pending' : address'[p[1]] = address[p[1]]
      PROVE  PiecesNear'
  <2>1. \A p \in Live' \cup Pending' : p \in Live \cup Pending /\ At(p)' = At(p)
    BY <1>1 DEF At
  <2> QED
    BY <1>1, <2>1 DEF PiecesNear
<1>2. ASSUME NEW t \in Targets, BeginCreate(t) \/ BeginRemove(t) PROVE PiecesNear'
  <2>1. Live' = Live /\ Pending' = Pending
    BY <1>2, CallPieces
  <2>2. Pending = {} /\ address' = address
    BY <1>2 DEF Pending, BeginCreate, BeginRemove
  <2> QED
    BY <1>1, <2>1, <2>2
<1>3. CASE EndRemove \/ CreationFails
  <2>1. target \in Targets
    BY <1>3 DEF EndRemove, CreationFails, TypeOK
  <2>2. Live' = Live /\ Pending' = Pending
    BY <1>3, <2>1, CallPieces
  <2>3. CASE EndRemove
    <3>1. Pending = {} /\ Done = Used
      BY <2>3, OrderFacts DEF Pending, EndRemove, Done, Used
    <3>2. \A p \in Live : p[1] \in Targets /\ p[1] # target
      BY <2>3, <3>1 DEF Live, EndRemove, Used, TypeOK
    <3>3. \A p \in Live : address'[p[1]] = address[p[1]]
      BY <2>3, <3>2 DEF EndRemove, TypeOK
    <3> QED
      BY <1>1, <2>2, <3>1, <3>3
  <2>4. CASE CreationFails
    BY <1>1, <2>2, <2>4 DEF CreationFails
  <2> QED
    BY <1>3, <2>3, <2>4
<1>4. ASSUME NEW b \in Places, AllocateBuffer(b) PROVE PiecesNear'
  BY <1>4, AllocationNear
<1>5. ASSUME NEW b \in Places, AllocationFails(b) PROVE PiecesNear'
  <2>1. Live' = Live /\ Pending' = Pending /\ address' = address /\ call # "none"
    BY <1>5 DEF AllocationFails, Live, Pending, Done, Order
  <2> QED
    BY <1>1, <2>1
<1>6. ASSUME NEW b \in DOMAIN blocks, FreeBuffer(b) PROVE PiecesNear'
  <2>1. PICK k, t : k = Kind /\ t = target
    OBVIOUS
  <2>2. Live' = Live \ {<<t, k>>} /\ Pending' = {} /\ address' = address
    BY <1>6, <2>1, FreePieces DEF FreeBuffer
  <2> QED
    BY <1>1, <2>2
<1>7. CASE RollbackBuffer
  <2>1. Live' = Live /\ Pending' = {}
    BY <1>7, RollbackPieces
  <2>2. \A p \in Live : p[1] \in Targets /\ p[1] # target
    BY <1>7 DEF Live, RollbackBuffer, CallAbout, TypeOK
  <2>3. address' = [address EXCEPT ![target] = NoPieces] /\ DOMAIN address = Targets
    BY <1>7 DEF RollbackBuffer, TypeOK
  <2>4. \A p \in Live : address'[p[1]] = address[p[1]]
    BY <2>2, <2>3
  <2> QED
    BY <1>1, <2>1, <2>4
<1>8. CASE CommitBuffer
  <2>1. Live' = Live \cup Pending /\ Pending' = {} /\ address' = address
    BY <1>8, CommitPieces DEF CommitBuffer
  <2> QED
    BY <1>1, <2>1
<1>9. CASE UninitializeBuffer
  <2>1. Live' = {} /\ Pending' = {}
    BY <1>9 DEF UninitializeBuffer, Live, Pending
  <2> QED
    BY <1>1, <2>1
<1>10. CASE UNCHANGED vars
  <2>1. Live' = Live /\ Pending' = Pending /\ address' = address
    BY <1>10 DEF vars, Live, Pending, Done, Order
  <2>2. Pending = {} \/ call # "none"
    BY DEF Pending
  <2> QED
    BY <1>1, <2>1, <2>2
<1> QED
  BY <1>2, <1>3, <1>4, <1>5, <1>6, <1>7, <1>8, <1>9, <1>10 DEF Next

\* On x64 the 32 bit displacements between a function, its trampoline, its relay
\* and their table suffice (hook.cpp:163 and :216, trampoline.cpp:145-155).
THEOREM Reach == Spec => []WithinReach
<1>1. Init => PiecesNear
  <2> SUFFICES ASSUME Init PROVE PiecesNear
    OBVIOUS
  <2>1. Live = {} /\ Pending = {}
    BY DEF Init, Live, Pending
  <2> QED
    BY <2>1 DEF PiecesNear
<1>2. IInv /\ PiecesNear => WithinReach
  <2> SUFFICES ASSUME IInv, PiecesNear, X64, call # "remove", NEW t \in hooks
               PROVE  LET near(a, b) == a - b < 4 * MaxRange /\ b - a < 4 * MaxRange
                          at == address[t]
                      IN /\ near(at["trampoline"], t) /\ near(at["relay"], t)
                         /\ near(at["trampoline"], at["table"])
                         /\ near(at["relay"], at["table"])
    BY DEF WithinReach
  <2>1. \A k \in {"trampoline", "table", "relay"} : <<t, k>> \in Live
    <3>1. \A k \in {"trampoline", "table", "relay"} : k \in Kinds /\ k \in {Order[i] : i \in DOMAIN Order}
      <4>1. Order = <<"trampoline", "table", "backup", "relay">>
        BY DEF Order
      <4>2. 1 \in DOMAIN Order /\ 2 \in DOMAIN Order /\ 4 \in DOMAIN Order
        BY <4>1
      <4> QED
        BY <4>1, <4>2 DEF Kinds
    <3> QED
      BY <3>1 DEF Live
  <2>2. /\ At(<<t, "trampoline">>) \in Int /\ At(<<t, "table">>) \in Int
        /\ At(<<t, "relay">>) \in Int
    BY <2>1 DEF IInv, Located
  <2>3. /\ Near(At(<<t, "trampoline">>), t) /\ Near(At(<<t, "relay">>), t)
        /\ Near(At(<<t, "table">>), At(<<t, "trampoline">>))
    BY <2>1 DEF PiecesNear, At
  <2>4. t \in Int /\ MaxRange \in Nat /\ BlockSize \in Nat \ {0} /\ 3 * BlockSize <= MaxRange
    BY TargetsAssumption, RangeAssumption, SizeAssumption DEF IInv, TypeOK
  <2>5. /\ address[t]["trampoline"] = At(<<t, "trampoline">>)
        /\ address[t]["table"] = At(<<t, "table">>) /\ address[t]["relay"] = At(<<t, "relay">>)
    BY DEF At
  <2> QED
    BY <2>2, <2>3, <2>4, <2>5 DEF Near
<1> QED
  BY <1>1, <1>2, NearPreserved, Invariant, PTL DEF Spec
=============================================================================
