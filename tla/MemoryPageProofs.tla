-------------------------- MODULE MemoryPageProofs --------------------------
(***************************************************************************)
(* Theorems about MemoryPage: every row of the table is painted as the     *)
(* target's heap is, whatever chunks are reported and however long rows    *)
(* and pages are; and the handler thread outlives every report during      *)
(* which nobody empties the table.                                         *)
(*                                                                         *)
(* What the recursive look-ups and the loop of paintComponent compute is   *)
(* proved by looking at the least or the greatest address at which it      *)
(* would be wrong (Least, Greatest).                                       *)
(***************************************************************************)
EXTENDS MemoryPage, SequenceTheorems, WellFoundedInduction, TLAPS

-----------------------------------------------------------------------------
(* Least and greatest elements                                             *)

LEMMA Least ==
  ASSUME NEW S \in SUBSET Nat, S # {}
  PROVE  \E m \in S : \A n \in S : m <= n
<1> DEFINE R == OpToRel(<, Nat)
<1>1. IsWellFoundedOn(R, Nat)
  BY NatLessThanWellFounded
<1>2. \A x, y \in Nat : x < y => <<x, y>> \in R
  BY DEF OpToRel
<1> HIDE DEF R
<1>3. PICK x \in S : \A y \in S : ~ (<<y, x>> \in R)
  BY <1>1, WFMin, Zenon
<1>4. \A y \in S : ~(y < x)
  BY <1>2, <1>3, Zenon
<1>5. QED
  BY <1>4

LEMMA Greatest ==
  ASSUME NEW S \in SUBSET Nat, S # {}, NEW b \in Nat, \A n \in S : n <= b
  PROVE  \E m \in S : \A n \in S : n <= m
<1> DEFINE T == {b - n : n \in S}
<1>1. T \in SUBSET Nat /\ T # {}
  <2>1. \A n \in S : b - n \in Nat
    OBVIOUS
  <2>2. QED
    BY <2>1, Zenon
<1>2. PICK t \in T : \A u \in T : t <= u
  BY <1>1, Least
<1>3. PICK m \in S : t = b - m
  OBVIOUS
<1>4. ASSUME NEW n \in S PROVE n <= m
  <2>1. b - n \in T
    OBVIOUS
  <2>2. b - m <= b - n
    BY <1>2, <1>3, <2>1
  <2>3. QED
    BY <2>2
<1>5. QED
  BY <1>4

LEMMA MinIs ==
  ASSUME NEW S \in SUBSET Int, NEW m \in S, \A n \in S : m <= n
  PROVE  Min(S) = m
<1>1. \A x \in S : (\A y \in S : x =< y) => x = m
  OBVIOUS
<1>2. QED
  BY <1>1 DEF Min

LEMMA MaxIs ==
  ASSUME NEW S \in SUBSET Int, NEW m \in S, \A n \in S : n <= m
  PROVE  Max(S) = m
<1>1. \A x \in S : (\A y \in S : x >= y) => x = m
  OBVIOUS
<1>2. \A y \in S : m >= y
  OBVIOUS
<1>3. QED
  BY <1>1, <1>2 DEF Max

LEMMA MaxOfTwo ==
  ASSUME NEW a \in Int, NEW b \in Int
  PROVE  Max({a, b}) = IF a <= b THEN b ELSE a
<1>1. CASE a <= b
  BY <1>1, MaxIs
<1>2. CASE ~(a <= b)
  BY <1>2, MaxIs
<1>3. QED
  BY <1>1, <1>2

LEMMA MinOfTwo ==
  ASSUME NEW a \in Int, NEW b \in Int
  PROVE  Min({a, b}) = IF a <= b THEN a ELSE b
<1>1. CASE a <= b
  BY <1>1, MinIs
<1>2. CASE ~(a <= b)
  BY <1>2, MinIs
<1>3. QED
  BY <1>1, <1>2

\* MinKey and MaxKey of some addresses: one of them and no less, no more than any.
LEMMA MinKeyIs ==
  ASSUME NEW S \in SUBSET Nat
  PROVE  IF S = {} THEN MinKey(S) = None
         ELSE MinKey(S) \in S /\ \A n \in S : MinKey(S) <= n
<1>1. CASE S = {}
  BY <1>1 DEF MinKey
<1>2. CASE S # {}
  <2>1. PICK m \in S : \A n \in S : m <= n
    BY <1>2, Least
  <2>2. Min(S) = m
    BY <2>1, MinIs
  <2>3. QED
    BY <1>2, <2>1, <2>2 DEF MinKey
<1>3. QED
  BY <1>1, <1>2

LEMMA MaxKeyIs ==
  ASSUME NEW S \in SUBSET Nat, NEW b \in Nat, \A n \in S : n <= b
  PROVE  IF S = {} THEN MaxKey(S) = None
         ELSE MaxKey(S) \in S /\ \A n \in S : n <= MaxKey(S)
<1>1. CASE S = {}
  BY <1>1 DEF MaxKey
<1>2. CASE S # {}
  <2>1. PICK m \in S : \A n \in S : n <= m
    BY <1>2, Greatest
  <2>2. Max(S) = m
    BY <2>1, MaxIs
  <2>3. QED
    BY <1>2, <2>1, <2>2 DEF MaxKey
<1>3. QED
  BY <1>1, <1>2

-----------------------------------------------------------------------------
(* What rectangles painted one after the other look like                   *)

Fills == [from : Int, to : Int, colour : {"yellow", "blue"}]
Over(fills, b) == {i \in 1 .. Len(fills) : fills[i].from <= b /\ b < fills[i].to}

\* The colour is that of some rectangle over the byte, the last one.
LEMMA ColourIs ==
  ASSUME NEW fills \in Seq(Fills), NEW b \in Int
  PROVE  /\ Over(fills, b) = {} => Colour(fills, b) = "white"
         /\ \A i \in Over(fills, b) : (\A j \in Over(fills, b) : j <= i)
                                        => Colour(fills, b) = fills[i].colour
         /\ Colour(fills, b) = "white" <=> Over(fills, b) = {}
<1>1. Colour(fills, b) = IF Over(fills, b) = {} THEN "white"
                         ELSE fills[Max(Over(fills, b))].colour
  BY DEF Colour, Over
<1>2. Over(fills, b) \in SUBSET Nat /\ Len(fills) \in Nat
      /\ \A i \in Over(fills, b) : i <= Len(fills) /\ fills[i] \in Fills
  BY LenProperties, ElementOfSeq DEF Over
<1>3. ASSUME NEW i \in Over(fills, b), \A j \in Over(fills, b) : j <= i
      PROVE  Colour(fills, b) = fills[i].colour
  <2>1. Max(Over(fills, b)) = i
    BY <1>2, <1>3, MaxIs
  <2>2. QED
    BY <1>1, <2>1
<1>4. ASSUME Over(fills, b) # {} PROVE Colour(fills, b) # "white"
  <2>1. PICK i \in Over(fills, b) : \A j \in Over(fills, b) : j <= i
    BY <1>2, <1>4, Greatest
  <2>2. Colour(fills, b) = fills[i].colour /\ fills[i] \in Fills
    BY <1>2, <1>3, <2>1
  <2>3. QED
    BY <2>2 DEF Fills
<1>5. QED
  BY <1>1, <1>3, <1>4

LEMMA ColourOfNone ==
  ASSUME NEW b \in Int
  PROVE  <<>> \in Seq(Fills) /\ Colour(<<>>, b) = "white"
<1>1. <<>> \in Seq(Fills) /\ Over(<<>>, b) = {}
  BY EmptySeq DEF Over
<1>2. QED
  BY <1>1, ColourIs

LEMMA ColourOfOne ==
  ASSUME NEW from \in Int, NEW to \in Int, NEW colour \in {"yellow", "blue"}, NEW b \in Int
  PROVE  /\ <<Fill(from, to, colour)>> \in Seq(Fills)
         /\ Colour(<<Fill(from, to, colour)>>, b) =
              IF from <= b /\ b < to THEN colour ELSE "white"
<1> DEFINE f == Fill(from, to, colour)
<1>1. f \in Fills /\ f.from = from /\ f.to = to /\ f.colour = colour
  BY DEF Fill, Fills
<1> HIDE DEF f
<1>2. <<f>> \in Seq(Fills) /\ Len(<<f>>) = 1 /\ <<f>>[1] = f
  BY <1>1
<1>3. Over(<<f>>, b) = IF from <= b /\ b < to THEN {1} ELSE {}
  BY <1>1, <1>2 DEF Over
<1>4. CASE from <= b /\ b < to
  <2>1. 1 \in Over(<<f>>, b) /\ \A j \in Over(<<f>>, b) : j <= 1
    BY <1>3, <1>4
  <2>2. Colour(<<f>>, b) = <<f>>[1].colour
    BY <1>2, <2>1, ColourIs
  <2>3. QED
    BY <1>1, <1>2, <1>4, <2>2 DEF f
<1>5. CASE ~(from <= b /\ b < to)
  BY <1>2, <1>3, <1>5, ColourIs DEF f
<1>6. QED
  BY <1>4, <1>5

\* What is painted later hides what was painted before.
LEMMA ColourOfBoth ==
  ASSUME NEW F \in Seq(Fills), NEW G \in Seq(Fills), NEW b \in Int
  PROVE  /\ F \o G \in Seq(Fills)
         /\ Colour(F \o G, b) = IF Colour(G, b) # "white" THEN Colour(G, b) ELSE Colour(F, b)
<1> DEFINE H == F \o G
<1>1. /\ H \in Seq(Fills) /\ Len(H) = Len(F) + Len(G)
      /\ \A i \in 1 .. Len(F) + Len(G) : H[i] = IF i <= Len(F) THEN F[i] ELSE G[i - Len(F)]
      /\ Len(F) \in Nat /\ Len(G) \in Nat
  BY ConcatProperties, LenProperties
<1> HIDE DEF H
<1>2. ASSUME NEW i \in Over(G, b) PROVE Len(F) + i \in Over(H, b) /\ H[Len(F) + i] = G[i]
  BY <1>1, <1>2 DEF Over
<1>3. ASSUME NEW i \in Over(H, b), i > Len(F) PROVE i - Len(F) \in Over(G, b)
  BY <1>1, <1>3 DEF Over
<1>4. ASSUME NEW i \in Over(F, b) PROVE i \in Over(H, b) /\ H[i] = F[i]
  BY <1>1, <1>4 DEF Over
<1>5. ASSUME NEW i \in Over(H, b), i <= Len(F) PROVE i \in Over(F, b)
  BY <1>1, <1>5 DEF Over
<1>6. /\ Over(F, b) \in SUBSET Nat /\ \A i \in Over(F, b) : i <= Len(F)
      /\ Over(G, b) \in SUBSET Nat /\ \A i \in Over(G, b) : i <= Len(G)
      /\ Over(H, b) \in SUBSET Nat
  BY <1>1 DEF Over
<1>7. CASE Over(G, b) # {}
  <2>1. PICK i \in Over(G, b) : \A j \in Over(G, b) : j <= i
    BY <1>1, <1>6, <1>7, Greatest
  <2>2. ASSUME NEW j \in Over(H, b) PROVE j <= Len(F) + i
    <3>1. j \in Nat /\ i \in Nat
      BY <1>6
    <3>2. CASE j > Len(F)
      BY <1>1, <1>3, <2>1, <3>1, <3>2
    <3>3. QED
      BY <1>1, <3>1, <3>2
  <2>3. Colour(H, b) = H[Len(F) + i].colour
    BY <1>1, <1>2, <2>2, ColourIs
  <2>4. Colour(G, b) = G[i].colour
    BY <2>1, ColourIs
  <2>5. Colour(G, b) # "white"
    BY <1>7, ColourIs
  <2>6. QED
    BY <1>1, <1>2, <2>3, <2>4, <2>5 DEF H
<1>8. CASE Over(G, b) = {} /\ Over(F, b) # {}
  <2>1. PICK i \in Over(F, b) : \A j \in Over(F, b) : j <= i
    BY <1>1, <1>6, <1>8, Greatest
  <2>2. ASSUME NEW j \in Over(H, b) PROVE j <= i
    <3>1. j \in Nat /\ i \in Nat
      BY <1>6
    <3>2. ~(j > Len(F))
      BY <1>3, <1>8
    <3>3. QED
      BY <1>1, <1>5, <2>1, <3>1, <3>2
  <2>3. Colour(H, b) = H[i].colour
    BY <1>1, <1>4, <2>2, ColourIs
  <2>4. Colour(F, b) = F[i].colour
    BY <2>1, ColourIs
  <2>5. Colour(G, b) = "white"
    BY <1>8, ColourIs
  <2>6. QED
    BY <1>1, <1>4, <2>3, <2>4, <2>5 DEF H
<1>9. CASE Over(G, b) = {} /\ Over(F, b) = {}
  <2>1. Over(H, b) = {}
    <3>1. ASSUME NEW j \in Over(H, b) PROVE FALSE
      <4>1. j \in Nat
        BY <1>6
      <4>2. QED
        BY <1>1, <1>3, <1>5, <1>9, <4>1
    <3>2. QED
      BY <3>1
  <2>2. QED
    BY <1>1, <1>9, <2>1, ColourIs DEF H
<1>10. QED
  BY <1>7, <1>8, <1>9

-----------------------------------------------------------------------------
(* The heap the tree tells of                                              *)

\* The chunks that are allocated; the tree has a flag and a size for each key.
Live == {k \in Keys : Allocated(k)}
TreeRight ==
  /\ Keys \subseteq Nat /\ \E n \in Nat : \A k \in Keys : k <= n
  /\ tree \in [Keys -> [allocated : BOOLEAN, size : Nat]]

\* Chunks and headers do not overlap.
Laid == \A j, k \in Live : j < k => j + tree[j].size <= k - Header

LEMMA Layout ==
  /\ Row \in Nat \ {0, 1} /\ Page \in Nat \ {0, 1}
  /\ Header \in Nat \ {0} /\ Header <= Row
  /\ Addrs \subseteq Nat /\ Sizes \subseteq Nat
BY LayoutAssumption

LEMMA OfKeys ==
  ASSUME TreeRight
  PROVE  /\ Live \subseteq Keys /\ Keys \subseteq Nat /\ None \notin Keys /\ None = -1
         /\ \A k \in Keys :
              /\ tree[k].size \in Nat /\ Allocated(k) \in BOOLEAN
              /\ AllocatedSize(k) \in Nat
              /\ Allocated(k) => (k \in Live /\ AllocatedSize(k) = tree[k].size)
              /\ ~Allocated(k) => (k \notin Live /\ AllocatedSize(k) = 0)
<1>1. \A k \in Keys : tree[k] \in [allocated : BOOLEAN, size : Nat]
  BY DEF TreeRight
<1>2. Keys \subseteq Nat /\ None = -1
  BY DEF TreeRight, None
<1>3. \A k \in Keys : tree[k].size \in Nat /\ tree[k].allocated \in BOOLEAN
  BY <1>1
<1>4. QED
  BY <1>2, <1>3 DEF Live, Allocated, AllocatedSize

LEMMA HigherKeyIs ==
  ASSUME TreeRight, NEW a \in Int
  PROVE  IF \E k \in Keys : k > a
         THEN /\ HigherKey(a) \in Keys /\ HigherKey(a) > a
              /\ \A k \in Keys : k > a => HigherKey(a) <= k
         ELSE HigherKey(a) = None
<1> DEFINE S == {k \in Keys : k > a}
<1>1. S \in SUBSET Nat
  BY OfKeys
<1>2. IF S = {} THEN MinKey(S) = None ELSE MinKey(S) \in S /\ \A n \in S : MinKey(S) <= n
  BY <1>1, MinKeyIs
<1>3. QED
  BY <1>2 DEF HigherKey

LEMMA LowerKeyIs ==
  ASSUME TreeRight, NEW a \in Int
  PROVE  IF \E k \in Keys : k < a
         THEN /\ LowerKey(a) \in Keys /\ LowerKey(a) < a
              /\ \A k \in Keys : k < a => k <= LowerKey(a)
         ELSE LowerKey(a) = None
<1> DEFINE S == {k \in Keys : k < a}
<1>1. CASE S = {}
  BY <1>1 DEF LowerKey, MaxKey
<1>2. CASE S # {}
  <2>1. S \in SUBSET Nat /\ a \in Nat /\ \A n \in S : n <= a
    BY <1>2, OfKeys
  <2>2. MaxKey(S) \in S /\ \A n \in S : n <= MaxKey(S)
    BY <1>2, <2>1, MaxKeyIs
  <2>3. QED
    BY <2>2 DEF LowerKey
<1>3. QED
  BY <1>1, <1>2

-----------------------------------------------------------------------------
(* getAllocation                                                           *)

\* The allocated chunk before an address, and the one after it.
LastLive(a) == MaxKey({k \in Live : k < a})
NextLive(a) == MinKey({k \in Live : k > a})

LEMMA LastLiveIs ==
  ASSUME TreeRight, NEW a \in Int
  PROVE  IF \E k \in Live : k < a
         THEN /\ LastLive(a) \in Live /\ LastLive(a) < a
              /\ \A k \in Live : k < a => k <= LastLive(a)
         ELSE LastLive(a) = None
<1> DEFINE S == {k \in Live : k < a}
<1>1. CASE S = {}
  BY <1>1 DEF LastLive, MaxKey
<1>2. CASE S # {}
  <2>1. S \in SUBSET Nat /\ a \in Nat /\ \A n \in S : n <= a
    BY <1>2, OfKeys
  <2>2. MaxKey(S) \in S /\ \A n \in S : n <= MaxKey(S)
    BY <1>2, <2>1, MaxKeyIs
  <2>3. QED
    BY <2>2 DEF LastLive
<1>3. QED
  BY <1>1, <1>2

LEMMA NextLiveIs ==
  ASSUME TreeRight, NEW a \in Int
  PROVE  IF \E k \in Live : k > a
         THEN /\ NextLive(a) \in Live /\ NextLive(a) > a
              /\ \A k \in Live : k > a => NextLive(a) <= k
         ELSE NextLive(a) = None
<1> DEFINE S == {k \in Live : k > a}
<1>1. S \in SUBSET Nat
  BY OfKeys
<1>2. IF S = {} THEN MinKey(S) = None ELSE MinKey(S) \in S /\ \A n \in S : MinKey(S) <= n
  BY <1>1, MinKeyIs
<1>3. QED
  BY <1>2 DEF NextLive

\* One call of getAllocation( LOWER_ADDRESS, a ).
LEMMA LastLiveStep ==
  ASSUME TreeRight, NEW a \in Int
  PROVE  LET k == LowerKey(a) IN
         LastLive(a) = IF k = None \/ Allocated(k) THEN k ELSE LastLive(k)
<1>1. CASE \E k \in Keys : k < a
  <2>1. PICK k \in Keys : k = LowerKey(a) /\ k < a /\ \A j \in Keys : j < a => j <= k
    BY <1>1, LowerKeyIs
  <2>2. k # None /\ k \in Nat /\ Live \subseteq Keys /\ Keys \subseteq Nat
    BY OfKeys
  <2>3. CASE Allocated(k)
    <3>1. k \in Live
      BY <2>3 DEF Live
    <3>2. LastLive(a) \in Live /\ LastLive(a) < a /\ k <= LastLive(a)
      BY <2>1, <3>1, LastLiveIs
    <3>3. LastLive(a) \in Keys /\ LastLive(a) \in Nat
      BY <2>2, <3>2
    <3>4. LastLive(a) = k
      BY <2>1, <2>2, <3>2, <3>3
    <3>5. QED
      BY <2>1, <2>3, <3>4
  <2>4. CASE ~Allocated(k)
    <3>1. k \notin Live
      BY <2>4 DEF Live
    <3>2. \A j \in Live : j < a <=> j < k
      BY <2>1, <2>2, <3>1
    <3>3. {j \in Live : j < a} = {j \in Live : j < k}
      BY <3>2
    <3>4. QED
      BY <2>1, <2>2, <2>4, <3>3 DEF LastLive
  <2>5. QED
    BY <2>3, <2>4
<1>2. CASE ~\E k \in Keys : k < a
  <2>1. LowerKey(a) = None
    BY <1>2, LowerKeyIs
  <2>2. ~\E k \in Live : k < a
    BY <1>2, OfKeys
  <2>3. LastLive(a) = None
    BY <2>2, LastLiveIs
  <2>4. QED
    BY <2>1, <2>3
<1>3. QED
  BY <1>1, <1>2

\* One call of getAllocation( HIGHER_ADDRESS, a ).
LEMMA NextLiveStep ==
  ASSUME TreeRight, NEW a \in Int
  PROVE  LET k == HigherKey(a) IN
         NextLive(a) = IF k = None \/ Allocated(k) THEN k ELSE NextLive(k)
<1>1. CASE \E k \in Keys : k > a
  <2>1. PICK k \in Keys : k = HigherKey(a) /\ k > a /\ \A j \in Keys : j > a => k <= j
    BY <1>1, HigherKeyIs
  <2>2. k # None /\ k \in Nat /\ Live \subseteq Keys /\ Keys \subseteq Nat
    BY OfKeys
  <2>3. CASE Allocated(k)
    <3>1. k \in Live
      BY <2>3 DEF Live
    <3>2. NextLive(a) \in Live /\ NextLive(a) > a /\ NextLive(a) <= k
      BY <2>1, <3>1, NextLiveIs
    <3>3. NextLive(a) \in Keys /\ NextLive(a) \in Nat
      BY <2>2, <3>2
    <3>4. NextLive(a) = k
      BY <2>1, <2>2, <3>2, <3>3
    <3>5. QED
      BY <2>1, <2>3, <3>4
  <2>4. CASE ~Allocated(k)
    <3>1. k \notin Live
      BY <2>4 DEF Live
    <3>2. \A j \in Live : j > a <=> j > k
      BY <2>1, <2>2, <3>1
    <3>3. {j \in Live : j > a} = {j \in Live : j > k}
      BY <3>2
    <3>4. QED
      BY <2>1, <2>2, <2>4, <3>3 DEF NextLive
  <2>5. QED
    BY <2>3, <2>4
<1>2. CASE ~\E k \in Keys : k > a
  <2>1. HigherKey(a) = None
    BY <1>2, HigherKeyIs
  <2>2. ~\E k \in Live : k > a
    BY <1>2, OfKeys
  <2>3. NextLive(a) = None
    BY <2>2, NextLiveIs
  <2>4. QED
    BY <2>1, <2>3
<1>3. QED
  BY <1>1, <1>2

\* getAllocation( LOWER_ADDRESS, a ) finds the allocated chunk before a.
LEMMA LowerAllocationIs ==
  ASSUME TreeRight, NEW a \in Int
  PROVE  LowerAllocation[a] = LastLive(a)
<1> DEFINE Calls(f) == [x \in Int |-> LET k == LowerKey(x) IN
                                     IF k = None \/ Allocated(k) THEN k ELSE f[k]]
           g == [x \in Int |-> LastLive(x)]
<1>1. \A x \in Int : LowerKey(x) \in Int
  BY LowerKeyIs, OfKeys
<1>2. g = Calls(g)
  <2>1. ASSUME NEW x \in Int
        PROVE  LastLive(x) = LET k == LowerKey(x) IN
                               IF k = None \/ Allocated(k) THEN k ELSE g[k]
    BY <1>1, LastLiveStep
  <2>2. QED
    BY <2>1
<1>3. LowerAllocation = Calls(LowerAllocation)
  <2>1. \E f : f = Calls(f)
    BY <1>2
  <2>2. LowerAllocation = CHOOSE f : f = Calls(f)
    BY DEF LowerAllocation
  <2>3. QED
    BY <2>1, <2>2, Zenon
<1> DEFINE Wrong == {x \in Int : LowerAllocation[x] # LastLive(x)}
<1>4. ASSUME NEW x \in Wrong
      PROVE  \E k \in Keys : k \in Wrong /\ k < x
  <2>1. LET k == LowerKey(x) IN
        /\ LowerAllocation[x] = IF k = None \/ Allocated(k) THEN k ELSE LowerAllocation[k]
        /\ LastLive(x) = IF k = None \/ Allocated(k) THEN k ELSE LastLive(k)
    BY <1>3, LastLiveStep
  <2>2. LowerKey(x) # None /\ LowerAllocation[LowerKey(x)] # LastLive(LowerKey(x))
    BY <2>1
  <2>3. LowerKey(x) \in Keys /\ LowerKey(x) < x
    BY <2>2, LowerKeyIs
  <2>4. QED
    BY <1>1, <2>2, <2>3
<1>5. Keys \cap Wrong = {}
  <2>1. SUFFICES ASSUME Keys \cap Wrong # {} PROVE FALSE
    OBVIOUS
  <2>2. Keys \cap Wrong \in SUBSET Nat
    BY OfKeys
  <2>3. PICK m \in Keys \cap Wrong : \A n \in Keys \cap Wrong : m <= n
    BY <2>1, <2>2, Least
  <2>4. QED
    BY <1>4, <2>2, <2>3
<1>6. QED
  BY <1>4, <1>5

\* getAllocation( HIGHER_ADDRESS, a ) finds the allocated chunk after a.
LEMMA HigherAllocationIs ==
  ASSUME TreeRight, NEW a \in Int
  PROVE  HigherAllocation[a] = NextLive(a)
<1> DEFINE Calls(f) == [x \in Int |-> LET k == HigherKey(x) IN
                                     IF k = None \/ Allocated(k) THEN k ELSE f[k]]
           g == [x \in Int |-> NextLive(x)]
<1>1. \A x \in Int : HigherKey(x) \in Int
  BY HigherKeyIs, OfKeys
<1>2. g = Calls(g)
  <2>1. ASSUME NEW x \in Int
        PROVE  NextLive(x) = LET k == HigherKey(x) IN
                               IF k = None \/ Allocated(k) THEN k ELSE g[k]
    BY <1>1, NextLiveStep
  <2>2. QED
    BY <2>1
<1>3. HigherAllocation = Calls(HigherAllocation)
  <2>1. \E f : f = Calls(f)
    BY <1>2
  <2>2. HigherAllocation = CHOOSE f : f = Calls(f)
    BY DEF HigherAllocation
  <2>3. QED
    BY <2>1, <2>2, Zenon
<1> DEFINE Wrong == {x \in Int : HigherAllocation[x] # NextLive(x)}
<1>4. ASSUME NEW x \in Wrong
      PROVE  \E k \in Keys : k \in Wrong /\ k > x
  <2>1. LET k == HigherKey(x) IN
        /\ HigherAllocation[x] = IF k = None \/ Allocated(k) THEN k ELSE HigherAllocation[k]
        /\ NextLive(x) = IF k = None \/ Allocated(k) THEN k ELSE NextLive(k)
    BY <1>3, NextLiveStep
  <2>2. HigherKey(x) # None /\ HigherAllocation[HigherKey(x)] # NextLive(HigherKey(x))
    BY <2>1
  <2>3. HigherKey(x) \in Keys /\ HigherKey(x) > x
    BY <2>2, HigherKeyIs
  <2>4. QED
    BY <1>1, <2>2, <2>3
<1>5. Keys \cap Wrong = {}
  <2>1. SUFFICES ASSUME Keys \cap Wrong # {} PROVE FALSE
    OBVIOUS
  <2>2. Keys \cap Wrong \in SUBSET Nat
    BY OfKeys
  <2>3. PICK m \in Keys \cap Wrong : \A n \in Keys \cap Wrong : n <= m
    BY <2>1, <2>2, Greatest DEF TreeRight
  <2>4. QED
    BY <1>4, <2>2, <2>3
<1>6. QED
  BY <1>4, <1>5

-----------------------------------------------------------------------------
(* The loop of paintComponent                                              *)

\* One turn of the loop, the rest of it being f.
LoopBody(f, k, start, end) ==
  IF k = None \/ k >= end THEN <<>>
  ELSE (IF Allocated(k) THEN ChunkFills(k, start, end) ELSE <<>>)
         \o (IF Allocated(k) /\ k + AllocatedSize(k) > end THEN <<>>
             ELSE f[HigherKey(k + AllocatedSize(k))])

\* A chunk has no key of the tree in it, and the loop goes on behind it.
LEMMA GoesOn ==
  ASSUME TreeRight, NEW k \in Keys
  PROVE  LET n == HigherKey(k + AllocatedSize(k)) IN
         /\ n = None \/ (n \in Keys /\ n > k)
         /\ k + AllocatedSize(k) \in Nat
<1>1. k \in Nat /\ AllocatedSize(k) \in Nat
  BY OfKeys
<1>2. k + AllocatedSize(k) \in Int
  BY <1>1
<1> DEFINE a == k + AllocatedSize(k)
<1>3. HigherKey(a) = None \/ (HigherKey(a) \in Keys /\ HigherKey(a) > a)
  BY <1>2, HigherKeyIs
<1>4. ASSUME HigherKey(a) \in Keys, HigherKey(a) > a PROVE HigherKey(a) > k
  <2>1. HigherKey(a) \in Nat
    BY <1>4, OfKeys
  <2>2. QED
    BY <1>1, <1>4, <2>1
<1>5. a \in Nat
  BY <1>1
<1>6. QED
  BY <1>3, <1>4, <1>5, Zenon

\* The recursion ends, so that the loop is what its definition says.
LEMMA LoopUnfolds ==
  ASSUME TreeRight, NEW start \in Nat, NEW end \in Nat
  PROVE  LoopFills(start, end) =
           [k \in Keys \cup {None} |-> LoopBody(LoopFills(start, end), k, start, end)]
<1> DEFINE From(n) == {k \in Keys \cup {None} : k = None \/ k >= n}
           Turn(f, n) == [k \in From(n) |-> LoopBody(f, k, start, end)]
           Done == {n \in Nat : \E f : f = Turn(f, n)}
<1>1. Keys \subseteq Nat /\ None = -1
  BY OfKeys
<1>2. end \in Done
  <2>1. \A f : \A k \in From(end) : LoopBody(f, k, start, end) = <<>>
    BY DEF LoopBody
  <2> DEFINE f == [k \in From(end) |-> <<>>]
  <2>2. f = Turn(f, end)
    BY <2>1
  <2>3. QED
    BY <2>2
<1>3. PICK m \in Nat : m \in Done /\ \A n \in Done : m <= n
  <2>1. Done \in SUBSET Nat /\ Done # {}
    BY <1>2
  <2> HIDE DEF Done
  <2>2. QED
    BY <2>1, Least
<1>4. m = 0
  <2> SUFFICES ASSUME m > 0 PROVE FALSE
    BY <1>3
  <2> DEFINE n == m - 1
  <2>1. n \in Nat /\ n \notin Done
    <3> HIDE DEF Done
    <3>1. QED
      BY <1>3
  <2>2. PICK f : f = Turn(f, m)
    BY <1>3
  <2>3. \A k \in From(n) : k = n \/ k \in From(m)
    BY <1>1, <2>1, <1>3
  <2>4. From(m) \subseteq From(n)
    <3>1. \A k \in Keys : k >= m => k >= n
      BY <1>1, <1>3, <2>1
    <3>2. QED
      BY <3>1
  <2>5. CASE n \notin Keys
    <3>1. From(n) = From(m)
      BY <1>1, <2>1, <2>3, <2>4, <2>5
    <3>2. f = Turn(f, n)
      BY <2>2, <3>1
    <3>3. QED
      BY <2>1, <3>2
  <2>6. CASE n \in Keys
    <3> DEFINE g == [k \in From(n) |-> IF k = n THEN LoopBody(f, n, start, end) ELSE f[k]]
    <3>1. ASSUME NEW k \in From(n) PROVE g[k] = LoopBody(g, k, start, end)
      <4>1. n \notin From(m) /\ n # None
        BY <1>1, <1>3, <2>1
      <4>2. g[k] = LoopBody(f, k, start, end)
        <5>1. CASE k = n
          BY <5>1
        <5>2. CASE k # n
          <6>1. k \in From(m)
            BY <2>3, <5>2
          <6>2. f[k] = LoopBody(f, k, start, end)
            BY <2>2, <6>1
          <6>3. QED
            BY <5>2, <6>2
        <5>3. QED
          BY <5>1, <5>2
      <4>3. ASSUME k # None
            PROVE  LET j == HigherKey(k + AllocatedSize(k)) IN g[j] = f[j]
        <5> DEFINE j == HigherKey(k + AllocatedSize(k))
        <5>1. k \in Keys /\ k >= n
          BY <4>3
        <5>2. j = None \/ (j \in Keys /\ j > k)
          BY <5>1, GoesOn
        <5>3. j \in From(m)
          <6>1. CASE j = None
            BY <6>1
          <6>2. CASE j \in Keys /\ j > k
            <7>1. j \in Nat /\ k \in Nat /\ n \in Nat /\ k >= n
              BY <1>1, <2>1, <5>1, <6>2
            <7>2. j >= m
              BY <6>2, <7>1
            <7>3. QED
              BY <6>2, <7>2
          <6>3. QED
            BY <5>2, <6>1, <6>2
        <5>4. j \in From(n)
          BY <2>4, <5>3
        <5>5. QED
          BY <4>1, <5>3, <5>4
      <4>4. LoopBody(f, k, start, end) = LoopBody(g, k, start, end)
        BY <4>3, Zenon DEF LoopBody
      <4>5. QED
        BY <4>2, <4>4
    <3>2. g = Turn(g, n)
      <4>1. g = [k \in From(n) |-> g[k]]
        OBVIOUS
      <4> HIDE DEF g
      <4>2. QED
        BY <3>1, <4>1
    <3>3. QED
      BY <2>1, <3>2
  <2>7. QED
    BY <2>5, <2>6
<1>5. \E f : f = [k \in Keys \cup {None} |-> LoopBody(f, k, start, end)]
  <2>1. From(0) = Keys \cup {None}
    <3>1. \A k \in Keys : k >= 0
      BY <1>1
    <3>2. QED
      BY <3>1
  <2>2. PICK f : f = Turn(f, 0)
    BY <1>3, <1>4
  <2>3. QED
    BY <2>1, <2>2
<1>6. LoopFills(start, end) =
        CHOOSE f : f = [k \in Keys \cup {None} |-> LoopBody(f, k, start, end)]
  BY Zenon DEF LoopFills, LoopBody
<1>7. QED
  BY <1>5, <1>6, Zenon

\* What the rectangles of one chunk look like.
LEMMA ChunkColours ==
  ASSUME TreeRight, NEW k \in Live, NEW start \in Nat, NEW end \in Nat, k < end,
         NEW b \in start .. end - 1
  PROVE  /\ ChunkFills(k, start, end) \in Seq(Fills)
         /\ Colour(ChunkFills(k, start, end), b) =
              IF k <= b /\ b < k + tree[k].size THEN "blue"
              ELSE IF start <= k - Header /\ k - Header <= b /\ b < k THEN "yellow"
              ELSE "white"
<1> DEFINE to == Min({k + AllocatedSize(k), end})
           body == <<Fill(k, to, "blue")>>
           head == IF k - Header >= start THEN <<Fill(k - Header, k, "yellow")>> ELSE <<>>
<1>1. k \in Nat /\ tree[k].size \in Nat /\ AllocatedSize(k) = tree[k].size
  BY OfKeys DEF Live
<1>2. b \in Int /\ Header \in Nat /\ start <= b /\ b < end
  BY Layout
<1>3. to \in Int /\ (b < to <=> b < k + tree[k].size)
  <2>1. to = IF k + AllocatedSize(k) <= end THEN k + AllocatedSize(k) ELSE end
    BY <1>1, MinOfTwo
  <2>2. QED
    BY <1>1, <1>2, <2>1
<1> HIDE DEF to
<1>4. body \in Seq(Fills) /\ Colour(body, b) = IF k <= b /\ b < to THEN "blue" ELSE "white"
  <2>1. k \in Int /\ to \in Int /\ b \in Int
    BY <1>1, <1>2, <1>3
  <2>2. QED
    BY <2>1, ColourOfOne
<1>5. /\ head \in Seq(Fills)
      /\ Colour(head, b) = IF start <= k - Header /\ k - Header <= b /\ b < k
                           THEN "yellow" ELSE "white"
  <2>1. CASE k - Header >= start
    <3>1. k - Header \in Int /\ k \in Int
      BY <1>1, <1>2
    <3>2. /\ <<Fill(k - Header, k, "yellow")>> \in Seq(Fills)
          /\ Colour(<<Fill(k - Header, k, "yellow")>>, b) =
               IF k - Header <= b /\ b < k THEN "yellow" ELSE "white"
      BY <1>2, <3>1, ColourOfOne
    <3>3. QED
      BY <1>1, <1>2, <2>1, <3>2
  <2>2. CASE ~(k - Header >= start)
    BY <1>1, <1>2, <2>2, ColourOfNone
  <2>3. QED
    BY <2>1, <2>2
<1>6. ChunkFills(k, start, end) = head \o body
  BY DEF ChunkFills, to
<1> HIDE DEF head, body
<1>7. /\ head \o body \in Seq(Fills)
      /\ Colour(head \o body, b) = IF Colour(body, b) # "white" THEN Colour(body, b)
                                   ELSE Colour(head, b)
  BY <1>2, <1>4, <1>5, ColourOfBoth
<1>8. QED
  BY <1>3, <1>4, <1>5, <1>6, <1>7

\* A byte of the row between start and end lies in a chunk, or in the header of one, that
\* is not before k and whose header begins in the row.
InChunk(k, b) == \E j \in Live : k <= j /\ j <= b /\ b < j + tree[j].size
InHeader(k, start, end, b) ==
  \E j \in Live : k <= j /\ j < end /\ start <= j - Header /\ j - Header <= b /\ b < j

\* What the loop paints from the key k on.
LoopShows(k, start, end, b) ==
  IF k = None THEN "white"
  ELSE IF InChunk(k, b) THEN "blue"
  ELSE IF InHeader(k, start, end, b) THEN "yellow"
  ELSE "white"

LoopRight(k, start, end, b) ==
  /\ LoopFills(start, end)[k] \in Seq(Fills)
  /\ Colour(LoopFills(start, end)[k], b) = LoopShows(k, start, end, b)

\* If the loop is right from the next key on, it is right from k on.
LEMMA LoopTurn ==
  ASSUME TreeRight, Laid, NEW start \in Nat, NEW end \in Nat, NEW b \in start .. end - 1,
         NEW k \in Keys, k < end => LET n == HigherKey(k + AllocatedSize(k)) IN
                                    n = None \/ LoopRight(n, start, end, b)
  PROVE  LoopRight(k, start, end, b)
<1> DEFINE F == LoopFills(start, end)
           a == k + AllocatedSize(k)
           n == HigherKey(a)
<1>1. /\ Keys \subseteq Nat /\ Live \subseteq Keys /\ None = -1 /\ k # None /\ k \in Nat
      /\ Header \in Nat \ {0} /\ b \in Nat /\ start <= b /\ b < end
  BY OfKeys, Layout
<1>2. \A j \in Keys : tree[j].size \in Nat
  BY OfKeys
<1>3. \A j \in Keys \cup {None} : F[j] = LoopBody(F, j, start, end)
  BY LoopUnfolds
<1>4. F[None] = <<>>
  BY <1>3 DEF LoopBody
<1>5. /\ n = None \/ (n \in Keys /\ n > k)
      /\ a \in Nat /\ k <= a
      /\ Allocated(k) => a = k + tree[k].size
      /\ ~Allocated(k) => a = k
  <2>1. /\ n = None \/ (n \in Keys /\ n > k)
        /\ a \in Nat
    BY GoesOn
  <2>2. AllocatedSize(k) \in Nat
    BY OfKeys
  <2>3. k <= a
    BY <1>1, <2>2
  <2>4. AllocatedSize(k) = IF Allocated(k) THEN tree[k].size ELSE 0
    BY DEF AllocatedSize
  <2>5. Allocated(k) => a = k + tree[k].size
    BY <2>4
  <2>6. ~Allocated(k) => a = k
    BY <1>1, <2>4
  <2>7. QED
    BY <2>1, <2>3, <2>5, <2>6
<1>6. \A j \in Keys : j > a <=> (n # None /\ n <= j)
  <2>1. a \in Int
    BY <1>5
  <2> HIDE DEF a
  <2>2. IF \E j \in Keys : j > a
        THEN /\ n \in Keys /\ n > a
             /\ \A j \in Keys : j > a => n <= j
        ELSE n = None
    BY <2>1, HigherKeyIs DEF n
  <2> HIDE DEF n
  <2>3. CASE \E j \in Keys : j > a
    BY <1>1, <1>5, <2>2, <2>3
  <2>4. CASE ~\E j \in Keys : j > a
    BY <2>2, <2>4
  <2>5. QED
    BY <2>3, <2>4
<1> HIDE DEF F, n, a
<1>7. CASE k >= end
  <2>1. F[k] = <<>>
    BY <1>3, <1>7 DEF LoopBody
  <2>2. ~InChunk(k, b) /\ ~InHeader(k, start, end, b)
    BY <1>1, <1>2, <1>7 DEF InChunk, InHeader
  <2>3. QED
    BY <1>1, <2>1, <2>2, ColourOfNone DEF LoopRight, LoopShows, F
<1>8. CASE k < end
  <2>1. F[n] \in Seq(Fills) /\ Colour(F[n], b) = LoopShows(n, start, end, b)
    <3>1. CASE n = None
      <4>1. F[n] = <<>> /\ b \in Int
        BY <1>1, <1>4, <3>1
      <4>2. LoopShows(n, start, end, b) = "white"
        BY <3>1 DEF LoopShows
      <4>3. QED
        BY <4>1, <4>2, ColourOfNone
    <3>2. CASE n # None
      <4>1. LoopRight(n, start, end, b)
        BY <1>8, <3>2 DEF n, a
      <4>2. QED
        BY <4>1 DEF LoopRight, F
    <3>3. QED
      BY <3>1, <3>2
  <2>2. F[k] = (IF Allocated(k) THEN ChunkFills(k, start, end) ELSE <<>>)
                 \o (IF Allocated(k) /\ a > end THEN <<>> ELSE F[n])
    <3>1. F[k] = LoopBody(F, k, start, end) /\ ~(k = None \/ k >= end)
      BY <1>1, <1>3, <1>8
    <3>2. QED
      BY <3>1, Zenon DEF LoopBody, n, a
  <2>3. CASE ~Allocated(k)
    <3>1. F[k] = <<>> \o F[n]
      BY <2>3, <2>2, Zenon
    <3>2. F[k] = F[n]
      BY <2>1, <3>1
    <3>3. k \notin Live
      BY <2>3 DEF Live
    <3>4. ASSUME NEW j \in Live PROVE k <= j <=> (n # None /\ n <= j)
      <4>1. j \in Keys /\ j \in Nat /\ j # k
        BY <1>1, <3>3
      <4>2. QED
        BY <1>5, <1>6, <2>3, <4>1, <1>1
    <3>5. LoopShows(k, start, end, b) = LoopShows(n, start, end, b)
      BY <1>1, <3>4 DEF LoopShows, InChunk, InHeader
    <3>6. QED
      BY <2>1, <3>2, <3>5 DEF LoopRight, F
  <2>4. CASE Allocated(k)
    <3> DEFINE chunk == ChunkFills(k, start, end)
    <3>1. k \in Live
      BY <2>4 DEF Live
    <3>2. /\ chunk \in Seq(Fills)
          /\ Colour(chunk, b) =
               IF k <= b /\ b < k + tree[k].size THEN "blue"
               ELSE IF start <= k - Header /\ k - Header <= b /\ b < k THEN "yellow"
               ELSE "white"
      BY <1>8, <3>1, ChunkColours
    <3>3. ASSUME NEW j \in Live, j > k PROVE k + tree[k].size <= j - Header
      BY <3>1, <3>3 DEF Laid
    <3>4. \A j \in Live : j \in Nat /\ j \in Keys /\ tree[j].size \in Nat
      BY <1>1, <1>2
    <3>5. tree[k].size \in Nat /\ a = k + tree[k].size
      BY <1>2, <1>5, <2>4
    <3> HIDE DEF chunk
    <3>6. CASE a > end
      <4>1. F[k] = chunk \o <<>>
        BY <2>4, <2>2, <3>6, Zenon DEF chunk
      <4>2. F[k] = chunk
        BY <3>2, <4>1
      <4>3. ASSUME NEW j \in Live, k <= j, j < end PROVE j = k
        BY <1>1, <3>3, <3>4, <3>5, <3>6, <4>3
      <4>4. InChunk(k, b) <=> (k <= b /\ b < k + tree[k].size)
        BY <1>1, <3>1, <3>4, <4>3 DEF InChunk
      <4>5. InHeader(k, start, end, b) <=> (start <= k - Header /\ k - Header <= b /\ b < k)
        BY <1>1, <1>8, <3>1, <3>4, <4>3 DEF InHeader
      <4>6. QED
        BY <1>1, <3>2, <4>2, <4>4, <4>5 DEF LoopRight, LoopShows, F
    <3>7. CASE ~(a > end)
      <4>1. F[k] = chunk \o F[n]
        BY <2>4, <2>2, <3>7, Zenon DEF chunk
      <4>2. /\ F[k] \in Seq(Fills)
            /\ Colour(F[k], b) = IF Colour(F[n], b) # "white" THEN Colour(F[n], b)
                                 ELSE Colour(chunk, b)
        BY <1>1, <2>1, <3>2, <4>1, ColourOfBoth
      <4>3. ASSUME NEW j \in Live PROVE k <= j <=> (j = k \/ (n # None /\ n <= j))
        <5>1. j > k <=> j > a
          BY <1>1, <3>3, <3>4, <3>5
        <5>2. j > a <=> (n # None /\ n <= j)
          BY <1>6, <3>4
        <5>3. QED
          BY <1>1, <3>4, <5>1, <5>2
      <4>4. ASSUME NEW j \in Live, n # None, n <= j PROVE k + tree[k].size <= j - Header
        <5>1. j > a
          BY <1>6, <3>4, <4>4
        <5>2. j > k
          BY <1>1, <1>5, <3>4, <5>1
        <5>3. QED
          BY <3>3, <5>2
      <4>6. InChunk(k, b) <=> \/ k <= b /\ b < k + tree[k].size
                              \/ n # None /\ InChunk(n, b)
        BY <3>1, <4>3 DEF InChunk
      <4>7. InHeader(k, start, end, b) <=>
              \/ start <= k - Header /\ k - Header <= b /\ b < k
              \/ n # None /\ InHeader(n, start, end, b)
        BY <1>8, <3>1, <4>3 DEF InHeader
      <4>8. ASSUME n # None, InHeader(n, start, end, b)
            PROVE  ~(k <= b /\ b < k + tree[k].size)
        BY <1>1, <3>4, <3>5, <4>4, <4>8 DEF InHeader
      <4>9. QED
        BY <1>1, <2>1, <3>2, <4>2, <4>6, <4>7, <4>8 DEF LoopRight, LoopShows, F
    <3>8. QED
      BY <3>6, <3>7
  <2>5. QED
    BY <2>3, <2>4
<1>9. QED
  BY <1>1, <1>7, <1>8

\* From every key on, the loop paints the chunks from there on that begin in the row, and
\* the headers of theirs that do.
LEMMA LoopColours ==
  ASSUME TreeRight, Laid, NEW start \in Nat, NEW end \in Nat, NEW b \in start .. end - 1,
         NEW k \in Keys \cup {None}
  PROVE  LoopRight(k, start, end, b)
<1> DEFINE Wrong == {j \in Keys : ~LoopRight(j, start, end, b)}
<1>1. Keys \subseteq Nat /\ None = -1 /\ None \notin Keys
  BY OfKeys
<1>2. LoopRight(None, start, end, b)
  <2>1. LoopFills(start, end)[None] = <<>>
    BY LoopUnfolds DEF LoopBody
  <2>2. QED
    BY <2>1, ColourOfNone DEF LoopRight, LoopShows
<1>3. Wrong = {}
  <2> SUFFICES ASSUME Wrong # {} PROVE FALSE
    OBVIOUS
  <2>1. ASSUME NEW j \in Wrong
        PROVE  /\ j < end
               /\ \E i \in Wrong : i > j
    <3>1. j < end /\ ~LET n == HigherKey(j + AllocatedSize(j)) IN
                       n = None \/ LoopRight(n, start, end, b)
      BY LoopTurn
    <3> DEFINE n == HigherKey(j + AllocatedSize(j))
    <3>2. n \in Keys /\ n > j
      BY <3>1, GoesOn
    <3>3. n \in Wrong
      BY <3>1, <3>2
    <3>4. QED
      BY <3>1, <3>2, <3>3
  <2>2. Wrong \in SUBSET Nat /\ \A j \in Wrong : j <= end
    <3>1. Wrong \in SUBSET Nat
      BY <1>1
    <3>2. ASSUME NEW j \in Wrong PROVE j <= end
      <4>1. j < end /\ j \in Nat
        BY <2>1, <3>1
      <4>2. QED
        BY <4>1
    <3>3. QED
      BY <3>1, <3>2
  <2>3. PICK m \in Wrong : \A j \in Wrong : j <= m
    <3> HIDE DEF Wrong
    <3>1. QED
      BY <2>2, Greatest
  <2>4. QED
    BY <2>1, <2>2, <2>3
<1>4. QED
  BY <1>2, <1>3

-----------------------------------------------------------------------------
(* paintComponent                                                          *)

\* A chunk that begins behind a row's start begins behind a whole header: with headers of
\* 8 and rows of 0x80 bytes, of every address that is a multiple of 8.
HeadersInRows == \A a \in Addrs : a % Row = 0 \/ a % Row >= Header

LEMMA HeaderInRow ==
  ASSUME HeadersInRows, NEW j \in Addrs, NEW q \in Nat, q * Row < j, j < q * Row + Row
  PROVE  q * Row <= j - Header
<1>1. Row \in Nat \ {0, 1} /\ Header \in Nat /\ j \in Nat
  BY Layout
<1> DEFINE r == j % Row
           d == j \div Row
<1>2. j = d * Row + r /\ r \in 0 .. Row - 1 /\ d \in Int
  BY <1>1
<1> HIDE DEF r, d
<1>3. (d - q) * Row = (j - q * Row) - r /\ q * Row \in Nat
  BY <1>1, <1>2
<1>4. d = q
  <2>1. CASE d - q >= 1
    <3>1. (d - q) * Row >= Row
      BY <1>1, <1>2, <2>1
    <3>2. QED
      BY <1>1, <1>2, <1>3, <3>1
  <2>2. CASE d - q <= -1
    <3>1. (d - q) * Row <= -Row
      BY <1>1, <1>2, <2>2
    <3>2. QED
      BY <1>1, <1>2, <1>3, <3>1
  <2>3. QED
    BY <1>2, <2>1, <2>2
<1>5. r = j - q * Row /\ r # 0
  BY <1>1, <1>2, <1>3, <1>4
<1>6. r = 0 \/ r >= Header
  BY DEF HeadersInRows, r
<1>7. QED
  BY <1>1, <1>3, <1>5, <1>6

\* The chunk before a row covers its bytes before Overlap, and what begins in the row has
\* its header behind them.
LEMMA OverlapIs ==
  ASSUME TreeRight, Laid, NEW start \in Nat, NEW end \in Nat, start < end
  PROVE  LET first == start + Overlap(start, end) IN
         /\ first \in start .. end
         /\ \A b \in start .. end - 1 :
              b < first <=> \E j \in Live : j < start /\ b < j + tree[j].size
         /\ \A j \in Live : start <= j /\ start < first => first <= j - Header
<1> DEFINE k == LastLive(start)
           first == start + Overlap(start, end)
<1>1. Overlap(start, end) = IF k = None THEN 0
                            ELSE Max({0, Min({k + AllocatedSize(k), end}) - start})
  BY LowerAllocationIs DEF Overlap
<1>2. /\ Keys \subseteq Nat /\ Live \subseteq Keys /\ None = -1 /\ Header \in Nat
      /\ \A j \in Live : tree[j].size \in Nat /\ AllocatedSize(j) = tree[j].size
  BY OfKeys, Layout DEF Live
<1>3. IF \E j \in Live : j < start
      THEN k \in Live /\ k < start /\ \A j \in Live : j < start => j <= k
      ELSE k = None
  BY LastLiveIs
<1> HIDE DEF k
<1>4. CASE \E j \in Live : j < start
  <2> DEFINE to == k + tree[k].size
  <2>1. k \in Live /\ k \in Nat /\ k # None /\ to \in Nat /\ AllocatedSize(k) = tree[k].size
    <3>1. k \in Live /\ k \in Nat /\ None \notin Live
      BY <1>2, <1>3, <1>4, OfKeys
    <3>2. tree[k].size \in Nat /\ AllocatedSize(k) = tree[k].size /\ k # None
      BY <1>2, <3>1
    <3>3. QED
      BY <3>1, <3>2
  <2>2. Overlap(start, end) = Max({0, Min({to, end}) - start})
    BY <1>1, <2>1
  <2> HIDE DEF to
  <2>3. Min({to, end}) = IF to <= end THEN to ELSE end
    BY <2>1, MinOfTwo
  <2>4. first = IF to <= start THEN start ELSE IF to <= end THEN to ELSE end
    <3> DEFINE d == Min({to, end}) - start
    <3>1. d \in Int /\ 0 \in Int
      BY <2>1, <2>3
    <3>2. d = IF to <= end THEN to - start ELSE end - start
      BY <2>3
    <3>3. Overlap(start, end) = Max({0, d})
      BY <2>2
    <3> HIDE DEF d
    <3>4. Overlap(start, end) = IF 0 <= d THEN d ELSE 0
      BY <3>1, <3>3, MaxOfTwo
    <3>5. QED
      BY <2>1, <3>2, <3>4
  <2> HIDE DEF first
  <2>5. ASSUME NEW j \in Live, j < start PROVE j + tree[j].size <= to
    <3>1. j \in Nat /\ j <= k /\ tree[j].size \in Nat
      BY <1>2, <1>3, <1>4, <2>5
    <3>2. CASE j < k
      <4>1. j + tree[j].size <= k - Header
        BY <2>1, <3>2 DEF Laid
      <4>2. tree[k].size \in Nat
        BY <1>2, <2>1
      <4>3. QED
        BY <1>2, <2>1, <3>1, <4>1, <4>2 DEF to
    <3>3. CASE j = k
      BY <2>1, <3>3 DEF to
    <3>4. QED
      BY <2>1, <3>1, <3>2, <3>3
  <2>6. ASSUME NEW b \in start .. end - 1
        PROVE  b < first <=> \E j \in Live : j < start /\ b < j + tree[j].size
    <3>1. b < first <=> b < to
      BY <2>1, <2>4
    <3>2. b < to => \E j \in Live : j < start /\ b < j + tree[j].size
      BY <1>3, <1>4 DEF to
    <3>3. ASSUME NEW j \in Live, j < start, b < j + tree[j].size PROVE b < to
      <4>1. j + tree[j].size <= to
        BY <2>5, <3>3
      <4>2. j + tree[j].size \in Nat
        BY <1>2
      <4>3. QED
        BY <2>1, <3>3, <4>1, <4>2
    <3>4. QED
      BY <3>1, <3>2, <3>3
  <2>7. ASSUME NEW j \in Live, start <= j, start < first PROVE first <= j - Header
    <3>1. k < j /\ j \in Nat
      BY <1>2, <1>3, <1>4, <2>1, <2>7
    <3>2. to <= j - Header
      BY <2>1, <3>1 DEF Laid, to
    <3>3. first <= to
      BY <2>1, <2>4, <2>7
    <3>4. QED
      BY <1>2, <2>1, <2>4, <3>1, <3>2, <3>3
  <2>8. first \in start .. end
    BY <2>1, <2>4
  <2>9. QED
    BY <2>6, <2>7, <2>8 DEF first
<1>5. CASE ~\E j \in Live : j < start
  <2>1. first = start
    BY <1>1, <1>3, <1>5
  <2>2. QED
    BY <1>5, <2>1
<1>6. QED
  BY <1>4, <1>5

\* The header after a row covers its last Underlap bytes.
LEMMA UnderlapIs ==
  ASSUME TreeRight, NEW start \in Nat, NEW end \in Nat, end = start + Row
  PROVE  /\ Underlap(end) \in 0 .. Row
         /\ Underlap(end) # 0 => \E j \in Live : end <= j /\ end - Underlap(end) = j - Header
         /\ \A b \in start .. end - 1 :
              (Underlap(end) # 0 /\ end - Underlap(end) <= b)
                <=> \E j \in Live : end <= j /\ j - Header <= b
<1> DEFINE n == NextLive(end - 1)
           u == Underlap(end)
<1>1. end - 1 \in Int
  OBVIOUS
<1>2. u = IF n # None /\ n - Header < end THEN end - (n - Header) ELSE 0
  BY <1>1, HigherAllocationIs DEF Underlap
<1>3. /\ Keys \subseteq Nat /\ Live \subseteq Keys /\ None = -1
      /\ Header \in Nat \ {0} /\ Header <= Row /\ Row \in Nat
  BY OfKeys, Layout
<1>4. IF \E j \in Live : end <= j
      THEN n \in Live /\ end <= n /\ \A j \in Live : end <= j => n <= j
      ELSE n = None
  <2>1. IF \E j \in Live : j > end - 1
        THEN n \in Live /\ n > end - 1 /\ \A j \in Live : j > end - 1 => n <= j
        ELSE n = None
    BY <1>1, NextLiveIs
  <2>2. \A j \in Live : j > end - 1 <=> end <= j
    BY <1>3
  <2> HIDE DEF n
  <2>3. QED
    BY <2>1, <2>2
<1> HIDE DEF n, u
<1>5. CASE \E j \in Live : end <= j
  <2>1. n \in Live /\ end <= n /\ n \in Nat /\ n # None
    <3>1. n \in Live /\ end <= n /\ None \notin Live
      BY <1>3, <1>4, <1>5, OfKeys
    <3>2. QED
      BY <1>3, <3>1
  <2>2. u = IF n - Header < end THEN end - (n - Header) ELSE 0
    BY <1>2, <2>1
  <2>3. u \in 0 .. Row /\ (u # 0 => end - u = n - Header)
    BY <1>3, <2>1, <2>2
  <2>4. ASSUME NEW b \in start .. end - 1
        PROVE  (u # 0 /\ end - u <= b) <=> \E j \in Live : end <= j /\ j - Header <= b
    <3>1. (u # 0 /\ end - u <= b) <=> n - Header <= b
      BY <1>3, <2>1, <2>2
    <3>2. ASSUME NEW j \in Live, end <= j, j - Header <= b PROVE n - Header <= b
      <4>1. n <= j /\ j \in Nat
        BY <1>3, <1>4, <3>2
      <4>2. QED
        BY <1>3, <2>1, <3>2, <4>1
    <3>3. QED
      BY <2>1, <3>1, <3>2
  <2>5. QED
    BY <2>1, <2>3, <2>4 DEF u
<1>6. CASE ~\E j \in Live : end <= j
  <2>1. u = 0
    BY <1>2, <1>4, <1>6
  <2>2. QED
    BY <1>3, <1>6, <2>1 DEF u
<1>7. QED
  BY <1>5, <1>6

LEMMA RowOf ==
  ASSUME NEW b \in Nat
  PROVE  b \div Row \in Nat /\ (b \div Row) * Row \in Nat
         /\ (b \div Row) * Row <= b /\ b < (b \div Row) * Row + Row
<1>1. Row \in Nat \ {0, 1}
  BY Layout
<1>2. QED
  BY <1>1

\* The loop starts at the first chunk not before first, so that it paints all of those.
LEMMA RestIs ==
  ASSUME TreeRight, NEW first \in Nat
  PROVE  LET k == IF first \in Keys /\ Allocated(first) THEN first ELSE HigherKey(first) IN
         /\ k \in Keys \cup {None}
         /\ \A j \in Live : first <= j <=> (k # None /\ k <= j)
<1> DEFINE k == IF first \in Keys /\ Allocated(first) THEN first ELSE HigherKey(first)
<1>1. Keys \subseteq Nat /\ Live \subseteq Keys /\ None \notin Keys
  BY OfKeys
<1>2. CASE first \in Keys /\ Allocated(first)
  BY <1>1, <1>2
<1>3. CASE ~(first \in Keys /\ Allocated(first))
  <2>1. IF \E j \in Keys : j > first
        THEN k \in Keys /\ k > first /\ \A j \in Keys : j > first => k <= j
        ELSE k = None
    BY <1>3, HigherKeyIs
  <2>2. \A j \in Live : j # first
    BY <1>3 DEF Live
  <2> HIDE DEF k
  <2>3. ASSUME NEW j \in Live PROVE first <= j <=> (k # None /\ k <= j)
    <3>1. j \in Nat /\ j \in Keys /\ (first <= j <=> j > first)
      BY <1>1, <2>2
    <3>2. CASE \E i \in Keys : i > first
      <4>1. k \in Nat /\ k # None /\ k > first /\ (j > first => k <= j)
        BY <1>1, <2>1, <3>1, <3>2
      <4>2. QED
        BY <3>1, <4>1
    <3>3. CASE ~\E i \in Keys : i > first
      BY <2>1, <3>1, <3>3
    <3>4. QED
      BY <3>2, <3>3
  <2>4. k \in Keys \cup {None}
    BY <2>1
  <2>5. QED
    BY <2>3, <2>4 DEF k
<1>4. QED
  BY <1>2, <1>3

\* Every byte is painted as what it is: the chunk before its row, the chunks that begin in
\* the row and the chunk after it are all that can show there.
LEMMA PaintedIsTruth ==
  ASSUME TreeRight, Laid, Keys \subseteq Addrs, HeadersInRows, NEW b \in Nat
  PROVE  Painted(b) = Truth(b)
<1> DEFINE q == b \div Row
           start == q * Row
           end == start + Row
           first == start + Overlap(start, end)
           u == Underlap(end)
           over == IF first = start THEN <<>> ELSE <<Fill(start, first, "blue")>>
           under == IF u = 0 THEN <<>> ELSE <<Fill(end - u, end, "yellow")>>
           k == IF first \in Keys /\ Allocated(first) THEN first ELSE HigherKey(first)
           rest == LoopFills(start, end)[k]
<1>1. q \in Nat /\ start \in Nat /\ start <= b /\ b < end
  BY RowOf
<1>2. /\ Keys \subseteq Nat /\ Live \subseteq Keys /\ \A j \in Live : tree[j].size \in Nat
      /\ Header \in Nat \ {0} /\ Header <= Row /\ Row \in Nat \ {0}
  BY OfKeys, Layout
<1>3. end \in Nat /\ start < end /\ b \in start .. end - 1 /\ b \in Int
  BY <1>1, <1>2
<1>4. Painted(b) = Colour(IF first = end THEN over
                          ELSE IF u = Row THEN over \o under
                          ELSE over \o under \o rest, b)
  BY Zenon DEF Painted, RowFills
<1>5. Truth(b) = IF \E j \in Live : j <= b /\ b < j + tree[j].size THEN "blue"
                 ELSE IF \E j \in Live : j - Header <= b /\ b < j THEN "yellow"
                 ELSE "white"
  BY DEF Truth, Live
<1>6. \A j \in Live : start < j /\ j < end => start <= j - Header
  <2>1. ASSUME NEW j \in Live, start < j, j < end PROVE start <= j - Header
    <3>1. j \in Addrs
      BY <1>2
    <3>2. QED
      BY <1>1, <2>1, <3>1, HeaderInRow
  <2>2. QED
    BY <2>1
<1> HIDE DEF start
<1>7. /\ first \in start .. end
      /\ b < first <=> \E j \in Live : j < start /\ b < j + tree[j].size
      /\ \A j \in Live : start <= j /\ start < first => first <= j - Header
  BY <1>1, <1>3, OverlapIs
<1>8. /\ u \in 0 .. Row
      /\ u # 0 => \E j \in Live : end <= j /\ end - u = j - Header
      /\ (u # 0 /\ end - u <= b) <=> \E j \in Live : end <= j /\ j - Header <= b
  BY <1>1, <1>3, UnderlapIs
<1>9. k \in Keys \cup {None} /\ \A j \in Live : first <= j <=> (k # None /\ k <= j)
  <2>1. first \in Nat
    BY <1>1, <1>3, <1>7
  <2> HIDE DEF first
  <2>2. QED
    BY <2>1, RestIs
<1>10. LoopRight(k, start, end, b)
  BY <1>1, <1>3, <1>9, LoopColours
<1> HIDE DEF q, end, first, u, k
<1>11. /\ over \in Seq(Fills)
       /\ Colour(over, b) = IF b < first THEN "blue" ELSE "white"
  <2>1. CASE first = start
    BY <1>1, <1>3, <2>1, ColourOfNone
  <2>2. CASE first # start
    <3>1. first \in Int /\ start \in Int /\ start <= b
      BY <1>1, <1>3, <1>7
    <3>2. QED
      BY <1>3, <2>2, <3>1, ColourOfOne
  <2>3. QED
    BY <2>1, <2>2
<1>12. /\ under \in Seq(Fills)
       /\ Colour(under, b) = IF u # 0 /\ end - u <= b THEN "yellow" ELSE "white"
  <2>1. CASE u = 0
    BY <1>3, <2>1, ColourOfNone
  <2>2. CASE u # 0
    <3>1. end - u \in Int /\ end \in Int /\ b < end
      BY <1>1, <1>2, <1>3, <1>8
    <3>2. QED
      BY <1>3, <2>2, <3>1, ColourOfOne
  <2>3. QED
    BY <2>1, <2>2
<1>13. rest \in Seq(Fills) /\ Colour(rest, b) = LoopShows(k, start, end, b)
  BY <1>10 DEF LoopRight
<1> HIDE DEF over, under, rest
<1>14. /\ over \o under \in Seq(Fills)
       /\ Colour(over \o under, b) =
            IF Colour(under, b) # "white" THEN Colour(under, b) ELSE Colour(over, b)
  BY <1>3, <1>11, <1>12, ColourOfBoth
<1>15. Colour(over \o under \o rest, b) =
         IF Colour(rest, b) # "white" THEN Colour(rest, b) ELSE Colour(over \o under, b)
  BY <1>3, <1>13, <1>14, ColourOfBoth
\* Where a chunk is, no other chunk's header is.
<1>16. ASSUME NEW i \in Live, NEW j \in Live, i <= b, b < i + tree[i].size, b < j
       PROVE  b < j - Header
  <2>1. i \in Nat /\ j \in Nat /\ tree[i].size \in Nat /\ i < j /\ b \in Nat
    BY <1>2, <1>16
  <2>2. i + tree[i].size <= j - Header
    BY <2>1 DEF Laid
  <2>3. QED
    BY <1>2, <1>16, <2>1, <2>2
<1>17. (\E j \in Live : j <= b /\ b < j + tree[j].size) <=> b < first \/ (k # None /\ InChunk(k, b))
  <2>1. \A j \in Live : start <= j <=> (~(j < start) /\ first <= j)
    BY <1>1, <1>2, <1>3, <1>7
  <2>2. ASSUME NEW j \in Live, j < start PROVE j <= b
    <3>1. j \in Nat
      BY <1>2
    <3>2. QED
      BY <1>1, <1>3, <2>2, <3>1
  <2>3. \A j \in Live : j < start \/ start <= j
    BY <1>1, <1>2
  <2>4. \A j \in Live : first <= j => ~(j < start)
    BY <1>1, <1>2, <1>3, <1>7
  <2>5. QED
    BY <1>7, <1>9, <2>1, <2>2, <2>3, <2>4 DEF InChunk
<1>18. (\E j \in Live : j - Header <= b /\ b < j)
         <=> (u # 0 /\ end - u <= b) \/ (k # None /\ InHeader(k, start, end, b))
  <2>1. ASSUME NEW j \in Live, j - Header <= b, b < j, j < end
        PROVE  first <= j /\ start <= j - Header
    BY <1>1, <1>2, <1>3, <1>6, <1>7, <2>1
  <2>2. \A j \in Live : end <= j => b < j
    BY <1>1, <1>2, <1>3
  <2>3. \A j \in Live : j < end \/ end <= j
    BY <1>1, <1>2, <1>3
  <2>4. QED
    BY <1>8, <1>9, <2>1, <2>2, <2>3 DEF InHeader
<1>19. CASE first = end
  <2>1. b < first
    BY <1>19, <1>1, <1>3
  <2>2. QED
    BY <1>4, <1>5, <1>11, <1>17, <1>19, <2>1
<1>20. CASE first # end /\ u = Row
  <2>1. end - u = start /\ u # 0
    BY <1>1, <1>2, <1>20 DEF end
  <2>2. u # 0 /\ end - u <= b
    BY <1>1, <2>1
  <2>3. ~\E i \in Live : i <= b /\ b < i + tree[i].size
    <3>1. PICK j \in Live : end <= j /\ end - u = j - Header
      BY <1>8, <2>1
    <3>2. b < j /\ ~(b < j - Header)
      BY <1>1, <1>2, <1>3, <2>2, <3>1
    <3>3. QED
      BY <1>16, <3>2
  <2>4. QED
    BY <1>4, <1>5, <1>12, <1>14, <1>18, <1>20, <2>2, <2>3
<1>21. CASE first # end /\ u # Row
  <2>1. Painted(b) = Colour(over \o under \o rest, b)
    BY <1>4, <1>21
  <2>2. CASE \E i \in Live : i <= b /\ b < i + tree[i].size
    <3>1. ~\E j \in Live : j - Header <= b /\ b < j
      BY <1>1, <1>2, <1>3, <1>16, <2>2
    <3>2. QED
      BY <1>5, <1>11, <1>12, <1>13, <1>14, <1>15, <1>17, <1>18, <2>1, <2>2, <3>1
         DEF LoopShows
  <2>3. CASE ~\E i \in Live : i <= b /\ b < i + tree[i].size
    BY <1>5, <1>11, <1>12, <1>13, <1>14, <1>15, <1>17, <1>18, <2>1, <2>3 DEF LoopShows
  <2>4. QED
    BY <2>2, <2>3
<1>22. QED
  BY <1>19, <1>20, <1>21

-----------------------------------------------------------------------------
(* What every state keeps                                                  *)

Ends == Addrs \cup {None}
Requests == [addr : Int, first : BOOLEAN, stale : BOOLEAN]
TreeTyped ==
  /\ Keys \subseteq Addrs /\ \E n \in Nat : \A k \in Keys : k <= n
  /\ tree \in [Keys -> [allocated : BOOLEAN, size : Sizes \cup {0}]]
HandlerTyped ==
  /\ handler \in {"idle", "mark", "put", "copy", "map", "testRows", "readRow", "dead"}
  /\ report \in [op : {"none", "malloc", "free"}, addr : Ends, size : Sizes \cup {0}]
  /\ handler \in {"mark", "put"} => report.op # "none" /\ report.addr # None
  /\ bounds \in Ends \X Ends /\ copy \in Ends \X Ends
  /\ reports \in 0 .. MaxReports
TableTyped ==
  /\ edt \in {"idle", "fill", "clearRows", "lookup"}
  /\ page = None \/ page % Page = 0
  /\ edt = "fill" => wanted # None /\ wanted % Page = 0
  /\ edt = "lookup" => asked \in Int
  /\ stale \in BOOLEAN
  /\ posted \in Seq(Requests) /\ Len(posted) <= MaxPosted
Typed == TreeTyped /\ HandlerTyped /\ TableTyped

\* Chunks and headers do not overlap; while a report is put in, its own chunk may be
\* between two states, and the others leave room for it.
ReportFits ==
  IF handler \in {"mark", "put"}
  THEN /\ \A j, k \in Live \ {report.addr} : j < k => j + tree[j].size <= k - Header
       /\ report.op = "malloc" =>
            \A k \in Live \ {report.addr} : \/ report.addr + report.size <= k - Header
                                           \/ k + tree[k].size <= report.addr - Header
  ELSE Laid

\* The table the handler thread found with rows has lost them only to the event thread,
\* and so has the tree the chunk it was given.
RowsRead ==
  /\ handler = "copy" /\ Keys = {} => disturbed
  /\ handler = "map" /\ copy[1] = None => disturbed
  /\ handler = "readRow" /\ page = None => disturbed
  /\ SurvivesUndisturbed

LEMMA EndsAre ==
  Ends \subseteq Int /\ Addrs \subseteq Ends /\ None \in Ends /\ None \notin Addrs
<1>1. Addrs \subseteq Nat /\ None = -1
  BY Layout DEF None
<1>2. QED
  BY <1>1 DEF Ends

LEMMA TreeIsRight ==
  ASSUME TreeTyped
  PROVE  TreeRight
<1>1. Sizes \cup {0} \subseteq Nat /\ Keys \subseteq Nat
  BY Layout DEF TreeTyped
<1>2. [allocated : BOOLEAN, size : Sizes \cup {0}] \subseteq [allocated : BOOLEAN, size : Nat]
  BY <1>1
<1>3. tree \in [Keys -> [allocated : BOOLEAN, size : Nat]]
  BY <1>2 DEF TreeTyped
<1>4. QED
  BY <1>1, <1>3 DEF TreeTyped, TreeRight

\* The base of a page is no null address: a page is longer than a byte.
LEMMA BaseIs ==
  ASSUME NEW a \in Int
  PROVE  Base(a) \in Int /\ Base(a) # None /\ Base(a) % Page = 0
<1>1. Page \in Nat \ {0, 1}
  BY Layout
<1> DEFINE base == (a \div Page) * Page
<1>2. base \in Int
  BY <1>1
<1>3. base # -1 /\ base % Page = 0
  BY <1>1
<1> HIDE DEF base
<1>4. Base(a) = base /\ None = -1
  BY DEF Base, None, base
<1>5. QED
  BY <1>2, <1>3, <1>4

LEMMA EmptyTree ==
  ASSUME tree = <<>>
  PROVE  TreeTyped /\ Keys = {} /\ Live = {}
<1>1. Keys = {}
  BY DEF Keys
<1>2. Live = {}
  BY <1>1 DEF Live
<1>3. tree \in [{} -> [allocated : BOOLEAN, size : Sizes \cup {0}]]
  OBVIOUS
<1>4. TreeTyped
  <2>1. \A k \in Keys : k <= 0
    BY <1>1
  <2>2. \E n \in Nat : \A k \in Keys : k <= n
    BY <2>1
  <2>3. QED
    BY <1>1, <1>3, <2>2 DEF TreeTyped
<1>5. QED
  BY <1>1, <1>2, <1>4

LEMMA InitTyped ==
  Init => Typed /\ ReportFits /\ RowsRead
<1> SUFFICES ASSUME Init PROVE Typed /\ ReportFits /\ RowsRead
  OBVIOUS
<1>1. TreeTyped /\ Live = {}
  BY EmptyTree DEF Init
<1>2. HandlerTyped
  BY BoundsAssumption DEF Init, HandlerTyped, NoReport, Ends
<1>3. TableTyped
  <2>1. <<>> \in Seq(Requests) /\ Len(<<>>) = 0
    BY EmptySeq
  <2>2. posted \in Seq(Requests) /\ Len(posted) <= MaxPosted
    BY <2>1, BoundsAssumption DEF Init
  <2>3. QED
    BY <2>2 DEF Init, TableTyped
<1>4. ReportFits
  BY <1>1 DEF Init, ReportFits, Laid
<1>5. RowsRead
  BY DEF Init, RowsRead, SurvivesUndisturbed
<1>6. QED
  BY <1>1, <1>2, <1>3, <1>4, <1>5 DEF Typed

\* A report put into the tree.
LEMMA PutTree ==
  ASSUME TreeTyped, HandlerTyped, Put
  PROVE  TreeTyped' /\ Keys' # {}
<1> DEFINE a == report.addr
           Value(k) == IF k # a THEN tree[k]
                       ELSE [allocated |-> (report.op = "malloc"), size |-> LastSizeOf(k)]
<1>1. /\ a \in Addrs /\ a \in Nat /\ Addrs \subseteq Nat /\ Keys \subseteq Nat
      /\ report.size \in Sizes \cup {0}
  BY Layout DEF HandlerTyped, Put, Ends, TreeTyped
<1>2. tree' = [k \in Keys \cup {a} |-> Value(k)]
  BY DEF Put
<1>3. Keys' = Keys \cup {a}
  <2> HIDE DEF Value
  <2>1. QED
    BY <1>2 DEF Keys
<1>4. ASSUME NEW k \in Keys \cup {a}
      PROVE  Value(k) \in [allocated : BOOLEAN, size : Sizes \cup {0}]
  <2>1. CASE k # a
    BY <1>4, <2>1 DEF TreeTyped
  <2>2. CASE k = a
    <3>1. LastSizeOf(a) \in Sizes \cup {0}
      <4>1. a \in Keys => tree[a].size \in Sizes \cup {0}
        <5>1. ASSUME a \in Keys PROVE tree[a] \in [allocated : BOOLEAN, size : Sizes \cup {0}]
          BY <5>1 DEF TreeTyped
        <5>2. QED
          BY <5>1
      <4>2. QED
        BY <1>1, <4>1 DEF LastSizeOf
    <3>2. (report.op = "malloc") \in BOOLEAN
      OBVIOUS
    <3>3. QED
      BY <2>2, <3>1, <3>2
  <2>3. QED
    BY <2>1, <2>2
<1> HIDE DEF Value
<1>5. tree' \in [Keys' -> [allocated : BOOLEAN, size : Sizes \cup {0}]]
  BY <1>2, <1>3, <1>4
<1>6. PICK n \in Nat : \A k \in Keys' : k <= n
  <2>1. PICK m \in Nat : \A k \in Keys : k <= m
    BY DEF TreeTyped
  <2>2. CASE a <= m
    BY <1>3, <2>1, <2>2
  <2>3. CASE ~(a <= m)
    <3>1. \A k \in Keys : k <= a
      BY <1>1, <2>1, <2>3
    <3>2. QED
      BY <1>1, <1>3, <3>1
  <2>4. QED
    BY <2>2, <2>3
<1>7. Keys' \in SUBSET Nat /\ Keys' # {} /\ Keys' \subseteq Addrs
  BY <1>1, <1>3 DEF TreeTyped
<1>8. QED
  BY <1>5, <1>6, <1>7 DEF TreeTyped

\* What the copy of a tree begins and ends with.
LEMMA CopyIs ==
  ASSUME TreeTyped
  PROVE  /\ MinKey(Keys) \in Ends /\ MaxKey(Keys) \in Ends
         /\ MinKey(Keys) = None <=> Keys = {}
<1>1. Keys \in SUBSET Nat /\ Keys \subseteq Ends /\ None \in Ends /\ None \notin Keys
  BY Layout, EndsAre DEF TreeTyped
<1>2. PICK n \in Nat : \A k \in Keys : k <= n
  BY DEF TreeTyped
<1>3. /\ IF Keys = {} THEN MinKey(Keys) = None ELSE MinKey(Keys) \in Keys
      /\ IF Keys = {} THEN MaxKey(Keys) = None ELSE MaxKey(Keys) \in Keys
  BY <1>1, <1>2, MinKeyIs, MaxKeyIs
<1>4. QED
  BY <1>1, <1>3

\* Asking for a page.
LEMMA PostTyped ==
  ASSUME TableTyped, NEW a \in Int, NEW first \in BOOLEAN, NEW old \in BOOLEAN,
         PostLoad(a, first, old)
  PROVE  posted' \in Seq(Requests) /\ Len(posted') <= MaxPosted
<1> DEFINE e == [addr |-> a, first |-> first, stale |-> old]
<1>1. e \in Requests
  BY DEF Requests
<1> HIDE DEF e
<1>2. posted' = Append(posted, e) /\ Len(posted) < MaxPosted /\ posted \in Seq(Requests)
  BY DEF PostLoad, TableTyped, e
<1>3. posted' \in Seq(Requests) /\ Len(posted') = Len(posted) + 1 /\ Len(posted) \in Nat
  BY <1>1, <1>2, AppendProperties, LenProperties
<1>4. QED
  BY <1>2, <1>3, BoundsAssumption

\* The flag of the report's chunk.
LEMMA MarkTree ==
  ASSUME TreeTyped, Mark
  PROVE  /\ TreeTyped' /\ Keys' = Keys
         /\ \A k \in Keys : /\ tree'[k].size = tree[k].size
                            /\ k # report.addr => tree'[k] = tree[k]
<1> DEFINE a == report.addr
<1>1. tree' = IF a \in Keys THEN [tree EXCEPT ![a].allocated = (report.op = "malloc")] ELSE tree
  BY DEF Mark
<1>2. CASE a \in Keys
  <2> DEFINE e == [tree[a] EXCEPT !.allocated = (report.op = "malloc")]
  <2>1. tree' = [tree EXCEPT ![a] = e]
    BY <1>1, <1>2
  <2>2. tree[a] \in [allocated : BOOLEAN, size : Sizes \cup {0}]
    BY <1>2 DEF TreeTyped
  <2>3. e \in [allocated : BOOLEAN, size : Sizes \cup {0}] /\ e.size = tree[a].size
    BY <2>2
  <2> HIDE DEF e
  <2>4. Keys' = Keys
    BY <2>1 DEF Keys
  <2>5. tree' \in [Keys -> [allocated : BOOLEAN, size : Sizes \cup {0}]]
    BY <2>1, <2>3 DEF TreeTyped
  <2>6. \A k \in Keys : tree'[k] = IF k = a THEN e ELSE tree[k]
    BY <2>1 DEF TreeTyped
  <2>7. QED
    BY <2>3, <2>4, <2>5, <2>6 DEF TreeTyped
<1>3. CASE a \notin Keys
  <2>1. tree' = tree
    BY <1>1, <1>3
  <2>2. QED
    BY <2>1 DEF TreeTyped, Keys
<1>4. QED
  BY <1>2, <1>3

LEMMA TreeTypedStep ==
  ASSUME Typed, [Next]_vars
  PROVE  TreeTyped'
<1> USE DEF Typed
<1>1. CASE Mark
  BY <1>1, MarkTree
<1>2. CASE Put
  BY <1>2, PutTree
<1>3. CASE ClearTree
  <2>1. tree' = <<>>
    BY <1>3 DEF ClearTree
  <2>2. Keys' = {}
    BY <2>1 DEF Keys
  <2>3. tree' \in [{} -> [allocated : BOOLEAN, size : Sizes \cup {0}]]
    BY <2>1
  <2>4. \A k \in Keys' : k <= 0
    BY <2>2
  <2>5. \E n \in Nat : \A k \in Keys' : k <= n
    BY <2>4
  <2>6. QED
    BY <2>2, <2>3, <2>5 DEF TreeTyped
<1>4. CASE UNCHANGED tree
  BY <1>4 DEF TreeTyped, Keys
<1>5. Mark \/ Put \/ ClearTree \/ UNCHANGED tree
  BY DEF Next, vars, AddTrace, EventThread, Take, CopyTree, UpdateMap, UpdateMapEmpty, TestRows,
         ReadRow, ClickMap, SelectChunk, Go, LoadPage, FillPage, ClearRows, ClickRow, Ask, Overflow
<1>6. QED
  BY <1>1, <1>2, <1>3, <1>4, <1>5

LEMMA HandlerTypedStep ==
  ASSUME Typed, [Next]_vars
  PROVE  HandlerTyped'
<1> USE DEF Typed
<1>1. ASSUME NEW op \in {"malloc", "free"}, NEW a \in Addrs, NEW n \in Sizes, Take(op, a, n)
      PROVE  HandlerTyped'
  <2>1. n \in Sizes /\ a \in Ends /\ a # None
    <3>1. a \in Nat
      BY Layout
    <3>2. QED
      BY <3>1 DEF Ends, None
  <2>2. report' = [op |-> op, addr |-> a, size |-> n] /\ handler' = "mark"
        /\ bounds' = bounds /\ copy' = copy /\ reports' = reports + 1 /\ reports < MaxReports
    BY <1>1 DEF Take
  <2>3. report' \in [op : {"none", "malloc", "free"}, addr : Ends, size : Sizes \cup {0}]
    BY <2>1, <2>2
  <2>4. reports' \in 0 .. MaxReports
    BY <2>2, BoundsAssumption DEF HandlerTyped
  <2>5. QED
    BY <2>1, <2>2, <2>3, <2>4 DEF HandlerTyped
<1>2. CASE Mark
  BY <1>2 DEF Mark, HandlerTyped
<1>3. CASE Put
  BY <1>3 DEF Put, HandlerTyped
<1>10. CASE CopyTree
  <2>1. copy' \in Ends \X Ends
    BY <1>10, CopyIs DEF CopyTree
  <2>2. QED
    BY <1>10, <2>1 DEF CopyTree, HandlerTyped
<1>4. CASE UpdateMap \/ UpdateMapEmpty
  BY <1>4 DEF UpdateMap, UpdateMapEmpty, HandlerTyped
<1>5. CASE TestRows
  BY <1>5 DEF TestRows, HandlerTyped
<1>6. CASE ReadRow
  BY <1>6 DEF ReadRow, HandlerTyped
<1>7. CASE UNCHANGED <<handlerVars, bounds>>
  BY <1>7 DEF handlerVars, HandlerTyped
<1>8. \/ \E op \in {"malloc", "free"}, a \in Addrs, n \in Sizes : Take(op, a, n)
      \/ Mark \/ Put \/ CopyTree \/ UpdateMap \/ UpdateMapEmpty \/ TestRows \/ ReadRow
      \/ UNCHANGED <<handlerVars, bounds>>
  BY DEF Next, vars, AddTrace, EventThread, ClickMap, SelectChunk, Go, LoadPage, FillPage,
         ClearTree, ClearRows, ClickRow, Ask, Overflow
<1>9. QED
  BY <1>1, <1>2, <1>3, <1>4, <1>5, <1>6, <1>7, <1>8, <1>10

LEMMA FloorKeyIs ==
  ASSUME TreeTyped, NEW a \in Int
  PROVE  FloorKey(a) = None \/ FloorKey(a) \in Keys
<1> DEFINE S == {k \in Keys : k <= a}
<1>1. CASE S = {}
  BY <1>1 DEF FloorKey, MaxKey
<1>2. CASE S # {}
  <2>1. S \in SUBSET Nat /\ a \in Nat /\ \A n \in S : n <= a
    BY <1>2, TreeIsRight, OfKeys
  <2>2. MaxKey(S) \in S
    BY <1>2, <2>1, MaxKeyIs
  <2>3. QED
    BY <2>2 DEF FloorKey
<1>3. QED
  BY <1>1, <1>2

LEMMA TableTypedStep ==
  ASSUME Typed, [Next]_vars
  PROVE  TableTyped'
<1> USE DEF Typed
<1>1. CASE ClickMap
  <2>1. PICK a \in bounds[1] .. bounds[2] - 1 : PostLoad(Base(a), TRUE, stale)
    BY <1>1 DEF ClickMap
  <2>2. bounds[1] \in Int /\ bounds[2] \in Int
    <3>1. bounds \in Ends \X Ends /\ Ends \subseteq Int
      BY EndsAre DEF HandlerTyped
    <3>2. QED
      BY <3>1
  <2>3. Base(a) \in Int
    BY <2>1, <2>2, BaseIs
  <2>4. stale \in BOOLEAN
    BY DEF TableTyped
  <2>5. posted' \in Seq(Requests) /\ Len(posted') <= MaxPosted
    BY <2>1, <2>3, <2>4, PostTyped
  <2>6. QED
    BY <1>1, <2>5 DEF ClickMap, TableTyped, tableVars, lookupVars
<1>2. ASSUME NEW a \in Addrs, SelectChunk(a) PROVE TableTyped'
  <2>1. PostLoad(a, FALSE, FALSE)
    BY <1>2 DEF SelectChunk
  <2>2. a \in Int
    BY EndsAre
  <2>3. posted' \in Seq(Requests) /\ Len(posted') <= MaxPosted
    BY <2>1, <2>2, PostTyped
  <2>4. QED
    BY <1>2, <2>3 DEF SelectChunk, TableTyped, tableVars, lookupVars
<1>3. ASSUME NEW a \in Addrs, Go(a) PROVE TableTyped'
  <2>1. PostLoad(a, FALSE, FALSE)
    BY <1>3 DEF Go
  <2>2. a \in Int
    BY EndsAre
  <2>3. posted' \in Seq(Requests) /\ Len(posted') <= MaxPosted
    BY <2>1, <2>2, PostTyped
  <2>4. QED
    BY <1>3, <2>2, <2>3 DEF Go, TableTyped, tableVars
<1>4. CASE LoadPage
  <2> DEFINE request == Head(posted)
             base == Base(request.addr)
  <2>1. posted \in Seq(Requests) /\ posted # <<>> /\ Len(posted) <= MaxPosted
        /\ posted' = Tail(posted)
    BY <1>4 DEF LoadPage, TableTyped
  <2>2. request \in Requests
    BY <2>1, HeadTailProperties
  <2>3. posted' \in Seq(Requests) /\ Len(posted') = Len(posted) - 1 /\ Len(posted) \in Nat
    BY <2>1, HeadTailProperties, LenProperties
  <2>4. Len(posted') <= MaxPosted
    BY <2>1, <2>3, BoundsAssumption
  <2>5. base \in Int /\ base # None /\ base % Page = 0
    BY <2>2, BaseIs DEF Requests
  <2>6. /\ UNCHANGED <<asked, stale>>
        /\ \/ UNCHANGED <<page, wanted, edt>>
           \/ page' = None /\ wanted' = base /\ edt' = "fill"
    BY <1>4 DEF LoadPage, lookupVars, tableVars
  <2>7. edt = "idle"
    BY <1>4 DEF LoadPage
  <2> HIDE DEF base, request
  <2>8. QED
    BY <2>3, <2>4, <2>5, <2>6, <2>7 DEF TableTyped
<1>5. CASE FillPage
  BY <1>5 DEF FillPage, TableTyped, lookupVars
<1>6. CASE ClearTree
  <2>1. posted \in Seq(Requests) /\ Len(posted) \in Nat
    BY LenProperties DEF TableTyped
  <2>2. posted' = [i \in 1 .. Len(posted) |-> [posted[i] EXCEPT !.stale = TRUE]]
    BY <1>6 DEF ClearTree
  <2>3. ASSUME NEW i \in 1 .. Len(posted)
        PROVE  [posted[i] EXCEPT !.stale = TRUE] \in Requests
    <3>1. posted[i] \in Requests
      BY <2>1, ElementOfSeq
    <3>2. QED
      BY <3>1 DEF Requests
  <2>4. posted' \in Seq(Requests) /\ Len(posted') = Len(posted)
    <3> HIDE DEF Requests
    <3>1. posted' \in [1 .. Len(posted) -> Requests]
      BY <2>2, <2>3
    <3>2. QED
      BY <2>1, <3>1, IsASeq, LenProperties
  <2>5. /\ edt' = "clearRows" /\ stale' = TRUE
        /\ UNCHANGED <<page, wanted, asked>>
    BY <1>6 DEF ClearTree, tableVars, lookupVars
  <2>6. QED
    BY <2>4, <2>5 DEF TableTyped
<1>7. CASE ClearRows
  BY <1>7 DEF ClearRows, TableTyped, lookupVars
<1>8. ASSUME NEW b \in Addrs, ClickRow(b) PROVE TableTyped'
  BY <1>8, Layout DEF ClickRow, TableTyped, tableVars
<1>9. CASE Ask
  <2> DEFINE k == FloorKey(asked)
  <2>1. asked \in Int
    BY <1>9 DEF Ask, TableTyped
  <2>2. k \in Int
    <3>1. k = None \/ k \in Keys
      BY <2>1, FloorKeyIs
    <3>2. Keys \subseteq Addrs
      BY DEF TreeTyped
    <3>3. QED
      BY <3>1, <3>2, EndsAre DEF Ends
  <2>3. /\ UNCHANGED <<page, wanted, stale>>
        /\ \/ edt' = "idle" /\ (UNCHANGED posted \/ PostLoad(k, FALSE, FALSE))
           \/ asked' = k /\ UNCHANGED <<edt, posted>>
        /\ edt = "lookup"
    BY <1>9 DEF Ask, tableVars
  <2> HIDE DEF k
  <2>4. PostLoad(k, FALSE, FALSE) => posted' \in Seq(Requests) /\ Len(posted') <= MaxPosted
    BY <2>2, PostTyped
  <2>5. QED
    BY <2>2, <2>3, <2>4 DEF TableTyped
<1>10. CASE Overflow
  BY <1>10 DEF Overflow, TableTyped, tableVars
<1>11. CASE UpdateMap
  <2>1. stale' \in BOOLEAN
    BY <1>11, Zenon DEF UpdateMap
  <2>2. QED
    BY <1>11, <2>1 DEF UpdateMap, TableTyped, edtVars, tableVars, lookupVars
<1>12. CASE UNCHANGED <<edtVars, stale>>
  BY <1>12 DEF edtVars, TableTyped, tableVars, lookupVars
<1>13. \/ ClickMap
       \/ \E a \in Addrs : SelectChunk(a) \/ Go(a)
       \/ LoadPage \/ FillPage \/ ClearTree \/ ClearRows
       \/ \E b \in Addrs : ClickRow(b)
       \/ Ask \/ Overflow \/ UpdateMap
       \/ UNCHANGED <<edtVars, stale>>
  BY DEF Next, vars, AddTrace, EventThread, Take, Mark, Put, CopyTree, UpdateMapEmpty, TestRows,
         ReadRow
<1>14. QED
  BY <1>1, <1>2, <1>3, <1>4, <1>5, <1>6, <1>7, <1>8, <1>9, <1>10, <1>11, <1>12, <1>13

LEMMA TypedStep ==
  ASSUME Typed, [Next]_vars
  PROVE  Typed'
BY TreeTypedStep, HandlerTypedStep, TableTypedStep DEF Typed

LEMMA SameTree ==
  ASSUME UNCHANGED tree
  PROVE  Keys' = Keys /\ Live' = Live /\ (Laid <=> Laid')
<1>1. Keys' = Keys /\ Live' = Live
  BY DEF Keys, Live, Allocated
<1>2. QED
  BY <1>1 DEF Laid

\* The allocator's answer leaves room for every chunk, and the report makes no other of
\* them live or longer.
LEMMA ReportFitsStep ==
  ASSUME Typed, ReportFits, [Next]_vars
  PROVE  ReportFits'
<1>1. ASSUME NEW op \in {"malloc", "free"}, NEW a \in Addrs, NEW n \in Sizes, Take(op, a, n)
      PROVE  ReportFits'
  <2>1. /\ report'.op = op /\ report'.addr = a /\ report'.size = n
        /\ handler' = "mark" /\ handler = "idle" /\ UNCHANGED tree
        /\ op = "malloc" => FreeSpace(a, n)
    BY <1>1 DEF Take
  <2>2. Laid
    BY <2>1 DEF ReportFits
  <2>3. Live' = Live
    BY <2>1, SameTree
  <2>4. ASSUME NEW i \in Live' \ {a}, NEW j \in Live' \ {a}, i < j
        PROVE  i + tree'[i].size <= j - Header
    BY <2>1, <2>2, <2>3, <2>4 DEF Laid
  <2>5. ASSUME op = "malloc", NEW k \in Live' \ {a}
        PROVE  a + n <= k - Header \/ k + tree'[k].size <= a - Header
    BY <2>1, <2>3, <2>5 DEF FreeSpace, Live
  <2>6. QED
    BY <2>1, <2>4, <2>5 DEF ReportFits
<1>2. CASE Mark
  <2> DEFINE a == report.addr
  <2>1. handler = "mark" /\ handler' = "put" /\ report' = report
    BY <1>2 DEF Mark
  <2>2. /\ Keys' = Keys
        /\ \A k \in Keys : /\ tree'[k].size = tree[k].size
                           /\ k # a => tree'[k] = tree[k]
    BY <1>2, MarkTree DEF Typed
  <2>3. Live' \ {a} = Live \ {a} /\ Live \subseteq Keys
    BY <2>2 DEF Live, Allocated
  <2>4. \A k \in Live' \ {a} : tree'[k].size = tree[k].size
    BY <2>2, <2>3
  <2>5. /\ \A j, k \in Live \ {a} : j < k => j + tree[j].size <= k - Header
        /\ report.op = "malloc" =>
             \A k \in Live \ {a} : \/ report.addr + report.size <= k - Header
                                   \/ k + tree[k].size <= report.addr - Header
    BY <2>1 DEF ReportFits
  <2>6. QED
    BY <2>1, <2>3, <2>4, <2>5 DEF ReportFits
<1>3. CASE Put
  <2> DEFINE a == report.addr
             Value(k) == IF k # a THEN tree[k]
                         ELSE [allocated |-> (report.op = "malloc"), size |-> LastSizeOf(k)]
  <2>1. handler = "put" /\ handler' = "copy" /\ report' = report
    BY <1>3 DEF Put
  <2>2. tree' = [k \in Keys \cup {a} |-> Value(k)]
    BY <1>3 DEF Put
  <2>3. Keys' = Keys \cup {a} /\ \A k \in Keys' : tree'[k] = Value(k)
    <3> HIDE DEF Value
    <3>1. QED
      BY <2>2 DEF Keys
  <2>4. \A k \in Live' : k # a => k \in Live /\ tree'[k] = tree[k]
    BY <2>3 DEF Live, Allocated
  <2>5. ASSUME a \in Live' PROVE report.op = "malloc" /\ tree'[a].size = report.size
    <3>1. tree'[a].allocated /\ tree'[a] = Value(a)
      <4> HIDE DEF Value
      <4>1. QED
        BY <2>3, <2>5 DEF Live, Allocated
    <3>2. Value(a).allocated = (report.op = "malloc") /\ Value(a).size = LastSizeOf(a)
      OBVIOUS
    <3> HIDE DEF Value
    <3>3. report.op = "malloc"
      BY <3>1, <3>2
    <3>4. QED
      BY <3>1, <3>2, <3>3 DEF LastSizeOf
  <2>6. /\ \A j, k \in Live \ {a} : j < k => j + tree[j].size <= k - Header
        /\ report.op = "malloc" =>
             \A k \in Live \ {a} : a + report.size <= k - Header \/ k + tree[k].size <= a - Header
    BY <2>1 DEF ReportFits
  <2>7. /\ a \in Nat /\ report.size \in Nat /\ Header \in Nat \ {0}
        /\ \A k \in Live : k \in Nat /\ tree[k].size \in Nat
    <3>1. a \in Ends /\ a # None /\ report.size \in Sizes \cup {0}
      BY <2>1 DEF Typed, HandlerTyped
    <3>2. TreeRight
      BY TreeIsRight DEF Typed
    <3>3. \A k \in Live : k \in Nat /\ tree[k].size \in Nat
      BY <3>2, OfKeys
    <3>4. a \in Nat
      BY <3>1, Layout DEF Ends
    <3>5. report.size \in Nat
      <4>1. Sizes \cup {0} \subseteq Nat
        BY Layout
      <4>2. QED
        BY <3>1, <4>1
    <3>6. QED
      BY <3>3, <3>4, <3>5, Layout
  <2> HIDE DEF a, Value
  <2>8. ASSUME NEW i \in Live', NEW j \in Live', i < j PROVE i + tree'[i].size <= j - Header
    <3>1. CASE i # a /\ j # a
      BY <2>4, <2>6, <2>8, <3>1
    <3>2. CASE i = a
      <4>1. j # a /\ j \in Live /\ j \in Nat /\ tree[j].size \in Nat
        BY <2>4, <2>7, <2>8, <3>2
      <4>2. a + report.size <= j - Header \/ j + tree[j].size <= a - Header
        BY <2>5, <2>6, <3>2, <4>1
      <4>3. QED
        BY <2>5, <2>7, <2>8, <3>2, <4>1, <4>2
    <3>3. CASE j = a
      <4>1. i # a /\ i \in Live /\ i \in Nat /\ tree[i].size \in Nat /\ tree'[i] = tree[i]
        BY <2>4, <2>7, <2>8, <3>3
      <4>2. a + report.size <= i - Header \/ i + tree[i].size <= a - Header
        BY <2>5, <2>6, <3>3, <4>1
      <4>3. QED
        BY <2>7, <2>8, <3>3, <4>1, <4>2
    <3>4. QED
      BY <3>1, <3>2, <3>3
  <2>9. Laid'
    BY <2>8 DEF Laid
  <2>10. QED
    BY <2>1, <2>9 DEF ReportFits
<1>4. CASE ClearTree
  <2>1. tree' = <<>>
    BY <1>4 DEF ClearTree
  <2>2. Keys' = {}
    BY <2>1 DEF Keys
  <2>3. Live' = {}
    BY <2>2 DEF Live
  <2>4. QED
    BY <2>3 DEF ReportFits, Laid
<1>5. CASE CopyTree \/ UpdateMap \/ UpdateMapEmpty \/ TestRows \/ ReadRow
  <2>1. /\ handler \notin {"mark", "put"} /\ handler' \notin {"mark", "put"}
        /\ UNCHANGED tree
    BY <1>5 DEF CopyTree, UpdateMap, UpdateMapEmpty, TestRows, ReadRow
  <2>2. QED
    BY <2>1, SameTree DEF ReportFits
<1>6. CASE UNCHANGED <<tree, handler, report>>
  <2>1. Live' = Live /\ (Laid <=> Laid')
    BY <1>6, SameTree
  <2>2. QED
    BY <1>6, <2>1 DEF ReportFits
<1>7. \/ \E op \in {"malloc", "free"}, a \in Addrs, n \in Sizes : Take(op, a, n)
      \/ Mark \/ Put \/ ClearTree \/ CopyTree \/ UpdateMap \/ UpdateMapEmpty \/ TestRows
      \/ ReadRow
      \/ UNCHANGED <<tree, handler, report>>
  BY DEF Next, vars, handlerVars, AddTrace, EventThread, ClickMap, SelectChunk, Go, LoadPage,
         FillPage, ClearRows, ClickRow, Ask, Overflow
<1>8. QED
  BY <1>1, <1>2, <1>3, <1>4, <1>5, <1>6, <1>7

LEMMA RowsReadStep ==
  ASSUME Typed, RowsRead, [Next]_vars
  PROVE  RowsRead'
<1> USE DEF RowsRead, SurvivesUndisturbed
<1>1. ASSUME NEW op \in {"malloc", "free"}, NEW a \in Addrs, NEW n \in Sizes, Take(op, a, n)
      PROVE  RowsRead'
  BY <1>1 DEF Take
<1>2. CASE TestRows
  BY <1>2 DEF TestRows, edtVars, tableVars
<1>12. CASE Put
  <2>1. handler' = "copy" /\ disturbed' = disturbed
    BY <1>12 DEF Put
  <2>2. Keys' # {}
    BY <1>12, PutTree DEF Typed
  <2>3. QED
    BY <2>1, <2>2
<1>13. CASE CopyTree
  <2>1. /\ handler = "copy" /\ handler' = "map" /\ disturbed' = disturbed
        /\ copy'[1] = MinKey(Keys)
    BY <1>13 DEF CopyTree
  <2>2. MinKey(Keys) = None <=> Keys = {}
    BY CopyIs DEF Typed
  <2>3. QED
    BY <2>1, <2>2
<1>3. CASE ReadRow
  BY <1>3 DEF ReadRow
<1>4. CASE Mark \/ UpdateMap \/ UpdateMapEmpty
  BY <1>4 DEF Mark, UpdateMap, UpdateMapEmpty
<1>5. CASE LoadPage
  <2>1. handler' = handler /\ copy' = copy /\ tree' = tree
        /\ \/ UNCHANGED <<page, disturbed>>
           \/ page' = None /\ disturbed' = (disturbed \/ page # None)
    BY <1>5 DEF LoadPage, tableVars, handlerVars
  <2>2. QED
    BY <2>1, SameTree
<1>6. CASE FillPage
  <2>1. /\ handler' = handler /\ disturbed' = disturbed /\ page' # None
        /\ copy' = copy /\ tree' = tree
    BY <1>6 DEF FillPage, handlerVars, Typed, TableTyped
  <2>2. QED
    BY <2>1, SameTree
<1>7. CASE ClearTree
  BY <1>7 DEF ClearTree, handlerVars
<1>8. CASE ClearRows
  BY <1>8, SameTree DEF ClearRows, handlerVars
<1>9. CASE UNCHANGED <<handler, page, disturbed, copy, tree>>
  BY <1>9, SameTree
<1>10. \/ \E op \in {"malloc", "free"}, a \in Addrs, n \in Sizes : Take(op, a, n)
       \/ TestRows \/ ReadRow \/ Mark \/ Put \/ CopyTree \/ UpdateMap \/ UpdateMapEmpty
       \/ LoadPage \/ FillPage \/ ClearTree \/ ClearRows
       \/ UNCHANGED <<handler, page, disturbed, copy, tree>>
  BY DEF Next, vars, handlerVars, edtVars, tableVars, AddTrace, EventThread, ClickMap,
         SelectChunk, Go, ClickRow, Ask, Overflow
<1>11. QED
  BY <1>1, <1>2, <1>3, <1>4, <1>5, <1>6, <1>7, <1>8, <1>9, <1>10, <1>12,
     <1>13

-----------------------------------------------------------------------------
(* Theorems                                                                *)

\* In every state the variables have their types, the chunks of the tree do not overlap
\* and the handler thread's look at the table has the rows it tested for.
THEOREM Invariant == Spec => [](Typed /\ ReportFits /\ RowsRead)
<1>1. Typed /\ ReportFits /\ RowsRead /\ [Next]_vars => (Typed /\ ReportFits /\ RowsRead)'
  BY TypedStep, ReportFitsStep, RowsReadStep
<1>2. QED
  BY InitTyped, <1>1, PTL DEF Spec

\* The tree, the map, the table and the pages asked for are what their types say.
THEOREM TypeCorrect == Spec => []TypeOK
<1>1. Typed => TypeOK
  <2> SUFFICES ASSUME Typed PROVE TypeOK
    OBVIOUS
  <2>1. \A k \in Keys : tree[k].allocated \in BOOLEAN /\ tree[k].size \in Sizes \cup {0}
    <3>1. \A k \in Keys : tree[k] \in [allocated : BOOLEAN, size : Sizes \cup {0}]
      BY DEF Typed, TreeTyped
    <3>2. QED
      BY <3>1
  <2>2. \A a \in {bounds[1], bounds[2], copy[1], copy[2]} : a \in Ends
    BY DEF Typed, HandlerTyped
  <2>3. QED
    BY <2>1, <2>2 DEF TypeOK, Typed, TreeTyped, HandlerTyped, TableTyped, Ends
<1>2. QED
  BY <1>1, Invariant, PTL

\* Between two reports every byte of the table has the colour the target's heap gives it,
\* wherever chunks begin, end and were freed, and however they are cut into rows and
\* pages: MemoryChunkLabel.paintComponent with the look-ups of getAllocation.
THEOREM PaintsRight == HeadersInRows => (Spec => []PaintedRight)
<1> SUFFICES ASSUME HeadersInRows PROVE Spec => []PaintedRight
  OBVIOUS
<1>1. Typed /\ ReportFits => PaintedRight
  <2> SUFFICES ASSUME Typed, ReportFits, handler = "idle", NEW b \in Bytes
               PROVE  Painted(b) = Truth(b)
    BY DEF PaintedRight
  <2>1. TreeRight /\ Keys \subseteq Addrs
    BY TreeIsRight DEF Typed, TreeTyped
  <2>2. Laid
    BY DEF ReportFits
  <2>3. b \in Nat
    BY DEF Bytes
  <2>4. QED
    BY <2>1, <2>2, <2>3, PaintedIsTruth
<1>2. QED
  BY <1>1, Invariant, PTL

\* Only a table or a tree that the event thread empties while a report is handled ends the
\* handler thread: refreshMemoryPage, and updateMemoryMap with an empty copy of the tree.
THEOREM OnlyDisturbanceKills == Spec => []SurvivesUndisturbed
BY Invariant, PTL DEF RowsRead
=============================================================================
