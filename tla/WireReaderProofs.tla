-------------------------- MODULE WireReaderProofs --------------------------
(***************************************************************************)
(* Theorems about WireReader: of a target whose records never stall        *)
(* half way, the reader is never out of step with the records, whatever    *)
(* they are, however many are sent and whenever either end closes.         *)
(***************************************************************************)
EXTENDS WireReader, SequenceTheorems, FiniteSetTheorems, TLAPS

\* Addresses have four bytes, and a trace is shorter than the 50000 bytes of the
\* buffer that holds its record (Observer.cpp:13), so its length is not negative.
Win32 == \A r \in Records : r.addr[2] = 0
ShortTraces == \A r \in Records : Len(r.trace) # SOCKET_CLOSED

\* What of a record is on the wire: the low half of its address.  The reader queues
\* those whose low half is not null.
Halved(r) == [r EXCEPT !.addr = AddressBytes(@)]
Told(r) == NotNull(Halved(r))

\* How many of the first n records sent are queued.
Turn(n) == Cardinality({k \in 1 .. n : Told(sent[k])})

\* What the target is, but for the high halves: the records are queued in order.
ReceivedHalved ==
  /\ Len(queued) <= Turn(Len(sent))
  /\ \A k \in 1 .. Len(sent) :
       Told(sent[k]) /\ Turn(k) <= Len(queued) => queued[Turn(k)] = Halved(sent[k])

-----------------------------------------------------------------------------
(* The layout of a record                                                  *)

\* A record with a size has one cell more.
Shift(r) == IF r.op = ALLOCATE THEN 1 ELSE 0

\* What each cell of a message is, and how many there are.
LEMMA MessageCells ==
  ASSUME NEW r \in Records
  PROVE  /\ Message(r) \in Seq(Cells)
         /\ Len(Message(r)) = 4 + Shift(r) + Len(r.trace)
         /\ Message(r)[1] = r.op
         /\ r.op = ALLOCATE => Message(r)[2] = r.size
         /\ Message(r)[2 + Shift(r)] = r.addr[1]
         /\ Message(r)[3 + Shift(r)] = 0
         /\ Message(r)[4 + Shift(r)] = Len(r.trace)
         /\ \A i \in 1 .. Len(r.trace) : Message(r)[4 + Shift(r) + i] = r.trace[i]
<1>1. /\ r.op \in {ALLOCATE, FREE} /\ r.size \in Cells
      /\ r.addr[1] \in Cells
      /\ r.trace \in Seq(Cells) /\ Len(r.trace) \in Cells
  BY RecordsAssumption DEF IsRecord
<1>2. {ALLOCATE, FREE, 0} \subseteq Cells
  BY DEF ALLOCATE, FREE, Cells
<1> DEFINE head == IF r.op = ALLOCATE THEN <<ALLOCATE, r.size>> ELSE <<FREE>>
           mid == <<r.addr[1], 0>>
           len == <<Len(r.trace)>>
<1>3. /\ head \in Seq(Cells) /\ Len(head) = 1 + Shift(r) /\ head[1] = r.op
      /\ r.op = ALLOCATE => head[2] = r.size
  BY <1>1, <1>2 DEF Shift
<1>4. mid \in Seq(Cells) /\ Len(mid) = 2 /\ mid[1] = r.addr[1] /\ mid[2] = 0
  BY <1>1, <1>2
<1>5. len \in Seq(Cells) /\ Len(len) = 1 /\ len[1] = Len(r.trace)
  BY <1>1
<1>6. Message(r) = ((head \o mid) \o len) \o r.trace
  BY DEF Message, AddressBytes
<1>7. Shift(r) \in 0 .. 1 /\ (r.op = ALLOCATE => Shift(r) = 1) /\ Len(r.trace) \in Nat
  BY <1>1 DEF Shift, Cells
<1> HIDE DEF head, mid, len
<1> DEFINE a == head \o mid
<1>8. /\ a \in Seq(Cells) /\ Len(a) = 3 + Shift(r)
      /\ a[1] = r.op /\ (r.op = ALLOCATE => a[2] = r.size)
      /\ a[2 + Shift(r)] = r.addr[1] /\ a[3 + Shift(r)] = 0
  <2>1. /\ a \in Seq(Cells) /\ Len(a) = 3 + Shift(r)
        /\ \A i \in 1 .. 3 + Shift(r) :
             a[i] = IF i <= 1 + Shift(r) THEN head[i] ELSE mid[i - (1 + Shift(r))]
    <3>1. /\ a \in Seq(Cells) /\ Len(a) = Len(head) + Len(mid)
          /\ \A i \in 1 .. Len(head) + Len(mid) :
               a[i] = IF i <= Len(head) THEN head[i] ELSE mid[i - Len(head)]
      BY <1>3, <1>4, ConcatProperties
    <3>2. Len(head) + Len(mid) = 3 + Shift(r)
      BY <1>3, <1>4, <1>7
    <3> HIDE DEF a
    <3>3. QED
      BY <1>3, <3>1, <3>2
  <2> HIDE DEF a
  <2>2. QED
    BY <1>3, <1>4, <1>7, <2>1
<1> HIDE DEF a
<1> DEFINE b == a \o len
<1>9. /\ b \in Seq(Cells) /\ Len(b) = 4 + Shift(r)
      /\ b[1] = r.op /\ (r.op = ALLOCATE => b[2] = r.size)
      /\ b[2 + Shift(r)] = r.addr[1] /\ b[3 + Shift(r)] = 0
      /\ b[4 + Shift(r)] = Len(r.trace)
  <2>1. /\ b \in Seq(Cells) /\ Len(b) = 4 + Shift(r)
        /\ \A i \in 1 .. 4 + Shift(r) :
             b[i] = IF i <= 3 + Shift(r) THEN a[i] ELSE len[i - (3 + Shift(r))]
    <3>1. /\ b \in Seq(Cells) /\ Len(b) = Len(a) + Len(len)
          /\ \A i \in 1 .. Len(a) + Len(len) :
               b[i] = IF i <= Len(a) THEN a[i] ELSE len[i - Len(a)]
      <4>1. a \in Seq(Cells) /\ len \in Seq(Cells)
        BY <1>5, <1>8
      <4>2. QED
        BY <4>1, ConcatProperties
    <3>2. Len(a) + Len(len) = 4 + Shift(r)
      BY <1>5, <1>7, <1>8
    <3> HIDE DEF b
    <3>3. QED
      BY <1>8, <3>1, <3>2
  <2> HIDE DEF b
  <2>2. QED
    BY <1>5, <1>7, <1>8, <2>1
<1> HIDE DEF b
<1>10. /\ Message(r) \in Seq(Cells)
       /\ Len(Message(r)) = 4 + Shift(r) + Len(r.trace)
       /\ \A i \in 1 .. 4 + Shift(r) + Len(r.trace) :
            Message(r)[i] = IF i <= 4 + Shift(r) THEN b[i] ELSE r.trace[i - (4 + Shift(r))]
  <2>1. Message(r) = b \o r.trace
    BY <1>6 DEF a, b
  <2>2. QED
    BY <1>1, <1>7, <1>9, <2>1, ConcatProperties
<1>11. QED
  BY <1>7, <1>9, <1>10, SMTT(30)

-----------------------------------------------------------------------------
(* How many records are queued                                             *)

\* Turn counts: it steps at each record that is queued.
LEMMA TurnCounts ==
  ASSUME NEW m \in Nat, NEW n \in Nat
  PROVE  /\ Turn(n) \in Nat
         /\ Turn(n + 1) = IF Told(sent[n + 1]) THEN Turn(n) + 1 ELSE Turn(n)
         /\ m <= n => Turn(m) <= Turn(n)
         /\ m < n /\ Told(sent[n]) => Turn(m) < Turn(n)
<1> DEFINE P(i) == {k \in 1 .. i : Told(sent[k])}
<1>1. ASSUME NEW i \in Nat
      PROVE  IsFiniteSet(P(i)) /\ Cardinality(P(i)) \in Nat
  <2>1. IsFiniteSet(1 .. i) /\ P(i) \in SUBSET (1 .. i)
    BY FS_Interval
  <2>2. QED
    BY <2>1, FS_Subset, FS_CardinalityType
<1>2. ASSUME NEW i \in Nat
      PROVE  Turn(i + 1) = IF Told(sent[i + 1]) THEN Turn(i) + 1 ELSE Turn(i)
  <2>1. CASE Told(sent[i + 1])
    <3>1. P(i + 1) = P(i) \cup {i + 1} /\ i + 1 \notin P(i)
      BY <2>1
    <3>2. QED
      BY <1>1, <2>1, <3>1, FS_AddElement DEF Turn
  <2>2. CASE ~Told(sent[i + 1])
    <3>1. P(i + 1) = P(i)
      BY <2>2
    <3>2. QED
      BY <2>2, <3>1 DEF Turn
  <2>3. QED
    BY <2>1, <2>2
<1>3. ASSUME NEW i \in Nat, NEW j \in Nat, i <= j PROVE Turn(i) <= Turn(j)
  <2>1. P(i) \in SUBSET P(j)
    BY <1>3
  <2>2. QED
    BY <1>1, <2>1, FS_Subset DEF Turn
<1>4. Turn(n) \in Nat
  BY <1>1 DEF Turn
<1>5. ASSUME m < n, Told(sent[n]) PROVE Turn(m) < Turn(n)
  <2>1. n - 1 \in Nat /\ m <= n - 1 /\ (n - 1) + 1 = n
    BY <1>5
  <2>2. Turn(m) <= Turn(n - 1) /\ Turn(n) = Turn(n - 1) + 1
    BY <1>2, <1>3, <1>5, <2>1
  <2>3. Turn(m) \in Nat /\ Turn(n - 1) \in Nat
    BY <1>1, <2>1 DEF Turn
  <2>4. QED
    BY <2>2, <2>3
<1>6. QED
  BY <1>2, <1>3, <1>4, <1>5

\* The first n records sent have been dealt with.
Delivered(n) ==
  /\ Len(queued) = Turn(n)
  /\ \A k \in 1 .. n : Told(sent[k]) => queued[Turn(k)] = Halved(sent[k])

LEMMA DeliveredInOrder ==
  ASSUME sent \in Seq(Records), NEW n \in 0 .. Len(sent), Delivered(n)
  PROVE  ReceivedHalved
<1>1. Len(sent) \in Nat /\ n \in Nat /\ n <= Len(sent)
  BY LenProperties
<1>2. Len(queued) <= Turn(Len(sent))
  BY <1>1, TurnCounts DEF Delivered
<1>3. ASSUME NEW k \in 1 .. Len(sent), Told(sent[k]), Turn(k) <= Len(queued)
      PROVE  queued[Turn(k)] = Halved(sent[k])
  <2>1. k \in Nat
    BY <1>1
  <2>2. ~(n < k)
    BY <1>1, <1>3, <2>1, TurnCounts, SMTT(30) DEF Delivered
  <2>3. QED
    BY <1>1, <1>3, <2>2 DEF Delivered
<1>4. QED
  BY <1>2, <1>3 DEF ReceivedHalved

-----------------------------------------------------------------------------
(* The cells under way                                                     *)

\* After cell i of record k of s comes cell j of record l.
Follows(s, k, i, l, j) ==
  IF i = Len(Message(s[k])) THEN l = k + 1 /\ j = 1 ELSE l = k /\ j = i + 1

\* The cells of rest are those of the records of s from some cell to the end of
\* the last one: rec and off say of which record each is and where in it, and
\* after the last one come those of a record still to be sent.
OnWire(s, rest, rec, off) ==
  /\ rec \in [1 .. Len(rest) + 1 -> Nat] /\ off \in [1 .. Len(rest) + 1 -> Nat]
  /\ rec[Len(rest) + 1] = Len(s) + 1 /\ off[Len(rest) + 1] = 1
  /\ \A j \in 1 .. Len(rest) :
       /\ rec[j] \in 1 .. Len(s)
       /\ off[j] \in 1 .. Len(Message(s[rec[j]]))
       /\ rest[j] = Message(s[rec[j]])[off[j]]
       /\ Follows(s, rec[j], off[j], rec[j + 1], off[j + 1])

\* rest2 is rest without its first cell.
TakesOne(rest, rest2) ==
  /\ Len(rest) > 0 /\ Len(rest2) = Len(rest) - 1
  /\ \A j \in 1 .. Len(rest2) : rest2[j] = rest[j + 1]

\* One cell is taken off.
LEMMA WireTake ==
  ASSUME NEW s \in Seq(Records), NEW rest \in Seq(Cells), NEW rest2 \in Seq(Cells),
         TakesOne(rest, rest2),
         NEW rec, NEW off, OnWire(s, rest, rec, off)
  PROVE  \E rec2, off2 :
           OnWire(s, rest2, rec2, off2) /\ rec2[1] = rec[2] /\ off2[1] = off[2]
<1>1. /\ Len(rest) \in Nat \ {0} /\ Len(rest2) + 1 = Len(rest)
      /\ \A j \in 1 .. Len(rest2) : rest2[j] = rest[j + 1]
  BY LenProperties DEF TakesOne
<1> DEFINE n == Len(rest)
           rec2 == [j \in 1 .. n |-> rec[j + 1]]
           off2 == [j \in 1 .. n |-> off[j + 1]]
<1>2. rec2 \in [1 .. n -> Nat] /\ off2 \in [1 .. n -> Nat]
  BY <1>1, SMTT(30) DEF OnWire
<1>3. /\ \A j \in 1 .. n : rec2[j] = rec[j + 1] /\ off2[j] = off[j + 1]
      /\ rec2[n] = Len(s) + 1 /\ off2[n] = 1 /\ rec2[1] = rec[2] /\ off2[1] = off[2]
  BY <1>1 DEF OnWire
<1>4. \A j \in 1 .. n : /\ rec[j] \in 1 .. Len(s)
                        /\ off[j] \in 1 .. Len(Message(s[rec[j]]))
                        /\ rest[j] = Message(s[rec[j]])[off[j]]
                        /\ Follows(s, rec[j], off[j], rec[j + 1], off[j + 1])
  BY DEF OnWire
<1> HIDE DEF rec2, off2
<1>5. ASSUME NEW j \in 1 .. Len(rest2)
      PROVE  /\ rec2[j] \in 1 .. Len(s)
             /\ off2[j] \in 1 .. Len(Message(s[rec2[j]]))
             /\ rest2[j] = Message(s[rec2[j]])[off2[j]]
             /\ Follows(s, rec2[j], off2[j], rec2[j + 1], off2[j + 1])
  <2>1. j \in 1 .. n /\ j + 1 \in 1 .. n
    BY <1>1
  <2>2. /\ rec2[j] = rec[j + 1] /\ off2[j] = off[j + 1]
        /\ rec2[j + 1] = rec[(j + 1) + 1] /\ off2[j + 1] = off[(j + 1) + 1]
        /\ rest2[j] = rest[j + 1]
    BY <1>1, <1>3, <2>1
  <2>3. QED
    BY <1>4, <2>1, <2>2
<1>6. OnWire(s, rest2, rec2, off2)
  BY <1>1, <1>2, <1>3, <1>5 DEF OnWire
<1>7. QED
  BY <1>3, <1>6

\* One more record is put behind the others.
LEMMA WirePut ==
  ASSUME NEW s \in Seq(Records), NEW r \in Records, NEW rest \in Seq(Cells),
         NEW rec, NEW off, OnWire(s, rest, rec, off)
  PROVE  \E rec2, off2 :
           /\ OnWire(Append(s, r), rest \o Message(r), rec2, off2)
           /\ rec2[1] = rec[1] /\ off2[1] = off[1]
<1> DEFINE n == Len(rest)
           m == Len(Message(r))
           t == Append(s, r)
           rest2 == rest \o Message(r)
           rec2 == [j \in 1 .. n + m + 1 |->
                      IF j <= n THEN rec[j]
                      ELSE IF j <= n + m THEN Len(s) + 1 ELSE Len(s) + 2]
           off2 == [j \in 1 .. n + m + 1 |->
                      IF j <= n THEN off[j] ELSE IF j <= n + m THEN j - n ELSE 1]
<1>1. n \in Nat /\ Len(s) \in Nat /\ m \in Nat \ {0} /\ Message(r) \in Seq(Cells)
  <2>1. Shift(r) \in 0 .. 1 /\ Len(r.trace) \in 0 .. 3
    BY RecordsAssumption DEF IsRecord, Shift, Cells
  <2>2. Message(r) \in Seq(Cells) /\ Len(Message(r)) = 4 + Shift(r) + Len(r.trace)
    BY MessageCells
  <2>3. QED
    BY <2>1, <2>2, LenProperties
<1>2. /\ Len(t) = Len(s) + 1 /\ t[Len(s) + 1] = r
      /\ \A k \in 1 .. Len(s) : t[k] = s[k]
  BY AppendProperties
<1>3. /\ rest2 \in Seq(Cells) /\ Len(rest2) = n + m
      /\ \A j \in 1 .. n + m : rest2[j] = IF j <= n THEN rest[j] ELSE Message(r)[j - n]
  BY <1>1, ConcatProperties
<1>4. /\ rec \in [1 .. n + 1 -> Nat] /\ off \in [1 .. n + 1 -> Nat]
      /\ rec[n + 1] = Len(s) + 1 /\ off[n + 1] = 1
      /\ \A j \in 1 .. n : /\ rec[j] \in 1 .. Len(s)
                           /\ off[j] \in 1 .. Len(Message(s[rec[j]]))
                           /\ rest[j] = Message(s[rec[j]])[off[j]]
                           /\ Follows(s, rec[j], off[j], rec[j + 1], off[j + 1])
  BY DEF OnWire
<1>5. rec2 \in [1 .. n + m + 1 -> Nat] /\ off2 \in [1 .. n + m + 1 -> Nat]
  BY <1>1, <1>4
<1>6. /\ \A j \in 1 .. n + 1 : rec2[j] = rec[j] /\ off2[j] = off[j]
      /\ \A j \in n + 1 .. n + m : rec2[j] = Len(s) + 1 /\ off2[j] = j - n
      /\ rec2[n + m + 1] = Len(s) + 2 /\ off2[n + m + 1] = 1
  BY <1>1, <1>4
<1> HIDE DEF rec2, off2, t, rest2, m
<1>7. ASSUME NEW j \in 1 .. n + m
      PROVE  /\ rec2[j] \in 1 .. Len(t)
             /\ off2[j] \in 1 .. Len(Message(t[rec2[j]]))
             /\ rest2[j] = Message(t[rec2[j]])[off2[j]]
             /\ Follows(t, rec2[j], off2[j], rec2[j + 1], off2[j + 1])
  <2>1. CASE j <= n
    <3>1. j \in 1 .. n /\ j \in 1 .. n + 1 /\ j + 1 \in 1 .. n + 1
      BY <1>1, <2>1
    <3>2. /\ rec2[j] = rec[j] /\ off2[j] = off[j] /\ rest2[j] = rest[j]
          /\ rec2[j + 1] = rec[j + 1] /\ off2[j + 1] = off[j + 1]
      BY <1>3, <1>6, <2>1, <3>1
    <3>3. t[rec[j]] = s[rec[j]]
      BY <1>2, <1>4, <3>1
    <3>4. rec[j] \in 1 .. Len(t)
      BY <1>1, <1>2, <1>4, <3>1
    <3>5. QED
      BY <1>4, <3>1, <3>2, <3>3, <3>4, SMTT(30) DEF Follows
  <2>2. CASE j > n
    <3>1. j \in n + 1 .. n + m /\ j - n \in 1 .. m
      BY <1>1, <2>2
    <3>2. rec2[j] = Len(s) + 1 /\ off2[j] = j - n /\ rest2[j] = Message(r)[j - n]
      BY <1>1, <1>3, <1>6, <2>2, <3>1
    <3>3. t[rec2[j]] = r /\ rec2[j] \in 1 .. Len(t)
      BY <1>1, <1>2, <3>2
    <3>4. Follows(t, rec2[j], off2[j], rec2[j + 1], off2[j + 1])
      <4>1. CASE j = n + m
        BY <1>1, <1>6, <3>2, <3>3, <4>1 DEF Follows, m
      <4>2. CASE j < n + m
        <5>1. j + 1 \in n + 1 .. n + m /\ j - n # m
          BY <1>1, <3>1, <4>2
        <5>2. rec2[j + 1] = Len(s) + 1 /\ off2[j + 1] = (j - n) + 1
          BY <1>1, <1>6, <3>1, <5>1
        <5>3. QED
          BY <3>2, <3>3, <5>1, <5>2 DEF Follows, m
      <4>3. QED
        BY <1>1, <3>1, <4>1, <4>2, SMTT(30)
    <3>5. QED
      BY <3>1, <3>2, <3>3, <3>4 DEF m
  <2>3. QED
    BY <1>1, <2>1, <2>2
<1>8. OnWire(t, rest2, rec2, off2)
  BY <1>1, <1>2, <1>3, <1>5, <1>6, <1>7 DEF OnWire
<1>9. rec2[1] = rec[1] /\ off2[1] = off[1]
  BY <1>1, <1>6
<1>10. QED
  BY <1>8, <1>9 DEF t, rest2

LEMMA ConcatAssociates ==
  ASSUME NEW a \in Seq(Cells), NEW b \in Seq(Cells), NEW c \in Seq(Cells)
  PROVE  a \o (b \o c) = (a \o b) \o c
OBVIOUS

-----------------------------------------------------------------------------
(* The inductive invariant                                                 *)

WellFormed ==
  [op : {ALLOCATE, FREE}, size : Cells, addr : Cells \X Cells, trace : Seq(Cells)]

Types ==
  /\ net \in Seq(Cells) /\ avail \in Seq(Cells) /\ got \in Seq(Cells)
  /\ sent \in Seq(Records) /\ queued \in Seq(WellFormed)
  /\ field \in Fields \cup {"ended"}
  /\ msg \in [op : Cells, size : Cells, addr : Seq(Cells), len : Cells]
  /\ peer = "reset" => net = <<>> /\ avail = <<>>

\* The cells of r's message before the field being read.
Before(r) == CASE field = "type" -> 0
               [] field = "size" -> 1
               [] field = "addr" -> 1 + Shift(r)
               [] field = "len" -> 3 + Shift(r)
               [] OTHER -> 4 + Shift(r)

\* The fields the reader has read in full are those of r.
HasRead(r) ==
  /\ field = "size" => r.op = ALLOCATE
  /\ field # "type" => msg.op = r.op
  /\ field \in {"addr", "len", "trace"} => msg.size = r.size
  /\ field \in {"len", "trace"} => msg.addr = AddressBytes(r.addr)
  /\ field = "trace" => msg.len = Len(r.trace)

\* The reader has read part of record r: its fields so far are those of r, and
\* so is what it has of the next one.
InRecord(r) ==
  /\ HasRead(r)
  /\ Len(got) <= Width
  /\ \A i \in 1 .. Len(got) : got[i] = Message(r)[Before(r) + i]

Between == field = "type" /\ got = <<>>

\* Cell i of record k is the next one to read, n records being done.
Cursor(n, k, i) ==
  IF Between THEN k = n + 1 /\ i = 1
  ELSE Follows(sent, n + 1, Before(sent[n + 1]) + Len(got), k, i)

\* The reader is between two records or in record n + 1, and the cells under way
\* go on from there, unless a reset has dropped them.
Aligned(n) ==
  /\ Between \/ (n < Len(sent) /\ InRecord(sent[n + 1]))
  /\ peer # "reset" =>
       \E rec, off : OnWire(sent, avail \o net, rec, off) /\ Cursor(n, rec[1], off[1])

InStep == \E n \in 0 .. Len(sent) : Delivered(n) /\ (Running => Aligned(n))

Inv == Types /\ InStep

LEMMA InitInv == Init => Inv
<1> SUFFICES ASSUME Init PROVE Inv
  OBVIOUS
<1> USE DEF Init
<1>1. Types
  BY DEF Types, NoRecord, Fields, Cells
<1>2. Delivered(0)
  <2>1. {k \in 1 .. 0 : Told(sent[k])} = {}
    OBVIOUS
  <2>2. Turn(0) = 0
    BY <2>1, FS_EmptySet DEF Turn
  <2>3. QED
    BY <2>2 DEF Delivered
<1>3. Aligned(0)
  <2> DEFINE one == [j \in 1 .. 1 |-> 1]
  <2>1. avail \o net = <<>> /\ Len(sent) = 0
    OBVIOUS
  <2>2. OnWire(sent, avail \o net, one, one)
    BY <2>1 DEF OnWire
  <2>3. Between /\ Cursor(0, one[1], one[1])
    BY DEF Between, Cursor
  <2>4. QED
    BY <2>2, <2>3 DEF Aligned
<1>4. QED
  BY <1>1, <1>2, <1>3 DEF Inv, InStep

\* How far the reader is in a record, in cells.
LEMMA TakenBounds ==
  ASSUME Types, field \in Fields, NEW r \in Records, InRecord(r)
  PROVE  /\ Before(r) \in Nat /\ Width \in Nat /\ Len(got) \in Nat
         /\ Before(r) + Len(got) <= Len(Message(r))
         /\ Len(got) < Width => Before(r) + Len(got) < Len(Message(r))
         /\ field = "trace" /\ Len(got) = Width => Before(r) + Len(got) = Len(Message(r))
<1>1. r.op \in {ALLOCATE, FREE} /\ Len(r.trace) \in Nat
  BY RecordsAssumption DEF IsRecord, Cells
<1>2. Shift(r) \in 0 .. 1 /\ (r.op = ALLOCATE => Shift(r) = 1)
  BY DEF Shift
<1>3. Len(Message(r)) = 4 + Shift(r) + Len(r.trace) /\ Len(got) \in Nat /\ Len(got) <= Width
  BY MessageCells, LenProperties DEF Types, InRecord, HasRead
<1>4. CASE field = "type"
  <2>1. Before(r) = 0 /\ Width = 1
    BY <1>4 DEF Before, Width
  <2>2. QED
    BY <1>1, <1>2, <1>3, <1>4, <2>1
<1>5. CASE field = "size"
  <2>1. Before(r) = 1 /\ Width = 1
    BY <1>5 DEF Before, Width
  <2>2. QED
    BY <1>1, <1>2, <1>3, <1>5, <2>1
<1>6. CASE field = "addr"
  <2>1. Before(r) = 1 + Shift(r) /\ Width = 2
    BY <1>6 DEF Before, Width
  <2>2. QED
    BY <1>1, <1>2, <1>3, <1>6, <2>1
<1>7. CASE field = "len"
  <2>1. Before(r) = 3 + Shift(r) /\ Width = 1
    BY <1>7 DEF Before, Width
  <2>2. QED
    BY <1>1, <1>2, <1>3, <1>7, <2>1
<1>8. CASE field = "trace"
  <2>1. Before(r) = 4 + Shift(r) /\ Width = Len(r.trace)
    BY <1>8 DEF Before, Width, InRecord, HasRead
  <2>2. QED
    BY <1>1, <1>2, <1>3, <1>8, <2>1
<1>9. QED
  BY <1>4, <1>5, <1>6, <1>7, <1>8 DEF Fields

\* A record is sent: its cells come after all those under way.
LEMMA SendStep ==
  ASSUME Inv, NEW r \in Records, Send(r)
  PROVE  Inv'
<1>1. /\ sent' = Append(sent, r) /\ net' = net \o Message(r)
      /\ UNCHANGED <<avail, peer, socket, field, got, msg, queued>> /\ peer = "open"
  BY DEF Send
<1>2. Message(r) \in Seq(Cells)
  BY MessageCells
<1>3. sent \in Seq(Records) /\ Len(sent) \in Nat /\ net \in Seq(Cells) /\ avail \in Seq(Cells)
  BY LenProperties DEF Inv, Types
<1>4. /\ sent' \in Seq(Records) /\ Len(sent') = Len(sent) + 1
      /\ \A k \in 1 .. Len(sent) : sent'[k] = sent[k]
  BY <1>1, <1>3, AppendProperties
<1>5. Types'
  <2>1. net' \in Seq(Cells)
    BY <1>1, <1>2, <1>3, ConcatProperties
  <2>2. QED
    BY <1>1, <1>4, <2>1 DEF Inv, Types
<1>6. PICK n \in 0 .. Len(sent) : Delivered(n) /\ (Running => Aligned(n))
  BY DEF Inv, InStep
<1>7. \A i \in 0 .. n : Turn(i)' = Turn(i)
  <2> TAKE i \in 0 .. n
  <2>1. ASSUME NEW k \in 1 .. i PROVE sent'[k] = sent[k]
    <3>1. k \in 1 .. Len(sent)
      BY <1>3
    <3> QED
      BY <1>4, <3>1
  <2>2. QED
    BY <2>1 DEF Turn
<1>8. Delivered(n)'
  BY <1>1, <1>3, <1>4, <1>6, <1>7 DEF Delivered
<1>9. ASSUME Running PROVE Aligned(n)'
  <2>1. Aligned(n)
    BY <1>6, <1>9
  <2>2. Between' <=> Between
    BY <1>1 DEF Between
  <2>3. Between \/ n + 1 \in 1 .. Len(sent)
    BY <1>3, <2>1 DEF Aligned
  <2>4. Between' \/ (n < Len(sent') /\ InRecord(sent[n + 1])')
    <3>1. CASE Between
      BY <2>2, <3>1
    <3>2. CASE ~Between
      <4>1. InRecord(sent[n + 1]) /\ sent'[n + 1] = sent[n + 1]
        BY <1>4, <2>1, <2>3, <3>2 DEF Aligned
      <4>2. InRecord(sent[n + 1])'
        BY <1>1, <4>1 DEF InRecord, HasRead, Width, Before
      <4>3. QED
        BY <1>3, <1>4, <2>3, <3>2, <4>2
    <3>3. QED
      BY <3>1, <3>2
  <2>5. PICK rec, off : OnWire(sent, avail \o net, rec, off) /\ Cursor(n, rec[1], off[1])
    BY <1>1, <2>1 DEF Aligned
  <2>6. avail \o net \in Seq(Cells)
    BY <1>3, ConcatProperties
  <2>7. PICK rec2, off2 : /\ OnWire(sent', (avail \o net) \o Message(r), rec2, off2)
                          /\ rec2[1] = rec[1] /\ off2[1] = off[1]
    <3>1. \E rec2, off2 : /\ OnWire(Append(sent, r), (avail \o net) \o Message(r), rec2, off2)
                          /\ rec2[1] = rec[1] /\ off2[1] = off[1]
      <4> DEFINE rest == avail \o net
      <4>1. rest \in Seq(Cells) /\ OnWire(sent, rest, rec, off)
        BY <2>5, <2>6
      <4> HIDE DEF rest
      <4>2. \E rec2, off2 : /\ OnWire(Append(sent, r), rest \o Message(r), rec2, off2)
                            /\ rec2[1] = rec[1] /\ off2[1] = off[1]
        BY <1>3, <4>1, WirePut
      <4>3. QED
        BY <4>2 DEF rest
    <3>2. QED
      BY <1>1, <3>1
  <2>8. avail' \o net' = (avail \o net) \o Message(r)
    BY <1>1, <1>2, <1>3, ConcatAssociates
  <2>9. Cursor(n, rec2[1], off2[1])'
    BY <1>1, <1>4, <2>3, <2>5, <2>7 DEF Cursor, Follows, Between, Before
  <2>10. QED
    BY <2>4, <2>7, <2>8, <2>9 DEF Aligned
<1>10. n \in 0 .. Len(sent')
  BY <1>3, <1>4
<1>11. QED
  BY <1>1, <1>5, <1>8, <1>9, <1>10 DEF Inv, InStep, Running

\* The network delivers: the cells under way stay the same.
LEMMA ArriveKeeps ==
  ASSUME net \in Seq(Cells), avail \in Seq(Cells), Arrive
  PROVE  /\ net' \in Seq(Cells) /\ avail' \in Seq(Cells)
         /\ avail' \o net' = avail \o net
<1>1. net # <<>> /\ avail' = Append(avail, Head(net)) /\ net' = Tail(net)
  BY DEF Arrive
<1>2. /\ Len(net) \in Nat \ {0} /\ Len(avail) \in Nat
      /\ Head(net) = net[1] /\ Head(net) \in Cells
  BY <1>1, EmptySeq, LenProperties, HeadTailProperties
<1>3. /\ net' \in Seq(Cells) /\ Len(net') = Len(net) - 1
      /\ \A i \in 1 .. Len(net') : net'[i] = net[i + 1]
  BY <1>1, HeadTailProperties
<1>4. /\ avail' \in Seq(Cells) /\ Len(avail') = Len(avail) + 1
      /\ avail'[Len(avail) + 1] = net[1]
      /\ \A i \in 1 .. Len(avail) : avail'[i] = avail[i]
  BY <1>1, <1>2, AppendProperties
<1> DEFINE a == avail' \o net'
           b == avail \o net
<1>5. /\ a \in Seq(Cells) /\ Len(a) = Len(avail') + Len(net')
      /\ \A i \in 1 .. Len(avail') + Len(net') :
           a[i] = IF i <= Len(avail') THEN avail'[i] ELSE net'[i - Len(avail')]
  BY <1>3, <1>4, ConcatProperties
<1>6. /\ b \in Seq(Cells) /\ Len(b) = Len(avail) + Len(net)
      /\ \A i \in 1 .. Len(avail) + Len(net) :
           b[i] = IF i <= Len(avail) THEN avail[i] ELSE net[i - Len(avail)]
  BY ConcatProperties
<1> HIDE DEF a, b
<1>7. Len(a) = Len(b)
  BY <1>2, <1>3, <1>4, <1>5, <1>6
<1>8. ASSUME NEW i \in 1 .. Len(a) PROVE a[i] = b[i]
  <2>1. /\ Len(net') \in Nat /\ Len(avail') = Len(avail) + 1 /\ Len(net') = Len(net) - 1
        /\ i \in 1 .. Len(avail') + Len(net') /\ i \in 1 .. Len(avail) + Len(net)
    BY <1>2, <1>3, <1>4, <1>5
  <2>2. /\ a[i] = IF i <= Len(avail') THEN avail'[i] ELSE net'[i - Len(avail')]
        /\ b[i] = IF i <= Len(avail) THEN avail[i] ELSE net[i - Len(avail)]
    BY <1>5, <1>6, <2>1
  <2>3. CASE i <= Len(avail)
    BY <1>2, <1>4, <2>1, <2>2, <2>3
  <2>4. CASE i = Len(avail) + 1
    <3>1. a[i] = net[1] /\ b[i] = net[i - Len(avail)] /\ i - Len(avail) = 1
      BY <1>2, <1>4, <2>1, <2>2, <2>4
    <3>2. QED
      BY <3>1
  <2>5. CASE i > Len(avail) + 1
    <3>1. i - Len(avail') \in 1 .. Len(net') /\ (i - Len(avail')) + 1 = i - Len(avail)
      BY <1>2, <2>1, <2>5
    <3>2. a[i] = net'[i - Len(avail')] /\ b[i] = net[i - Len(avail)]
      BY <1>2, <2>1, <2>2, <2>5
    <3>3. net'[i - Len(avail')] = net[(i - Len(avail')) + 1]
      BY <1>3, <3>1
    <3>4. QED
      BY <3>1, <3>2, <3>3
  <2>6. QED
    BY <1>2, <2>1, <2>3, <2>4, <2>5
<1>9. a = b
  BY <1>5, <1>6, <1>7, <1>8, SeqEqual
<1>10. QED
  BY <1>3, <1>4, <1>9 DEF a, b

\* A step that leaves the records and the reader alone, and the cells under way
\* unless it is a reset.
LEMMA OtherStep ==
  ASSUME Inv, Types', UNCHANGED <<sent, queued, field, got, msg>>,
         peer' # "reset" => peer # "reset" /\ avail' \o net' = avail \o net
  PROVE  Inv'
<1>1. PICK n \in 0 .. Len(sent) : Delivered(n) /\ (Running => Aligned(n))
  BY DEF Inv, InStep
<1>2. Delivered(n)'
  BY <1>1 DEF Delivered, Turn
<1>3. ASSUME Running PROVE Aligned(n)'
  <2>1. Aligned(n)
    BY <1>1, <1>3
  <2>2. Between' \/ (n < Len(sent') /\ InRecord(sent[n + 1])')
    BY <2>1 DEF Aligned, Between, InRecord, HasRead, Width, Before
  <2>3. ASSUME peer' # "reset"
        PROVE  \E rec, off : OnWire(sent', avail' \o net', rec, off) /\ Cursor(n, rec[1], off[1])'
    <3>1. PICK rec, off : OnWire(sent, avail \o net, rec, off) /\ Cursor(n, rec[1], off[1])
      BY <2>1, <2>3 DEF Aligned
    <3>2. OnWire(sent', avail' \o net', rec, off)
      BY <2>3, <3>1
    <3>3. Cursor(n, rec[1], off[1])'
      BY <3>1 DEF Cursor, Between, Before
    <3>4. QED
      BY <3>2, <3>3
  <2>4. QED
    BY <2>2, <2>3 DEF Aligned
<1>4. QED
  BY <1>1, <1>2, <1>3 DEF Inv, InStep, Running

\* The reader stops: what it has queued stays.
LEMMA StopStep ==
  ASSUME Inv, UNCHANGED <<net, avail, peer, sent, queued, got, msg>>, field' = "ended"
  PROVE  Inv'
<1>1. PICK n \in 0 .. Len(sent) : Delivered(n)
  BY DEF Inv, InStep
<1>2. Delivered(n)' /\ ~Running'
  BY <1>1 DEF Delivered, Turn, Running, Fields
<1>3. Types'
  BY DEF Inv, Types
<1>4. QED
  BY <1>1, <1>2, <1>3 DEF Inv, InStep

\* One cell is read: it is the next one of the record.
LEMMA ReadStep ==
  ASSUME Inv, Read
  PROVE  Inv'
<1>1. /\ Running /\ Len(got) < Width /\ avail # <<>>
      /\ got' = Append(got, Head(avail)) /\ avail' = Tail(avail)
      /\ UNCHANGED <<net, peer, socket, field, msg, sent, queued>>
  BY DEF Read, Reading
<1>2. PICK n \in 0 .. Len(sent) : Delivered(n) /\ Aligned(n)
  BY <1>1 DEF Inv, InStep
<1>3. /\ avail \in Seq(Cells) /\ net \in Seq(Cells) /\ got \in Seq(Cells)
      /\ sent \in Seq(Records) /\ Len(sent) \in Nat /\ Len(got) \in Nat /\ field \in Fields
      /\ \A k \in 1 .. Len(sent) : sent[k] \in Records
  BY <1>1, LenProperties, ElementOfSeq DEF Inv, Types, Running
<1>4. /\ Head(avail) \in Cells /\ Head(avail) = avail[1] /\ Len(avail) \in Nat \ {0}
      /\ avail' \in Seq(Cells) /\ Len(avail') = Len(avail) - 1
      /\ \A i \in 1 .. Len(avail') : avail'[i] = avail[i + 1]
  BY <1>1, <1>3, EmptySeq, LenProperties, HeadTailProperties
<1>5. /\ got' \in Seq(Cells) /\ Len(got') = Len(got) + 1
      /\ got'[Len(got) + 1] = avail[1]
      /\ \A i \in 1 .. Len(got) : got'[i] = got[i]
  BY <1>1, <1>3, <1>4, AppendProperties
<1>6. Types'
  BY <1>1, <1>4, <1>5 DEF Inv, Types
<1>7. peer # "reset"
  BY <1>1 DEF Inv, Types
<1> DEFINE rest == avail \o net
           rest2 == avail' \o net'
<1>8. /\ rest \in Seq(Cells) /\ Len(rest) = Len(avail) + Len(net)
      /\ \A i \in 1 .. Len(avail) + Len(net) :
           rest[i] = IF i <= Len(avail) THEN avail[i] ELSE net[i - Len(avail)]
      /\ rest2 \in Seq(Cells) /\ Len(rest2) = Len(avail') + Len(net)
      /\ \A i \in 1 .. Len(avail') + Len(net) :
           rest2[i] = IF i <= Len(avail') THEN avail'[i] ELSE net[i - Len(avail')]
  BY <1>1, <1>3, <1>4, ConcatProperties, SMTT(30)
<1> HIDE DEF rest, rest2
<1>9. PICK rec, off : OnWire(sent, rest, rec, off) /\ Cursor(n, rec[1], off[1])
  BY <1>2, <1>7 DEF Aligned, rest
<1>10. /\ Len(rest) > 0 /\ Len(rest2) = Len(rest) - 1 /\ rest[1] = avail[1]
       /\ \A j \in 1 .. Len(rest2) : rest2[j] = rest[j + 1]
  <2>1. Len(net) \in Nat
    BY <1>3, LenProperties
  <2>2. Len(rest) > 0 /\ Len(rest2) = Len(rest) - 1 /\ rest[1] = avail[1]
    BY <1>4, <1>8, <2>1
  <2>3. ASSUME NEW j \in 1 .. Len(rest2) PROVE rest2[j] = rest[j + 1]
    <3>1. CASE j <= Len(avail')
      BY <1>4, <1>8, <2>1, <3>1
    <3>2. CASE j > Len(avail')
      <4>1. j - Len(avail') = (j + 1) - Len(avail)
        BY <1>4, <1>8, <2>1
      <4>2. rest2[j] = net[j - Len(avail')] /\ rest[j + 1] = net[(j + 1) - Len(avail)]
        <5>1. /\ j \in 1 .. Len(avail') + Len(net) /\ ~(j <= Len(avail'))
              /\ j + 1 \in 1 .. Len(avail) + Len(net) /\ ~(j + 1 <= Len(avail))
          BY <1>4, <1>8, <2>1, <3>2
        <5>2. QED
          BY <1>8, <5>1
      <4>3. QED
        BY <4>1, <4>2
    <3>3. QED
      BY <1>4, <1>8, <2>1, <3>1, <3>2
  <2>4. QED
    BY <2>2, <2>3
<1>11. PICK rec2, off2 : /\ OnWire(sent, rest2, rec2, off2)
                         /\ rec2[1] = rec[2] /\ off2[1] = off[2]
  <2>1. sent \in Seq(Records) /\ rest \in Seq(Cells) /\ rest2 \in Seq(Cells)
    BY <1>3, <1>8
  <2>2. OnWire(sent, rest, rec, off)
    BY <1>9
  <2>3. TakesOne(rest, rest2)
    BY <1>10 DEF TakesOne
  <2>4. QED
    BY <2>1, <2>2, <2>3, WireTake
<1>12. /\ rec[1] \in 1 .. Len(sent) /\ off[1] \in 1 .. Len(Message(sent[rec[1]]))
       /\ rest[1] = Message(sent[rec[1]])[off[1]]
       /\ Follows(sent, rec[1], off[1], rec[2], off[2])
  <2>1. 1 \in 1 .. Len(rest) /\ 1 + 1 = 2
    BY <1>8, <1>10, LenProperties
  <2>2. QED
    BY <1>9, <2>1 DEF OnWire
<1> DEFINE r == sent[n + 1]
           taken == Before(r) + Len(got)
<1>13. Before(r)' = Before(r)
  BY <1>1 DEF Before
<1>14. /\ n + 1 \in 1 .. Len(sent) /\ rec[1] = n + 1 /\ off[1] = taken + 1
       /\ Before(r) \in Nat /\ Len(got) + 1 <= Width /\ Width \in Nat
       /\ InRecord(r) \/ Between
  <2>1. CASE Between
    <3>1. Before(r) = 0 /\ Width = 1 /\ Len(got) = 0
      BY <2>1 DEF Between, Before, Width
    <3>2. QED
      BY <1>3, <1>9, <1>12, <2>1, <3>1 DEF Cursor
  <2>2. CASE ~Between
    <3>1. n + 1 \in 1 .. Len(sent) /\ InRecord(r)
      BY <1>2, <1>3, <2>2 DEF Aligned
    <3>2. r \in Records
      BY <1>3, <3>1
    <3>3. /\ Before(r) \in Nat /\ Width \in Nat /\ taken < Len(Message(r))
      BY <1>1, <1>3, <3>1, <3>2, TakenBounds DEF Inv
    <3>4. Follows(sent, n + 1, taken, rec[1], off[1])
      BY <1>9, <2>2 DEF Cursor
    <3>5. QED
      BY <1>1, <1>3, <3>1, <3>3, <3>4 DEF Follows
  <2>3. QED
    BY <2>1, <2>2
<1>15. r \in Records /\ r' = r
  BY <1>1, <1>3, <1>14
<1>16. ~Between'
  <2>1. got' # <<>>
    BY <1>3, <1>5
  <2>2. QED
    BY <2>1 DEF Between
<1>17. InRecord(r)'
  <2>1. ASSUME NEW i \in 1 .. Len(got')
        PROVE  got'[i] = Message(r)[Before(r) + i]
    <3>1. CASE i = Len(got) + 1
      <4>1. got'[i] = Message(r)[taken + 1] /\ taken + 1 = Before(r) + i
        BY <1>3, <1>5, <1>10, <1>12, <1>14, <3>1
      <4>2. QED
        BY <4>1
    <3>2. CASE i \in 1 .. Len(got)
      <4>1. ~Between
        BY <3>2 DEF Between
      <4>2. QED
        BY <1>5, <1>14, <3>2, <4>1 DEF InRecord, HasRead
    <3>3. QED
      BY <1>3, <1>5, <3>1, <3>2
  <2>2. /\ field = "size" => r.op = ALLOCATE
        /\ field # "type" => msg.op = r.op
        /\ field \in {"addr", "len", "trace"} => msg.size = r.size
        /\ field \in {"len", "trace"} => msg.addr = AddressBytes(r.addr)
        /\ field = "trace" => msg.len = Len(r.trace)
    BY <1>14 DEF InRecord, HasRead, Between
  <2>3. Width' = Width
    BY <1>1 DEF Width
  <2>4. Len(got') <= Width'
    BY <1>5, <1>14, <2>3
  <2>5. QED
    BY <1>1, <1>13, <1>15, <2>1, <2>2, <2>4 DEF InRecord, HasRead
<1>18. Cursor(n, rec2[1], off2[1])'
  <2>1. Follows(sent, n + 1, taken + 1, rec2[1], off2[1])
    BY <1>11, <1>12, <1>14
  <2>2. Before(r) + Len(got') = taken + 1
    BY <1>3, <1>5, <1>14
  <2>3. QED
    BY <1>1, <1>13, <1>15, <1>16, <2>1, <2>2 DEF Cursor, Follows
<1>19. Aligned(n)'
  <2>1. n < Len(sent') /\ InRecord(sent[n + 1])'
    BY <1>1, <1>3, <1>14, <1>17
  <2>2. OnWire(sent', avail' \o net', rec2, off2)
    BY <1>1, <1>11 DEF rest2
  <2>3. QED
    BY <1>18, <2>1, <2>2 DEF Aligned
<1>20. Delivered(n)'
  BY <1>1, <1>2 DEF Delivered, Turn
<1>21. QED
  BY <1>1, <1>2, <1>6, <1>19, <1>20 DEF Inv, InStep

\* A field is complete and the record is not: the reader is where it was, with
\* one more field of the same record.
LEMMA FieldStep ==
  ASSUME Inv, NEW f \in Fields \ {"trace"}, FieldRead(f), UNCHANGED queued, Types',
         field' \in Fields \ {"type"},
         \A r \in Records : InRecord(r) => HasRead(r)',
         \A r \in Records : InRecord(r) => Before(r)' = Before(r) + Len(got)
  PROVE  Inv'
<1>1. /\ field = f /\ Len(got) = Width /\ got' = <<>>
      /\ UNCHANGED <<net, avail, peer, socket, sent>>
  BY DEF FieldRead
<1>2. PICK n \in 0 .. Len(sent) : Delivered(n) /\ Aligned(n)
  BY <1>1 DEF Inv, InStep, Running
<1>3. ~Between /\ ~Between'
  <2>1. field = "type" => Len(got) = 1
    BY <1>1 DEF Width
  <2>2. ~Between
    <3>1. got \in Seq(Cells)
      BY DEF Inv, Types
    <3>2. got = <<>> => Len(got) = 0
      BY <3>1, EmptySeq
    <3>3. 1 # 0
      OBVIOUS
    <3> QED
      BY <2>1, <3>2, <3>3, Zenon DEF Between
  <2>3. ~Between'
    BY DEF Between
  <2> QED
    BY <2>2, <2>3
<1> DEFINE r == sent[n + 1]
<1>4. n + 1 \in 1 .. Len(sent) /\ InRecord(r)
  <2>1. Len(sent) \in Nat
    BY LenProperties DEF Inv, Types
  <2>2. QED
    BY <1>2, <1>3, <2>1 DEF Aligned
<1>5. r \in Records /\ r' = r
  <2>1. sent \in Seq(Records) /\ sent' = sent
    BY <1>1 DEF Inv, Types
  <2>2. r \in Records
    BY <1>4, <2>1, ElementOfSeq
  <2> QED
    BY <2>1, <2>2
<1>6. HasRead(r)' /\ Before(r)' = Before(r) + Len(got) /\ Before(r) \in Nat /\ Len(got) \in Nat
  <2>1. Before(r) \in Nat /\ Len(got) \in Nat
    BY <1>1, <1>4, <1>5, TakenBounds DEF Inv
  <2>2. HasRead(r)'
    BY <1>1, <1>4, <1>5 DEF HasRead
  <2>3. Before(r)' = Before(r) + Len(got)
    BY <1>1, <1>4, <1>5 DEF Before
  <2>4. QED
    BY <2>1, <2>2, <2>3
<1>7. InRecord(r)'
  <2>1. Len(got') = 0 /\ Width' \in Nat
    <3>1. Width' \in Nat
      BY DEF Types, Width, Cells
    <3>2. QED
      BY <1>1, <3>1
  <2>2. Len(got') <= Width'
    BY <2>1
  <2>3. QED
    BY <1>6, <2>1, <2>2 DEF InRecord
<1>8. Aligned(n)'
  <2>1. n < Len(sent') /\ InRecord(sent[n + 1])'
    BY <1>1, <1>4, <1>7, LenProperties DEF Inv, Types
  <2>2. ASSUME peer' # "reset"
        PROVE  \E rec, off : OnWire(sent', avail' \o net', rec, off) /\ Cursor(n, rec[1], off[1])'
    <3>1. PICK rec, off : OnWire(sent, avail \o net, rec, off) /\ Cursor(n, rec[1], off[1])
      BY <1>1, <1>2, <2>2 DEF Aligned
    <3>2. OnWire(sent', avail' \o net', rec, off)
      BY <1>1, <3>1
    <3>3. Before(r)' + Len(got') = Before(r) + Len(got)
      BY <1>1, <1>6
    <3>4. Follows(sent, n + 1, Before(r) + Len(got), rec[1], off[1])
      BY <1>3, <3>1 DEF Cursor
    <3>5. Cursor(n, rec[1], off[1])'
      BY <1>1, <1>3, <1>5, <3>3, <3>4 DEF Cursor, Follows
    <3>6. QED
      BY <3>2, <3>5
  <2>3. QED
    BY <2>1, <2>2 DEF Aligned
<1>9. Delivered(n)'
  BY <1>1, <1>2 DEF Delivered, Turn
<1>10. QED
  BY <1>1, <1>2, <1>8, <1>9 DEF Inv, InStep

\* A complete field holds those cells of the record it was read from.
LEMMA FieldCells ==
  ASSUME Types, field \in Fields, NEW r \in Records, InRecord(r), Len(got) = Width
  PROVE  /\ field = "type" => got[1] = r.op
         /\ field = "size" => got[1] = r.size
         /\ field = "addr" => got = AddressBytes(r.addr)
         /\ field = "len" => got[1] = Len(r.trace)
         /\ field = "trace" => got = r.trace
<1>1. /\ r.op \in {ALLOCATE, FREE} /\ Len(r.trace) \in Nat /\ r.trace \in Seq(Cells)
      /\ r.addr \in Cells \X Cells
      /\ Shift(r) \in 0 .. 1 /\ (r.op = ALLOCATE => Shift(r) = 1)
  BY RecordsAssumption DEF IsRecord, Cells, Shift
<1>2. got \in Seq(Cells) /\ \A i \in 1 .. Len(got) : got[i] = Message(r)[Before(r) + i]
  BY DEF Types, InRecord
<1>3. CASE field = "type"
  <2>1. Before(r) = 0 /\ Len(got) = 1
    BY <1>3 DEF Before, Width
  <2>2. QED
    BY <1>2, <1>3, <2>1, MessageCells
<1>4. CASE field = "size"
  <2>1. Before(r) = 1 /\ Len(got) = 1 /\ r.op = ALLOCATE
    BY <1>4 DEF Before, Width, InRecord, HasRead
  <2>2. QED
    BY <1>2, <1>4, <2>1, MessageCells
<1>5. CASE field = "addr"
  <2>1. Before(r) = 1 + Shift(r) /\ Len(got) = 2
    BY <1>5 DEF Before, Width
  <2>2. (1 + Shift(r)) + 1 = 2 + Shift(r) /\ (1 + Shift(r)) + 2 = 3 + Shift(r)
    BY <1>1
  <2>3. got[1] = r.addr[1] /\ got[2] = 0
    <3>1. got[1] = Message(r)[(1 + Shift(r)) + 1] /\ got[2] = Message(r)[(1 + Shift(r)) + 2]
      BY <1>2, <2>1
    <3>2. QED
      BY <2>2, <3>1, MessageCells
  <2>4. got = <<r.addr[1], 0>>
    BY <1>1, <1>2, <2>1, <2>3
  <2>5. QED
    BY <1>5, <2>4 DEF AddressBytes
<1>6. CASE field = "len"
  <2>1. Before(r) = 3 + Shift(r) /\ Len(got) = 1 /\ (3 + Shift(r)) + 1 = 4 + Shift(r)
    BY <1>1, <1>6 DEF Before, Width
  <2>2. got[1] = Message(r)[(3 + Shift(r)) + 1]
    BY <1>2, <2>1
  <2>3. QED
    BY <1>6, <2>1, <2>2, MessageCells
<1>7. CASE field = "trace"
  <2>1. Before(r) = 4 + Shift(r) /\ Len(got) = Len(r.trace)
    BY <1>7 DEF Before, Width, InRecord, HasRead
  <2>2. \A i \in 1 .. Len(r.trace) : got[i] = r.trace[i]
    BY <1>2, <2>1, MessageCells
  <2>3. got = r.trace
    BY <1>1, <1>2, <2>1, <2>2, SeqEqual
  <2>4. QED
    BY <1>7, <2>3
<1>8. QED
  BY <1>3, <1>4, <1>5, <1>6, <1>7 DEF Fields

\* A complete field is not empty, but for the trace, and its cells are cells.
LEMMA GotCells ==
  ASSUME Types, field \in Fields \ {"trace"}, Len(got) = Width
  PROVE  got[1] \in Cells
<1>1. Len(got) \in {1, 2} /\ got \in Seq(Cells)
  BY DEF Types, Width
<1>2. QED
  BY <1>1, ElementOfSeq

LEMMA TypeReadStep ==
  ASSUME Inv, TypeRead
  PROVE  Inv'
<1>1. /\ FieldRead("type") /\ field = "type" /\ Len(got) = Width /\ Width = 1 /\ got' = <<>>
      /\ msg' = [NoRecord EXCEPT !.op = got[1]]
      /\ UNCHANGED <<net, avail, peer, socket, sent, queued>>
  BY DEF TypeRead, FieldRead, Width
<1>2. Types /\ got[1] \in Cells
  BY <1>1, GotCells DEF Inv, Fields
<1>3. PICK n \in 0 .. Len(sent) : Delivered(n) /\ Aligned(n)
  BY <1>1 DEF Inv, InStep, Running, Fields
<1>4. ~Between
  BY <1>1, SMTT(30) DEF Between
<1>5. n + 1 \in 1 .. Len(sent) /\ InRecord(sent[n + 1])
  BY <1>2, <1>3, <1>4, LenProperties DEF Aligned, Types
<1>6. sent[n + 1] \in Records
  BY <1>2, <1>5, ElementOfSeq DEF Types
<1>7. got[1] \in {ALLOCATE, FREE}
  BY <1>1, <1>2, <1>5, <1>6, FieldCells, RecordsAssumption DEF IsRecord, Fields
<1>8. field' = IF got[1] = ALLOCATE THEN "size" ELSE "addr"
  BY <1>7 DEF TypeRead, ALLOCATE, FREE, SOCKET_CLOSED
<1>9. Types'
  <2>1. NoRecord \in [op : Cells, size : Cells, addr : Seq(Cells), len : Cells]
    BY DEF NoRecord, Cells
  <2>2. msg' \in [op : Cells, size : Cells, addr : Seq(Cells), len : Cells]
    BY <1>1, <1>2, <2>1
  <2>3. <<>> \in Seq(Cells)
    OBVIOUS
  <2>4. QED
    BY <1>1, <1>2, <1>8, <2>2, <2>3 DEF Types, Fields
<1>10. ASSUME NEW r \in Records, InRecord(r)
       PROVE  HasRead(r)' /\ Before(r)' = Before(r) + Len(got)
  <2>1. got[1] = r.op /\ r.op \in {ALLOCATE, FREE} /\ (r.op = FREE => r.size = 0)
    BY <1>1, <1>2, <1>10, FieldCells, RecordsAssumption DEF IsRecord, Fields
  <2>2. msg'.op = r.op /\ msg'.size = 0
    BY <1>1, <2>1 DEF NoRecord
  <2>3. HasRead(r)'
    BY <1>8, <2>1, <2>2 DEF HasRead
  <2>4. Before(r) = 0 /\ Before(r)' = 1
    BY <1>1, <1>8, <2>1 DEF Before, Shift, ALLOCATE, FREE
  <2>5. QED
    BY <1>1, <2>3, <2>4
<1>11. "type" \in Fields \ {"trace"} /\ field' \in Fields \ {"type"}
  BY <1>8 DEF Fields
<1>12. QED
  BY <1>1, <1>9, <1>10, <1>11, FieldStep

LEMMA SizeReadStep ==
  ASSUME Inv, SizeRead
  PROVE  Inv'
<1>1. /\ FieldRead("size") /\ field = "size" /\ Len(got) = Width /\ Width = 1 /\ got' = <<>>
      /\ msg' = [msg EXCEPT !.size = got[1]] /\ field' = "addr"
      /\ UNCHANGED <<net, avail, peer, socket, sent, queued>>
  BY DEF SizeRead, FieldRead, Width
<1>2. Types /\ got[1] \in Cells
  BY <1>1, GotCells DEF Inv, Fields
<1>3. Types'
  <2>1. msg' \in [op : Cells, size : Cells, addr : Seq(Cells), len : Cells]
    BY <1>1, <1>2 DEF Types
  <2>2. <<>> \in Seq(Cells)
    OBVIOUS
  <2>3. QED
    BY <1>1, <1>2, <2>1, <2>2 DEF Types, Fields
<1>4. ASSUME NEW r \in Records, InRecord(r)
      PROVE  HasRead(r)' /\ Before(r)' = Before(r) + Len(got)
  <2>1. got[1] = r.size /\ msg.op = r.op /\ r.op = ALLOCATE
    BY <1>1, <1>2, <1>4, FieldCells DEF InRecord, HasRead, Fields
  <2>2. msg'.op = r.op /\ msg'.size = r.size
    BY <1>1, <1>2, <2>1 DEF Types
  <2>3. HasRead(r)'
    BY <1>1, <2>2 DEF HasRead
  <2>4. Before(r) = 1 /\ Before(r)' = 2
    BY <1>1, <2>1 DEF Before, Shift
  <2>5. QED
    BY <1>1, <2>3, <2>4
<1>5. "size" \in Fields \ {"trace"} /\ field' \in Fields \ {"type"}
  BY <1>1 DEF Fields
<1>6. QED
  BY <1>1, <1>3, <1>4, <1>5, FieldStep

LEMMA AddrReadStep ==
  ASSUME Inv, AddrRead
  PROVE  Inv'
<1>1. /\ FieldRead("addr") /\ field = "addr" /\ Len(got) = Width /\ Width = 2 /\ got' = <<>>
      /\ msg' = [msg EXCEPT !.addr = got] /\ field' = "len"
      /\ UNCHANGED <<net, avail, peer, socket, sent, queued>>
  BY DEF AddrRead, FieldRead, Width
<1>2. Types
  BY DEF Inv
<1>3. Types'
  <2>1. msg' \in [op : Cells, size : Cells, addr : Seq(Cells), len : Cells]
    BY <1>1, <1>2 DEF Types
  <2>2. <<>> \in Seq(Cells)
    OBVIOUS
  <2>3. QED
    BY <1>1, <1>2, <2>1, <2>2 DEF Types, Fields
<1>4. ASSUME NEW r \in Records, InRecord(r)
      PROVE  HasRead(r)' /\ Before(r)' = Before(r) + Len(got)
  <2>1. got = AddressBytes(r.addr) /\ msg.op = r.op /\ msg.size = r.size
    BY <1>1, <1>2, <1>4, FieldCells DEF InRecord, HasRead, Fields
  <2>2. msg'.op = r.op /\ msg'.size = r.size /\ msg'.addr = AddressBytes(r.addr)
    BY <1>1, <1>2, <2>1 DEF Types
  <2>3. HasRead(r)'
    BY <1>1, <2>2 DEF HasRead
  <2>4. Before(r) = 1 + Shift(r) /\ Before(r)' = 3 + Shift(r) /\ Shift(r) \in 0 .. 1
    BY <1>1 DEF Before, Shift
  <2>5. QED
    BY <1>1, <2>3, <2>4
<1>5. "addr" \in Fields \ {"trace"} /\ field' \in Fields \ {"type"}
  BY <1>1 DEF Fields
<1>6. QED
  BY <1>1, <1>3, <1>4, <1>5, FieldStep

\* The only step that needs the traces to be short.
LEMMA LenReadStep ==
  ASSUME ShortTraces, Inv, LenRead
  PROVE  Inv'
<1>1. /\ FieldRead("len") /\ field = "len" /\ Len(got) = Width /\ Width = 1 /\ got' = <<>>
      /\ msg' = [msg EXCEPT !.len = got[1]]
      /\ UNCHANGED <<net, avail, peer, socket, sent, queued>>
  BY DEF LenRead, FieldRead, Width
<1>2. Types /\ got[1] \in Cells
  BY <1>1, GotCells DEF Inv, Fields
<1>3. PICK n \in 0 .. Len(sent) : Delivered(n) /\ Aligned(n)
  BY <1>1 DEF Inv, InStep, Running, Fields
<1>4. n + 1 \in 1 .. Len(sent) /\ InRecord(sent[n + 1])
  BY <1>1, <1>2, <1>3, LenProperties DEF Aligned, Types, Between
<1>5. sent[n + 1] \in Records
  BY <1>2, <1>4, ElementOfSeq DEF Types
<1>6. got[1] # SOCKET_CLOSED
  BY <1>1, <1>2, <1>4, <1>5, FieldCells DEF ShortTraces, Fields
<1>7. field' = "trace"
  BY <1>6 DEF LenRead
<1>8. Types'
  <2>1. msg' \in [op : Cells, size : Cells, addr : Seq(Cells), len : Cells]
    BY <1>1, <1>2 DEF Types
  <2>2. <<>> \in Seq(Cells)
    OBVIOUS
  <2>3. QED
    BY <1>1, <1>2, <1>7, <2>1, <2>2 DEF Types, Fields
<1>9. ASSUME NEW r \in Records, InRecord(r)
      PROVE  HasRead(r)' /\ Before(r)' = Before(r) + Len(got)
  <2>1. /\ got[1] = Len(r.trace) /\ msg.op = r.op /\ msg.size = r.size
        /\ msg.addr = AddressBytes(r.addr)
    BY <1>1, <1>2, <1>9, FieldCells DEF InRecord, HasRead, Fields
  <2>2. /\ msg'.op = r.op /\ msg'.size = r.size /\ msg'.addr = AddressBytes(r.addr)
        /\ msg'.len = Len(r.trace)
    BY <1>1, <1>2, <2>1 DEF Types
  <2>3. HasRead(r)'
    BY <1>7, <2>2 DEF HasRead
  <2>4. Before(r) = 3 + Shift(r) /\ Before(r)' = 4 + Shift(r) /\ Shift(r) \in 0 .. 1
    BY <1>1, <1>7 DEF Before, Shift
  <2>5. QED
    BY <1>1, <2>3, <2>4
<1>10. "len" \in Fields \ {"trace"} /\ field' \in Fields \ {"type"}
  BY <1>7 DEF Fields
<1>11. QED
  BY <1>1, <1>8, <1>9, <1>10, FieldStep

\* A complete record is the one that was sent, but for the high half of its address.
LEMMA ReceivedWhole ==
  ASSUME Types, field = "trace", Len(got) = Width,
         NEW r \in Records, InRecord(r)
  PROVE  /\ Received = Halved(r) /\ Halved(r) \in WellFormed
         /\ msg.addr = <<0, 0>> <=> ~Told(r)
<1>1. /\ r \in WellFormed /\ r.addr \in Cells \X Cells
      /\ AddressBytes(r.addr) \in Cells \X Cells
  BY RecordsAssumption DEF IsRecord, WellFormed, AddressBytes, Cells
<1>2. got = r.trace
  BY FieldCells DEF Fields
<1>3. msg.op = r.op /\ msg.size = r.size /\ msg.addr = AddressBytes(r.addr)
  BY DEF InRecord, HasRead
<1>4. PICK addr \in Cells \X Cells : addr = AddressBytes(r.addr)
  BY <1>1
<1>5. Halved(r) = [r EXCEPT !.addr = addr]
  BY <1>4 DEF Halved
<1>6. Received = Halved(r) /\ Halved(r) \in WellFormed /\ Halved(r).addr = addr
  BY <1>1, <1>2, <1>3, <1>4, <1>5 DEF Received, WellFormed
<1>7. QED
  BY <1>3, <1>4, <1>6 DEF Told, NotNull

\* A record is complete: it is the next one to be queued.
LEMMA TraceReadStep ==
  ASSUME Inv, TraceRead
  PROVE  Inv'
<1>1. /\ field = "trace" /\ Len(got) = Width /\ got' = <<>>
      /\ queued' = IF msg.addr = <<0, 0>> THEN queued ELSE Append(queued, Received)
      /\ field' = "type" /\ msg' = NoRecord
      /\ UNCHANGED <<net, avail, peer, socket, sent>>
  BY DEF TraceRead, FieldRead
<1>2. Types /\ field \in Fields
  BY <1>1 DEF Inv, Fields
<1>3. PICK n \in 0 .. Len(sent) : Delivered(n) /\ Aligned(n)
  BY <1>1 DEF Inv, InStep, Running, Fields
<1> DEFINE r == sent[n + 1]
<1>4. n + 1 \in 1 .. Len(sent) /\ InRecord(r) /\ n \in Nat /\ Len(sent) \in Nat
  BY <1>1, <1>2, <1>3, LenProperties DEF Aligned, Types, Between
<1>5. r \in Records
  BY <1>2, <1>4, ElementOfSeq DEF Types
<1>6. Received = Halved(r) /\ Halved(r) \in WellFormed /\ (msg.addr = <<0, 0>> <=> ~Told(r))
  BY <1>1, <1>2, <1>4, <1>5, ReceivedWhole
<1>7. queued' = IF Told(r) THEN Append(queued, Halved(r)) ELSE queued
  BY <1>1, <1>6
<1>8. queued \in Seq(WellFormed) /\ Len(queued) \in Nat /\ Len(queued) = Turn(n)
  BY <1>2, <1>3, LenProperties DEF Types, Delivered
<1>9. Types'
  <2>1. queued' \in Seq(WellFormed)
    BY <1>6, <1>7, <1>8, AppendProperties
  <2>2. msg' \in [op : Cells, size : Cells, addr : Seq(Cells), len : Cells]
    BY <1>1 DEF NoRecord, Cells
  <2>3. <<>> \in Seq(Cells)
    OBVIOUS
  <2>4. QED
    BY <1>1, <1>2, <2>1, <2>2, <2>3 DEF Types, Fields
<1>10. Delivered(n + 1)'
  <2>1. \A k \in Nat : Turn(k)' = Turn(k)
    BY <1>1 DEF Turn
  <2>2. Turn(n + 1) = IF Told(r) THEN Len(queued) + 1 ELSE Len(queued)
    BY <1>4, <1>8, TurnCounts
  <2>3. Len(queued') = Turn(n + 1)
    BY <1>6, <1>7, <1>8, <2>2, AppendProperties
  <2>4. ASSUME NEW k \in 1 .. n + 1, Told(sent[k])
        PROVE  queued'[Turn(k)] = Halved(sent[k])
    <3>1. CASE k = n + 1
      BY <1>6, <1>7, <1>8, <2>2, <2>4, <3>1, AppendProperties
    <3>2. CASE k \in 1 .. n
      <4>1. queued[Turn(k)] = Halved(sent[k])
        BY <1>3, <2>4, <3>2 DEF Delivered
      <4>2. Turn(k) \in 1 .. Len(queued)
        <5> k \in Nat /\ 0 \in Nat /\ 0 < k /\ k <= n
          BY <1>4, <3>2
        <5>1. Turn(k) \in Nat /\ Turn(0) \in Nat /\ Turn(k) <= Turn(n)
          BY <1>4, TurnCounts
        <5>2. Turn(0) < Turn(k)
          BY <2>4, TurnCounts
        <5>3. QED
          BY <1>8, <5>1, <5>2
      <4>3. QED
        BY <1>6, <1>7, <1>8, <4>1, <4>2, AppendProperties
    <3>3. QED
      BY <1>4, <3>1, <3>2
  <2>5. Turn(n + 1)' = Turn(n + 1) /\ \A k \in 1 .. n + 1 : Turn(k)' = Turn(k)
    BY <1>4, <2>1
  <2>6. QED
    BY <1>1, <2>3, <2>4, <2>5 DEF Delivered, Told, Halved, NotNull, AddressBytes
<1>11. Aligned(n + 1)'
  <2>1. Between'
    BY <1>1 DEF Between
  <2>2. ASSUME peer' # "reset"
        PROVE  \E rec, off : /\ OnWire(sent', avail' \o net', rec, off)
                            /\ Cursor(n + 1, rec[1], off[1])'
    <3>1. PICK rec, off : OnWire(sent, avail \o net, rec, off) /\ Cursor(n, rec[1], off[1])
      BY <1>1, <1>3, <2>2 DEF Aligned
    <3>2. OnWire(sent', avail' \o net', rec, off)
      BY <1>1, <3>1
    <3>3. Before(r) + Len(got) = Len(Message(r))
      BY <1>1, <1>2, <1>4, <1>5, TakenBounds
    <3>4. Follows(sent, n + 1, Len(Message(r)), rec[1], off[1])
      BY <1>1, <3>1, <3>3 DEF Cursor, Between
    <3>5. rec[1] = (n + 1) + 1 /\ off[1] = 1
      BY <3>4 DEF Follows
    <3>6. Cursor(n + 1, rec[1], off[1])'
      BY <2>1, <3>5 DEF Cursor
    <3>7. QED
      BY <3>2, <3>6
  <2>3. QED
    BY <2>1, <2>2 DEF Aligned
<1>12. n + 1 \in 0 .. Len(sent')
  BY <1>1, <1>4
<1>13. QED
  BY <1>9, <1>10, <1>11, <1>12 DEF Inv, InStep

\* A record that never stalls half way is never forgotten half way: the timeout
\* comes between two records.
LEMMA TimeoutStep ==
  ASSUME ~MidRecordStalls, Inv, Timeout
  PROVE  Inv'
<1>1. /\ field = "type" /\ Len(got) < Width
      /\ field' = "type" /\ got' = <<>> /\ msg' = NoRecord
      /\ UNCHANGED <<net, avail, peer, socket, sent, queued>>
  BY DEF Timeout, Reading
<1>2. got = <<>>
  <2>1. Width = 1 /\ Len(got) \in Nat /\ got \in Seq(Cells)
    BY <1>1, LenProperties DEF Width, Inv, Types
  <2>2. QED
    BY <1>1, <2>1, EmptySeq
<1>3. Between /\ Between'
  BY <1>1, <1>2 DEF Between
<1>4. PICK n \in 0 .. Len(sent) : Delivered(n) /\ Aligned(n)
  BY <1>1 DEF Inv, InStep, Running, Fields
<1>5. Types'
  <2>1. msg' \in [op : Cells, size : Cells, addr : Seq(Cells), len : Cells]
    BY <1>1 DEF NoRecord, Cells
  <2>2. QED
    BY <1>1, <1>2, <2>1 DEF Inv, Types
<1>6. Delivered(n)'
  BY <1>1, <1>4 DEF Delivered, Turn
<1>7. Aligned(n)'
  BY <1>1, <1>3, <1>4 DEF Aligned, Cursor
<1>8. QED
  BY <1>1, <1>4, <1>5, <1>6, <1>7 DEF Inv, InStep

LEMMA StepInv ==
  ASSUME ShortTraces, ~MidRecordStalls, Inv, [Next]_vars
  PROVE  Inv'
<1>1. ASSUME NEW r \in Records, Send(r) PROVE Inv'
  BY <1>1, SendStep
<1>2. CASE Close
  <2>1. /\ UNCHANGED <<net, avail, field, got, msg, sent, queued>>
        /\ peer = "open" /\ peer' = "closed"
    BY <1>2 DEF Close
  <2>2. Types'
    BY <2>1 DEF Inv, Types
  <2>3. QED
    BY <2>1, <2>2, OtherStep
<1>3. CASE Reset
  <2>1. /\ UNCHANGED <<field, got, msg, sent, queued>>
        /\ net' = <<>> /\ avail' = <<>> /\ peer' = "reset"
    BY <1>3 DEF Reset
  <2>2. Types'
    BY <2>1 DEF Inv, Types
  <2>3. QED
    BY <2>1, <2>2, OtherStep
<1>4. CASE Arrive
  <2>1. UNCHANGED <<peer, field, got, msg, sent, queued>> /\ net # <<>>
    BY <1>4 DEF Arrive
  <2>2. /\ net' \in Seq(Cells) /\ avail' \in Seq(Cells)
        /\ avail' \o net' = avail \o net
    BY <1>4, ArriveKeeps DEF Inv, Types
  <2>3. peer' # "reset" /\ peer # "reset"
    BY <2>1 DEF Inv, Types
  <2>4. Types'
    BY <2>1, <2>2, <2>3 DEF Inv, Types
  <2>5. QED
    BY <2>1, <2>2, <2>3, <2>4, OtherStep
<1>5. CASE Disconnect
  <2>1. UNCHANGED <<net, avail, peer, field, got, msg, sent, queued>>
    BY <1>5 DEF Disconnect
  <2>2. Types'
    BY <2>1 DEF Inv, Types
  <2>3. QED
    BY <2>1, <2>2, OtherStep
<1>6. CASE EndOfStream \/ SocketClosed
  <2>1. UNCHANGED <<net, avail, peer, sent, queued, got, msg>> /\ field' = "ended"
    BY <1>6 DEF EndOfStream, SocketClosed
  <2>2. QED
    BY <2>1, StopStep
<1>7. CASE UNCHANGED vars
  <2>1. UNCHANGED <<net, avail, peer, field, got, msg, sent, queued>>
    BY <1>7 DEF vars
  <2>2. Types'
    BY <2>1 DEF Inv, Types
  <2>3. QED
    BY <2>1, <2>2, OtherStep
<1>8. QED
  BY <1>1, <1>2, <1>3, <1>4, <1>5, <1>6, <1>7, ReadStep, TypeReadStep, SizeReadStep,
     AddrReadStep, LenReadStep, TraceReadStep, TimeoutStep
     DEF Next, Observer, SocketHandler

\* The reader stays in step: a record it has not read in full is the next one
\* sent, and what it has of it is that record's cells.  Both hypotheses are needed:
\* a length with its top bit set kills the thread (LenRead), and a timeout in the
\* middle of a record makes the rest of it look like the next one (Timeout).
THEOREM InStepInvariant ==
  ShortTraces /\ ~MidRecordStalls => (Spec => []Inv)
<1> SUFFICES ASSUME ShortTraces, ~MidRecordStalls PROVE Spec => []Inv
  OBVIOUS
<1>1. Init => Inv
  BY InitInv
<1>2. Inv /\ [Next]_vars => Inv'
  BY StepInv
<1>3. QED
  BY <1>1, <1>2, PTL DEF Spec

\* On a 64 bit target too, what SocketHandler queues is what the hooks reported, in
\* order, but for the high half of each address: MemoryMessage::getBytes writes a long
\* into the eight bytes.  A record whose low half is null is taken for a null address.
THEOREM DeliversHalved ==
  ShortTraces /\ ~MidRecordStalls => (Spec => []ReceivedHalved)
<1> SUFFICES ASSUME ShortTraces, ~MidRecordStalls PROVE Spec => []ReceivedHalved
  OBVIOUS
<1>1. Spec => []Inv
  BY InStepInvariant
<1>2. Inv => ReceivedHalved
  BY DeliveredInOrder DEF Inv, InStep, Types
<1>3. QED
  BY <1>1, <1>2, PTL

\* What SocketHandler queues of a 32 bit target is what the hooks reported, field for
\* field and in order, whatever the two ends do.
THEOREM DeliversAsSent ==
  Win32 /\ ShortTraces /\ ~MidRecordStalls => (Spec => []ReceivedAsSent)
<1> SUFFICES ASSUME Win32, ShortTraces, ~MidRecordStalls PROVE Spec => []ReceivedAsSent
  OBVIOUS
<1>1. Spec => []Inv
  BY InStepInvariant
<1>2. Inv => ReceivedAsSent
  <2> SUFFICES ASSUME Inv PROVE ReceivedAsSent
    OBVIOUS
  <2>1. ReceivedHalved /\ sent \in Seq(Records) /\ Len(sent) \in Nat
    BY DeliveredInOrder, LenProperties DEF Inv, InStep, Types
  <2>2. ASSUME NEW r \in Records PROVE Halved(r) = r
    <3>1. r \in WellFormed /\ r.addr \in Cells \X Cells /\ r.addr[2] = 0
      BY RecordsAssumption DEF IsRecord, WellFormed, Win32
    <3>2. AddressBytes(r.addr) = r.addr
      BY <3>1 DEF AddressBytes
    <3>3. [r EXCEPT !.addr = r.addr] = r
      BY <3>1 DEF WellFormed
    <3>4. QED
      BY <3>2, <3>3 DEF Halved
  <2>3. \A k \in 1 .. Len(sent) : Halved(sent[k]) = sent[k] /\ (Told(sent[k]) <=> NotNull(sent[k]))
    BY <2>1, <2>2, ElementOfSeq DEF Told
  <2>4. \A n \in 0 .. Len(sent) : Turn(n) = Place(n)
    <3> SUFFICES ASSUME NEW n \in 0 .. Len(sent) PROVE Turn(n) = Place(n)
      OBVIOUS
    <3>1. ASSUME NEW k \in 1 .. n PROVE Told(sent[k]) <=> NotNull(sent[k])
      <4>1. k \in 1 .. Len(sent)
        BY <2>1
      <4>2. QED
        BY <2>3, <4>1
    <3>2. {k \in 1 .. n : Told(sent[k])} = {k \in 1 .. n : NotNull(sent[k])}
      BY <3>1
    <3>3. QED
      BY <3>2 DEF Turn, Place
  <2>5. Len(sent) \in 0 .. Len(sent) /\ \A k \in 1 .. Len(sent) : k \in 0 .. Len(sent)
    BY <2>1
  <2>6. Turn(Len(sent)) = Place(Len(sent)) /\ \A k \in 1 .. Len(sent) : Turn(k) = Place(k)
    BY <2>4, <2>5
  <2>7. QED
    BY <2>1, <2>3, <2>6 DEF ReceivedHalved, ReceivedAsSent
<1>3. QED
  BY <1>1, <1>2, PTL

\* SocketHandler.run never dies of a NegativeArraySizeException: what it takes
\* for a length is one.
THEOREM ReaderSurvives ==
  ShortTraces /\ ~MidRecordStalls => (Spec => []NeverDies)
<1> SUFFICES ASSUME ShortTraces, ~MidRecordStalls PROVE Spec => []NeverDies
  OBVIOUS
<1>1. Spec => []Inv
  BY InStepInvariant
<1>2. Inv => NeverDies
  BY DEF Inv, Types, NeverDies, Fields
<1>3. QED
  BY <1>1, <1>2, PTL

-----------------------------------------------------------------------------
(* Types, without any hypothesis                                           *)

Shapes == [op : {ALLOCATE, FREE}, size : Cells, addr : Cells \X Cells, trace : Seq(Cells)]

\* What has been read of a record makes a record, from whatever cells it was read:
\* out of step with the sender as well.
Half ==
  /\ msg \in [op : Cells, size : Cells, addr : Cells \X Cells, len : Cells]
  /\ field \in Fields \ {"type"} => msg.op \in {ALLOCATE, FREE}
  /\ field = "size" => msg.op = ALLOCATE
  /\ msg.op # ALLOCATE => msg.size = 0

Safe ==
  /\ net \in Seq(Cells) /\ avail \in Seq(Cells) /\ got \in Seq(Cells)
  /\ peer \in {"open", "closed", "reset"} /\ socket \in {"open", "closed"}
  /\ field \in Fields \cup {"ended", "died"}
  /\ sent \in Seq(Records)
  /\ queued \in Seq(Shapes)
  /\ \A i \in 1 .. Len(queued) : IsRecord(queued[i])
  /\ Half

LEMMA InitSafe == Init => Safe
BY DEF Init, Safe, Half, NoRecord, Cells, Fields

\* A field of one cell, read in full.
LEMMA OneCell ==
  ASSUME Safe, NEW f \in Fields \ {"addr", "trace"}, field = f, Len(got) = Width
  PROVE  got[1] \in Cells
<1>1. Len(got) = 1
  BY DEF Width, Fields
<1>2. got \in Seq(Cells) /\ 1 \in 1 .. Len(got)
  BY <1>1 DEF Safe
<1>3. QED
  BY <1>2, ElementOfSeq

LEMMA StepSafe == Safe /\ [Next]_vars => Safe'
<1> SUFFICES ASSUME Safe, [Next]_vars PROVE Safe'
  OBVIOUS
<1> DEFINE Queue == /\ queued \in Seq(Shapes)
                    /\ \A i \in 1 .. Len(queued) : IsRecord(queued[i])
<1>0. Cells = {0, 1, 2, 3} /\ ALLOCATE = 1 /\ FREE = 2 /\ SOCKET_CLOSED = 3
  BY DEF Cells, ALLOCATE, FREE, SOCKET_CLOSED
<1>1. ASSUME NEW r \in Records, Send(r) PROVE Safe'
  <2>1. net' \in Seq(Cells)
    <3>1. Message(r) \in Seq(Cells)
      BY MessageCells
    <3>2. QED
      BY <1>1, <3>1, ConcatProperties DEF Send, Safe
  <2>2. sent' \in Seq(Records)
    BY <1>1, AppendProperties DEF Send, Safe
  <2>3. UNCHANGED <<avail, peer, socket, field, got, msg, queued>>
    BY <1>1 DEF Send
  <2>4. QED
    BY <2>1, <2>2, <2>3 DEF Safe, Half
<1>2. CASE Close \/ Disconnect
  BY <1>2 DEF Close, Disconnect, Safe, Half
<1>3. CASE Reset
  BY <1>3, EmptySeq DEF Reset, Safe, Half
<1>4. CASE Arrive
  <2>1. avail' \in Seq(Cells) /\ net' \in Seq(Cells)
    BY <1>4, HeadTailProperties, AppendProperties DEF Arrive, Safe
  <2>2. UNCHANGED <<peer, socket, field, got, msg, sent, queued>>
    BY <1>4 DEF Arrive
  <2>3. QED
    BY <2>1, <2>2 DEF Safe, Half
<1>5. CASE Read
  <2>1. avail' \in Seq(Cells) /\ got' \in Seq(Cells)
    BY <1>5, HeadTailProperties, AppendProperties DEF Read, Safe
  <2>2. UNCHANGED <<net, peer, socket, field, msg, sent, queued>>
    BY <1>5 DEF Read
  <2>3. QED
    BY <2>1, <2>2 DEF Safe, Half
<1>6. ASSUME NEW f \in Fields, FieldRead(f), Half', Queue', field' \in Fields \cup {"ended", "died"}
      PROVE  Safe'
  BY <1>6, EmptySeq DEF FieldRead, Safe
<1>7. CASE TypeRead
  <2>1. got[1] \in Cells
    BY <1>7, OneCell DEF TypeRead, FieldRead, Fields
  <2>2. field' \in {"size", "addr", "ended", "type"}
        /\ (field' = "size" => got[1] = ALLOCATE) /\ (field' = "addr" => got[1] = FREE)
    BY <1>0, <1>7, <2>1 DEF TypeRead
  <2>3. msg' = [op |-> got[1], size |-> 0, addr |-> <<0, 0>>, len |-> 0]
    BY <1>7 DEF TypeRead, NoRecord
  <2>4. Half'
    BY <1>0, <2>1, <2>2, <2>3 DEF Half, Fields
  <2>5. Queue'
    BY <1>7 DEF TypeRead, Safe
  <2>6. QED
    BY <1>6, <1>7, <2>2, <2>4, <2>5 DEF TypeRead, Fields
<1>8. CASE SizeRead
  <2>1. got[1] \in Cells
    BY <1>8, OneCell DEF SizeRead, FieldRead, Fields
  <2>2. Half'
    BY <1>8, <2>1 DEF SizeRead, FieldRead, Half, Safe, Fields
  <2>3. Queue'
    BY <1>8 DEF SizeRead, Safe
  <2>4. QED
    BY <1>6, <1>8, <2>2, <2>3 DEF SizeRead, Fields
<1>9. CASE AddrRead
  <2>1. Len(got) = 2
    BY <1>9 DEF AddrRead, FieldRead, Width
  <2>2. got \in Cells \X Cells
    <3>1. got[1] \in Cells /\ got[2] \in Cells
      <4>1. got \in Seq(Cells) /\ 1 \in 1 .. Len(got) /\ 2 \in 1 .. Len(got)
        BY <2>1 DEF Safe
      <4>2. QED
        BY <4>1, ElementOfSeq
    <3>2. got = <<got[1], got[2]>>
      BY <2>1 DEF Safe
    <3>3. QED
      BY <3>1, <3>2
  <2>3. Half'
    BY <1>9, <2>2 DEF AddrRead, FieldRead, Half, Safe, Fields
  <2>4. Queue'
    BY <1>9 DEF AddrRead, Safe
  <2>5. QED
    BY <1>6, <1>9, <2>3, <2>4 DEF AddrRead, Fields
<1>10. CASE LenRead
  <2>1. got[1] \in Cells
    BY <1>10, OneCell DEF LenRead, FieldRead, Fields
  <2>2. Half'
    BY <1>10, <2>1 DEF LenRead, FieldRead, Half, Safe, Fields
  <2>3. Queue'
    BY <1>10 DEF LenRead, Safe
  <2>4. QED
    BY <1>6, <1>10, <2>2, <2>3 DEF LenRead, Fields
<1>11. CASE TraceRead
  <2>1. msg.op \in {ALLOCATE, FREE} /\ (msg.op = FREE => msg.size = 0)
    BY <1>0, <1>11 DEF TraceRead, FieldRead, Safe, Half, Fields
  <2>2. Received \in Shapes /\ IsRecord(Received)
    <3>1. msg.size \in Cells /\ msg.addr \in Cells \X Cells /\ got \in Seq(Cells)
      BY DEF Safe, Half
    <3>2. Received \in Shapes
      BY <2>1, <3>1 DEF Received, Shapes
    <3>3. Received.op = FREE => Received.size = 0
      BY <2>1 DEF Received
    <3>4. Len(Received.trace) \in Cells
      <4>1. Len(got) = msg.len /\ msg.len \in Cells
        BY <1>11 DEF TraceRead, FieldRead, Width, Safe, Half
      <4>2. QED
        BY <4>1 DEF Received
    <3>5. QED
      BY <3>2, <3>3, <3>4 DEF IsRecord, Shapes
  <2>3. Queue'
    <3>1. CASE queued' = queued
      BY <3>1 DEF Safe
    <3>2. CASE queued' = Append(queued, Received)
      <4>1. /\ queued' \in Seq(Shapes) /\ Len(queued') = Len(queued) + 1
            /\ \A i \in 1 .. Len(queued) : queued'[i] = queued[i]
            /\ queued'[Len(queued) + 1] = Received
        BY <2>2, <3>2, AppendProperties DEF Safe
      <4>2. Len(queued) \in Nat
        BY LenProperties DEF Safe
      <4>3. ASSUME NEW i \in 1 .. Len(queued') PROVE IsRecord(queued'[i])
        <5>1. i \in 1 .. Len(queued) \/ i = Len(queued) + 1
          BY <4>1, <4>2
        <5>2. QED
          BY <2>2, <4>1, <5>1 DEF Safe
      <4>4. QED
        BY <4>1, <4>3
    <3>3. QED
      BY <1>11, <3>1, <3>2 DEF TraceRead
  <2>4. Half'
    BY <1>0, <1>11 DEF TraceRead, Half, NoRecord, Fields
  <2>5. QED
    BY <1>6, <1>11, <2>3, <2>4 DEF TraceRead, Fields
<1>12. CASE Timeout
  <2>1. Half'
    BY <1>0, <1>12 DEF Timeout, Half, NoRecord, Fields
  <2>2. QED
    BY <1>12, <2>1, EmptySeq DEF Timeout, Safe, Fields
<1>13. CASE EndOfStream \/ SocketClosed
  BY <1>13 DEF EndOfStream, SocketClosed, Safe, Half, Fields
<1>14. CASE UNCHANGED vars
  BY <1>14 DEF vars, Safe, Half
<1>15. QED
  BY <1>1, <1>2, <1>3, <1>4, <1>5, <1>7, <1>8, <1>9, <1>10, <1>11, <1>12, <1>13, <1>14
  DEF Next, Observer, SocketHandler

\* Types, of any target and any network: SocketHandler hands on nothing that is not a
\* record, with a size only if it is an allocation, in step with the Observer or not.
THEOREM TypeCorrect == Spec => []TypeOK
<1>1. Safe => TypeOK
  BY DEF Safe, TypeOK
<1>2. QED
  BY <1>1, InitSafe, StepSafe, PTL DEF Spec
=============================================================================
