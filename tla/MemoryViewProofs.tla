--------------------------- MODULE MemoryViewProofs ---------------------------
(***************************************************************************)
(* Theorems about MemoryView, for any addresses and any number of          *)
(* connections and records.                                                *)
(***************************************************************************)
EXTENDS MemoryView, SequenceTheorems, TLAPS

-----------------------------------------------------------------------------
(* Lists without repetition                                                *)

LEMMA Members == ASSUME NEW s PROVE ToSet(s) = {s[i] : i \in DOMAIN s}
BY DEF ToSet

\* A list that is one longer.
LEMMA Appended ==
  ASSUME NEW S, NEW s \in Seq(S), NEW e \in S
  PROVE  /\ Append(s, e) \in Seq(S) /\ ToSet(Append(s, e)) = ToSet(s) \cup {e}
         /\ IsInjective(s) /\ e \notin ToSet(s) => IsInjective(Append(s, e))
<1> DEFINE t == Append(s, e)
           n == Len(s) + 1
<1>1. /\ t \in Seq(S) /\ Len(t) = n /\ t[n] = e /\ Len(s) \in Nat
      /\ \A i \in 1 .. Len(s) : t[i] = s[i]
  BY AppendProperties, LenProperties
<1>2. DOMAIN t = 1 .. n /\ DOMAIN s = 1 .. Len(s)
  BY <1>1, LenProperties
<1> HIDE DEF t
<1>3. DOMAIN t = DOMAIN s \cup {n} /\ n \notin DOMAIN s /\ \A i \in DOMAIN s : t[i] = s[i]
  BY <1>1, <1>2
<1> HIDE DEF n
<1>4. ToSet(t) = ToSet(s) \cup {e}
  BY <1>1, <1>3 DEF ToSet
<1>5. ASSUME IsInjective(s), e \notin ToSet(s) PROVE IsInjective(t)
  BY <1>1, <1>3, <1>5 DEF ToSet, IsInjective
<1> QED
  BY <1>1, <1>4, <1>5 DEF t

\* The element with index k of a list is left out.
LEMMA OneRemoved ==
  ASSUME NEW S, NEW s \in Seq(S), IsInjective(s), NEW k \in 1 .. Len(s)
  PROVE  LET t == RemoveAt(s, k) IN
         t \in Seq(S) /\ IsInjective(t) /\ ToSet(t) = ToSet(s) \ {s[k]}
<1> DEFINE t == RemoveAt(s, k)
           u == SubSeq(s, 1, k - 1)
           v == SubSeq(s, k + 1, Len(s))
           m == Len(s) - 1
<1>1. Len(s) \in Nat /\ DOMAIN s = 1 .. Len(s) /\ \A i \in 1 .. Len(s) : s[i] \in S
  BY LenProperties, ElementOfSeq
<1>2. /\ u \in Seq(S) /\ Len(u) = k - 1
      /\ \A i \in 1 .. k - 1 : u[i] = s[i]
  <2>1. \A i \in 1 .. k - 1 : s[i] \in S
    BY <1>1
  <2>2. /\ u \in Seq(S) /\ Len(u) = IF 1 <= k - 1 THEN k - 1 - 1 + 1 ELSE 0
        /\ \A i \in 1 .. (k - 1) - 1 + 1 : u[i] = s[1 + i - 1]
    BY <1>1, <2>1, SubSeqProperties
  <2> HIDE DEF u
  <2> QED
    BY <1>1, <2>2
<1>3. /\ v \in Seq(S) /\ Len(v) = Len(s) - k
      /\ \A i \in 1 .. Len(s) - k : v[i] = s[k + i]
  <2>1. \A i \in k + 1 .. Len(s) : s[i] \in S
    BY <1>1
  <2>2. /\ v \in Seq(S)
        /\ Len(v) = IF k + 1 <= Len(s) THEN Len(s) - (k + 1) + 1 ELSE 0
        /\ \A i \in 1 .. Len(s) - (k + 1) + 1 : v[i] = s[(k + 1) + i - 1]
    BY <1>1, <2>1, SubSeqProperties
  <2>3. \A i \in 1 .. Len(s) - k :
          i \in 1 .. Len(s) - (k + 1) + 1 /\ (k + 1) + i - 1 = k + i
    BY <1>1
  <2> HIDE DEF v
  <2>4. \A i \in 1 .. Len(s) - k : v[i] = s[k + i]
    BY <2>2, <2>3
  <2>5. Len(v) = Len(s) - k
    <3>1. Len(v) = IF k + 1 <= Len(s) THEN Len(s) - (k + 1) + 1 ELSE 0
      BY <2>2
    <3>2. \A n \in Nat : \A j \in 1 .. n :
            (IF j + 1 <= n THEN n - (j + 1) + 1 ELSE 0) = n - j
      OBVIOUS
    <3>3. Len(s) \in Nat
      BY <1>1
    <3> QED
      BY <3>1, <3>2, <3>3, Zenon
  <2> QED
    BY <2>2, <2>4, <2>5
<1>4. t = u \o v
  BY DEF RemoveAt
<1> HIDE DEF u, v, t
<1>5. /\ t \in Seq(S) /\ Len(t) = m
      /\ \A i \in 1 .. m : t[i] = IF i < k THEN s[i] ELSE s[i + 1]
  <2>1. /\ t \in Seq(S) /\ Len(t) = Len(u) + Len(v)
        /\ \A i \in 1 .. Len(u) + Len(v) : t[i] = IF i <= Len(u) THEN u[i] ELSE v[i - Len(u)]
    BY <1>2, <1>3, <1>4, ConcatProperties
  <2>2. ASSUME NEW i \in 1 .. m PROVE t[i] = IF i < k THEN s[i] ELSE s[i + 1]
    <3>1. i \in 1 .. Len(u) + Len(v)
      BY <1>1, <1>2, <1>3
    <3>2. t[i] = IF i <= Len(u) THEN u[i] ELSE v[i - Len(u)]
      BY <2>1, <3>1
    <3>3. CASE i < k
      <4>1. i <= Len(u) /\ i \in 1 .. k - 1
        BY <1>1, <1>2, <3>3
      <4>2. u[i] = s[i]
        BY <1>2, <4>1
      <4> QED
        BY <3>2, <3>3, <4>1, <4>2
    <3>4. CASE ~(i < k)
      <4>1. ~(i <= Len(u)) /\ i - Len(u) \in 1 .. Len(s) - k /\ k + (i - Len(u)) = i + 1
        BY <1>1, <1>2, <3>4
      <4>2. v[i - Len(u)] = s[k + (i - Len(u))]
        BY <1>3, <4>1
      <4> QED
        BY <3>2, <3>4, <4>1, <4>2
    <3> QED
      BY <3>3, <3>4
  <2> QED
    BY <1>1, <1>2, <1>3, <2>1, <2>2
<1>6. DOMAIN t = 1 .. m
  BY <1>5, LenProperties
<1> DEFINE At(i) == IF i < k THEN i ELSE i + 1
           Back(i) == IF i < k THEN i ELSE i - 1
<1>7. /\ \A i \in DOMAIN t : At(i) \in DOMAIN s /\ At(i) # k /\ t[i] = s[At(i)] /\ Back(At(i)) = i
      /\ \A i \in DOMAIN s : i # k => Back(i) \in DOMAIN t /\ At(Back(i)) = i
  BY <1>1, <1>5, <1>6
<1> HIDE DEF At, Back
<1>8. \A i, j \in DOMAIN s : s[i] = s[j] => i = j
  BY DEF IsInjective
<1>9. IsInjective(t)
  BY <1>7, <1>8 DEF IsInjective
<1>10. ToSet(t) = ToSet(s) \ {s[k]}
  <2>1. k \in DOMAIN s
    BY <1>1
  <2>2. ASSUME NEW x \in ToSet(t) PROVE x \in ToSet(s) \ {s[k]}
    BY <1>7, <1>8, <2>1 DEF ToSet
  <2>3. ASSUME NEW x \in ToSet(s) \ {s[k]} PROVE x \in ToSet(t)
    <3>1. PICK i \in DOMAIN s : s[i] = x
      BY DEF ToSet
    <3>2. Back(i) \in DOMAIN t /\ t[Back(i)] = x
      BY <1>7, <3>1
    <3> QED
      BY <3>2 DEF ToSet
  <2> QED
    BY <2>2, <2>3
<1> QED
  BY <1>5, <1>9, <1>10 DEF t

LEMMA FirstRemoved ==
  ASSUME NEW S, NEW s \in Seq(S), IsInjective(s), NEW e
  PROVE  LET t == RemoveFirst(s, e) IN
         t \in Seq(S) /\ IsInjective(t) /\ ToSet(t) = ToSet(s) \ {e}
<1>1. DOMAIN s = 1 .. Len(s) /\ Len(s) \in Nat
  BY LenProperties
<1>2. CASE \E i \in 1 .. Len(s) : s[i] = e
  <2>1. PICK k \in 1 .. Len(s) : s[k] = e
    BY <1>2
  <2>2. {i \in 1 .. Len(s) : s[i] = e} = {k}
    BY <1>1, <2>1 DEF IsInjective
  <2>3. RemoveFirst(s, e) = RemoveAt(s, SelectInSeq(s, LAMBDA x : x = e))
    BY <1>2, Zenon DEF RemoveFirst
  <2>4. SelectInSeq(s, LAMBDA x : x = e) = Min({i \in 1 .. Len(s) : s[i] = e})
    BY <2>1, Zenon DEF SelectInSeq
  <2>5. Min({k}) = k
    BY DEF Min
  <2>6. RemoveFirst(s, e) = RemoveAt(s, k)
    BY <2>2, <2>3, <2>4, <2>5, Zenon
  <2> QED
    BY <2>1, <2>6, OneRemoved
<1>3. CASE ~\E i \in 1 .. Len(s) : s[i] = e
  <2>1. RemoveFirst(s, e) = s
    BY <1>3, Zenon DEF RemoveFirst
  <2>2. e \notin ToSet(s)
    BY <1>1, <1>3 DEF ToSet
  <2> QED
    BY <2>1, <2>2
<1> QED
  BY <1>2, <1>3

\* A chunk that joins a list is in it once.
LEMMA ChunkAdded ==
  ASSUME NEW S, NEW s \in Seq(S), IsInjective(s), NEW e \in S
  PROVE  LET t == AddChunk(s, e) IN
         t \in Seq(S) /\ IsInjective(t) /\ ToSet(t) = ToSet(s) \cup {e}
<1> DEFINE r == RemoveFirst(s, e)
<1>1. r \in Seq(S) /\ IsInjective(r) /\ ToSet(r) = ToSet(s) \ {e}
  BY FirstRemoved
<1>2. AddChunk(s, e) = Append(r, e)
  BY DEF AddChunk
<1> HIDE DEF r
<1> QED
  BY <1>1, <1>2, Appended

-----------------------------------------------------------------------------
(* The inductive invariant                                                 *)

Held == {"mark", "push", "post", "store"}

\* A handler thread at work has a record, and from its lookup on a chunk of that
\* record's address.
Locals ==
  \A s \in Sessions :
    /\ pc[s] # "idle" => cur[s] \in DOMAIN log
    /\ pc[s] \in Held => ref[s] \in DOMAIN chunks /\ chunks[ref[s]].addr = log[cur[s]].addr

\* The tree has a chunk under its own address; a list has a chunk once.
Addressed == \A a \in Addrs : tree[a] # NoChunk => chunks[tree[a]].addr = a
ListedOnce == IsInjective(allocList) /\ IsInjective(freeList)

\* connect() makes one connection more.
OneMore == edt # "idle" => session < MaxSessions

Base == TypeOK /\ Locals /\ Addressed /\ ListedOnce /\ OneMore

-----------------------------------------------------------------------------
(* What the steps keep, whether or not everything is handled in time       *)

LEMMA BaseInitially == Init => Base
<1> SUFFICES ASSUME Init PROVE Base
  OBVIOUS
<1>1. allocList = <<>> /\ freeList = <<>> /\ chunks = <<>> /\ log = <<>> /\ edtQueue = <<>>
  BY DEF Init
<1>2. /\ Len(chunks) = 0 /\ Len(log) = 0 /\ chunks \in Seq(Chunk) /\ log \in Seq(Record)
      /\ edtQueue \in Seq(Runnable) /\ allocList \in Seq(1 .. Len(chunks))
      /\ freeList \in Seq(1 .. Len(chunks)) /\ DOMAIN chunks = {} /\ DOMAIN allocList = {}
      /\ DOMAIN freeList = {} /\ <<>> \in Seq(Nat)
  BY <1>1, EmptySeq
<1>3. 0 \in 0 .. MaxSessions
  BY BoundsAssumption
<1>4. TypeOK
  <2>1. hurried \in BOOLEAN /\ gone \subseteq Nat
    BY DEF Init
  <2> QED
    BY <1>2, <1>3, <2>1 DEF Init, TypeOK, NoChunk, Steps
<1>5. Locals /\ Addressed /\ ListedOnce /\ OneMore
  BY <1>2 DEF Init, Locals, Addressed, ListedOnce, OneMore, NoChunk, Held, IsInjective
<1> QED
  BY <1>4, <1>5 DEF Base

\* What TypeOK says of the sequences.
LEMMA Sizes ==
  ASSUME TypeOK
  PROVE  /\ Len(chunks) \in Nat /\ DOMAIN chunks = 1 .. Len(chunks)
         /\ Len(log) \in Nat /\ DOMAIN log = 1 .. Len(log)
         /\ Len(edtQueue) \in Nat /\ DOMAIN edtQueue = 1 .. Len(edtQueue)
         /\ \A c \in DOMAIN chunks : chunks[c] \in Chunk
         /\ \A i \in DOMAIN log : log[i] \in Record
         /\ \A i \in DOMAIN edtQueue : edtQueue[i] \in Runnable
<1>1. chunks \in Seq(Chunk) /\ log \in Seq(Record) /\ edtQueue \in Seq(Runnable)
  BY DEF TypeOK
<1> QED
  BY <1>1, LenProperties, ElementOfSeq

\* A handler thread goes on to its next step, with the chunks as they were or with one
\* of them changed in place.
SameChunks(new) ==
  /\ new \in Seq(Chunk) /\ Len(new) = Len(chunks)
  /\ \A c \in DOMAIN chunks : new[c].addr = chunks[c].addr
  /\ \A c \in DOMAIN new, op \in Ops : Len(new[c].traces[op]) <= HistoryCap

LEMMA StepKeepsBase ==
  ASSUME Base, NEW s \in Sessions, pc[s] # "idle", NEW p \in Steps,
         pc' = [pc EXCEPT ![s] = p], p \in Held => pc[s] \in Held, SameChunks(chunks'),
         UNCHANGED <<tree, lists, edt, sessions, cur, ref, log, marks>>,
         edtQueue' \in Seq(Runnable), text' \in [Sessions -> Seq(Nat)], allTraces' \in Seq(Nat)
  PROVE  Base'
<1>1. TypeOK
  BY DEF Base
<1>2. /\ Len(chunks') = Len(chunks) /\ DOMAIN chunks' = DOMAIN chunks
      /\ \A c \in DOMAIN chunks : chunks'[c].addr = chunks[c].addr
  BY <1>1, Sizes, LenProperties DEF SameChunks
<1>3. Runnable' = Runnable
  BY <1>2 DEF Runnable
<1>4. TypeOK'
  <2>1. pc' \in [Sessions -> Steps]
    BY <1>1 DEF TypeOK
  <2> QED
    BY <1>1, <1>2, <1>3, <2>1 DEF TypeOK, SameChunks, lists, sessions, marks
<1>5. Locals'
  <2> SUFFICES ASSUME NEW u \in Sessions
               PROVE  /\ pc'[u] # "idle" => cur'[u] \in DOMAIN log'
                      /\ pc'[u] \in Held => /\ ref'[u] \in DOMAIN chunks'
                                            /\ chunks'[ref'[u]].addr = log'[cur'[u]].addr
    BY DEF Locals
  <2>1. (pc'[u] # "idle" => pc[u] # "idle") /\ (pc'[u] \in Held => pc[u] \in Held)
    BY <1>1 DEF TypeOK
  <2> QED
    BY <1>2, <2>1 DEF Base, Locals
<1>6. Addressed'
  <2>1. \A a \in Addrs : tree[a] # NoChunk => tree[a] \in DOMAIN chunks
    BY <1>1, Sizes DEF TypeOK, NoChunk
  <2> QED
    BY <1>2, <2>1 DEF Base, Addressed
<1>7. ListedOnce'
  BY DEF Base, ListedOnce, lists
<1> QED
  BY <1>4, <1>5, <1>6, <1>7 DEF Base, OneMore, sessions

LEMMA TakeKeepsBase ==
  ASSUME Base, NEW s \in Sessions, NEW op \in Ops, NEW a \in Addrs, Take(s, op, a)
  PROVE  Base'
<1> DEFINE r == [op |-> op, addr |-> a, session |-> s]
<1>1. /\ log' = Append(log, r) /\ cur' = [cur EXCEPT ![s] = Len(log) + 1] /\ pc[s] = "idle"
      /\ pc' = [pc EXCEPT ![s] = "readText"]
      /\ UNCHANGED <<tree, chunks, lists, edtQueue, edt, sessions, ref, text, allTraces, gone>>
      /\ hurried' \in BOOLEAN
  BY DEF Take
<1>2. TypeOK
  BY DEF Base
<1>3. /\ log' \in Seq(Record) /\ Len(log') = Len(log) + 1 /\ Len(log) \in Nat
      /\ DOMAIN log' = 1 .. Len(log) + 1 /\ DOMAIN log = 1 .. Len(log)
      /\ \A i \in DOMAIN log : log'[i] = log[i]
  <2>1. r \in Record
    BY DEF Record
  <2>2. log \in Seq(Record)
    BY <1>2 DEF TypeOK
  <2> HIDE DEF r
  <2> QED
    BY <1>1, <2>1, <2>2, AppendProperties, LenProperties
<1>4. cur' \in [Sessions -> 0 .. Len(log')]
  BY <1>1, <1>2, <1>3, SMTT(30) DEF TypeOK
<1>5. TypeOK'
  BY <1>1, <1>2, <1>3, <1>4 DEF TypeOK, Steps, Runnable, lists, sessions
<1>6. Locals'
  <2> SUFFICES ASSUME NEW u \in Sessions
               PROVE  /\ pc'[u] # "idle" => cur'[u] \in DOMAIN log'
                      /\ pc'[u] \in Held => /\ ref'[u] \in DOMAIN chunks'
                                            /\ chunks'[ref'[u]].addr = log'[cur'[u]].addr
    BY DEF Locals
  <2>1. CASE u = s
    BY <1>1, <1>2, <1>3, <2>1 DEF TypeOK, Held
  <2>2. CASE u # s
    <3>1. pc'[u] = pc[u] /\ cur'[u] = cur[u] /\ DOMAIN log \subseteq DOMAIN log'
      BY <1>1, <1>2, <1>3, <2>2 DEF TypeOK
    <3> QED
      BY <1>1, <1>3, <3>1 DEF Base, Locals, Held
  <2> QED
    BY <2>1, <2>2
<1> QED
  BY <1>1, <1>5, <1>6 DEF Base, Addressed, ListedOnce, lists, OneMore, sessions

LEMMA TextKeepsBase ==
  ASSUME Base, NEW s \in Sessions, ReadText(s) \/ WriteText(s)
  PROVE  Base'
<1>1. /\ pc[s] \in {"readText", "writeText"}
      /\ UNCHANGED <<tree, chunks, lists, edtQueue, edt, sessions, cur, ref, log, marks>>
  BY DEF ReadText, WriteText
<1>2. SameChunks(chunks) /\ edtQueue \in Seq(Runnable) /\ chunks' = chunks
  BY <1>1 DEF Base, TypeOK, SameChunks
<1>3. SameChunks(chunks')
  BY <1>2
<1>4. PICK p \in {"writeText", "lookup"} : pc' = [pc EXCEPT ![s] = p]
  BY DEF ReadText, WriteText
<1>5. text' \in [Sessions -> Seq(Nat)] /\ allTraces' \in Seq(Nat)
  <2>1. text \in [Sessions -> Seq(Nat)] /\ allTraces \in Seq(Nat) /\ cur[s] \in Nat
    BY DEF Base, TypeOK
  <2>2. CASE ReadText(s)
    BY <2>1, <2>2 DEF ReadText
  <2>3. CASE WriteText(s)
    <3>1. Append(text[s], cur[s]) \in Seq(Nat) /\ <<>> \in Seq(Nat)
      BY <2>1, AppendProperties, EmptySeq
    <3> QED
      BY <2>1, <2>3, <3>1 DEF WriteText
  <2> QED
    BY <2>2, <2>3
<1> QED
  BY <1>1, <1>2, <1>3, <1>4, <1>5, StepKeepsBase DEF Steps, Held

\* A new chunk.
LEMMA Created ==
  ASSUME Base, NEW a \in Addrs, chunks' = Append(chunks, NewChunk(a))
  PROVE  /\ chunks' \in Seq(Chunk) /\ Len(chunks') = Len(chunks) + 1
         /\ DOMAIN chunks' = 1 .. Len(chunks) + 1 /\ DOMAIN chunks' = DOMAIN chunks \cup {Len(chunks) + 1}
         /\ Len(chunks) + 1 \notin DOMAIN chunks
         /\ \A c \in DOMAIN chunks : chunks'[c] = chunks[c]
         /\ chunks'[Len(chunks) + 1] = NewChunk(a)
<1>1. NewChunk(a) \in Chunk
  <2>1. [op \in Ops |-> <<>>] \in [Ops -> Seq(Nat)]
    BY EmptySeq
  <2> QED
    BY <2>1 DEF NewChunk, Chunk
<1>2. chunks \in Seq(Chunk) /\ Len(chunks) \in Nat /\ DOMAIN chunks = 1 .. Len(chunks)
  BY Sizes DEF Base, TypeOK
<1>3. /\ chunks' \in Seq(Chunk) /\ Len(chunks') = Len(chunks) + 1
      /\ chunks'[Len(chunks) + 1] = NewChunk(a)
      /\ \A c \in 1 .. Len(chunks) : chunks'[c] = chunks[c]
  BY <1>1, <1>2, AppendProperties
<1>4. DOMAIN chunks' = 1 .. Len(chunks) + 1
  BY <1>3, LenProperties
<1> QED
  BY <1>2, <1>3, <1>4

LEMMA LookupKeepsBase ==
  ASSUME Base, NEW s \in Sessions, Lookup(s)
  PROVE  Base'
<1> DEFINE a == log[cur[s]].addr
           r == IF tree[a] = NoChunk THEN Len(chunks) + 1 ELSE tree[a]
<1>1. /\ pc[s] = "lookup" /\ pc' = [pc EXCEPT ![s] = "mark"] /\ ref' = [ref EXCEPT ![s] = r]
      /\ chunks' = Append(chunks, NewChunk(a)) \/ (chunks' = chunks /\ tree[a] # NoChunk)
      /\ tree[a] = NoChunk => chunks' = Append(chunks, NewChunk(a))
      /\ UNCHANGED <<tree, lists, edtQueue, edt, sessions, cur, text, allTraces, log, marks>>
  BY DEF Lookup
<1>2. TypeOK /\ cur[s] \in DOMAIN log /\ a \in Addrs /\ Len(chunks) \in Nat
  <2>1. TypeOK /\ cur[s] \in DOMAIN log
    BY <1>1 DEF Base, Locals
  <2> QED
    BY <2>1, Sizes DEF Record
<1>3. /\ chunks' \in Seq(Chunk) /\ Len(chunks') \in Nat /\ Len(chunks) <= Len(chunks')
      /\ DOMAIN chunks = 1 .. Len(chunks) /\ DOMAIN chunks' = 1 .. Len(chunks')
      /\ \A c \in DOMAIN chunks : chunks'[c] = chunks[c]
      /\ \A c \in DOMAIN chunks' : c \in DOMAIN chunks \/ chunks'[c] = NewChunk(a)
  <2>1. CASE chunks' = chunks
    BY <1>2, <2>1, Sizes DEF TypeOK
  <2>2. CASE chunks' = Append(chunks, NewChunk(a))
    <3>1. /\ chunks' \in Seq(Chunk) /\ Len(chunks') = Len(chunks) + 1
          /\ DOMAIN chunks' = 1 .. Len(chunks) + 1
          /\ DOMAIN chunks' = DOMAIN chunks \cup {Len(chunks) + 1}
          /\ \A c \in DOMAIN chunks : chunks'[c] = chunks[c]
          /\ chunks'[Len(chunks) + 1] = NewChunk(a)
      BY <1>2, <2>2, Created
    <3> QED
      BY <1>2, <3>1, Sizes
  <2> QED
    BY <1>1, <2>1, <2>2
<1>4. r \in DOMAIN chunks' /\ chunks'[r].addr = a
  <2>1. CASE tree[a] = NoChunk
    <3>1. Len(chunks) + 1 \in DOMAIN chunks' /\ chunks'[Len(chunks) + 1] = NewChunk(a)
      BY <1>1, <1>2, <2>1, Created
    <3> QED
      BY <2>1, <3>1 DEF NewChunk
  <2>2. CASE tree[a] # NoChunk
    <3>1. tree[a] \in DOMAIN chunks
      BY <1>2, <1>3, <2>2 DEF TypeOK, NoChunk
    <3> QED
      BY <1>2, <1>3, <2>2, <3>1 DEF Base, Addressed
  <2> QED
    BY <2>1, <2>2
<1> HIDE DEF r, a
<1>5. ref' \in [Sessions -> 0 .. Len(chunks')] /\ tree' \in [Addrs -> 0 .. Len(chunks')]
  <2>1. /\ 0 .. Len(chunks) \subseteq 0 .. Len(chunks') /\ r \in 0 .. Len(chunks')
        /\ tree \in [Addrs -> 0 .. Len(chunks)] /\ ref \in [Sessions -> 0 .. Len(chunks)]
    BY <1>2, <1>3, <1>4 DEF TypeOK
  <2> QED
    BY <1>1, <2>1
<1>6. /\ allocList' \in Seq(1 .. Len(chunks')) /\ freeList' \in Seq(1 .. Len(chunks'))
      /\ edtQueue' \in Seq(Runnable')
  <2>1. 1 .. Len(chunks) \subseteq 1 .. Len(chunks')
    BY <1>2, <1>3
  <2>2. Runnable \subseteq Runnable'
    BY <2>1 DEF Runnable
  <2>3. /\ allocList' = allocList /\ freeList' = freeList /\ edtQueue' = edtQueue
        /\ allocList \in Seq(1 .. Len(chunks)) /\ freeList \in Seq(1 .. Len(chunks))
        /\ edtQueue \in Seq(Runnable)
    BY <1>1, <1>2 DEF lists, TypeOK
  <2> QED
    BY <2>1, <2>2, <2>3, SeqMonotonic
<1>7. ASSUME NEW c \in DOMAIN chunks', NEW op \in Ops
      PROVE  Len(chunks'[c].traces[op]) <= HistoryCap
  <2>1. CASE chunks'[c] = NewChunk(a)
    BY <2>1, BoundsAssumption, EmptySeq DEF NewChunk
  <2>2. CASE c \in DOMAIN chunks
    BY <1>2, <1>3, <2>2 DEF TypeOK
  <2> QED
    BY <1>3, <2>1, <2>2
<1>8. TypeOK'
  <2>1. pc' \in [Sessions -> Steps]
    BY <1>1, <1>2 DEF TypeOK, Steps
  <2>2. /\ edt' \in {"idle", "clearTree", "clearLists", "open"}
        /\ session' \in 0 .. MaxSessions /\ opened' \subseteq 1 .. session'
        /\ cur' \in [Sessions -> 0 .. Len(log')] /\ log' \in Seq(Record)
        /\ text' \in [Sessions -> Seq(Nat)] /\ allTraces' \in Seq(Nat)
        /\ hurried' \in BOOLEAN /\ gone' \subseteq Nat
    BY <1>1, <1>2 DEF TypeOK, sessions, marks
  <2> QED
    BY <1>3, <1>5, <1>6, <1>7, <2>1, <2>2 DEF TypeOK
<1>9. Locals'
  <2> SUFFICES ASSUME NEW u \in Sessions
               PROVE  /\ pc'[u] # "idle" => cur'[u] \in DOMAIN log'
                      /\ pc'[u] \in Held => /\ ref'[u] \in DOMAIN chunks'
                                            /\ chunks'[ref'[u]].addr = log'[cur'[u]].addr
    BY DEF Locals
  <2>1. CASE u = s
    <3>1. ref'[u] = r /\ cur'[u] = cur[s] /\ log' = log
      BY <1>1, <1>2, <2>1 DEF TypeOK
    <3> QED
      BY <1>2, <1>4, <3>1 DEF a
  <2>2. CASE u # s
    <3>1. pc'[u] = pc[u] /\ ref'[u] = ref[u] /\ cur'[u] = cur[u] /\ log' = log
      BY <1>1, <1>2, <2>2 DEF TypeOK
    <3>2. DOMAIN chunks \subseteq DOMAIN chunks'
      BY <1>2, <1>3
    <3> QED
      BY <1>3, <3>1, <3>2 DEF Base, Locals
  <2> QED
    BY <2>1, <2>2
<1>10. Addressed'
  <2>1. \A b \in Addrs : tree[b] # NoChunk => tree[b] \in DOMAIN chunks
    BY <1>2, <1>3 DEF TypeOK, NoChunk
  <2> QED
    BY <1>1, <1>3, <2>1 DEF Base, Addressed
<1> QED
  BY <1>1, <1>8, <1>9, <1>10 DEF Base, ListedOnce, lists, OneMore, sessions

\* The flag of one chunk is set.
LEMMA Flagged ==
  ASSUME TypeOK, NEW c \in DOMAIN chunks, NEW b \in BOOLEAN,
         chunks' = [chunks EXCEPT ![c].allocated = b]
  PROVE  /\ SameChunks(chunks') /\ DOMAIN chunks' = DOMAIN chunks
         /\ \A d \in DOMAIN chunks : d # c => chunks'[d] = chunks[d]
         /\ chunks'[c].addr = chunks[c].addr /\ chunks'[c].traces = chunks[c].traces
         /\ chunks'[c].allocated = b
<1> DEFINE e == [chunks[c] EXCEPT !.allocated = b]
<1>1. chunks[c] \in Chunk
  BY Sizes
<1>2. e.addr = chunks[c].addr /\ e.traces = chunks[c].traces
  BY <1>1 DEF Chunk
<1>3. e \in Chunk /\ e.allocated = b
  BY <1>1, Zenon DEF Chunk
<1>4. chunks' = [chunks EXCEPT ![c] = e]
  OBVIOUS
<1> HIDE DEF e
<1>5. chunks \in Seq(Chunk) /\ c \in 1 .. Len(chunks) /\ DOMAIN chunks = 1 .. Len(chunks)
  BY Sizes DEF TypeOK
<1>6. /\ chunks' \in Seq(Chunk) /\ Len(chunks') = Len(chunks)
      /\ \A d \in 1 .. Len(chunks) : chunks'[d] = IF d = c THEN e ELSE chunks[d]
  BY <1>3, <1>4, <1>5, ExceptSeq
<1>7. DOMAIN chunks' = DOMAIN chunks
  BY <1>5, <1>6, LenProperties
<1>8. chunks'[c] = e /\ \A d \in DOMAIN chunks : d # c => chunks'[d] = chunks[d]
  BY <1>5, <1>6
<1>9. SameChunks(chunks')
  <2>1. \A d \in DOMAIN chunks : chunks'[d].addr = chunks[d].addr /\ chunks'[d].traces = chunks[d].traces
    BY <1>2, <1>8
  <2> QED
    BY <1>6, <1>7, <2>1 DEF SameChunks, TypeOK
<1> QED
  BY <1>2, <1>3, <1>7, <1>8, <1>9, Zenon

-----------------------------------------------------------------------------
(* The history of a chunk                                                  *)

LEMMA TrimTypes ==
  ASSUME NEW seq \in Seq(Nat), Len(seq) <= HistoryCap, NEW n \in Nat
  PROVE  Trim(Append(seq, n)) \in Seq(Nat) /\ Len(Trim(Append(seq, n))) <= HistoryCap
<1> DEFINE t == Append(seq, n)
<1>1. t \in Seq(Nat) /\ Len(t) = Len(seq) + 1 /\ Len(seq) \in Nat /\ HistoryCap \in Nat
  BY AppendProperties, LenProperties, BoundsAssumption
<1> HIDE DEF t
<1>2. CASE Len(t) > HistoryCap
  <2>1. t # <<>>
    BY <1>1, EmptySeq
  <2>2. Tail(t) \in Seq(Nat) /\ Len(Tail(t)) = Len(t) - 1
    BY <1>1, <2>1, HeadTailProperties
  <2> QED
    BY <1>1, <1>2, <2>2 DEF Trim, t
<1>3. CASE ~(Len(t) > HistoryCap)
  BY <1>1, <1>3 DEF Trim, t
<1> QED
  BY <1>2, <1>3

\* A record that is later than all of a history's joins it, and the oldest leaves when
\* there are too many.
LEMMA HistoryGrows ==
  ASSUME NEW seq \in Seq(Nat), NEW records, IsHistory(seq, records), NEW n \in Nat,
         \A r \in records : r \in Nat /\ r < n
  PROVE  IsHistory(Trim(Append(seq, n)), records \cup {n})
<1> DEFINE t == Append(seq, n)
           m == Len(seq)
<1>1. /\ t \in Seq(Nat) /\ Len(t) = m + 1 /\ m \in Nat /\ HistoryCap \in Nat \ {0}
      /\ t[m + 1] = n /\ \A i \in 1 .. m : t[i] = seq[i]
  BY AppendProperties, LenProperties, BoundsAssumption
<1>2. DOMAIN t = 1 .. m + 1 /\ DOMAIN seq = 1 .. m
  BY <1>1, LenProperties
<1>3. /\ ToSet(seq) \subseteq records /\ m <= HistoryCap
      /\ \A i, j \in 1 .. m : i < j => seq[i] < seq[j]
      /\ \A r \in records \ ToSet(seq) : m = HistoryCap /\ \A i \in 1 .. m : r < seq[i]
  BY <1>2 DEF IsHistory
<1>4. \A i \in 1 .. m : seq[i] \in records /\ seq[i] \in Nat /\ seq[i] < n
  BY <1>2, <1>3 DEF ToSet
<1> HIDE DEF t, m
<1>5. \A i, j \in 1 .. m + 1 : i < j => t[i] < t[j]
  <2> SUFFICES ASSUME NEW i \in 1 .. m + 1, NEW j \in 1 .. m + 1, i < j PROVE t[i] < t[j]
    OBVIOUS
  <2>1. CASE j = m + 1
    <3>1. i \in 1 .. m
      BY <1>1, <2>1
    <3> QED
      BY <1>1, <1>4, <2>1, <3>1
  <2>2. CASE j # m + 1
    <3>1. i \in 1 .. m /\ j \in 1 .. m
      BY <1>1, <2>2
    <3> QED
      BY <1>1, <1>3, <3>1
  <2> QED
    BY <2>1, <2>2
<1>6. ToSet(t) = ToSet(seq) \cup {n}
  <2>1. n \in Nat /\ seq \in Seq(Nat) /\ t = Append(seq, n)
    BY DEF t
  <2> QED
    BY <2>1, Appended
<1>7. CASE m < HistoryCap
  <2>1. Trim(t) = t /\ m + 1 <= HistoryCap
    BY <1>1, <1>7 DEF Trim
  <2>2. records \subseteq ToSet(seq)
    BY <1>1, <1>3, <1>7
  <2>3. IsHistory(t, records \cup {n})
    BY <1>1, <1>2, <1>3, <1>5, <1>6, <2>1, <2>2 DEF IsHistory
  <2> QED
    BY <2>1, <2>3 DEF t
<1>8. CASE m = HistoryCap
  <2> DEFINE u == Tail(t)
  <2>1. t # <<>> /\ Len(t) > HistoryCap
    BY <1>1, <1>8, EmptySeq
  <2>2. Trim(t) = u
    BY <2>1 DEF Trim
  <2>3. u \in Seq(Nat) /\ Len(u) = m /\ \A i \in 1 .. m : u[i] = t[i + 1]
    BY <1>1, <2>1, HeadTailProperties
  <2>4. DOMAIN u = 1 .. m
    BY <2>3, LenProperties
  <2> HIDE DEF u
  <2>5. \A i \in 1 .. m : i + 1 \in 1 .. m + 1 /\ 1 < i + 1 /\ 1 \in 1 .. m
    BY <1>1
  <2>6. m \in 1 .. m /\ m + 1 \in 1 .. m + 1
    BY <1>1, <1>8
  <2>7. ToSet(u) = (ToSet(t) \ {t[1]})
    <3>1. ASSUME NEW x \in ToSet(u) PROVE x \in ToSet(t) \ {t[1]}
      <4>1. PICK i \in 1 .. m : u[i] = x
        BY <2>4 DEF ToSet
      <4>2. x = t[i + 1] /\ t[1] < t[i + 1] /\ t[1] \in Nat /\ t[i + 1] \in Nat
        BY <1>1, <1>5, <2>3, <2>5, <4>1, ElementOfSeq
      <4>3. x # t[1]
        BY <4>2
      <4> QED
        BY <1>2, <2>5, <4>1, <4>2, <4>3 DEF ToSet
    <3>2. ASSUME NEW x \in ToSet(t), x # t[1] PROVE x \in ToSet(u)
      <4>1. PICK i \in 1 .. m + 1 : t[i] = x
        BY <1>2 DEF ToSet
      <4>2. i - 1 \in 1 .. m /\ (i - 1) + 1 = i
        BY <1>1, <3>2, <4>1
      <4>3. u[i - 1] = x
        BY <2>3, <4>1, <4>2
      <4> QED
        BY <2>4, <4>2, <4>3 DEF ToSet
    <3> QED
      BY <3>1, <3>2
  <2>8. t[1] = seq[1] /\ 1 \in 1 .. m
    BY <1>1, <2>5, <2>6
  <2>9. ToSet(u) \subseteq records \cup {n}
    BY <1>3, <1>6, <2>7
  <2>10. \A i, j \in 1 .. m : i < j => u[i] < u[j]
    <3> SUFFICES ASSUME NEW i \in 1 .. m, NEW j \in 1 .. m, i < j PROVE u[i] < u[j]
      OBVIOUS
    <3>1. i + 1 \in 1 .. m + 1 /\ j + 1 \in 1 .. m + 1 /\ i + 1 < j + 1
      BY <1>1
    <3> QED
      BY <1>5, <2>3, <3>1
  <2>11. ASSUME NEW r \in (records \cup {n}) \ ToSet(u), NEW i \in 1 .. m PROVE r < u[i]
    <3>1. r # n
      <4>1. u[m] = n
        BY <1>1, <2>3, <2>6
      <4> QED
        BY <2>4, <2>6, <2>11, <4>1 DEF ToSet
    <3>2. r = seq[1] \/ r \in records \ ToSet(seq)
      BY <1>6, <2>7, <2>8, <2>11, <3>1
    <3>3. u[i] = t[i + 1] /\ i + 1 \in 1 .. m + 1 /\ 1 \in 1 .. m + 1 /\ 1 < i + 1
      BY <1>1, <2>3, <2>5
    <3>4. CASE r = seq[1]
      <4>1. t[1] < t[i + 1]
        BY <1>5, <3>3
      <4> QED
        BY <2>8, <3>3, <3>4, <4>1
    <3>5. CASE r \in records \ ToSet(seq)
      <4>1. CASE i = m
        BY <1>1, <3>3, <3>5, <4>1
      <4>2. CASE i # m
        <5>1. i + 1 \in 1 .. m
          BY <1>1, <4>2
        <5>2. t[i + 1] = seq[i + 1] /\ r < seq[i + 1]
          BY <1>1, <1>3, <3>5, <5>1
        <5> QED
          BY <3>3, <5>2
      <4> QED
        BY <4>1, <4>2
    <3> QED
      BY <3>2, <3>4, <3>5
  <2>12. IsHistory(u, records \cup {n})
    BY <1>8, <2>3, <2>4, <2>9, <2>10, <2>11, <1>1 DEF IsHistory
  <2> QED
    BY <2>2, <2>12 DEF t
<1> QED
  BY <1>1, <1>3, <1>7, <1>8

\* A record joins a history of one chunk.
LEMMA Pushed ==
  ASSUME TypeOK, NEW c \in DOMAIN chunks, NEW op \in Ops, NEW n \in Nat,
         chunks' = [chunks EXCEPT ![c].traces[op] = Trim(Append(@, n))]
  PROVE  /\ SameChunks(chunks') /\ DOMAIN chunks' = DOMAIN chunks
         /\ \A d \in DOMAIN chunks : d # c => chunks'[d] = chunks[d]
         /\ chunks'[c].addr = chunks[c].addr /\ chunks'[c].allocated = chunks[c].allocated
         /\ chunks'[c].traces[op] = Trim(Append(chunks[c].traces[op], n))
         /\ \A o \in Ops : o # op => chunks'[c].traces[o] = chunks[c].traces[o]
<1> DEFINE h == Trim(Append(chunks[c].traces[op], n))
           f == [chunks[c].traces EXCEPT ![op] = h]
           e == [chunks[c] EXCEPT !.traces = f]
<1>1. chunks[c] \in Chunk
  BY Sizes
<1>2. chunks[c].traces \in [Ops -> Seq(Nat)] /\ Len(chunks[c].traces[op]) <= HistoryCap
  BY <1>1 DEF Chunk, TypeOK
<1>3. h \in Seq(Nat) /\ Len(h) <= HistoryCap
  BY <1>2, TrimTypes
<1>4. chunks' = [chunks EXCEPT ![c] = e]
  OBVIOUS
<1> HIDE DEF h
<1>5. f \in [Ops -> Seq(Nat)] /\ f[op] = h /\ \A o \in Ops : o # op => f[o] = chunks[c].traces[o]
  BY <1>2, <1>3
<1> HIDE DEF f
<1>6. e.addr = chunks[c].addr /\ e.traces = f
  BY <1>1 DEF Chunk
<1>7. e \in Chunk /\ e.allocated = chunks[c].allocated
  BY <1>1, <1>5, Zenon DEF Chunk
<1> HIDE DEF e
<1>8. chunks \in Seq(Chunk) /\ c \in 1 .. Len(chunks) /\ DOMAIN chunks = 1 .. Len(chunks)
  BY Sizes DEF TypeOK
<1>9. /\ chunks' \in Seq(Chunk) /\ Len(chunks') = Len(chunks)
      /\ \A d \in 1 .. Len(chunks) : chunks'[d] = IF d = c THEN e ELSE chunks[d]
  BY <1>4, <1>7, <1>8, ExceptSeq
<1>10. DOMAIN chunks' = DOMAIN chunks
  BY <1>8, <1>9, LenProperties
<1>11. chunks'[c] = e /\ \A d \in DOMAIN chunks : d # c => chunks'[d] = chunks[d]
  BY <1>8, <1>9
<1>12. \A o \in Ops : Len(f[o]) <= HistoryCap
  BY <1>3, <1>5 DEF TypeOK
<1>13. SameChunks(chunks')
  <2>1. \A d \in DOMAIN chunks : chunks'[d].addr = chunks[d].addr
    BY <1>6, <1>11
  <2>2. ASSUME NEW d \in DOMAIN chunks, NEW o \in Ops
        PROVE  Len(chunks'[d].traces[o]) <= HistoryCap
    BY <1>6, <1>11, <1>12 DEF TypeOK
  <2> QED
    BY <1>9, <1>10, <2>1, <2>2 DEF SameChunks
<1> QED
  BY <1>5, <1>6, <1>7, <1>10, <1>11, <1>13, Zenon DEF h

-----------------------------------------------------------------------------
(* The other steps                                                         *)

\* The record and the chunk of a thread that is past its lookup.
LEMMA AtWork ==
  ASSUME Base, NEW s \in Sessions, pc[s] \in Held
  PROVE  /\ cur[s] \in DOMAIN log /\ cur[s] \in Nat /\ log[cur[s]] \in Record
         /\ ref[s] \in DOMAIN chunks /\ chunks[ref[s]].addr = log[cur[s]].addr
<1>1. cur[s] \in DOMAIN log /\ ref[s] \in DOMAIN chunks /\ chunks[ref[s]].addr = log[cur[s]].addr
  BY DEF Base, Locals, Held
<1> QED
  BY <1>1, Sizes DEF Base

LEMMA ChangeKeepsBase ==
  ASSUME Base, NEW s \in Sessions, Mark(s) \/ Push(s) \/ Post(s)
  PROVE  Base'
<1>1. /\ pc[s] \in {"mark", "push", "post"}
      /\ UNCHANGED <<tree, lists, edt, sessions, cur, ref, text, allTraces, log, marks>>
  BY DEF Mark, Push, Post, locals
<1>2. PICK p \in {"push", "post", "store"} : pc' = [pc EXCEPT ![s] = p]
  BY DEF Mark, Push, Post
<1>3. /\ cur[s] \in DOMAIN log /\ cur[s] \in Nat /\ log[cur[s]] \in Record
      /\ ref[s] \in DOMAIN chunks /\ TypeOK
  BY <1>1, AtWork DEF Held, Base
<1>4. SameChunks(chunks) /\ edtQueue \in Seq(Runnable)
  BY <1>3 DEF TypeOK, SameChunks
<1>5. SameChunks(chunks') /\ edtQueue' \in Seq(Runnable)
  <2>1. CASE Mark(s)
    <3>1. PICK b \in BOOLEAN : b = (log[cur[s]].op = "malloc")
      OBVIOUS
    <3>2. chunks' = [chunks EXCEPT ![ref[s]].allocated = b] /\ edtQueue' = edtQueue
      BY <2>1, <3>1 DEF Mark
    <3>3. SameChunks(chunks')
      BY <1>3, <3>2, Flagged
    <3> QED
      BY <1>4, <3>2, <3>3
  <2>2. CASE Push(s)
    <3>1. PICK op \in Ops : op = log[cur[s]].op
      BY <1>3 DEF Record
    <3>2. chunks' = [chunks EXCEPT ![ref[s]].traces[op] = Trim(Append(@, cur[s]))]
      BY <2>2, <3>1 DEF Push
    <3>3. SameChunks(chunks')
      BY <1>3, <3>2, Pushed
    <3> QED
      BY <1>4, <2>2, <3>3 DEF Push
  <2>3. CASE Post(s)
    <3> DEFINE r == [op |-> log[cur[s]].op, chunk |-> ref[s]]
    <3>1. r \in Runnable
      BY <1>3, Sizes DEF Record, Runnable
    <3>2. edtQueue' = Append(edtQueue, r) /\ chunks' = chunks
      BY <2>3 DEF Post
    <3> HIDE DEF r
    <3> QED
      BY <1>4, <3>1, <3>2, AppendProperties
  <2> QED
    BY <2>1, <2>2, <2>3
<1>6. text' \in [Sessions -> Seq(Nat)] /\ allTraces' \in Seq(Nat)
  BY <1>1, <1>3 DEF TypeOK
<1> QED
  BY <1>1, <1>2, <1>5, <1>6, StepKeepsBase DEF Steps, Held

LEMMA StoreKeepsBase ==
  ASSUME Base, NEW s \in Sessions, Store(s)
  PROVE  Base'
<1> DEFINE a == log[cur[s]].addr
<1>1. /\ pc[s] = "store" /\ pc' = [pc EXCEPT ![s] = "idle"]
      /\ tree' = [tree EXCEPT ![a] = ref[s]]
      /\ cur' = [cur EXCEPT ![s] = 0] /\ ref' = [ref EXCEPT ![s] = NoChunk]
      /\ UNCHANGED <<chunks, lists, edtQueue, edt, sessions, text, allTraces, log, marks>>
  BY DEF Store
<1>2. ref[s] \in DOMAIN chunks /\ chunks[ref[s]].addr = a /\ a \in Addrs /\ TypeOK
  BY <1>1, AtWork DEF Held, Base, Record
<1> HIDE DEF a
<1>3. ref[s] \in 0 .. Len(chunks) /\ Len(chunks) \in Nat /\ Len(log) \in Nat
  BY <1>2, Sizes
<1>4. TypeOK'
  BY <1>1, <1>2, <1>3 DEF TypeOK, Steps, Runnable, lists, sessions, marks, NoChunk
<1>5. Locals'
  <2> SUFFICES ASSUME NEW u \in Sessions
               PROVE  /\ pc'[u] # "idle" => cur'[u] \in DOMAIN log'
                      /\ pc'[u] \in Held => /\ ref'[u] \in DOMAIN chunks'
                                            /\ chunks'[ref'[u]].addr = log'[cur'[u]].addr
    BY DEF Locals
  <2>1. CASE u = s
    BY <1>1, <1>2, <2>1 DEF TypeOK, Held
  <2>2. CASE u # s
    BY <1>1, <1>2, <2>2 DEF TypeOK, Base, Locals
  <2> QED
    BY <2>1, <2>2
<1>6. Addressed'
  BY <1>1, <1>2 DEF TypeOK, Base, Addressed
<1> QED
  BY <1>1, <1>4, <1>5, <1>6 DEF Base, ListedOnce, lists, OneMore, sessions

\* What a posted runnable does to the lists.
LEMMA Ran ==
  ASSUME Base, RunPosted
  PROVE  LET c == edtQueue[1].chunk  m == edtQueue[1].op = "malloc" IN
         /\ edtQueue[1] \in Runnable /\ Len(edtQueue) \in Nat \ {0}
         /\ edtQueue' \in Seq(Runnable) /\ Len(edtQueue') = Len(edtQueue) - 1
         /\ \A i \in 1 .. Len(edtQueue') : edtQueue'[i] = edtQueue[i + 1]
         /\ allocList' \in Seq(1 .. Len(chunks)) /\ freeList' \in Seq(1 .. Len(chunks))
         /\ ListedOnce'
         /\ m => /\ ToSet(allocList') = ToSet(allocList) \cup {c}
                 /\ ToSet(freeList') = ToSet(freeList) \ {c}
         /\ ~m => /\ ToSet(freeList') = ToSet(freeList) \cup {c}
                  /\ ToSet(allocList') = ToSet(allocList) \ {c}
<1> DEFINE c == edtQueue[1].chunk
           S == 1 .. Len(chunks)
<1>1. /\ allocList \in Seq(S) /\ freeList \in Seq(S)
      /\ IsInjective(allocList) /\ IsInjective(freeList)
  BY DEF Base, TypeOK, ListedOnce
<1>2. edtQueue \in Seq(Runnable) /\ edtQueue # <<>> /\ edtQueue' = Tail(edtQueue)
  BY DEF Base, TypeOK, RunPosted
<1>3. /\ Len(edtQueue) \in Nat \ {0} /\ edtQueue[1] \in Runnable /\ Head(edtQueue) = edtQueue[1]
      /\ edtQueue' \in Seq(Runnable) /\ Len(edtQueue') = Len(edtQueue) - 1
      /\ \A i \in 1 .. Len(edtQueue') : edtQueue'[i] = edtQueue[i + 1]
  BY <1>2, EmptySeq, HeadTailProperties, ElementOfSeq
<1>4. c \in S
  BY <1>3 DEF Runnable
<1>5. CASE edtQueue[1].op = "malloc"
  <2>1. allocList' = AddChunk(allocList, c) /\ freeList' = RemoveFirst(freeList, c)
    BY <1>3, <1>5 DEF RunPosted
  <2> HIDE DEF c, S
  <2>2. /\ allocList' \in Seq(S) /\ IsInjective(allocList')
        /\ ToSet(allocList') = ToSet(allocList) \cup {c}
    BY <1>1, <1>4, <2>1, ChunkAdded
  <2>3. /\ freeList' \in Seq(S) /\ IsInjective(freeList')
        /\ ToSet(freeList') = ToSet(freeList) \ {c}
    BY <1>1, <2>1, FirstRemoved
  <2> QED
    BY <1>3, <1>5, <2>2, <2>3 DEF ListedOnce, c, S
<1>6. CASE edtQueue[1].op # "malloc"
  <2>1. freeList' = AddChunk(freeList, c) /\ allocList' = RemoveFirst(allocList, c)
    BY <1>3, <1>6 DEF RunPosted
  <2> HIDE DEF c, S
  <2>2. /\ freeList' \in Seq(S) /\ IsInjective(freeList')
        /\ ToSet(freeList') = ToSet(freeList) \cup {c}
    BY <1>1, <1>4, <2>1, ChunkAdded
  <2>3. /\ allocList' \in Seq(S) /\ IsInjective(allocList')
        /\ ToSet(allocList') = ToSet(allocList) \ {c}
    BY <1>1, <2>1, FirstRemoved
  <2> QED
    BY <1>3, <1>6, <2>2, <2>3 DEF ListedOnce, c, S
<1> QED
  BY <1>5, <1>6

LEMMA EventsKeepBase ==
  ASSUME Base, EventThread
  PROVE  Base'
<1>1. UNCHANGED <<chunks, pc, locals, allTraces, log>>
  BY DEF EventThread, RunPosted, Connect, ClearTree, ClearLists, Open
<1>2. Locals'
  BY <1>1 DEF Base, Locals, locals
<1>3. /\ chunks' \in Seq(Chunk) /\ pc' \in [Sessions -> Steps] /\ log' \in Seq(Record)
      /\ \A c \in DOMAIN chunks', op \in Ops : Len(chunks'[c].traces[op]) <= HistoryCap
      /\ cur' \in [Sessions -> 0 .. Len(log')] /\ ref' \in [Sessions -> 0 .. Len(chunks')]
      /\ text' \in [Sessions -> Seq(Nat)] /\ allTraces' \in Seq(Nat)
      /\ Runnable' = Runnable
  BY <1>1 DEF Base, TypeOK, locals, Runnable
<1>7. hurried' \in BOOLEAN /\ gone' \subseteq Nat
  <2>1. CASE RunPosted \/ ClearLists \/ Open
    BY <2>1 DEF RunPosted, ClearLists, Open, Base, TypeOK, marks
  <2>2. CASE Connect
    <3>1. gone' = gone /\ hurried' \in BOOLEAN
      BY <2>2 DEF Connect
    <3> QED
      BY <3>1 DEF Base, TypeOK
  <2>3. CASE ClearTree
    BY <2>3, Sizes DEF ClearTree, Idle, Base, TypeOK
  <2> QED
    BY <2>1, <2>2, <2>3 DEF EventThread
<1>4. CASE RunPosted
  <2>1. /\ edtQueue' \in Seq(Runnable) /\ ListedOnce'
        /\ allocList' \in Seq(1 .. Len(chunks)) /\ freeList' \in Seq(1 .. Len(chunks))
    BY <1>4, Ran
  <2>2. UNCHANGED <<tree, edt, sessions>>
    BY <1>4 DEF RunPosted
  <2>3. TypeOK'
    BY <1>1, <1>3, <1>7, <2>1, <2>2 DEF Base, TypeOK, sessions
  <2>4. Addressed'
    BY <1>1, <2>2 DEF Base, Addressed
  <2> QED
    BY <1>2, <2>1, <2>2, <2>3, <2>4 DEF Base, OneMore, sessions
<1>5. CASE Connect \/ ClearTree \/ Open
  <2>1. UNCHANGED <<lists, edtQueue>> /\ edt' \in {"idle", "clearTree", "clearLists", "open"}
    BY <1>5 DEF Connect, ClearTree, Open
  <2>2. tree' = tree \/ tree' = [a \in Addrs |-> NoChunk]
    BY <1>5 DEF Connect, ClearTree, Open
  <2>3. session' \in 0 .. MaxSessions /\ opened' \subseteq 1 .. session'
    <3>1. CASE Open
      <4>1. session < MaxSessions /\ session \in Nat /\ MaxSessions \in Nat
        BY <3>1, BoundsAssumption DEF Open, Base, TypeOK, OneMore
      <4> QED
        BY <3>1, <4>1 DEF Base, TypeOK, Open
    <3>2. CASE Connect \/ ClearTree
      BY <3>2 DEF Base, TypeOK, Connect, ClearTree, sessions
    <3> QED
      BY <1>5, <3>1, <3>2
  <2>4. TypeOK' /\ Addressed'
    <3>1. tree' \in [Addrs -> 0 .. Len(chunks')]
      BY <1>1, <2>2, Sizes DEF Base, TypeOK, NoChunk
    <3>2. /\ allocList' \in Seq(1 .. Len(chunks')) /\ freeList' \in Seq(1 .. Len(chunks'))
          /\ edtQueue' \in Seq(Runnable')
      BY <1>1, <1>3, <2>1 DEF Base, TypeOK, lists
    <3>3. Addressed'
      BY <1>1, <2>2 DEF Base, Addressed
    <3> QED
      BY <1>3, <1>7, <2>1, <2>3, <3>1, <3>2, <3>3 DEF TypeOK
  <2>5. ListedOnce' /\ OneMore'
    BY <1>5, <2>1 DEF Base, ListedOnce, OneMore, lists, sessions, Connect, ClearTree, Open
  <2> QED
    BY <1>2, <2>4, <2>5 DEF Base
<1>6. CASE ClearLists
  <2>1. /\ UNCHANGED <<tree, edtQueue, sessions>> /\ edt = "clearLists" /\ edt' = "open"
        /\ allocList' = <<>> /\ freeList' = <<>>
    BY <1>6 DEF ClearLists
  <2>2. /\ allocList' \in Seq(1 .. Len(chunks')) /\ freeList' \in Seq(1 .. Len(chunks'))
        /\ DOMAIN allocList' = {} /\ DOMAIN freeList' = {}
    BY <2>1, EmptySeq
  <2>3. TypeOK'
    BY <1>1, <1>3, <1>7, <2>1, <2>2 DEF Base, TypeOK, sessions
  <2>4. Addressed' /\ ListedOnce' /\ OneMore'
    BY <1>1, <2>1, <2>2 DEF Base, Addressed, ListedOnce, OneMore, IsInjective, sessions
  <2> QED
    BY <1>2, <2>3, <2>4 DEF Base
<1> QED
  BY <1>4, <1>5, <1>6 DEF EventThread

LEMMA BasePreserved == Base /\ [Next]_vars => Base'
<1> SUFFICES ASSUME Base, [Next]_vars PROVE Base'
  OBVIOUS
<1>1. ASSUME NEW s \in Sessions, AddTrace(s) PROVE Base'
  BY <1>1, TakeKeepsBase, TextKeepsBase, LookupKeepsBase, ChangeKeepsBase, StoreKeepsBase
     DEF AddTrace
<1>2. CASE EventThread
  BY <1>2, EventsKeepBase
<1>3. CASE UNCHANGED vars
  BY <1>3 DEF vars, lists, sessions, locals, marks, Base, TypeOK, Runnable, Locals, Addressed,
              ListedOnce, OneMore
<1> QED
  BY <1>1, <1>2, <1>3 DEF Next

-----------------------------------------------------------------------------
(* The inductive invariant of a view that is handled in time               *)

\* Only the thread of this connection works, on the latest record and not while the
\* view is cleared; the tree has its chunk or none for that record's address.
Alone ==
  /\ \A s \in Sessions : pc[s] # "idle" =>
       /\ s = session /\ edt = "idle" /\ cur[s] = Len(log) /\ log[cur[s]].session = s
       /\ pc[s] \in Held => tree[log[cur[s]].addr] \in {NoChunk, ref[s]}
  /\ \A i \in DOMAIN log : log[i].session <= session
  /\ edt # "idle" => edtQueue = <<>>

\* connect() clears in this order.
Cleared ==
  /\ edt \in {"clearLists", "open"} => \A a \in Addrs : tree[a] = NoChunk
  /\ edt = "open" => allocList = <<>> /\ freeList = <<>>

\* Record i is handled so far that its thread, if it is still at it, is in steps.
Reached(i, steps) == \A s \in Sessions : pc[s] # "idle" /\ cur[s] = i => pc[s] \in steps
MarkedAbout(a) == {i \in About(a, Ops) : Reached(i, {"push", "post", "store"})}
PushedAbout(a, op) == {i \in About(a, {op}) : Reached(i, {"post", "store"})}

\* Chunk c is the one of address a, stored yet or not.
Holds(a, c) ==
  \/ tree[a] = c
  \/ \E s \in Sessions : pc[s] \in Held /\ ref[s] = c /\ log[cur[s]].addr = a

\* What is recorded of an address is in its chunk, as far as it is handled.
Recorded(a, c) ==
  /\ IsFlag(chunks[c].allocated, MarkedAbout(a))
  /\ \A op \in Ops : IsHistory(chunks[c].traces[op], PushedAbout(a, op))
HasChunk(a) == \E c \in DOMAIN chunks : Holds(a, c)
Histories ==
  \A a \in Addrs :
    /\ tree[a] # NoChunk => About(a, Ops) # {}
    /\ HasChunk(a) \/ \A i \in About(a, Ops) : ~Reached(i, Held)
    /\ \A c \in DOMAIN chunks : Holds(a, c) => Recorded(a, c)

\* The chunks that are in a list or about to be, and those of them whose flag is no
\* newer than what was posted last.
IsPosted(c) ==
  \/ c # NoChunk /\ \E a \in Addrs : tree[a] = c
  \/ \E s \in Sessions : pc[s] = "store" /\ ref[s] = c
Shown(c) == IsPosted(c) /\ \A s \in Sessions : pc[s] \in {"push", "post"} => ref[s] # c

\* The last runnable posted for a chunk, or its list if none is pending, agrees with
\* its flag.
LastPosted(i) == \A j \in DOMAIN edtQueue : edtQueue[j].chunk = edtQueue[i].chunk => j <= i
Listed(c) ==
  /\ (\A i \in DOMAIN edtQueue : edtQueue[i].chunk # c) =>
       /\ c \in ToSet(allocList) <=> chunks[c].allocated
       /\ c \in ToSet(freeList) <=> ~chunks[c].allocated
  /\ \A i \in DOMAIN edtQueue : edtQueue[i].chunk = c /\ LastPosted(i) =>
       (edtQueue[i].op = "malloc" <=> chunks[c].allocated)
Mentioned ==
  ToSet(allocList) \cup ToSet(freeList) \cup {edtQueue[i].chunk : i \in DOMAIN edtQueue}
Listing ==
  /\ \A c \in Mentioned : IsPosted(c)
  /\ \A c \in DOMAIN chunks : Shown(c) => Listed(c)

Filled == edt \in {"idle", "clearTree"}
InTime == Alone /\ Cleared /\ (Filled => Histories /\ Listing)
ViewInv == Base /\ (~hurried => InTime)

-----------------------------------------------------------------------------
(* Who works when                                                          *)

LEMMA Working ==
  ASSUME Alone, NEW s \in Sessions, pc[s] # "idle"
  PROVE  /\ edt = "idle" /\ session = s /\ cur[s] = Len(log)
         /\ \A u \in Sessions : u # s => pc[u] = "idle"
         /\ \A i, X : Reached(i, X) <=> (i # cur[s] \/ pc[s] \in X)
         /\ \A a, c : Holds(a, c) <=>
              tree[a] = c \/ (pc[s] \in Held /\ ref[s] = c /\ log[cur[s]].addr = a)
<1>1. /\ edt = "idle" /\ session = s /\ cur[s] = Len(log)
      /\ \A u \in Sessions : u # s => pc[u] = "idle"
  BY DEF Alone
<1>2. \A i, X : Reached(i, X) <=> (i # cur[s] \/ pc[s] \in X)
  BY <1>1 DEF Reached
<1>3. \A a, c : Holds(a, c) <=>
        tree[a] = c \/ (pc[s] \in Held /\ ref[s] = c /\ log[cur[s]].addr = a)
  BY <1>1 DEF Holds, Held
<1> QED
  BY <1>1, <1>2, <1>3

LEMMA WorkingNext ==
  ASSUME Alone', NEW s \in Sessions, pc'[s] # "idle"
  PROVE  /\ \A i, X : Reached(i, X)' <=> (i # cur'[s] \/ pc'[s] \in X)
         /\ \A a, c : Holds(a, c)' <=>
              tree'[a] = c \/ (pc'[s] \in Held /\ ref'[s] = c /\ log'[cur'[s]].addr = a)
<1>1. \A u \in Sessions : u # s => pc'[u] = "idle"
  BY DEF Alone
<1>2. \A i, X : Reached(i, X)' <=> (i # cur'[s] \/ pc'[s] \in X)
  BY <1>1 DEF Reached
<1>3. \A a, c : Holds(a, c)' <=>
        tree'[a] = c \/ (pc'[s] \in Held /\ ref'[s] = c /\ log'[cur'[s]].addr = a)
  BY <1>1 DEF Holds, Held
<1> QED
  BY <1>2, <1>3

LEMMA Resting ==
  ASSUME \A s \in Sessions : pc[s] = "idle"
  PROVE  (\A i, X : Reached(i, X)) /\ (\A a, c : Holds(a, c) <=> tree[a] = c)
BY DEF Reached, Holds, Held

LEMMA RestingNext ==
  ASSUME \A s \in Sessions : pc'[s] = "idle"
  PROVE  (\A i, X : Reached(i, X)') /\ (\A a, c : Holds(a, c)' <=> tree'[a] = c)
BY DEF Reached, Holds, Held

LEMMA ViewInitially == Init => ViewInv
<1> SUFFICES ASSUME Init PROVE ViewInv
  OBVIOUS
<1>1. Base
  BY BaseInitially
<1>2. DOMAIN log = {} /\ DOMAIN edtQueue = {} /\ DOMAIN chunks = {}
      /\ DOMAIN allocList = {} /\ DOMAIN freeList = {}
  BY EmptySeq DEF Init
<1>3. Alone /\ Cleared
  BY <1>2 DEF Init, Alone, Cleared
<1>4. Histories
  <2>1. \A a \in Addrs : About(a, Ops) = {} /\ tree[a] = NoChunk
    BY <1>2 DEF About, Init
  <2> QED
    BY <1>2, <2>1 DEF Histories
<1>5. Listing
  BY <1>2 DEF Listing, Mentioned, ToSet
<1> QED
  BY <1>1, <1>3, <1>4, <1>5 DEF ViewInv, InTime

-----------------------------------------------------------------------------
(* One thread at a time                                                    *)

LEMMA AloneKept ==
  ASSUME ~hurried', Base, Alone, Cleared, [Next]_vars
  PROVE  Alone' /\ Cleared'
<1>1. TypeOK /\ Len(log) \in Nat /\ DOMAIN log = 1 .. Len(log)
  BY Sizes DEF Base
<1>2. ASSUME NEW s \in Sessions, NEW op \in Ops, NEW a \in Addrs, Take(s, op, a)
      PROVE  Alone' /\ Cleared'
  <2> DEFINE r == [op |-> op, addr |-> a, session |-> s]
             n == Len(log) + 1
  <2>1. /\ s = session /\ edt = "idle" /\ pc[s] = "idle" /\ log' = Append(log, r)
        /\ cur' = [cur EXCEPT ![s] = n] /\ pc' = [pc EXCEPT ![s] = "readText"]
        /\ edt' = edt /\ session' = session
    BY <1>2 DEF Take, sessions
  <2>2. /\ Len(log') = n /\ DOMAIN log' = 1 .. n /\ log'[n] = r
        /\ \A i \in DOMAIN log : log'[i] = log[i]
    <3>1. r \in Record /\ log \in Seq(Record)
      BY <1>1 DEF Record, TypeOK
    <3> HIDE DEF r
    <3> QED
      BY <1>1, <2>1, <3>1, AppendProperties, LenProperties
  <2>3. ASSUME NEW u \in Sessions, pc'[u] # "idle"
        PROVE  /\ u = session' /\ edt' = "idle" /\ cur'[u] = Len(log')
               /\ log'[cur'[u]].session = u /\ pc'[u] \notin Held
    <3>1. u = s
      BY <1>1, <2>1, <2>3 DEF Alone, TypeOK
    <3> QED
      BY <1>1, <2>1, <2>2, <3>1 DEF TypeOK, Held
  <2>4. \A i \in DOMAIN log' : log'[i].session <= session'
    <3>1. session \in Nat
      BY <1>1, BoundsAssumption DEF TypeOK
    <3>2. n \in DOMAIN log' /\ \A i \in DOMAIN log' : i = n \/ i \in DOMAIN log
      BY <1>1, <2>2
    <3> QED
      BY <2>1, <2>2, <3>1, <3>2 DEF Alone
  <2> QED
    BY <2>1, <2>3, <2>4 DEF Alone, Cleared
<1>3. ASSUME NEW s \in Sessions, pc[s] # "idle", UNCHANGED <<sessions, edt, cur, log>>,
             NEW p, pc' = [pc EXCEPT ![s] = p],
             p \in Held => tree'[log[cur[s]].addr] \in {NoChunk, ref'[s]}
      PROVE  Alone' /\ Cleared'
  <2>1. edt = "idle" /\ \A u \in Sessions : u # s => pc[u] = "idle"
    BY <1>3 DEF Alone
  <2>2. \A u \in Sessions : pc'[u] # "idle" => u = s /\ pc'[s] = p
    BY <1>1, <1>3, <2>1 DEF TypeOK
  <2> QED
    BY <1>3, <2>1, <2>2 DEF Alone, Cleared, sessions
<1>4. ASSUME NEW s \in Sessions, ReadText(s) \/ WriteText(s) PROVE Alone' /\ Cleared'
  <2>1. pc[s] # "idle" /\ UNCHANGED <<sessions, edt, cur, log>>
    BY <1>4 DEF ReadText, WriteText
  <2>2. PICK p \in {"writeText", "lookup"} : pc' = [pc EXCEPT ![s] = p]
    BY <1>4 DEF ReadText, WriteText
  <2> QED
    BY <1>3, <2>1, <2>2 DEF Held
<1>5. ASSUME NEW s \in Sessions, Lookup(s) PROVE Alone' /\ Cleared'
  <2>1. /\ pc[s] # "idle" /\ UNCHANGED <<tree, sessions, edt, cur, log>>
        /\ pc' = [pc EXCEPT ![s] = "mark"]
    BY <1>5 DEF Lookup
  <2>2. tree[log[cur[s]].addr] \in {NoChunk, ref'[s]}
    BY <1>1, <1>5 DEF Lookup, TypeOK
  <2> QED
    BY <1>3, <2>1, <2>2
<1>6. ASSUME NEW s \in Sessions, Mark(s) \/ Push(s) \/ Post(s) PROVE Alone' /\ Cleared'
  <2>1. pc[s] \in Held /\ UNCHANGED <<tree, sessions, edt, cur, ref, log>> /\ pc[s] # "idle"
    BY <1>6 DEF Mark, Push, Post, Held, locals
  <2>2. PICK p \in Held : pc' = [pc EXCEPT ![s] = p]
    BY <1>6 DEF Mark, Push, Post, Held
  <2>3. tree'[log[cur[s]].addr] \in {NoChunk, ref'[s]}
    BY <2>1 DEF Alone
  <2> QED
    BY <1>3, <2>1, <2>2, <2>3
<1>7. ASSUME NEW s \in Sessions, Store(s) PROVE Alone' /\ Cleared'
  <2>1. /\ pc[s] = "store" /\ pc' = [pc EXCEPT ![s] = "idle"]
        /\ UNCHANGED <<lists, edtQueue, edt, sessions, log>>
    BY <1>7 DEF Store
  <2>2. edt = "idle" /\ \A u \in Sessions : pc'[u] = "idle"
    BY <1>1, <2>1 DEF Alone, TypeOK
  <2> QED
    BY <2>1, <2>2 DEF Alone, Cleared, sessions
<1>8. CASE EventThread
  <2>1. UNCHANGED <<pc, cur, ref, log>>
    BY <1>8 DEF EventThread, RunPosted, Connect, ClearTree, ClearLists, Open, locals
  <2>2. CASE RunPosted
    BY <2>1, <2>2 DEF RunPosted, Alone, Cleared, sessions
  <2>3. CASE Connect
    BY <2>1, <2>3 DEF Connect, Alone, Cleared, sessions, lists
  <2>4. CASE ClearTree
    BY <2>1, <2>4 DEF ClearTree, Alone, Cleared, sessions, lists
  <2>5. CASE ClearLists
    BY <2>1, <2>5 DEF ClearLists, Alone, Cleared, sessions
  <2>6. CASE Open
    <3>1. session \in Nat /\ session' = session + 1
      BY <1>1, <2>6, BoundsAssumption DEF TypeOK, Open
    <3>2. \A i \in DOMAIN log : log[i].session \in Nat
      BY <1>1, Sizes, BoundsAssumption DEF Record, Sessions
    <3>3. \A i \in DOMAIN log' : log'[i].session <= session'
      BY <2>1, <3>1, <3>2 DEF Alone
    <3>4. edt' = "idle" /\ \A s \in Sessions : pc'[s] = "idle"
      BY <2>1, <2>6 DEF Alone, Open
    <3> QED
      BY <3>3, <3>4 DEF Alone, Cleared
  <2> QED
    BY <1>8, <2>2, <2>3, <2>4, <2>5, <2>6 DEF EventThread
<1>9. CASE UNCHANGED vars
  BY <1>9 DEF vars, lists, sessions, locals, Alone, Cleared
<1> QED
  BY <1>2, <1>4, <1>5, <1>6, <1>7, <1>8, <1>9 DEF Next, AddTrace

-----------------------------------------------------------------------------
(* The chunks follow the records                                           *)

\* The chunk of an address whose thread is past its lookup is that thread's.
LEMMA OwnChunk ==
  ASSUME Base, Alone, NEW s \in Sessions, pc[s] \in Held,
         NEW b \in Addrs, NEW c \in DOMAIN chunks, Holds(b, c)
  PROVE  (b = log[cur[s]].addr) <=> (c = ref[s])
<1>1. pc[s] # "idle" /\ ref[s] \in DOMAIN chunks /\ chunks[ref[s]].addr = log[cur[s]].addr
  BY AtWork DEF Held
<1>2. tree[b] = c \/ (ref[s] = c /\ log[cur[s]].addr = b)
  BY <1>1, Working
<1>3. c # NoChunk
  BY Sizes DEF Base, NoChunk
<1>4. chunks[c].addr = b
  BY <1>1, <1>2, <1>3 DEF Base, Addressed
<1>5. tree[log[cur[s]].addr] \in {NoChunk, ref[s]}
  BY <1>1 DEF Alone
<1> QED
  BY <1>1, <1>2, <1>3, <1>4, <1>5

\* A step that leaves the records, the chunks that addresses have and how far the
\* records are handled as they are.
LEMMA HistoriesStay ==
  ASSUME Histories, UNCHANGED <<log, session, chunks>>,
         \A a \in Addrs : tree'[a] # NoChunk => tree[a] # NoChunk \/ About(a, Ops) # {},
         \A a \in Addrs, c \in DOMAIN chunks : Holds(a, c)' <=> Holds(a, c),
         \A i \in DOMAIN log :
           /\ Reached(i, {"push", "post", "store"})' <=> Reached(i, {"push", "post", "store"})
           /\ Reached(i, {"post", "store"})' <=> Reached(i, {"post", "store"})
           /\ Reached(i, Held)' => Reached(i, Held)
  PROVE  Histories'
<1>1. \A a, X : About(a, X)' = About(a, X)
  BY DEF About
<1>2. \A a, X : About(a, X) \subseteq DOMAIN log
  BY DEF About
<1>3. \A a \in Addrs : MarkedAbout(a)' = MarkedAbout(a)
  BY <1>1, <1>2 DEF MarkedAbout
<1>4. \A a \in Addrs, op \in Ops : PushedAbout(a, op)' = PushedAbout(a, op)
  BY <1>1, <1>2 DEF PushedAbout
<1>5. \A a \in Addrs, c \in DOMAIN chunks : Recorded(a, c)' <=> Recorded(a, c)
  BY <1>3, <1>4 DEF Recorded, IsFlag, IsHistory
<1>6. \A a \in Addrs : HasChunk(a)' <=> HasChunk(a)
  BY DEF HasChunk
<1> QED
  BY <1>1, <1>2, <1>5, <1>6 DEF Histories

LEMMA TakeKeepsHistories ==
  ASSUME ~hurried', Base, Alone, Histories, Alone', NEW s \in Sessions,
         NEW op \in Ops, NEW a \in Addrs, Take(s, op, a)
  PROVE  Histories'
<1> DEFINE r == [op |-> op, addr |-> a, session |-> s]
           n == Len(log) + 1
<1>1. /\ s = session /\ pc[s] = "idle" /\ log' = Append(log, r) /\ session' = session
      /\ cur' = [cur EXCEPT ![s] = n] /\ pc' = [pc EXCEPT ![s] = "readText"]
      /\ UNCHANGED <<tree, chunks>>
  BY DEF Take, sessions
<1>2. /\ DOMAIN log' = DOMAIN log \cup {n} /\ n \notin DOMAIN log
      /\ \A i \in DOMAIN log : log'[i] = log[i]
  <2>1. r \in Record /\ log \in Seq(Record) /\ Len(log) \in Nat /\ DOMAIN log = 1 .. Len(log)
    BY Sizes DEF Record, Base, TypeOK
  <2>2. log' \in Seq(Record) /\ Len(log') = n /\ \A i \in 1 .. Len(log) : log'[i] = log[i]
    <3> HIDE DEF r
    <3> QED
      BY <1>1, <2>1, AppendProperties
  <2>3. DOMAIN log' = 1 .. n
    BY <2>2, LenProperties
  <2> QED
    BY <2>1, <2>2, <2>3
<1> HIDE DEF n, r
<1>3. pc'[s] = "readText" /\ cur'[s] = n /\ \A u \in Sessions : pc[u] = "idle"
  BY <1>1 DEF Base, TypeOK, Alone
<1>4. /\ \A i, X : Reached(i, X) /\ (Reached(i, X)' <=> (i # n \/ "readText" \in X))
      /\ \A b, c : (Holds(b, c) <=> tree[b] = c) /\ (Holds(b, c)' <=> tree[b] = c)
  BY <1>1, <1>3, Resting, WorkingNext DEF Held
<1>5. /\ \A b, X : About(b, X) \subseteq DOMAIN log
      /\ \A b, X : About(b, X) \subseteq About(b, X)' /\ About(b, X)' \subseteq About(b, X) \cup {n}
  BY <1>1, <1>2 DEF About
<1>6. \A b \in Addrs : MarkedAbout(b)' = MarkedAbout(b)
  <2> SUFFICES ASSUME NEW b \in Addrs PROVE MarkedAbout(b)' = MarkedAbout(b)
    OBVIOUS
  <2> QED
    BY <1>2, <1>4, <1>5 DEF MarkedAbout
<1>7. \A b \in Addrs, o \in Ops : PushedAbout(b, o)' = PushedAbout(b, o)
  <2> SUFFICES ASSUME NEW b \in Addrs, NEW o \in Ops PROVE PushedAbout(b, o)' = PushedAbout(b, o)
    OBVIOUS
  <2> QED
    BY <1>2, <1>4, <1>5 DEF PushedAbout
<1>8. \A b \in Addrs, c \in DOMAIN chunks : Recorded(b, c) => Recorded(b, c)'
  <2> SUFFICES ASSUME NEW b \in Addrs, NEW c \in DOMAIN chunks, Recorded(b, c)
               PROVE  Recorded(b, c)'
    OBVIOUS
  <2>1. IsFlag(chunks[c].allocated, MarkedAbout(b))'
    <3>1. \A i \in MarkedAbout(b) : log'[i] = log[i]
      BY <1>2, <1>5 DEF MarkedAbout
    <3> QED
      BY <1>1, <1>6, <3>1 DEF Recorded, IsFlag
  <2>2. \A o \in Ops : IsHistory(chunks[c].traces[o], PushedAbout(b, o))'
    BY <1>1, <1>7 DEF Recorded, IsHistory
  <2> QED
    BY <2>1, <2>2 DEF Recorded
<1> QED
  <2> SUFFICES ASSUME NEW b \in Addrs
               PROVE  /\ tree'[b] # NoChunk => About(b, Ops)' # {}
                      /\ HasChunk(b)' \/ \A i \in About(b, Ops)' : ~Reached(i, Held)'
                      /\ \A c \in DOMAIN chunks' : Holds(b, c)' => Recorded(b, c)'
    BY DEF Histories
  <2>1. tree'[b] # NoChunk => About(b, Ops)' # {}
    BY <1>1, <1>5 DEF Histories
  <2>2. HasChunk(b)' \/ \A i \in About(b, Ops)' : ~Reached(i, Held)'
    <3>1. CASE HasChunk(b)
      BY <1>1, <1>4, <3>1 DEF HasChunk
    <3>2. CASE \A i \in About(b, Ops) : ~Reached(i, Held)
      <4>1. About(b, Ops)' \subseteq {n}
        BY <1>4, <1>5, <3>2
      <4> QED
        BY <1>4, <4>1 DEF Held
    <3> QED
      BY <3>1, <3>2 DEF Histories
  <2>3. \A c \in DOMAIN chunks' : Holds(b, c)' => Recorded(b, c)'
    BY <1>1, <1>4, <1>8 DEF Histories
  <2> QED
    BY <2>1, <2>2, <2>3

\* The steps that only take the thread further.
LEMMA PassKeepsHistories ==
  ASSUME Base, Alone, Alone', Histories, NEW s \in Sessions, ReadText(s) \/ WriteText(s) \/ Post(s)
  PROVE  Histories'
<1>1. /\ pc[s] # "idle" /\ UNCHANGED <<tree, chunks, session, cur, ref, log>>
  BY DEF ReadText, WriteText, Post, locals, sessions
<1>2. /\ pc'[s] # "idle" /\ (pc'[s] \in Held <=> pc[s] \in Held)
      /\ (pc'[s] \in {"push", "post", "store"} <=> pc[s] \in {"push", "post", "store"})
      /\ (pc'[s] \in {"post", "store"} <=> pc[s] \in {"post", "store"})
  BY DEF ReadText, WriteText, Post, Base, TypeOK, Held
<1>3. /\ \A i, X : Reached(i, X) <=> (i # cur[s] \/ pc[s] \in X)
      /\ \A i, X : Reached(i, X)' <=> (i # cur'[s] \/ pc'[s] \in X)
      /\ \A a, c : Holds(a, c)' <=> Holds(a, c)
  BY <1>1, <1>2, Working, WorkingNext
<1> QED
  BY <1>1, <1>2, <1>3, HistoriesStay

LEMMA LookupKeepsHistories ==
  ASSUME Base, Alone, Alone', Histories, NEW s \in Sessions, Lookup(s)
  PROVE  Histories'
<1>1. /\ pc[s] = "lookup" /\ UNCHANGED <<tree, session, cur, log>> /\ pc'[s] = "mark"
      /\ cur[s] \in DOMAIN log /\ log[cur[s]].addr \in Addrs
  BY Sizes DEF Lookup, sessions, Base, TypeOK, Locals, Record
<1>a. PICK a \in Addrs : a = log[cur[s]].addr
  BY <1>1
<1>r. PICK r : r = ref'[s]
  OBVIOUS
<1>2. \/ tree[a] = NoChunk /\ r = Len(chunks) + 1 /\ chunks' = Append(chunks, NewChunk(a))
      \/ tree[a] # NoChunk /\ r = tree[a] /\ chunks' = chunks
  BY <1>a, <1>r DEF Lookup, Base, TypeOK
<1>3. /\ \A c \in DOMAIN chunks : chunks'[c] = chunks[c] /\ c # NoChunk /\ c \in DOMAIN chunks'
      /\ \A c \in DOMAIN chunks' : c \in DOMAIN chunks \/ (c = r /\ tree[a] = NoChunk)
      /\ tree[a] = NoChunk => chunks'[r] = NewChunk(a) /\ r \in DOMAIN chunks' /\ r \notin DOMAIN chunks
  BY <1>1, <1>2, Created, Sizes DEF Base, NoChunk
<1>4. /\ \A i, X : Reached(i, X) <=> (i # cur[s] \/ "lookup" \in X)
      /\ \A i, X : Reached(i, X)' <=> (i # cur[s] \/ "mark" \in X)
      /\ \A b, c : Holds(b, c) <=> tree[b] = c
      /\ \A b, c : Holds(b, c)' <=> tree[b] = c \/ (r = c /\ a = b)
  BY <1>1, <1>a, <1>r, Working, WorkingNext DEF Held
<1>5. \A b, X : About(b, X)' = About(b, X)
  BY <1>1 DEF About
<1>6. /\ \A b \in Addrs : MarkedAbout(b)' = MarkedAbout(b)
      /\ \A b \in Addrs, op \in Ops : PushedAbout(b, op)' = PushedAbout(b, op)
  BY <1>4, <1>5 DEF MarkedAbout, PushedAbout
<1>7. tree[a] = NoChunk => /\ MarkedAbout(a) = {}
                           /\ \A op \in Ops : PushedAbout(a, op) = {}
  <2> SUFFICES ASSUME tree[a] = NoChunk
               PROVE  MarkedAbout(a) = {} /\ \A op \in Ops : PushedAbout(a, op) = {}
    OBVIOUS
  <2>1. \A i \in About(a, Ops) : ~Reached(i, Held)
    BY <1>1, <1>3, <1>4 DEF Histories, HasChunk
  <2>2. \A i \in About(a, Ops) : i = cur[s]
    BY <1>4, <2>1
  <2>3. \A op \in Ops : About(a, {op}) \subseteq About(a, Ops)
    BY DEF About
  <2> QED
    BY <1>4, <2>2, <2>3 DEF MarkedAbout, PushedAbout
<1>8. ASSUME NEW b \in Addrs, NEW c \in DOMAIN chunks, Recorded(b, c)
      PROVE  Recorded(b, c)'
  <2>1. chunks'[c] = chunks[c] /\ log' = log
    BY <1>1, <1>3
  <2> QED
    BY <1>6, <1>8, <2>1 DEF Recorded, IsFlag, IsHistory
<1>9. tree[a] = NoChunk => Recorded(a, r)'
  <2> SUFFICES ASSUME tree[a] = NoChunk PROVE Recorded(a, r)'
    OBVIOUS
  <2>1. MarkedAbout(a)' = {} /\ \A op \in Ops : PushedAbout(a, op)' = {}
    BY <1>1, <1>6, <1>7
  <2>2. chunks'[r].traces = [op \in Ops |-> <<>>]
    BY <1>3 DEF NewChunk
  <2>3. \A op \in Ops : IsHistory(chunks'[r].traces[op], {})
    <3>1. DOMAIN <<>> = {} /\ Len(<<>>) = 0 /\ ToSet(<<>>) = {}
      BY EmptySeq DEF ToSet
    <3> QED
      BY <2>2, <3>1, BoundsAssumption DEF IsHistory
  <2> QED
    BY <2>1, <2>3 DEF Recorded, IsFlag, IsHistory
<1> SUFFICES ASSUME NEW b \in Addrs
             PROVE  /\ tree'[b] # NoChunk => About(b, Ops)' # {}
                    /\ HasChunk(b)' \/ \A i \in About(b, Ops)' : ~Reached(i, Held)'
                    /\ \A c \in DOMAIN chunks' : Holds(b, c)' => Recorded(b, c)'
  BY DEF Histories
<1>10. tree'[b] # NoChunk => About(b, Ops)' # {}
  BY <1>1, <1>5 DEF Histories
<1>11. HasChunk(b)' \/ \A i \in About(b, Ops)' : ~Reached(i, Held)'
  <2>1. CASE HasChunk(b)
    BY <1>3, <1>4, <2>1 DEF HasChunk
  <2>2. CASE b = a /\ ~HasChunk(a)
    <3>1. r \in DOMAIN chunks'
      BY <1>2, <1>3, <1>4, <2>2, Sizes DEF HasChunk, Base, TypeOK, NoChunk
    <3> QED
      BY <1>4, <2>2, <3>1 DEF HasChunk
  <2>3. CASE b # a /\ \A i \in About(b, Ops) : ~Reached(i, Held)
    <3>1. \A i \in About(b, Ops) : i = cur[s] /\ log[i].addr = b
      BY <1>4, <2>3 DEF About
    <3> QED
      BY <1>5, <1>a, <2>3, <3>1
  <2> QED
    BY <2>1, <2>2, <2>3 DEF Histories
<1>12. ASSUME NEW c \in DOMAIN chunks', Holds(b, c)' PROVE Recorded(b, c)'
  <2>1. CASE c \in DOMAIN chunks /\ tree[b] = c
    BY <1>4, <1>8, <2>1 DEF Histories
  <2>2. CASE ~(c \in DOMAIN chunks /\ tree[b] = c)
    <3>1. b = a /\ c = r /\ tree[a] = NoChunk
      BY <1>2, <1>3, <1>4, <1>12, <2>2, Sizes DEF Base, TypeOK, NoChunk
    <3> QED
      BY <1>9, <3>1
  <2> QED
    BY <2>1, <2>2
<1> QED
  BY <1>10, <1>11, <1>12

\* Mark and Push change the chunk of their record, and mark or push that record.
LEMMA MarkKeepsHistories ==
  ASSUME Base, Alone, Alone', Histories, NEW s \in Sessions, Mark(s)
  PROVE  Histories'
<1>1. /\ pc[s] = "mark" /\ pc'[s] = "push" /\ UNCHANGED <<tree, session, cur, ref, log>>
      /\ cur[s] \in DOMAIN log /\ log[cur[s]] \in Record /\ ref[s] \in DOMAIN chunks
  BY AtWork DEF Mark, locals, sessions, Base, TypeOK, Held
<1>2. PICK a \in Addrs : a = log[cur[s]].addr
  BY <1>1 DEF Record
<1>3. PICK b \in BOOLEAN : b = (log[cur[s]].op = "malloc")
  OBVIOUS
<1>4. /\ DOMAIN chunks' = DOMAIN chunks
      /\ \A c \in DOMAIN chunks : c # ref[s] => chunks'[c] = chunks[c]
      /\ \A c \in DOMAIN chunks : chunks'[c].traces = chunks[c].traces
      /\ chunks'[ref[s]].allocated = b
  <2>1. chunks' = [chunks EXCEPT ![ref[s]].allocated = b] /\ TypeOK
    BY <1>3 DEF Mark, Base
  <2>2. /\ DOMAIN chunks' = DOMAIN chunks
        /\ \A c \in DOMAIN chunks : c # ref[s] => chunks'[c] = chunks[c]
        /\ chunks'[ref[s]].traces = chunks[ref[s]].traces /\ chunks'[ref[s]].allocated = b
    BY <1>1, <2>1, Flagged
  <2> QED
    BY <2>2
<1>5. /\ \A i, X : Reached(i, X) <=> (i # cur[s] \/ "mark" \in X)
      /\ \A i, X : Reached(i, X)' <=> (i # cur[s] \/ "push" \in X)
      /\ \A d, c : Holds(d, c)' <=> Holds(d, c)
      /\ cur[s] = Len(log)
  BY <1>1, Working, WorkingNext DEF Held
<1>6. \A d, X : About(d, X)' = About(d, X) /\ About(d, X) \subseteq DOMAIN log
  BY <1>1 DEF About
<1>7. /\ \A d \in Addrs, op \in Ops : PushedAbout(d, op)' = PushedAbout(d, op)
      /\ \A d \in Addrs : d # a => MarkedAbout(d)' = MarkedAbout(d)
      /\ cur[s] \in MarkedAbout(a)'
  <2>1. log[cur[s]].session = session
    BY <1>1 DEF Alone
  <2>2. cur[s] \in About(a, Ops) /\ \A d \in Addrs : d # a => cur[s] \notin About(d, Ops)
    BY <1>1, <1>2, <2>1 DEF About, Record
  <2> QED
    BY <1>5, <1>6, <2>2 DEF MarkedAbout, PushedAbout
<1>8. ASSUME NEW d \in Addrs, NEW c \in DOMAIN chunks, Holds(d, c), Recorded(d, c)
      PROVE  Recorded(d, c)'
  <2>1. d = a <=> c = ref[s]
    BY <1>1, <1>2, <1>8, OwnChunk DEF Held
  <2>2. \A op \in Ops : IsHistory(chunks'[c].traces[op], PushedAbout(d, op)')
    BY <1>4, <1>7, <1>8 DEF Recorded
  <2>3. IsFlag(chunks[c].allocated, MarkedAbout(d))'
    <3>1. CASE d # a
      BY <1>1, <1>4, <1>7, <1>8, <2>1, <3>1 DEF Recorded, IsFlag
    <3>2. CASE d = a
      <4>1. ASSUME NEW last \in MarkedAbout(a)', \A r \in MarkedAbout(a)' : r <= last
            PROVE  last = cur[s]
        <5>1. last \in DOMAIN log /\ cur[s] <= last
          BY <1>6, <1>7, <4>1 DEF MarkedAbout
        <5>2. Len(log) \in Nat /\ DOMAIN log = 1 .. Len(log)
          BY Sizes DEF Base
        <5> QED
          BY <1>5, <5>1, <5>2
      <4>2. chunks'[c].allocated = (log[cur[s]].op = "malloc")
        BY <1>3, <1>4, <2>1, <3>2
      <4> QED
        BY <1>1, <3>2, <4>1, <4>2 DEF IsFlag
    <3> QED
      BY <3>1, <3>2
  <2> QED
    BY <2>2, <2>3 DEF Recorded, IsHistory
<1>9. \A d \in Addrs : HasChunk(d)' <=> HasChunk(d)
  BY <1>4, <1>5 DEF HasChunk
<1>10. \A i : Reached(i, Held)' => Reached(i, Held)
  BY <1>5 DEF Held
<1> QED
  BY <1>1, <1>4, <1>5, <1>6, <1>8, <1>9, <1>10 DEF Histories

LEMMA PushKeepsHistories ==
  ASSUME Base, Alone, Alone', Histories, NEW s \in Sessions, Push(s)
  PROVE  Histories'
<1>1. /\ pc[s] = "push" /\ pc'[s] = "post" /\ UNCHANGED <<tree, session, cur, ref, log>>
      /\ cur[s] \in DOMAIN log /\ cur[s] \in Nat /\ log[cur[s]] \in Record
      /\ ref[s] \in DOMAIN chunks
  BY AtWork DEF Push, locals, sessions, Base, TypeOK, Held
<1>2. PICK a \in Addrs : a = log[cur[s]].addr
  BY <1>1 DEF Record
<1>3. PICK op \in Ops : op = log[cur[s]].op
  BY <1>1 DEF Record
<1>4. PICK n \in Nat : n = cur[s]
  BY <1>1
<1>5. /\ DOMAIN chunks' = DOMAIN chunks
      /\ \A c \in DOMAIN chunks : c # ref[s] => chunks'[c] = chunks[c]
      /\ \A c \in DOMAIN chunks : chunks'[c].allocated = chunks[c].allocated
      /\ chunks'[ref[s]].traces[op] = Trim(Append(chunks[ref[s]].traces[op], n))
      /\ \A o \in Ops : o # op => chunks'[ref[s]].traces[o] = chunks[ref[s]].traces[o]
  <2>1. PICK c0 \in DOMAIN chunks : c0 = ref[s]
    BY <1>1
  <2>2. TypeOK /\ chunks' = [chunks EXCEPT ![c0].traces[op] = Trim(Append(@, n))]
    BY <1>3, <1>4, <2>1 DEF Push, Base
  <2>3. /\ DOMAIN chunks' = DOMAIN chunks
        /\ \A c \in DOMAIN chunks : c # c0 => chunks'[c] = chunks[c]
        /\ chunks'[c0].allocated = chunks[c0].allocated
        /\ chunks'[c0].traces[op] = Trim(Append(chunks[c0].traces[op], n))
        /\ \A o \in Ops : o # op => chunks'[c0].traces[o] = chunks[c0].traces[o]
    BY <2>2, Pushed, Zenon
  <2> QED
    BY <2>1, <2>3
<1>6. /\ \A i, X : Reached(i, X) <=> (i # n \/ "push" \in X)
      /\ \A i, X : Reached(i, X)' <=> (i # n \/ "post" \in X)
      /\ \A d, c : Holds(d, c)' <=> Holds(d, c)
      /\ n = Len(log)
  BY <1>1, <1>4, Working, WorkingNext DEF Held
<1>7. \A d, X : About(d, X)' = About(d, X) /\ About(d, X) \subseteq DOMAIN log
  BY <1>1 DEF About
<1>8. /\ \A d \in Addrs : MarkedAbout(d)' = MarkedAbout(d)
      /\ \A d \in Addrs, o \in Ops : d # a \/ o # op => PushedAbout(d, o)' = PushedAbout(d, o)
      /\ PushedAbout(a, op)' = PushedAbout(a, op) \cup {n}
      /\ n \notin PushedAbout(a, op)
  <2>1. log[n].session = session
    BY <1>1, <1>4 DEF Alone
  <2>2. n \in About(a, {op})
        /\ \A d \in Addrs, o \in Ops : d # a \/ o # op => n \notin About(d, {o})
    BY <1>1, <1>2, <1>3, <1>4, <2>1 DEF About
  <2>3. \A d \in Addrs : MarkedAbout(d)' = MarkedAbout(d)
    BY <1>6, <1>7 DEF MarkedAbout
  <2> QED
    BY <1>6, <1>7, <2>2, <2>3 DEF PushedAbout
<1>9. ASSUME NEW d \in Addrs, NEW c \in DOMAIN chunks, Holds(d, c), Recorded(d, c)
      PROVE  Recorded(d, c)'
  <2>1. d = a <=> c = ref[s]
    BY <1>1, <1>2, <1>9, OwnChunk DEF Held
  <2>2. IsFlag(chunks'[c].allocated, MarkedAbout(d)')
    BY <1>5, <1>8, <1>9 DEF Recorded
  <2>3. IsFlag(chunks[c].allocated, MarkedAbout(d))'
    BY <1>1, <2>2 DEF IsFlag
  <2>4. ASSUME NEW o \in Ops PROVE IsHistory(chunks'[c].traces[o], PushedAbout(d, o)')
    <3>1. CASE d = a /\ o = op
      <4>1. chunks[c].traces[op] \in Seq(Nat)
        BY Sizes DEF Base, Chunk
      <4>2. IsHistory(chunks[c].traces[op], PushedAbout(a, op))
        BY <1>9, <3>1 DEF Recorded
      <4>3. \A r \in PushedAbout(a, op) : r \in Nat /\ r < n
        <5>1. PushedAbout(a, op) \subseteq DOMAIN log
          BY <1>7 DEF PushedAbout
        <5>2. Len(log) \in Nat /\ DOMAIN log = 1 .. Len(log)
          BY Sizes DEF Base
        <5> QED
          BY <1>6, <1>8, <5>1, <5>2
      <4>4. PICK old : old = chunks[c].traces[op]
        OBVIOUS
      <4>5. PICK records : records = PushedAbout(a, op)
        OBVIOUS
      <4>6. IsHistory(Trim(Append(old, n)), records \cup {n})
        BY <4>1, <4>2, <4>3, <4>4, <4>5, HistoryGrows
      <4> QED
        BY <1>5, <1>8, <2>1, <3>1, <4>4, <4>5, <4>6
    <3>2. CASE ~(d = a /\ o = op)
      <4>1. chunks'[c].traces[o] = chunks[c].traces[o]
        BY <1>5, <2>1, <3>2
      <4> QED
        BY <1>8, <1>9, <3>2, <4>1 DEF Recorded
    <3> QED
      BY <3>1, <3>2
  <2> QED
    BY <2>3, <2>4 DEF Recorded, IsHistory
<1>10. \A d \in Addrs : HasChunk(d)' <=> HasChunk(d)
  BY <1>5, <1>6 DEF HasChunk
<1>11. \A i : Reached(i, Held)' => Reached(i, Held)
  BY <1>6 DEF Held
<1> QED
  BY <1>1, <1>5, <1>6, <1>7, <1>9, <1>10, <1>11 DEF Histories

LEMMA StoreKeepsHistories ==
  ASSUME Base, Alone, Alone', Histories, NEW s \in Sessions, Store(s)
  PROVE  Histories'
<1>1. /\ pc[s] = "store" /\ UNCHANGED <<chunks, session, log>>
      /\ cur[s] \in DOMAIN log /\ log[cur[s]] \in Record /\ ref[s] \in DOMAIN chunks
      /\ tree' = [tree EXCEPT ![log[cur[s]].addr] = ref[s]]
      /\ log[cur[s]].session = session /\ tree[log[cur[s]].addr] \in {NoChunk, ref[s]}
  BY AtWork DEF Store, sessions, Held, Alone
<1>2. \A u \in Sessions : pc'[u] = "idle"
  BY <1>1 DEF Store, Base, TypeOK, Alone
<1>3. PICK a \in Addrs : a = log[cur[s]].addr
  BY <1>1 DEF Record
<1>4. /\ tree'[a] = ref[s] /\ \A b \in Addrs : b # a => tree'[b] = tree[b]
      /\ cur[s] \in About(a, Ops)
  BY <1>1, <1>3 DEF Base, TypeOK, About, Record
<1>5. /\ \A i : /\ Reached(i, {"push", "post", "store"}) /\ Reached(i, {"push", "post", "store"})'
                /\ Reached(i, {"post", "store"}) /\ Reached(i, {"post", "store"})'
                /\ Reached(i, Held)
      /\ \A b, c : Holds(b, c) <=> tree[b] = c \/ (ref[s] = c /\ a = b)
      /\ \A b, c : Holds(b, c)' <=> tree'[b] = c
  BY <1>1, <1>2, <1>3, Working, RestingNext DEF Held
<1>6. \A b \in Addrs, c \in DOMAIN chunks : Holds(b, c)' <=> Holds(b, c)
  <2>1. \A c \in DOMAIN chunks : c # NoChunk
    BY Sizes DEF Base, NoChunk
  <2> QED
    BY <1>1, <1>3, <1>4, <1>5, <2>1
<1>7. \A b \in Addrs : tree'[b] # NoChunk => tree[b] # NoChunk \/ About(b, Ops) # {}
  BY <1>4
<1> QED
  BY <1>1, <1>5, <1>6, <1>7, HistoriesStay

LEMMA EventsKeepHistories ==
  ASSUME ~hurried', Base, Alone, Cleared, Filled => Histories, EventThread, Filled'
  PROVE  Histories'
<1>1. UNCHANGED <<chunks, pc, cur, ref, log>>
  BY DEF EventThread, RunPosted, Connect, ClearTree, ClearLists, Open, locals
<1>2. CASE RunPosted \/ Connect
  <2>1. UNCHANGED <<tree, session>> /\ Histories
    BY <1>2 DEF RunPosted, Connect, Filled, sessions
  <2>2. \A b \in Addrs, c \in DOMAIN chunks : Holds(b, c)' <=> Holds(b, c)
    BY <1>1, <2>1 DEF Holds
  <2>3. \A i, X : Reached(i, X)' <=> Reached(i, X)
    BY <1>1 DEF Reached
  <2> QED
    BY <1>1, <2>1, <2>2, <2>3, HistoriesStay
<1>3. CASE ClearTree \/ ClearLists
  BY <1>3 DEF ClearTree, ClearLists, Filled
<1>4. CASE Open
  <2>1. /\ \A a \in Addrs : tree'[a] = NoChunk
        /\ \A s \in Sessions : pc'[s] = "idle"
    BY <1>1, <1>4 DEF Open, Cleared, Alone
  <2>2. \A a \in Addrs : About(a, Ops)' = {}
    <3>1. session \in Nat /\ session' = session + 1
      BY <1>4, BoundsAssumption DEF Base, TypeOK, Open
    <3>2. \A i \in DOMAIN log : log[i].session \in Nat /\ log[i].session <= session
      BY Sizes, BoundsAssumption DEF Base, Alone, Record, Sessions
    <3>3. \A i \in DOMAIN log : log[i].session # session'
      BY <3>1, <3>2
    <3> QED
      BY <1>1, <3>3 DEF About
  <2>3. \A a, c : Holds(a, c)' <=> tree'[a] = c
    BY <2>1, RestingNext
  <2>4. \A c \in DOMAIN chunks' : c # NoChunk
    BY <1>1, Sizes DEF Base, NoChunk
  <2> QED
    BY <2>1, <2>2, <2>3, <2>4 DEF Histories
<1> QED
  BY <1>2, <1>3, <1>4 DEF EventThread

-----------------------------------------------------------------------------
(* The lists follow the chunks                                             *)

InTree(c) == c # NoChunk /\ \E a \in Addrs : tree[a] = c

LEMMA PostedWhen ==
  ASSUME Alone, NEW s \in Sessions, pc[s] # "idle"
  PROVE  /\ \A c : IsPosted(c) <=> InTree(c) \/ (pc[s] = "store" /\ ref[s] = c)
         /\ \A c : Shown(c) <=> IsPosted(c) /\ (pc[s] \in {"push", "post"} => ref[s] # c)
<1>1. \A u \in Sessions : u # s => pc[u] = "idle"
  BY DEF Alone
<1> QED
  BY <1>1 DEF IsPosted, Shown, InTree

LEMMA PostedWhenNext ==
  ASSUME Alone', NEW s \in Sessions, \A u \in Sessions : u # s => pc'[u] = "idle"
  PROVE  /\ \A c : IsPosted(c)' <=> InTree(c)' \/ (pc'[s] = "store" /\ ref'[s] = c)
         /\ \A c : Shown(c)' <=> IsPosted(c)' /\ (pc'[s] \in {"push", "post"} => ref'[s] # c)
BY DEF IsPosted, Shown, InTree

LEMMA ListingStays ==
  ASSUME Listing, UNCHANGED <<lists, edtQueue>>,
         \A c : IsPosted(c) => IsPosted(c)',
         \A c \in DOMAIN chunks' : Shown(c)' =>
           c \in DOMAIN chunks /\ Shown(c) /\ chunks'[c].allocated = chunks[c].allocated
  PROVE  Listing'
<1>1. UNCHANGED <<allocList, freeList>>
  BY DEF lists
<1>2. \A i : LastPosted(i)' <=> LastPosted(i)
  BY DEF LastPosted
<1>3. ASSUME NEW c \in DOMAIN chunks', Shown(c)' PROVE Listed(c)'
  BY <1>1, <1>2, <1>3 DEF Listing, Listed
<1>4. Mentioned' = Mentioned
  BY <1>1 DEF Mentioned
<1> QED
  BY <1>3, <1>4 DEF Listing

\* The steps of a thread that post nothing.
LEMMA HandlingKeepsListing ==
  ASSUME ~hurried', Base, Alone, Alone', Listing, NEW s \in Sessions,
         \/ \E op \in Ops, a \in Addrs : Take(s, op, a)
         \/ ReadText(s) \/ WriteText(s) \/ Lookup(s) \/ Mark(s) \/ Push(s) \/ Store(s)
  PROVE  Listing'
<1>1. \A u \in Sessions : u # s => pc[u] = "idle" /\ pc'[u] = "idle"
  <2>1. \A u \in Sessions : u # s => pc[u] = "idle"
    BY DEF Alone, Take, ReadText, WriteText, Lookup, Mark, Push, Store
  <2> QED
    BY <2>1 DEF Take, ReadText, WriteText, Lookup, Mark, Push, Store, Base, TypeOK
<1>2. /\ \A c : IsPosted(c) <=> InTree(c) \/ (pc[s] = "store" /\ ref[s] = c)
      /\ \A c : Shown(c) <=> IsPosted(c) /\ (pc[s] \in {"push", "post"} => ref[s] # c)
  BY <1>1 DEF IsPosted, Shown, InTree
<1>3. /\ \A c : IsPosted(c)' <=> InTree(c)' \/ (pc'[s] = "store" /\ ref'[s] = c)
      /\ \A c : Shown(c)' <=> IsPosted(c)' /\ (pc'[s] \in {"push", "post"} => ref'[s] # c)
  BY <1>1, PostedWhenNext
<1>4. UNCHANGED <<lists, edtQueue>>
  BY DEF Take, ReadText, WriteText, Lookup, Mark, Push, Store
<1>5. CASE (\E op \in Ops, a \in Addrs : Take(s, op, a)) \/ ReadText(s) \/ WriteText(s)
  <2>1. /\ UNCHANGED <<tree, chunks>> /\ pc[s] \notin {"push", "post", "store"}
        /\ pc'[s] \notin {"push", "post", "store"}
    BY <1>5 DEF Take, ReadText, WriteText, Base, TypeOK
  <2>2. \A c : InTree(c)' <=> InTree(c)
    BY <2>1 DEF InTree
  <2> QED
    BY <1>2, <1>3, <1>4, <2>1, <2>2, ListingStays
<1>6. CASE Lookup(s)
  <2>1. tree' = tree /\ pc[s] = "lookup" /\ pc'[s] = "mark"
    BY <1>6 DEF Lookup, Base, TypeOK
  <2>2. \A c : InTree(c)' <=> InTree(c)
    BY <2>1 DEF InTree
  <2>3. \A c : InTree(c) => c \in DOMAIN chunks
    BY Sizes DEF InTree, Base, TypeOK, NoChunk
  <2>4. log[cur[s]].addr \in Addrs
    BY <2>1, Sizes DEF Base, Locals, Record
  <2>5. \A c \in DOMAIN chunks : chunks'[c] = chunks[c]
    BY <1>6, <2>4, Created DEF Lookup
  <2> QED
    BY <1>2, <1>3, <1>4, <2>1, <2>2, <2>3, <2>5, ListingStays
<1>7. CASE Mark(s)
  <2>1. tree' = tree /\ ref' = ref /\ pc[s] = "mark" /\ pc'[s] = "push" /\ ref[s] \in DOMAIN chunks
    BY <1>7, AtWork DEF Mark, Base, TypeOK, locals, Held
  <2>2. \A c : InTree(c)' <=> InTree(c)
    BY <2>1 DEF InTree
  <2>3. DOMAIN chunks' = DOMAIN chunks /\ \A c \in DOMAIN chunks : c # ref[s] => chunks'[c] = chunks[c]
    <3>1. PICK b \in BOOLEAN : b = (log[cur[s]].op = "malloc")
      OBVIOUS
    <3>2. TypeOK /\ chunks' = [chunks EXCEPT ![ref[s]].allocated = b]
      BY <1>7, <3>1 DEF Mark, Base
    <3> QED
      BY <2>1, <3>2, Flagged
  <2> QED
    BY <1>2, <1>3, <1>4, <2>1, <2>2, <2>3, ListingStays
<1>8. CASE Push(s)
  <2>1. /\ tree' = tree /\ ref' = ref /\ pc[s] = "push" /\ pc'[s] = "post"
        /\ ref[s] \in DOMAIN chunks /\ log[cur[s]] \in Record /\ cur[s] \in Nat
    BY <1>8, AtWork DEF Push, Base, TypeOK, locals, Held
  <2>2. \A c : InTree(c)' <=> InTree(c)
    BY <2>1 DEF InTree
  <2>3. DOMAIN chunks' = DOMAIN chunks /\ \A c \in DOMAIN chunks : c # ref[s] => chunks'[c] = chunks[c]
    <3>1. PICK op \in Ops : op = log[cur[s]].op
      BY <2>1 DEF Record
    <3>2. PICK c0 \in DOMAIN chunks : c0 = ref[s]
      BY <2>1
    <3>3. PICK n \in Nat : n = cur[s]
      BY <2>1
    <3>4. TypeOK /\ chunks' = [chunks EXCEPT ![c0].traces[op] = Trim(Append(@, n))]
      BY <1>8, <3>1, <3>2, <3>3 DEF Push, Base
    <3>5. DOMAIN chunks' = DOMAIN chunks /\ \A c \in DOMAIN chunks : c # c0 => chunks'[c] = chunks[c]
      BY <3>4, Pushed, Zenon
    <3> QED
      BY <3>2, <3>5
  <2> QED
    BY <1>2, <1>3, <1>4, <2>1, <2>2, <2>3, ListingStays
<1>9. CASE Store(s)
  <2>1. /\ chunks' = chunks /\ pc[s] = "store" /\ pc'[s] = "idle" /\ ref[s] \in DOMAIN chunks
        /\ log[cur[s]].addr \in Addrs /\ tree[log[cur[s]].addr] \in {NoChunk, ref[s]}
        /\ tree' = [tree EXCEPT ![log[cur[s]].addr] = ref[s]]
    BY <1>9, AtWork DEF Store, Base, TypeOK, Held, Alone, Record
  <2>2. \A c : InTree(c)' <=> InTree(c) \/ c = ref[s]
    <3>1. ref[s] # NoChunk
      BY <2>1, Sizes DEF Base, NoChunk
    <3> QED
      BY <2>1, <3>1 DEF InTree, Base, TypeOK
  <2> QED
    BY <1>2, <1>3, <1>4, <2>1, <2>2, ListingStays
<1> QED
  BY <1>5, <1>6, <1>7, <1>8, <1>9

LEMMA PostKeepsListing ==
  ASSUME Base, Alone, Alone', Histories, Listing, NEW s \in Sessions, Post(s)
  PROVE  Listing'
<1>1. /\ pc[s] = "post" /\ pc'[s] = "store" /\ UNCHANGED <<tree, chunks, allocList, freeList, ref>>
      /\ ref[s] \in DOMAIN chunks /\ cur[s] \in DOMAIN log /\ log[cur[s]] \in Record
  BY AtWork DEF Post, Base, TypeOK, locals, Held, lists
<1>2. PICK c0 \in DOMAIN chunks : c0 = ref[s]
  BY <1>1
<1>3. PICK op \in Ops : op = log[cur[s]].op
  BY <1>1 DEF Record
<1> DEFINE n == Len(edtQueue) + 1
           r == [op |-> op, chunk |-> c0]
<1>4. /\ DOMAIN edtQueue' = DOMAIN edtQueue \cup {n} /\ n \notin DOMAIN edtQueue
      /\ \A i \in DOMAIN edtQueue : edtQueue'[i] = edtQueue[i] /\ ~(n <= i) /\ i <= n
      /\ n <= n /\ edtQueue'[n] = r
  <2>1. /\ r \in Runnable /\ edtQueue \in Seq(Runnable) /\ edtQueue' = Append(edtQueue, r)
        /\ Len(edtQueue) \in Nat /\ DOMAIN edtQueue = 1 .. Len(edtQueue)
    BY <1>2, <1>3, Sizes DEF Post, Base, TypeOK, Runnable
  <2>2. /\ edtQueue' \in Seq(Runnable) /\ Len(edtQueue') = n /\ edtQueue'[n] = r
        /\ \A i \in 1 .. Len(edtQueue) : edtQueue'[i] = edtQueue[i]
    <3> HIDE DEF r
    <3> QED
      BY <2>1, AppendProperties
  <2>3. DOMAIN edtQueue' = 1 .. n
    BY <2>2, LenProperties
  <2> QED
    BY <2>1, <2>2, <2>3
<1>5. r.op = op /\ r.chunk = c0
  OBVIOUS
<1> HIDE DEF n, r
<1>6. /\ \A c : IsPosted(c) <=> InTree(c)
      /\ \A c : Shown(c) <=> InTree(c) /\ c # c0
      /\ \A c : IsPosted(c)' <=> InTree(c) \/ c = c0
      /\ \A c : Shown(c)' <=> InTree(c) \/ c = c0
  <2>1. \A c : InTree(c)' <=> InTree(c)
    BY <1>1 DEF InTree
  <2>2. \A u \in Sessions : u # s => pc'[u] = "idle"
    BY <1>1 DEF Alone
  <2> QED
    BY <1>1, <1>2, <2>1, <2>2, PostedWhen, PostedWhenNext
<1>7. Mentioned' = Mentioned \cup {c0}
  BY <1>1, <1>4, <1>5 DEF Mentioned
<1>8. \A c \in Mentioned' : IsPosted(c)'
  BY <1>6, <1>7 DEF Listing
<1>9. chunks[c0].allocated = (op = "malloc")
  <2>1. PICK a \in Addrs : a = log[cur[s]].addr
    BY <1>1 DEF Record
  <2>2. Holds(a, c0) /\ cur[s] = Len(log) /\ \A i, X : Reached(i, X) <=> (i # cur[s] \/ "post" \in X)
    BY <1>1, <1>2, <2>1, Working DEF Held
  <2>3. IsFlag(chunks[c0].allocated, MarkedAbout(a))
    BY <2>2 DEF Histories, Recorded
  <2>4. cur[s] \in MarkedAbout(a)
    BY <1>1, <2>1, <2>2 DEF MarkedAbout, About, Alone, Record
  <2>5. \A i \in MarkedAbout(a) : i <= cur[s]
    <3>1. MarkedAbout(a) \subseteq DOMAIN log /\ DOMAIN log = 1 .. Len(log) /\ Len(log) \in Nat
      BY Sizes DEF MarkedAbout, About, Base
    <3> QED
      BY <2>2, <3>1
  <2> QED
    BY <1>3, <2>3, <2>4, <2>5 DEF IsFlag
<1>10. ASSUME NEW c \in DOMAIN chunks', Shown(c)' PROVE Listed(c)'
  <2>1. CASE c = c0
    <3>1. \A i \in DOMAIN edtQueue' : edtQueue'[i].chunk = c0 /\ LastPosted(i)' => i = n
      BY <1>4, <1>5 DEF LastPosted
    <3> QED
      BY <1>1, <1>4, <1>5, <1>9, <2>1, <3>1 DEF Listed
  <2>2. CASE c # c0
    <3>1. Listed(c)
      BY <1>1, <1>6, <1>10, <2>2 DEF Listing
    <3>2. \A i \in DOMAIN edtQueue : edtQueue[i].chunk = c => (LastPosted(i)' <=> LastPosted(i))
      BY <1>4, <1>5, <2>2 DEF LastPosted
    <3> QED
      BY <1>1, <1>4, <1>5, <2>2, <3>1, <3>2 DEF Listed
  <2> QED
    BY <2>1, <2>2
<1> QED
  BY <1>8, <1>10 DEF Listing

\* The runnable that was posted first runs.
LEMMA RunKeepsListing ==
  ASSUME Base, Listing, RunPosted
  PROVE  Listing'
<1>1. UNCHANGED <<tree, chunks, pc, ref>>
  BY DEF RunPosted, locals
<1>2. PICK c0 : c0 = edtQueue[1].chunk
  OBVIOUS
<1>3. PICK n \in Nat \ {0} : n = Len(edtQueue)
  BY Ran
<1>4. DOMAIN edtQueue = 1 .. n /\ DOMAIN edtQueue' = 1 .. (n - 1)
  <2>1. edtQueue' \in Seq(Runnable) /\ Len(edtQueue') = n - 1
    BY <1>3, Ran
  <2> QED
    BY <1>3, <2>1, Sizes, LenProperties DEF Base
<1>5. /\ edtQueue[1].op = "malloc" =>
           /\ ToSet(allocList') = ToSet(allocList) \cup {c0}
           /\ ToSet(freeList') = ToSet(freeList) \ {c0}
      /\ edtQueue[1].op # "malloc" =>
           /\ ToSet(freeList') = ToSet(freeList) \cup {c0}
           /\ ToSet(allocList') = ToSet(allocList) \ {c0}
  BY <1>2, Ran
<1>6. \A i \in 1 .. (n - 1) : edtQueue'[i] = edtQueue[i + 1]
  <2>1. Len(edtQueue') = n - 1 /\ \A i \in 1 .. Len(edtQueue') : edtQueue'[i] = edtQueue[i + 1]
    BY <1>3, Ran
  <2> QED
    BY <2>1
<1>7. \A i \in 1 .. (n - 1) : i + 1 \in 1 .. n /\ i \in Int
  BY <1>3
<1>8. \A i \in 1 .. n : i # 1 => \E j \in 1 .. (n - 1) : i = j + 1
  <2>1. ASSUME NEW i \in 1 .. n, i # 1 PROVE i - 1 \in 1 .. (n - 1) /\ i = (i - 1) + 1
    BY <1>3, <2>1
  <2> QED
    BY <2>1
<1>9. \A c : (IsPosted(c)' <=> IsPosted(c)) /\ (Shown(c)' <=> Shown(c))
  BY <1>1 DEF IsPosted, Shown
<1>10. Mentioned' \subseteq Mentioned
  <2>1. c0 \in Mentioned
    BY <1>2, <1>3, <1>4 DEF Mentioned
  <2>2. ToSet(allocList)' = ToSet(allocList') /\ ToSet(freeList)' = ToSet(freeList')
    OBVIOUS
  <2>3. {edtQueue'[i].chunk : i \in DOMAIN edtQueue'} \subseteq Mentioned
    BY <1>4, <1>6, <1>7 DEF Mentioned
  <2>4. ToSet(allocList') \cup ToSet(freeList') \subseteq Mentioned
    BY <1>5, <2>1 DEF Mentioned
  <2> QED
    BY <2>2, <2>3, <2>4 DEF Mentioned
<1>11. ASSUME NEW c \in DOMAIN chunks, Listed(c) PROVE Listed(c)'
  <2>1. ASSUME NEW i \in 1 .. (n - 1), edtQueue'[i].chunk = c, LastPosted(i)'
        PROVE  LastPosted(i + 1)
    <3>1. ASSUME NEW j \in 1 .. n, edtQueue[j].chunk = edtQueue[i + 1].chunk PROVE j <= i + 1
      <4>1. CASE j = 1
        BY <1>7, <4>1
      <4>2. CASE j # 1
        <5>1. PICK k \in 1 .. (n - 1) : j = k + 1
          BY <1>8, <4>2
        <5>2. k <= i
          BY <1>4, <1>6, <2>1, <3>1, <5>1 DEF LastPosted
        <5> QED
          BY <1>7, <5>1, <5>2
      <4> QED
        BY <4>1, <4>2
    <3> QED
      BY <1>4, <3>1 DEF LastPosted
  <2>2. \A i \in DOMAIN edtQueue' : edtQueue'[i].chunk = c /\ LastPosted(i)' =>
          (edtQueue'[i].op = "malloc" <=> chunks[c].allocated)
    BY <1>4, <1>6, <1>7, <1>11, <2>1 DEF Listed
  <2>3. ASSUME \A i \in DOMAIN edtQueue' : edtQueue'[i].chunk # c
        PROVE  /\ c \in ToSet(allocList') <=> chunks[c].allocated
               /\ c \in ToSet(freeList') <=> ~chunks[c].allocated
    <3>1. ASSUME NEW i \in 1 .. n, i # 1 PROVE edtQueue[i].chunk # c
      <4>1. PICK j \in 1 .. (n - 1) : i = j + 1
        BY <1>8, <3>1
      <4>2. edtQueue'[j] = edtQueue[i] /\ edtQueue'[j].chunk # c
        BY <1>4, <1>6, <2>3, <4>1
      <4> QED
        BY <4>2
    <3>2. CASE c = c0
      <4>1. LastPosted(1)
        BY <1>2, <1>4, <3>1, <3>2 DEF LastPosted
      <4>2. edtQueue[1].op = "malloc" <=> chunks[c].allocated
        BY <1>2, <1>3, <1>4, <1>11, <3>2, <4>1 DEF Listed
      <4> QED
        BY <1>5, <3>2, <4>2
    <3>3. CASE c # c0
      <4>1. \A i \in DOMAIN edtQueue : edtQueue[i].chunk # c
        BY <1>2, <1>4, <3>1, <3>3
      <4>2. /\ c \in ToSet(allocList) <=> chunks[c].allocated
            /\ c \in ToSet(freeList) <=> ~chunks[c].allocated
        BY <1>11, <4>1 DEF Listed
      <4> QED
        BY <1>5, <3>3, <4>2
    <3> QED
      BY <3>2, <3>3
  <2>4. chunks'[c].allocated = chunks[c].allocated
    BY <1>1
  <2> QED
    BY <2>2, <2>3, <2>4 DEF Listed
<1> QED
  BY <1>1, <1>9, <1>10, <1>11 DEF Listing

LEMMA EventsKeepListing ==
  ASSUME ~hurried', Base, Alone, Cleared, Filled => Listing, EventThread, Filled'
  PROVE  Listing'
<1>1. CASE RunPosted
  BY <1>1, RunKeepsListing DEF RunPosted, Filled
<1>2. CASE Connect
  <2>1. UNCHANGED <<lists, edtQueue, tree, chunks, pc, ref>> /\ Listing
    BY <1>2 DEF Connect, Filled, locals
  <2>2. \A c : (IsPosted(c)' <=> IsPosted(c)) /\ (Shown(c)' <=> Shown(c))
    BY <2>1 DEF IsPosted, Shown
  <2> QED
    BY <2>1, <2>2, ListingStays
<1>3. CASE ClearTree \/ ClearLists
  BY <1>3 DEF ClearTree, ClearLists, Filled
<1>4. CASE Open
  <2>1. /\ edt = "open" /\ UNCHANGED <<tree, allocList, freeList, edtQueue, pc>>
    BY <1>4 DEF Open, lists
  <2>2. /\ \A a \in Addrs : tree'[a] = NoChunk
        /\ \A s \in Sessions : pc'[s] = "idle"
        /\ allocList' = <<>> /\ freeList' = <<>> /\ edtQueue' = <<>>
    BY <2>1 DEF Cleared, Alone
  <2>3. \A c : ~IsPosted(c)'
    BY <2>2 DEF IsPosted
  <2>4. Mentioned' = {}
    <3>1. DOMAIN allocList' = {} /\ DOMAIN freeList' = {} /\ DOMAIN edtQueue' = {}
      BY <2>2, EmptySeq
    <3> QED
      BY <3>1 DEF Mentioned, ToSet
  <2> QED
    BY <2>3, <2>4 DEF Listing, Shown
<1> QED
  BY <1>1, <1>2, <1>3, <1>4 DEF EventThread

-----------------------------------------------------------------------------
(* The invariant is kept                                                   *)

LEMMA ThreadKeepsView ==
  ASSUME ~hurried', Base, Alone, Alone', Histories, Listing, NEW s \in Sessions, AddTrace(s)
  PROVE  Histories' /\ Listing'
<1>1. Histories'
  BY TakeKeepsHistories, PassKeepsHistories, LookupKeepsHistories, MarkKeepsHistories,
     PushKeepsHistories, StoreKeepsHistories DEF AddTrace
<1>2. Listing'
  BY HandlingKeepsListing, PostKeepsListing DEF AddTrace
<1> QED
  BY <1>1, <1>2

\* No step takes hurried back.
LEMMA InTimeBefore == [Next]_vars /\ ~hurried' => ~hurried
BY DEF Next, EventThread, AddTrace, Take, ReadText, WriteText, Lookup, Mark, Push, Post, Store,
       RunPosted, Connect, ClearTree, ClearLists, Open, vars, marks

LEMMA ViewPreserved == ViewInv /\ [Next]_vars => ViewInv'
<1> SUFFICES ASSUME ViewInv, [Next]_vars, ~hurried' PROVE InTime'
  BY BasePreserved DEF ViewInv
<1>1. Base /\ InTime /\ Base' /\ Alone' /\ Cleared'
  BY BasePreserved, InTimeBefore, AloneKept DEF ViewInv, InTime
<1>2. ASSUME NEW s \in Sessions, AddTrace(s) PROVE Filled' => Histories' /\ Listing'
  <2>1. edt' = edt
    BY <1>2 DEF AddTrace, Take, ReadText, WriteText, Lookup, Mark, Push, Post, Store
  <2> QED
    BY <1>1, <1>2, <2>1, ThreadKeepsView DEF InTime, Filled
<1>3. ASSUME EventThread PROVE Filled' => Histories' /\ Listing'
  BY <1>1, <1>3, EventsKeepHistories, EventsKeepListing DEF InTime
<1>4. ASSUME UNCHANGED vars PROVE Filled' => Histories' /\ Listing'
  <2>1. /\ UNCHANGED <<tree, chunks, lists, allocList, freeList, edtQueue, edt, session, pc, cur, ref, log>>
    BY <1>4 DEF vars, lists, sessions, locals
  <2>2. /\ \A i, X : Reached(i, X)' <=> Reached(i, X)
        /\ \A b, c : Holds(b, c)' <=> Holds(b, c)
        /\ \A c : (IsPosted(c)' <=> IsPosted(c)) /\ (Shown(c)' <=> Shown(c))
    BY <2>1 DEF Reached, Holds, IsPosted, Shown
  <2>3. Filled => Histories'
    BY <1>1, <2>1, <2>2, HistoriesStay DEF InTime
  <2>4. Filled => Listing'
    BY <1>1, <2>1, <2>2, ListingStays DEF InTime
  <2> QED
    BY <2>1, <2>3, <2>4 DEF Filled
<1> QED
  BY <1>1, <1>2, <1>3, <1>4 DEF InTime, Next

-----------------------------------------------------------------------------
(* The theorems                                                            *)

\* Whatever the threads and connect() do, and whether or not the last connection's
\* records are handled in time: the variables have their types, a handler thread works
\* on a chunk of its record's address, the tree has chunks under their own addresses
\* and neither list shows a chunk twice.
THEOREM BaseInvariant == Spec => []Base
<1>1. Init => Base
  BY BaseInitially
<1>2. Base /\ [Next]_vars => Base'
  BY BasePreserved
<1> QED
  BY <1>1, <1>2, PTL DEF Spec

\* The type invariant: no history grows past HistoryCap and no list, tree or runnable
\* names a chunk that was never made.
THEOREM TypeCorrect == Spec => []TypeOK
<1>1. Base => TypeOK
  BY DEF Base
<1> QED
  BY <1>1, BaseInvariant, PTL

\* As long as no connect overtakes what is still to be handled: at every step of
\* addTrace and of the runnables, what the chunks and the lists hold is what has been
\* recorded, posted and run so far.
THEOREM ViewInvariant == Spec => []ViewInv
<1>1. Init => ViewInv
  BY ViewInitially
<1>2. ViewInv /\ [Next]_vars => ViewInv'
  BY ViewPreserved
<1> QED
  BY <1>1, <1>2, PTL DEF Spec

\* At rest, every record is handled and every chunk made for an address is the tree's.
LEMMA AtRestFacts ==
  ASSUME ViewInv, AtRest, ~hurried
  PROVE  /\ Histories /\ Listing /\ Mentioned = ToSet(allocList) \cup ToSet(freeList)
         /\ \A a : MarkedAbout(a) = About(a, Ops)
         /\ \A a, op : PushedAbout(a, op) = About(a, {op})
         /\ \A a, c : Holds(a, c) <=> tree[a] = c
         /\ \A c : (IsPosted(c) <=> c \in Known) /\ (Shown(c) <=> c \in Known)
         /\ Known \subseteq DOMAIN chunks /\ DOMAIN edtQueue = {}
<1>1. (\A s \in Sessions : pc[s] = "idle") /\ edt = "idle" /\ edtQueue = <<>>
  BY DEF AtRest
<1>2. (\A i, X : Reached(i, X)) /\ (\A a, c : Holds(a, c) <=> tree[a] = c)
  BY <1>1, Resting
<1>3. \A c : (IsPosted(c) <=> c \in Known) /\ (Shown(c) <=> c \in Known)
  BY <1>1 DEF IsPosted, Shown, Known
<1>4. Known \subseteq DOMAIN chunks
  BY Sizes DEF ViewInv, Base, TypeOK, Known, NoChunk
<1>5. DOMAIN edtQueue = {}
  BY <1>1, EmptySeq
<1>6. Mentioned = ToSet(allocList) \cup ToSet(freeList)
  BY <1>5 DEF Mentioned
<1>7. Histories /\ Listing
  BY <1>1 DEF ViewInv, InTime, Filled
<1>8. \A a, op : MarkedAbout(a) = About(a, Ops) /\ PushedAbout(a, op) = About(a, {op})
  BY <1>2 DEF MarkedAbout, PushedAbout
<1> QED
  BY <1>2, <1>3, <1>4, <1>5, <1>6, <1>7, <1>8

\* When everything posted has run, each chunk of the tree is in exactly one of the two
\* lists, once, the one its flag says, and the lists show nothing else.
THEOREM ListsRight == Spec => []ListsMatchTree
<1>1. ViewInv => ListsMatchTree
  <2> SUFFICES ASSUME ViewInv, AtRest, ~hurried
               PROVE  /\ ToSet(allocList) = {c \in Known : chunks[c].allocated}
                      /\ ToSet(freeList) = {c \in Known : ~chunks[c].allocated}
                      /\ IsInjective(allocList) /\ IsInjective(freeList)
    BY DEF ListsMatchTree
  <2>1. ToSet(allocList) \cup ToSet(freeList) \subseteq Known
    BY AtRestFacts DEF Listing
  <2>2. ASSUME NEW c \in Known
        PROVE  /\ c \in ToSet(allocList) <=> chunks[c].allocated
               /\ c \in ToSet(freeList) <=> ~chunks[c].allocated
    <3>1. Listed(c) /\ DOMAIN edtQueue = {}
      BY AtRestFacts DEF Listing
    <3> QED
      BY <3>1 DEF Listed
  <2> QED
    BY <2>1, <2>2 DEF ViewInv, Base, ListedOnce
<1> QED
  BY <1>1, ViewInvariant, PTL

\* At rest, a chunk's flag follows the last record about its address, and its histories
\* hold the latest records of each kind, those of this session alone.
THEOREM ChunksRight == Spec => []ChunksMatchRecords
<1>1. ViewInv => ChunksMatchRecords
  <2> SUFFICES ASSUME ViewInv, AtRest, ~hurried, NEW a \in Addrs
               PROVE  /\ tree[a] = NoChunk <=> About(a, Ops) = {}
                      /\ tree[a] # NoChunk =>
                           LET c == chunks[tree[a]] IN
                           /\ c.addr = a /\ IsFlag(c.allocated, About(a, Ops))
                           /\ \A op \in Ops : IsHistory(c.traces[op], About(a, {op}))
    BY DEF ChunksMatchRecords
  <2>1. tree[a] = NoChunk => About(a, Ops) = {}
    <3>1. \A c \in DOMAIN chunks : c # NoChunk
      BY Sizes DEF ViewInv, Base, NoChunk
    <3>2. \A i : Reached(i, Held)
      BY Resting DEF AtRest
    <3> QED
      BY <3>1, <3>2, AtRestFacts DEF Histories, HasChunk
  <2>2. tree[a] # NoChunk => About(a, Ops) # {}
    BY AtRestFacts DEF Histories
  <2>3. ASSUME tree[a] # NoChunk
        PROVE  /\ chunks[tree[a]].addr = a /\ IsFlag(chunks[tree[a]].allocated, About(a, Ops))
               /\ \A op \in Ops : IsHistory(chunks[tree[a]].traces[op], About(a, {op}))
    <3>1. PICK c : c = tree[a]
      OBVIOUS
    <3>2. c \in DOMAIN chunks /\ Holds(a, c)
      BY <2>3, <3>1, AtRestFacts DEF Known
    <3>3. Recorded(a, c)
      BY <3>2, AtRestFacts DEF Histories
    <3>4. IsFlag(chunks[c].allocated, About(a, Ops))
      BY <3>3, AtRestFacts DEF Recorded
    <3>5. \A op \in Ops : IsHistory(chunks[c].traces[op], About(a, {op}))
      BY <3>3, AtRestFacts DEF Recorded
    <3>6. chunks[c].addr = a
      BY <2>3, <3>1 DEF ViewInv, Base, Addressed
    <3> QED
      BY <3>1, <3>4, <3>5, <3>6
  <2> QED
    BY <2>1, <2>2, <2>3
<1> QED
  BY <1>1, ViewInvariant, PTL

-----------------------------------------------------------------------------
(* What is cleared stays cleared                                           *)

\* No thread, runnable, tree or list has a chunk that was cleared with nobody at it.
Aside ==
  /\ gone \subseteq DOMAIN chunks /\ gone \cap Known = {}
  /\ \A s \in Sessions : ref[s] \notin gone
  /\ \A i \in DOMAIN edtQueue : edtQueue[i].chunk \notin gone
  /\ edt # "clearLists" => gone \cap (ToSet(allocList) \cup ToSet(freeList)) = {}

\* A step that leaves the lists and the runnables alone.
LEMMA AsideStays ==
  ASSUME Aside, UNCHANGED <<lists, edt, edtQueue, gone>>, DOMAIN chunks \subseteq DOMAIN chunks',
         \A a \in Addrs : tree'[a] \notin gone, \A s \in Sessions : ref'[s] \notin gone
  PROVE  Aside'
<1>1. UNCHANGED <<allocList, freeList>>
  BY DEF lists
<1>2. gone' \cap Known' = {}
  BY DEF Known
<1> QED
  BY <1>1, <1>2 DEF Aside

LEMMA ThreadKeepsAside ==
  ASSUME Base, Aside, NEW s \in Sessions, AddTrace(s)
  PROVE  Aside'
<1>1. /\ DOMAIN chunks = 1 .. Len(chunks) /\ Len(chunks) \in Nat /\ 0 \notin gone
      /\ tree \in [Addrs -> 0 .. Len(chunks)] /\ ref \in [Sessions -> 0 .. Len(chunks)]
  <2>1. TypeOK /\ gone \subseteq DOMAIN chunks
    BY DEF Base, Aside
  <2>2. DOMAIN chunks = 1 .. Len(chunks) /\ Len(chunks) \in Nat
    BY <2>1, Sizes
  <2>3. tree \in [Addrs -> 0 .. Len(chunks)] /\ ref \in [Sessions -> 0 .. Len(chunks)]
    BY <2>1 DEF TypeOK
  <2> QED
    BY <2>1, <2>2, <2>3
<1>2. /\ \A a \in Addrs : tree[a] \notin gone
      /\ \A u \in Sessions : ref[u] \notin gone
      /\ gone \subseteq DOMAIN chunks
  BY <1>1 DEF Aside, Known, NoChunk
<1>3. CASE (\E op \in Ops, a \in Addrs : Take(s, op, a)) \/ ReadText(s) \/ WriteText(s)
  <2>1. UNCHANGED <<lists, edt, edtQueue, gone, chunks, tree, ref>>
    BY <1>3 DEF Take, ReadText, WriteText, marks
  <2> QED
    BY <1>2, <2>1, AsideStays
<1>4. CASE Lookup(s)
  <2>1. UNCHANGED <<lists, edt, edtQueue, gone, tree>>
    BY <1>4 DEF Lookup, marks
  <2>2. PICK a \in Addrs : a = log[cur[s]].addr
    BY <1>4, Sizes DEF Lookup, Base, Locals, Record
  <2>3. CASE tree[a] = NoChunk
    <3>1. chunks' = Append(chunks, NewChunk(a)) /\ ref' = [ref EXCEPT ![s] = Len(chunks) + 1]
      BY <1>4, <2>2, <2>3 DEF Lookup
    <3>2. DOMAIN chunks \subseteq DOMAIN chunks' /\ Len(chunks) + 1 \notin gone
      BY <1>2, <3>1, Created
    <3> QED
      BY <1>1, <1>2, <2>1, <3>1, <3>2, AsideStays
  <2>4. CASE tree[a] # NoChunk
    <3>1. chunks' = chunks /\ ref' = [ref EXCEPT ![s] = tree[a]]
      BY <1>4, <2>2, <2>4 DEF Lookup
    <3> QED
      BY <1>1, <1>2, <2>1, <3>1, AsideStays
  <2> QED
    BY <2>3, <2>4
<1>5. CASE Mark(s) \/ Push(s)
  <2>1. UNCHANGED <<lists, edt, edtQueue, gone, tree, ref>>
    BY <1>5 DEF Mark, Push, marks, locals
  <2>2. DOMAIN chunks' = DOMAIN chunks
    BY <1>5 DEF Mark, Push
  <2> QED
    BY <1>2, <2>1, <2>2, AsideStays
<1>6. CASE Post(s)
  <2> DEFINE r == [op |-> log[cur[s]].op, chunk |-> ref[s]]
             n == Len(edtQueue) + 1
  <2>1. UNCHANGED <<allocList, freeList, edt, gone, tree, ref, chunks>>
    BY <1>6 DEF Post, marks, locals, lists
  <2>2. r \in Runnable /\ edtQueue' = Append(edtQueue, r) /\ edtQueue \in Seq(Runnable)
    BY <1>1, <1>6, AtWork DEF Post, Held, Record, Runnable, Base, TypeOK
  <2>3. r.chunk \notin gone
    BY <1>2
  <2> HIDE DEF r
  <2>4. /\ edtQueue' \in Seq(Runnable) /\ Len(edtQueue') = n /\ edtQueue'[n] = r
        /\ Len(edtQueue) \in Nat /\ \A i \in 1 .. Len(edtQueue) : edtQueue'[i] = edtQueue[i]
    BY <2>2, AppendProperties, LenProperties
  <2>5. DOMAIN edtQueue = 1 .. Len(edtQueue) /\ DOMAIN edtQueue' = 1 .. n
    BY <2>2, <2>4, LenProperties
  <2>6. \A i \in DOMAIN edtQueue' : i = n \/ i \in 1 .. Len(edtQueue)
    BY <2>4, <2>5
  <2>7. \A i \in DOMAIN edtQueue' : edtQueue'[i].chunk \notin gone
    BY <2>3, <2>4, <2>5, <2>6 DEF Aside
  <2> QED
    BY <2>1, <2>7 DEF Aside, Known
<1>7. CASE Store(s)
  <2>1. UNCHANGED <<lists, edt, edtQueue, gone, chunks>>
    BY <1>7 DEF Store, marks
  <2>2. /\ \A a \in Addrs : tree'[a] \in {tree[a], ref[s]}
        /\ \A u \in Sessions : ref'[u] \in {ref[u], 0}
    BY <1>1, <1>7 DEF Store, NoChunk
  <2> QED
    BY <1>1, <1>2, <2>1, <2>2, AsideStays
<1> QED
  BY <1>3, <1>4, <1>5, <1>6, <1>7 DEF AddTrace

LEMMA EventsKeepAside ==
  ASSUME Base, Aside, EventThread
  PROVE  Aside'
<1>1. UNCHANGED <<chunks, ref>>
  BY DEF EventThread, RunPosted, Connect, ClearTree, ClearLists, Open, locals
<1>2. CASE RunPosted
  <2>1. UNCHANGED <<tree, edt, gone>> /\ edt = "idle"
    BY <1>2 DEF RunPosted, marks
  <2>2. PICK n \in Nat \ {0} : n = Len(edtQueue)
    BY <1>2, Ran
  <2>3. PICK c : c = edtQueue[1].chunk
    OBVIOUS
  <2>4. DOMAIN edtQueue = 1 .. n /\ DOMAIN edtQueue' = 1 .. (n - 1)
    <3>1. edtQueue' \in Seq(Runnable) /\ Len(edtQueue') = n - 1
      BY <1>2, <2>2, Ran
    <3> QED
      BY <2>2, <3>1, Sizes, LenProperties DEF Base
  <2>5. \A i \in 1 .. (n - 1) : edtQueue'[i] = edtQueue[i + 1] /\ i + 1 \in 1 .. n
    <3>1. Len(edtQueue') = n - 1 /\ \A i \in 1 .. Len(edtQueue') : edtQueue'[i] = edtQueue[i + 1]
      BY <1>2, <2>2, Ran
    <3> QED
      BY <3>1
  <2>6. c \notin gone /\ \A i \in DOMAIN edtQueue' : edtQueue'[i].chunk \notin gone
    <3>1. 1 \in DOMAIN edtQueue
      BY <2>4
    <3> QED
      BY <2>3, <2>4, <2>5, <3>1 DEF Aside
  <2>7. ToSet(allocList') \cup ToSet(freeList') \subseteq ToSet(allocList) \cup ToSet(freeList) \cup {c}
    <3>1. /\ edtQueue[1].op = "malloc" =>
                /\ ToSet(allocList') = ToSet(allocList) \cup {c}
                /\ ToSet(freeList') = ToSet(freeList) \ {c}
          /\ edtQueue[1].op # "malloc" =>
                /\ ToSet(freeList') = ToSet(freeList) \cup {c}
                /\ ToSet(allocList') = ToSet(allocList) \ {c}
      BY <1>2, <2>3, Ran
    <3> QED
      BY <3>1
  <2>8. ToSet(allocList)' = ToSet(allocList') /\ ToSet(freeList)' = ToSet(freeList')
    OBVIOUS
  <2>9. gone \cap (ToSet(allocList') \cup ToSet(freeList')) = {}
    BY <2>1, <2>6, <2>7 DEF Aside
  <2> QED
    BY <1>1, <2>1, <2>6, <2>8, <2>9 DEF Aside, Known
<1>3. CASE Connect \/ Open
  <2>1. /\ UNCHANGED <<tree, allocList, freeList, edtQueue, gone>>
        /\ edt # "clearLists" /\ edt' # "clearLists"
    BY <1>3 DEF Connect, Open, lists, marks
  <2> QED
    BY <1>1, <2>1 DEF Aside, Known
<1>4. CASE ClearLists
  <2>1. UNCHANGED <<tree, edtQueue, gone>> /\ allocList' = <<>> /\ freeList' = <<>>
    BY <1>4 DEF ClearLists, marks
  <2>2. ToSet(allocList)' = {} /\ ToSet(freeList)' = {}
    BY <2>1, EmptySeq DEF ToSet
  <2> QED
    BY <1>1, <2>1, <2>2 DEF Aside, Known
<1>5. CASE ClearTree
  <2>1. /\ \A a \in Addrs : tree'[a] = NoChunk
        /\ gone' = Idle /\ edt' = "clearLists" /\ edtQueue' = edtQueue
    BY <1>5 DEF ClearTree
  <2>2. gone' \subseteq DOMAIN chunks' /\ gone' \cap Known' = {}
    BY <1>1, <2>1, Sizes DEF Idle, Known, Base
  <2> QED
    BY <1>1, <2>1, <2>2 DEF Aside, Idle
<1> QED
  BY <1>2, <1>3, <1>4, <1>5 DEF EventThread

\* What connect() has cleared stays cleared, with handlers and runnables of earlier
\* connections still at work or not: only a chunk that one of them had in hand when
\* the tree was cleared can be shown again.
THEOREM ClearedStays == Spec => []ClearedStaysCleared
<1>1. Init => Aside
  <2> SUFFICES ASSUME Init PROVE Aside
    OBVIOUS
  <2>1. DOMAIN edtQueue = {} /\ gone = {}
    BY EmptySeq DEF Init
  <2> QED
    BY <2>1 DEF Aside
<1>2. Base /\ Aside /\ [Next]_vars => Aside'
  <2> SUFFICES ASSUME Base, Aside, [Next]_vars PROVE Aside'
    OBVIOUS
  <2>1. CASE UNCHANGED vars
    BY <2>1 DEF vars, lists, locals, marks, Aside, Known
  <2> QED
    BY <2>1, ThreadKeepsAside, EventsKeepAside DEF Next
<1>3. Aside => ClearedStaysCleared
  BY DEF Aside, ClearedStaysCleared
<1> QED
  BY <1>1, <1>2, <1>3, BaseInvariant, PTL DEF Spec
=============================================================================
