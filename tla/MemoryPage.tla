----------------------------- MODULE MemoryPage -----------------------------
(***************************************************************************)
(* The memory tab of the GUI: the map of the whole heap (MemoryMapLabel),  *)
(* the table of one page of it (MemoryJPanel) and how a row is painted     *)
(* (MemoryChunkLabel).  The handler thread puts each report into the tree, *)
(* redraws the map and looks at the table; the event thread (EDT) paints,  *)
(* looks addresses up, changes the page and clears everything for the next *)
(* connection.  Rows and pages are shorter than in the program.            *)
(***************************************************************************)
EXTENDS Integers, Sequences, FiniteSetsExt

CONSTANTS Addrs,        \* addresses that are reported
          Sizes,
          Row,          \* MAX_ROW_LENGTH: 0x80
          Page,         \* bytes of a page: 0x10000
          Header,       \* ALLOCATION_HEADER_SIZE: 8
          MaxReports,   \* bound: reports of one run
          MaxPosted     \* bound: pages asked for and not loaded yet

ASSUME LayoutAssumption ==
  /\ Addrs \subseteq Nat /\ Sizes \subseteq Nat
  /\ {Row, Page} \subseteq Nat \ {0, 1}
  /\ Header \in 1 .. Row /\ Page % Row = 0
ASSUME BoundsAssumption == MaxReports \in Nat /\ MaxPosted \in Nat

None == -1   \* null

VARIABLES
  tree,      \* memoryTreeMap: address -> the chunk's flag and last size
  bounds,    \* curr_start_address and curr_end_address of the map
  page,      \* the address in the table's first row, None without rows
  posted,    \* the runnables of loadMemoryPage
  edt,       \* "idle", or where the event thread is
  wanted,    \* the page the event thread is about to fill in
  asked,     \* the address getAllocation looks up for a click on a row
  overflow,  \* has a look-up ended with a StackOverflowError?
  handler,   \* where addTrace is
  report,    \* the report addTrace is given
  copy,      \* memoryTreeMapCpy: its first and last key
  reports,   \* reports so far
  disturbed, \* history: has the table or the tree been emptied in this addTrace?
  stale,     \* history: has the tree been cleared since the map was drawn?
  nulls      \* NullPointerExceptions of loadMemoryPage: "none", "stale" or "fresh"

handlerVars == <<handler, report, copy, reports>>
lookupVars == <<asked, overflow>>
tableVars == <<page, wanted>>
edtVars == <<tableVars, lookupVars, posted, edt, nulls>>
vars == <<tree, bounds, handlerVars, edtVars, disturbed, stale>>

NoReport == [op |-> "none", addr |-> None, size |-> 0]
Keys == DOMAIN tree

Base(a) == (a \div Page) * Page

TypeOK ==
  /\ Keys \subseteq Addrs
  /\ \A k \in Keys : tree[k].allocated \in BOOLEAN /\ tree[k].size \in Sizes \cup {0}
  /\ page = None \/ page % Page = 0
  /\ Len(posted) <= MaxPosted
  /\ edt \in {"idle", "fill", "clearRows", "lookup"}
  /\ handler \in {"idle", "mark", "put", "copy", "map", "testRows", "readRow", "dead"}
  /\ report.addr \in Addrs \cup {None}
  /\ \A a \in {bounds[1], bounds[2], copy[1], copy[2]} : a \in Addrs \cup {None}
  /\ reports \in 0 .. MaxReports

Init ==
  /\ tree = <<>> /\ bounds = <<None, None>> /\ page = None /\ posted = <<>>
  /\ edt = "idle" /\ wanted = None /\ asked = None /\ overflow = FALSE
  /\ handler = "idle" /\ report = NoReport /\ copy = <<None, None>> /\ reports = 0
  /\ disturbed = FALSE /\ stale = FALSE /\ nulls = "none"

-----------------------------------------------------------------------------
(* Looking up and painting                                                 *)

MinKey(S) == IF S = {} THEN None ELSE Min(S)
MaxKey(S) == IF S = {} THEN None ELSE Max(S)
HigherKey(a) == MinKey({k \in Keys : k > a})
LowerKey(a) == MaxKey({k \in Keys : k < a})
FloorKey(a) == MaxKey({k \in Keys : k <= a})
Allocated(k) == tree[k].allocated

\* getAllocation( LOWER_ADDRESS, a ) asks again from a key that is not allocated.
LowerAllocation[a \in Int] ==
  LET k == LowerKey(a) IN
  IF k = None \/ Allocated(k) THEN k ELSE LowerAllocation[k]

\* getAllocation( HIGHER_ADDRESS, a ).
HigherAllocation[a \in Int] ==
  LET k == HigherKey(a) IN
  IF k = None \/ Allocated(k) THEN k ELSE HigherAllocation[k]

\* Mutant of AllocatedSize: what is free keeps its last size.
LastSize(k) == tree[k].size

\* getAllocatedSize: a chunk that is not allocated has no size.
AllocatedSize(k) == IF Allocated(k) THEN tree[k].size ELSE 0

Fill(from, to, colour) == [from |-> from, to |-> to, colour |-> colour]

\* The header, if it starts inside the row, and the bytes of an allocated chunk.
ChunkFills(k, start, end) ==
  (IF k - Header >= start THEN <<Fill(k - Header, k, "yellow")>> ELSE <<>>)
    \o <<Fill(k, Min({k + AllocatedSize(k), end}), "blue")>>

\* The loop over the next chunks: it ends at a chunk that leaves the row.
LoopFills(start, end) ==
  LET from[k \in Keys \cup {None}] ==
        IF k = None \/ k >= end THEN <<>>
        ELSE (IF Allocated(k) THEN ChunkFills(k, start, end) ELSE <<>>)
               \o (IF Allocated(k) /\ k + AllocatedSize(k) > end THEN <<>>
                   ELSE from[HigherKey(k + AllocatedSize(k))])
  IN from

\* How much of a row the allocation before it covers.
Overlap(start, end) ==
  LET k == LowerAllocation[start] IN
  IF k = None THEN 0
  ELSE Max({0, Min({k + AllocatedSize(k), end}) - start})

\* How much of a row the header of the allocation after it covers.
Underlap(end) ==
  LET k == HigherAllocation[end - 1] IN
  IF k # None /\ k - Header < end THEN end - (k - Header) ELSE 0

\* paintComponent: the rectangles filled, in order.
RowFills(start) ==
  LET end == start + Row
      first == start + Overlap(start, end)
      over == IF first = start THEN <<>> ELSE <<Fill(start, first, "blue")>>
      under == IF Underlap(end) = 0 THEN <<>>
               ELSE <<Fill(end - Underlap(end), end, "yellow")>>
      rest == LoopFills(start, end)
  IN IF first = end THEN over
     ELSE IF Underlap(end) = Row THEN over \o under
     ELSE over \o under
            \o rest[IF first \in Keys /\ Allocated(first) THEN first ELSE HigherKey(first)]

\* The colour of a byte is that of the last rectangle over it.
Colour(fills, b) ==
  LET over == {i \in 1 .. Len(fills) : fills[i].from <= b /\ b < fills[i].to}
  IN IF over = {} THEN "white" ELSE fills[Max(over)].colour

Painted(b) == Colour(RowFills((b \div Row) * Row), b)

-----------------------------------------------------------------------------
(* The handler thread: addTrace, setMemoryChunk and refreshMemoryPage       *)

\* What the allocator can answer: neither chunk nor header overlaps another.
FreeSpace(a, n) ==
  \A k \in Keys : Allocated(k) => a + n <= k - Header \/ k + tree[k].size <= a - Header

Take(op, a, n) ==
  /\ handler = "idle" /\ reports < MaxReports
  /\ IF op = "malloc" THEN FreeSpace(a, n)
     ELSE n = 0 /\ IF a \in Keys THEN Allocated(a) ELSE FreeSpace(a, n)
  /\ report' = [op |-> op, addr |-> a, size |-> n]
  /\ reports' = reports + 1
  /\ handler' = "mark"
  /\ disturbed' = FALSE
  /\ UNCHANGED <<tree, bounds, edtVars, copy, stale>>

\* addAllocation, addFree: the flag of a chunk the tree holds ...
Mark ==
  /\ handler = "mark"
  /\ tree' = IF report.addr \in Keys
             THEN [tree EXCEPT ![report.addr].allocated = (report.op = "malloc")]
             ELSE tree
  /\ handler' = "put"
  /\ UNCHANGED <<bounds, edtVars, report, copy, reports, disturbed, stale>>

LastSizeOf(a) ==
  IF report.op = "malloc" THEN report.size ELSE IF a \in Keys THEN tree[a].size ELSE 0

\* ... its history, and setMemoryChunk: put ...
Put ==
  /\ handler = "put"
  /\ tree' = [k \in Keys \cup {report.addr} |->
                IF k # report.addr THEN tree[k]
                ELSE [allocated |-> (report.op = "malloc"), size |-> LastSizeOf(k)]]
  /\ handler' = "copy"
  /\ UNCHANGED <<bounds, edtVars, report, copy, reports, disturbed, stale>>

\* ... and putAll.  Its lock does not keep the event thread from clearing the tree.
CopyTree ==
  /\ handler = "copy"
  /\ copy' = <<MinKey(Keys), MaxKey(Keys)>>
  /\ handler' = "map"
  /\ UNCHANGED <<tree, bounds, edtVars, report, reports, disturbed, stale>>

\* updateMemoryMap: firstKey throws when there is nothing in the copy, and the handler
\* thread ends.
UpdateMapEmpty ==
  /\ handler = "map" /\ copy[1] = None
  /\ handler' = "dead"
  /\ UNCHANGED <<tree, bounds, edtVars, report, copy, reports, disturbed, stale>>

\* updateMemoryMap
UpdateMap ==
  /\ handler = "map" /\ copy[1] # None
  /\ bounds' = copy
  /\ stale' = (tree = <<>>)
  /\ handler' = "testRows"
  /\ UNCHANGED <<tree, edtVars, report, copy, reports, disturbed>>

\* Mutant of TestRows: the table is taken to have rows.
TestNothing ==
  /\ handler = "testRows"
  /\ handler' = "readRow"
  /\ UNCHANGED <<tree, bounds, edtVars, report, copy, reports, disturbed, stale>>

\* refreshMemoryPage: getRowCount() > 0 ...
TestRows ==
  /\ handler = "testRows"
  /\ handler' = IF page = None THEN "idle" ELSE "readRow"
  /\ UNCHANGED <<tree, bounds, edtVars, report, copy, reports, disturbed, stale>>

\* ... and then getValueAt( 0, 0 ), which throws when the table is empty by
\* now: nothing catches it, and the handler thread ends.
ReadRow ==
  /\ handler = "readRow"
  /\ handler' = IF page = None THEN "dead" ELSE "idle"
  /\ UNCHANGED <<tree, bounds, edtVars, report, copy, reports, disturbed, stale>>

-----------------------------------------------------------------------------
(* The event thread                                                        *)

PostLoad(a, first, old) ==
  /\ Len(posted) < MaxPosted
  /\ posted' = Append(posted, [addr |-> a, first |-> first, stale |-> old])

\* A click on the map: every pixel lies before the last address.
ClickMap ==
  /\ edt = "idle" /\ bounds[1] < bounds[2]
  /\ \E a \in bounds[1] .. bounds[2] - 1 : PostLoad(Base(a), TRUE, stale)
  /\ UNCHANGED <<tree, bounds, tableVars, lookupVars, edt, nulls, handlerVars, disturbed, stale>>

\* A chunk selected in a list: loadMemoryPage( a, false ).
SelectChunk(a) ==
  /\ edt = "idle"
  /\ PostLoad(a, FALSE, FALSE)
  /\ UNCHANGED <<tree, bounds, tableVars, lookupVars, edt, nulls, handlerVars, disturbed, stale>>

\* The Go button: the page of a, and then getAllocation( LOWER_EQUAL_ADDRESS, a ).
Go(a) ==
  /\ edt = "idle"
  /\ PostLoad(a, FALSE, FALSE)
  /\ asked' = a /\ edt' = "lookup"
  /\ UNCHANGED <<tree, bounds, tableVars, overflow, nulls, handlerVars, disturbed, stale>>

\* The runnable of loadMemoryPage unboxes higherKey, which may be null; another
\* page than the one shown empties the table first ...
LoadPage ==
  /\ edt = "idle" /\ posted # <<>>
  /\ posted' = Tail(posted)
  /\ LET request == Head(posted)
         base == Base(request.addr)
     IN IF request.first /\ HigherKey(request.addr) = None
        THEN /\ nulls' = IF request.stale THEN "stale" ELSE "fresh"
             /\ UNCHANGED <<tableVars, edt, disturbed>>
        ELSE /\ UNCHANGED nulls
             /\ IF page = base
                THEN UNCHANGED <<tableVars, edt, disturbed>>
                ELSE /\ page' = None /\ wanted' = base /\ edt' = "fill"
                     /\ disturbed' = (disturbed \/ page # None)
  /\ UNCHANGED <<tree, bounds, lookupVars, handlerVars, stale>>

\* ... and then adds the rows.
FillPage ==
  /\ edt = "fill"
  /\ page' = wanted /\ wanted' = None
  /\ edt' = "idle"
  /\ UNCHANGED <<tree, bounds, lookupVars, posted, nulls, handlerVars, disturbed, stale>>

\* The user connects again.  clearPanel: the tree, without its lock, and the
\* picture of the map, whose bounds stay ...
ClearTree ==
  /\ edt = "idle"
  /\ tree' = <<>>
  /\ posted' = [i \in 1 .. Len(posted) |-> [posted[i] EXCEPT !.stale = TRUE]]
  /\ edt' = "clearRows"
  /\ disturbed' = TRUE /\ stale' = TRUE
  /\ UNCHANGED <<bounds, tableVars, lookupVars, nulls, handlerVars>>

\* ... and the table.
ClearRows ==
  /\ edt = "clearRows"
  /\ page' = None
  /\ edt' = "idle"
  /\ disturbed' = (disturbed \/ page # None)
  /\ UNCHANGED <<tree, bounds, lookupVars, posted, wanted, nulls, handlerVars, stale>>

\* A click on a row: getAllocation( LOWER_EQUAL_ADDRESS, b ).
ClickRow(b) ==
  /\ edt = "idle" /\ Base(b) = page
  /\ asked' = b /\ edt' = "lookup"
  /\ UNCHANGED <<tree, bounds, tableVars, posted, overflow, nulls, handlerVars, disturbed, stale>>

\* One call of getAllocation: a chunk that is not allocated is asked about again.
\* A chunk found is selected, which shows its page unless it was selected before.
Ask ==
  /\ edt = "lookup"
  /\ LET k == FloorKey(asked) IN
     IF k = None \/ Allocated(k)
     THEN /\ asked' = None /\ edt' = "idle"
          /\ UNCHANGED posted \/ (k # None /\ PostLoad(k, FALSE, FALSE))
     ELSE asked' = k /\ UNCHANGED <<edt, posted>>
  /\ UNCHANGED <<tree, bounds, tableVars, overflow, nulls, handlerVars, disturbed, stale>>

\* The call that would ask the same question again, for as long as the stack lasts.
Overflow ==
  /\ edt = "lookup" /\ asked \in Keys /\ ~Allocated(asked)
  /\ overflow' = TRUE
  /\ asked' = None /\ edt' = "idle"
  /\ UNCHANGED <<tree, bounds, tableVars, posted, nulls, handlerVars, disturbed, stale>>

-----------------------------------------------------------------------------
AddTrace ==
  \/ \E op \in {"malloc", "free"}, a \in Addrs, n \in Sizes : Take(op, a, n)
  \/ Mark
  \/ Put
  \/ CopyTree
  \/ UpdateMap
  \/ UpdateMapEmpty
  \/ TestRows
  \/ ReadRow

EventThread ==
  \/ ClickMap
  \/ \E a \in Addrs : SelectChunk(a) \/ Go(a)
  \/ LoadPage
  \/ FillPage
  \/ ClearTree
  \/ ClearRows
  \/ \E b \in Addrs : ClickRow(b)
  \/ Ask
  \/ Overflow

Next == AddTrace \/ EventThread

Spec == Init /\ [][Next]_vars

-----------------------------------------------------------------------------
(* Properties                                                              *)

\* The bytes a table can show.
Bytes == 0 .. Max({Base(a + n) : a \in Addrs, n \in Sizes}) + Page - 1

\* What the byte at b is for the target: neither the tree's keys in between nor
\* the rows it is cut into matter.
Truth(b) ==
  IF \E k \in Keys : Allocated(k) /\ k <= b /\ b < k + tree[k].size THEN "blue"
  ELSE IF \E k \in Keys : Allocated(k) /\ k - Header <= b /\ b < k THEN "yellow"
  ELSE "white"

\* Between two reports every row is painted as the target's heap is: a chunk
\* that spans rows or starts inside a freed one, and a header cut off by the end
\* of a row, included (MemoryChunkLabel.paintComponent, getAllocation).
PaintedRight == handler = "idle" => \A b \in Bytes : Painted(b) = Truth(b)

\* Only a table or a tree emptied while a report is handled ends the handler
\* thread (refreshMemoryPage; updateMemoryMap, whose copy of the tree may be empty).
SurvivesUndisturbed == handler = "dead" => disturbed

\* "Get the allocation for this address": the look-up for a click on a row
\* comes back.
LookupReturns == ~overflow
=============================================================================
