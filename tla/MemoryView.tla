------------------------------ MODULE MemoryView ------------------------------
(***************************************************************************)
(* What the GUI shows: the tree of memory chunks, the allocation and free  *)
(* lists and the text of all traces, kept up by MainFrame.addTrace on the  *)
(* handler threads and by the runnables it posts to the Swing event thread *)
(* (EDT).  Each connection has a MemoryTupleHandler of its own, which is   *)
(* never shut down: after a disconnect it goes on handling what it queued. *)
(* MainFrame.connect clears everything, then opens the next connection.    *)
(***************************************************************************)
EXTENDS Naturals, SequencesExt

CONSTANTS Addrs,
          MaxSessions,   \* bound: connections
          MaxRecords,    \* bound: records handled, and so chunks made
          HistoryCap     \* traces a chunk keeps: 20

ASSUME BoundsAssumption ==
  MaxSessions \in Nat \ {0} /\ MaxRecords \in Nat /\ HistoryCap \in Nat \ {0}

Sessions == 1 .. MaxSessions   \* also names the handler threads
NoChunk == 0                   \* null
Ops == {"malloc", "free"}

VARIABLES
  tree,        \* memoryTreeMap
  chunks,      \* the MemoryChunk objects made so far
  allocList,   \* the model of allocationJList
  freeList,    \* the model of freeJList
  edtQueue,    \* the runnables posted with invokeLater
  edt,         \* "idle", or where connect() is
  session,     \* how often connect() has cleared the view; 0 at the start
  opened,      \* the sessions whose socket opened, and so have a handler
  pc,          \* per handler thread, where addTrace is
  cur,         \* per handler thread, the record addTrace is given
  ref,         \* per handler thread, the local aChunk
  text,        \* per handler thread, all_memory_traces as just read
  allTraces,   \* all_memory_traces
  log,         \* history: the records given to addTrace
  hurried,     \* history: has a connect overtaken something still to be handled?
  gone         \* history: the chunks cleared while nobody had them in hand

marks == <<hurried, gone>>
vars == <<tree, chunks, allocList, freeList, edtQueue, edt, session, opened,
          pc, cur, ref, text, allTraces, log, marks>>
lists == <<allocList, freeList>>
sessions == <<session, opened>>
locals == <<cur, ref, text>>

Steps == {"idle", "readText", "writeText", "lookup", "mark", "push", "post", "store"}
Record == [op : Ops, addr : Addrs, session : Sessions]
Chunk == [addr : Addrs, allocated : BOOLEAN, traces : [Ops -> Seq(Nat)]]
Runnable == [op : Ops, chunk : 1 .. Len(chunks)]

TypeOK ==
  /\ tree \in [Addrs -> 0 .. Len(chunks)]
  /\ chunks \in Seq(Chunk)
  /\ \A c \in DOMAIN chunks, op \in Ops : Len(chunks[c].traces[op]) <= HistoryCap
  /\ allocList \in Seq(1 .. Len(chunks)) /\ freeList \in Seq(1 .. Len(chunks))
  /\ edtQueue \in Seq(Runnable)
  /\ edt \in {"idle", "clearTree", "clearLists", "open"}
  /\ session \in 0 .. MaxSessions /\ opened \subseteq 1 .. session
  /\ pc \in [Sessions -> Steps]
  /\ cur \in [Sessions -> 0 .. Len(log)] /\ ref \in [Sessions -> 0 .. Len(chunks)]
  /\ text \in [Sessions -> Seq(Nat)] /\ allTraces \in Seq(Nat)
  /\ log \in Seq(Record)
  /\ hurried \in BOOLEAN /\ gone \subseteq Nat

Init ==
  /\ tree = [a \in Addrs |-> NoChunk] /\ chunks = <<>>
  /\ allocList = <<>> /\ freeList = <<>>
  /\ edtQueue = <<>> /\ edt = "idle" /\ session = 0 /\ opened = {}
  /\ pc = [s \in Sessions |-> "idle"]
  /\ cur = [s \in Sessions |-> 0]
  /\ ref = [s \in Sessions |-> NoChunk]
  /\ text = [s \in Sessions |-> <<>>]
  /\ allTraces = <<>> /\ log = <<>>
  /\ hurried = FALSE /\ gone = {}

-----------------------------------------------------------------------------
(* MainFrame.addTrace, on the handler thread of session s                  *)

\* Polled from the queue, by the handler of an earlier connection too: it was left
\* with tuples in its queue when the user reconnected.
Take(s, op, a) ==
  /\ pc[s] = "idle" /\ s \in opened /\ Len(log) < MaxRecords
  /\ log' = Append(log, [op |-> op, addr |-> a, session |-> s])
  /\ cur' = [cur EXCEPT ![s] = Len(log) + 1]
  /\ pc' = [pc EXCEPT ![s] = "readText"]
  /\ hurried' = (hurried \/ s # session \/ edt # "idle")
  /\ UNCHANGED <<tree, chunks, lists, edtQueue, edt, sessions, ref, text, allTraces, gone>>

\* all_memory_traces += retStr reads ...
ReadText(s) ==
  /\ pc[s] = "readText"
  /\ text' = [text EXCEPT ![s] = allTraces]
  /\ pc' = [pc EXCEPT ![s] = "writeText"]
  /\ UNCHANGED <<tree, chunks, lists, edtQueue, edt, sessions, cur, ref, allTraces, log, marks>>

\* ... and then writes.
WriteText(s) ==
  /\ pc[s] = "writeText"
  /\ allTraces' = Append(text[s], cur[s])
  /\ text' = [text EXCEPT ![s] = <<>>]
  /\ pc' = [pc EXCEPT ![s] = "lookup"]
  /\ UNCHANGED <<tree, chunks, lists, edtQueue, edt, sessions, cur, ref, log, marks>>

NewChunk(a) ==
  [addr |-> a, allocated |-> FALSE, traces |-> [op \in Ops |-> <<>>]]

\* Mutant of Lookup: an address that was freed starts a new chunk.
LookupLive(s) ==
  /\ pc[s] = "lookup"
  /\ LET a == log[cur[s]].addr IN
     IF tree[a] = NoChunk \/ ~chunks[tree[a]].allocated
     THEN /\ chunks' = Append(chunks, NewChunk(a))
          /\ ref' = [ref EXCEPT ![s] = Len(chunks) + 1]
     ELSE ref' = [ref EXCEPT ![s] = tree[a]] /\ UNCHANGED chunks
  /\ pc' = [pc EXCEPT ![s] = "mark"]
  /\ UNCHANGED <<tree, lists, edtQueue, edt, sessions, cur, text, allTraces, log, marks>>

\* getMemoryChunk, or a new MemoryChunk that the tree does not hold yet.
Lookup(s) ==
  /\ pc[s] = "lookup"
  /\ LET a == log[cur[s]].addr IN
     IF tree[a] = NoChunk
     THEN /\ chunks' = Append(chunks, NewChunk(a))
          /\ ref' = [ref EXCEPT ![s] = Len(chunks) + 1]
     ELSE ref' = [ref EXCEPT ![s] = tree[a]] /\ UNCHANGED chunks
  /\ pc' = [pc EXCEPT ![s] = "mark"]
  /\ UNCHANGED <<tree, lists, edtQueue, edt, sessions, cur, text, allTraces, log, marks>>

\* addAllocation, addFree: first the flag ...
Mark(s) ==
  /\ pc[s] = "mark"
  /\ chunks' = [chunks EXCEPT ![ref[s]].allocated = (log[cur[s]].op = "malloc")]
  /\ pc' = [pc EXCEPT ![s] = "push"]
  /\ UNCHANGED <<tree, lists, edtQueue, edt, sessions, locals, allTraces, log, marks>>

\* removeElementAt(0) when there are more than 20.
Trim(seq) == IF Len(seq) > HistoryCap THEN Tail(seq) ELSE seq

\* ... then the trace joins the chunk's history.
Push(s) ==
  /\ pc[s] = "push"
  /\ chunks' = [chunks EXCEPT ![ref[s]].traces[log[cur[s]].op] = Trim(Append(@, cur[s]))]
  /\ pc' = [pc EXCEPT ![s] = "post"]
  /\ UNCHANGED <<tree, lists, edtQueue, edt, sessions, locals, allTraces, log, marks>>

\* SwingUtilities.invokeLater
Post(s) ==
  /\ pc[s] = "post"
  /\ edtQueue' = Append(edtQueue, [op |-> log[cur[s]].op, chunk |-> ref[s]])
  /\ pc' = [pc EXCEPT ![s] = "store"]
  /\ UNCHANGED <<tree, chunks, lists, edt, sessions, locals, allTraces, log, marks>>

\* setMemoryChunk
Store(s) ==
  /\ pc[s] = "store"
  /\ tree' = [tree EXCEPT ![log[cur[s]].addr] = ref[s]]
  /\ pc' = [pc EXCEPT ![s] = "idle"]
  /\ cur' = [cur EXCEPT ![s] = 0]
  /\ ref' = [ref EXCEPT ![s] = NoChunk]
  /\ UNCHANGED <<chunks, lists, edtQueue, edt, sessions, text, allTraces, log, marks>>

-----------------------------------------------------------------------------
(* The event thread                                                        *)

\* addMemoryChunk of AllocationJPanel and addFree of FreeJPanel: a chunk that is in
\* the list already moves to its end.  removeMemoryChunk of both is RemoveFirst.
AddChunk(list, c) == Append(RemoveFirst(list, c), c)

\* Mutant of RunPosted: the last runnable posted runs first.
RunPostedLast ==
  /\ edt = "idle" /\ edtQueue # <<>>
  /\ LET r == edtQueue[Len(edtQueue)] IN
     IF r.op = "malloc"
     THEN /\ allocList' = AddChunk(allocList, r.chunk)
          /\ freeList' = RemoveFirst(freeList, r.chunk)
     ELSE /\ freeList' = AddChunk(freeList, r.chunk)
          /\ allocList' = RemoveFirst(allocList, r.chunk)
  /\ edtQueue' = SubSeq(edtQueue, 1, Len(edtQueue) - 1)
  /\ UNCHANGED <<tree, chunks, edt, sessions, pc, locals, allTraces, log, marks>>

\* The runnables of addTrace: the chunk joins one list and leaves the other.
RunPosted ==
  /\ edt = "idle" /\ edtQueue # <<>>
  /\ LET c == Head(edtQueue).chunk IN
     IF Head(edtQueue).op = "malloc"
     THEN /\ allocList' = AddChunk(allocList, c)
          /\ freeList' = RemoveFirst(freeList, c)
     ELSE /\ freeList' = AddChunk(freeList, c)
          /\ allocList' = RemoveFirst(allocList, c)
  /\ edtQueue' = Tail(edtQueue)
  /\ UNCHANGED <<tree, chunks, edt, sessions, pc, locals, allTraces, log, marks>>

\* The user presses Connect; the reader of the last connection has ended.
Connect ==
  /\ edt = "idle" /\ session < MaxSessions
  /\ hurried' = (hurried \/ edtQueue # <<>> \/ \E s \in Sessions : pc[s] # "idle")
  /\ edt' = "clearTree"
  /\ UNCHANGED <<tree, chunks, lists, edtQueue, sessions, pc, locals, allTraces, log, gone>>

\* The chunks that no handler thread and no runnable has in hand.
Idle == (1 .. Len(chunks)) \
          ({ref[s] : s \in Sessions} \cup {edtQueue[i].chunk : i \in DOMAIN edtQueue})

\* Mutant of ClearTree: clearPanel gives up when setMemoryChunk holds the lock.
ClearTreeUnlessBusy ==
  /\ edt = "clearTree"
  /\ tree' = IF \E s \in Sessions : pc[s] = "store"
             THEN tree ELSE [a \in Addrs |-> NoChunk]
  /\ gone' = Idle
  /\ edt' = "clearLists"
  /\ UNCHANGED <<chunks, lists, edtQueue, sessions, pc, locals, allTraces, log, hurried>>

\* resetGui: MemoryJPanel.clearPanel, without the lock on the tree.
ClearTree ==
  /\ edt = "clearTree"
  /\ tree' = [a \in Addrs |-> NoChunk]
  /\ gone' = Idle
  /\ edt' = "clearLists"
  /\ UNCHANGED <<chunks, lists, edtQueue, sessions, pc, locals, allTraces, log, hurried>>

\* resetGui: AllocationJPanel.clearPanel and FreeJPanel.clearPanel.
ClearLists ==
  /\ edt = "clearLists"
  /\ allocList' = <<>> /\ freeList' = <<>>
  /\ edt' = "open"
  /\ UNCHANGED <<tree, chunks, edtQueue, sessions, pc, locals, allTraces, log, marks>>

\* new Socket, which may throw; a new SocketHandler starts a new handler.
Open ==
  /\ edt = "open"
  /\ session' = session + 1
  /\ opened' \in {opened, opened \cup {session + 1}}
  /\ edt' = "idle"
  /\ UNCHANGED <<tree, chunks, lists, edtQueue, pc, locals, allTraces, log, marks>>

-----------------------------------------------------------------------------
AddTrace(s) ==
  \/ \E op \in Ops, a \in Addrs : Take(s, op, a)
  \/ ReadText(s)
  \/ WriteText(s)
  \/ Lookup(s)
  \/ Mark(s)
  \/ Push(s)
  \/ Post(s)
  \/ Store(s)

EventThread == RunPosted \/ Connect \/ ClearTree \/ ClearLists \/ Open

Next == EventThread \/ \E s \in Sessions : AddTrace(s)

Spec == Init /\ [][Next]_vars

-----------------------------------------------------------------------------
(* Properties                                                              *)

AtRest ==
  edt = "idle" /\ edtQueue = <<>> /\ \A s \in Sessions : pc[s] = "idle"

Known == {tree[a] : a \in Addrs} \ {NoChunk}

\* When everything posted has run, the lists show exactly the chunks of the
\* tree, each once and in the list its flag says; unless a connect has overtaken
\* records or runnables of the connection before.
ListsMatchTree ==
  AtRest /\ ~hurried =>
            /\ ToSet(allocList) = {c \in Known : chunks[c].allocated}
            /\ ToSet(freeList) = {c \in Known : ~chunks[c].allocated}
            /\ IsInjective(allocList) /\ IsInjective(freeList)

\* The records of the current session about an address.
About(a, ops) ==
  {i \in DOMAIN log : log[i].addr = a /\ log[i].session = session /\ log[i].op \in ops}

\* The latest HistoryCap of these records, oldest first.
IsHistory(seq, records) ==
  /\ \A i, j \in DOMAIN seq : i < j => seq[i] < seq[j]
  /\ Len(seq) <= HistoryCap /\ ToSet(seq) \subseteq records
  /\ \A r \in records \ ToSet(seq) :
       Len(seq) = HistoryCap /\ \A i \in DOMAIN seq : r < seq[i]

\* The flag follows the last of these records.
IsFlag(flag, records) ==
  \A last \in records :
    (\A r \in records : r <= last) => flag = (log[last].op = "malloc")

\* At rest, a chunk's flag follows the last record about its address and its
\* history holds the latest records of each kind, of this session alone; with the
\* same exception.
ChunksMatchRecords ==
  AtRest /\ ~hurried =>
    \A a \in Addrs :
      /\ tree[a] = NoChunk <=> About(a, Ops) = {}
      /\ tree[a] # NoChunk =>
           LET c == chunks[tree[a]] IN
           /\ c.addr = a /\ IsFlag(c.allocated, About(a, Ops))
           /\ \A op \in Ops : IsHistory(c.traces[op], About(a, {op}))

\* What connect has cleared stays cleared, whatever is still at work: a chunk that
\* no handler thread and no posted runnable had in hand is never again in the tree,
\* nor, once resetGui has cleared them too, in a list.  Only what was in hand at
\* that moment can come back (MainFrame.resetGui against addTrace).
ClearedStaysCleared ==
  /\ gone \cap Known = {}
  /\ edt # "clearLists" => gone \cap (ToSet(allocList) \cup ToSet(freeList)) = {}
=============================================================================
