# HeapMonitor in TLA+

HeapMonitor shows, live, the heap of a Windows program. A DLL, the **Observer**,
is put into the target by an **injector** and hooks its `malloc` and `free` with a
copy of the **MinHook** library; each call is reported on a TCP socket as one record
(type, size, address, stack trace). A Java Swing **GUI** reads the records and keeps
a map of the allocated and freed chunks. This directory holds TLA+ models of that
system, the TLC configurations that check them on small instances, and TLAPS proofs.

Paths below are relative to `src/`; `heapmonitor/` stands for
`HeapMonitor/src/heapmonitor/`, `MinHook/` for `Observer/libs/MinHook/src/`.

## 1. Inventory

| component | state it keeps | operations | module |
|---|---|---|---|
| Tuple hand-off (`ManagedRunnable`, `MemoryTupleHandler`) | the queue of (address, trace) tuples, `notified`, `shutdownRequested`, `isRunning`, the tuple in hand | `start`, `processIncoming`, `beNotified`, `shutdown`, `run`, `go`, `waitToBeNotified`, `handleIncoming` | `TupleQueue`, `OrderedDelivery` |
| Socket reader (`SocketHandler`) | where in a record it is, the fields read so far, the socket | the read loop, the time-out, the two ends of the stream, `disconnect` | `WireReader` |
| Memory view (`MainFrame.addTrace`, `MemoryChunk`, the panels) | the tree of chunks, the histories of a chunk, the two lists, the runnables posted to the event thread, `all_memory_traces` | `addTrace`, `addAllocation`, `addFree`, `setMemoryChunk`, `addMemoryChunk`, `removeMemoryChunk`, `resetGui` | `MemoryView` |
| Connection life cycle (`MainFrame.connect`, `setSocketHandler`) | `theSocketHandler`, the button's text | connect, disconnect, the end of a connection | `ConnectButton` |
| Memory page (`MemoryJPanel`, `MemoryChunkLabel`, `MemoryMapLabel`) | the tree, the rows of the page shown, the addresses the map spans | `getAllocation`, `loadMemoryPage`, `refreshMemoryPage`, `paintComponent`, `updateMemoryMap`, `clearPanel`, the clicks | `MemoryPage` |
| Observer hooks (`mallocHook`, `freeHook`) | `shouldHook`, `cs`, `ret_buf`, `ClientSocket` | the hooks of every thread of the target | `HookReporting` |
| Observer messages (`Observer.h`) | none | `getBytes` | `WireReader` (`Message`) |
| Observer set-up (`SetupSocket`, the symbol callbacks, `DllMain`) | the sockets, the log, `nUsedMallocHooks`, `originalMallocs`, `profiling` | bind and accept, enumerate modules and symbols, create and enable hooks, detach | `HookSetup` |
| Older Observer (`Observer_dyn.cpp`, `.h`) | the buffers of messages, the log, the socket | its set-up, its hooks, `getBytes` | `ObserverDyn` |
| DllInjector | what its arguments say, the process handle, the name in the target's memory, the suspension it holds | parse, open or launch, suspend, inject, resume, and every error path | `Injection` |
| MinHook: hook table (`hook.cpp`, `thread.cpp`) | `gHooks` with its flags, the code of the targets, the frozen threads | the nine calls of the API, freeze, patch, unfreeze | `HookTable` |
| MinHook: buffer (`buffer.cpp`) | the memory blocks, with committed and uncommitted sizes and counts | allocate, commit, roll back, free | `CodeBuffer` |
| MinHook: trampoline (`trampoline.cpp`) | the copy of a function's head, addresses to fill in, the table | copy or replace each instruction, place the jump, resolve | `Trampoline` |
| MinHook: disassembler (`HDE32`, `HDE64`) | none | `hde32_disasm`, `hde64_disasm` | `Hde`, `Hde32`, `Hde64` |

**How they interact.** The injector suspends the target or launches it suspended,
writes the library's name into it, runs `LoadLibrary` there in a thread of its own
and waits. That thread, under the loader lock, runs `DllMain`: it waits for the GUI
to connect, walks the modules and calls MinHook for each `malloc` and `free`. MinHook
copies the head of a function into a trampoline in a block near it, stops all other
threads and writes a jump over the head. From then on every thread of the target
runs the hooks; they share one flag, one critical section, one buffer and one
socket. On the GUI's side three kinds of thread meet: the socket thread
(`SocketHandler.run`), which decodes records and adds tuples to the queue; the handler
thread (`MemoryTupleHandler.go`), which drains the queue into `MainFrame.addTrace`;
and the Swing event thread, which runs what the other two post with `invokeLater` and
everything the user clicks. The socket thread also renames the button when its
connection ends, and a connect clears the view the handler thread is filling.

**What is hard here.** Almost no field shared by two threads is protected: the
flag of the hooks, the button and the handler reference, the text of all traces.
The hooks are re-entered by the allocations of their own stack walk. The read
time-out of the socket may fire anywhere in a record. Handler threads are never
told to stop. The handler thread reads the table of the memory page, which the event
thread empties and refills. The injector waits without limit for a thread that
waits for the loader lock. MinHook changes code that suspended threads may stand in,
while threads are born, end and are suspended by others, and each of its calls of
Windows may fail half way. Nothing is persisted, so there is no crash recovery, except that
either end may disappear at any moment. `PROJECT.json` lists each of these
hazards at its line, with the properties that cover it.

**What makes each component correct.** *Hand-off*: nothing is lost, duplicated or
reordered, no wakeup is lost. *Reader*: what is queued is what was sent, and the
thread ends with its connection. *View*: tree, lists and histories agree
with the records of the connection once the event thread has caught up. *Life
cycle*: one socket thread reads at a time, and the button tells the truth. *Page*: a row is
painted as the target's heap is, a look-up comes back, and neither thread fails on
an emptied view. *Hooks*: a record sent is the record encoded, a free's record does
not overtake that of its malloc, reporting is never switched off for good, `malloc`
always returns. *Set-up*: a detour finds its own function's original, a failure leaves
nothing open. *Injector*: it gives back the suspension it took, and ends. *Hook
table*: a jump is backed by a hook, no thread runs into half written or released
code, every thread is resumed. *Buffer*: pieces are disjoint, backed and within reach.
*Trampoline and disassembler*: the copy does what the original did.

## 2. The modules

| module | models | EXTENDS / INSTANCE |
|---|---|---|
| `OrderedDelivery` | the promise of the hand-off, abstractly | |
| `TupleQueue` | the hand-off | INSTANCE `OrderedDelivery` |
| `HookReporting` | `mallocHook` and `freeHook` in a running target | |
| `WireReader` | the layout of a record and the reader | |
| `MemoryView` | what `addTrace` and a connect do to the view | |
| `MemoryPage` | the page of memory, its painting and its look-ups, on two threads | |
| `ConnectButton` | connect, disconnect and the end of a connection | |
| `HookSetup` | the Observer's set-up and its end | |
| `Injection` | injectors, the target's threads and loader lock, with the set-up inside | EXTENDS `HookSetup` |
| `ObserverDyn` | the older library, its hooks over the same set-up | EXTENDS `HookSetup` |
| `HookTable` | MinHook's table, the freezing of threads and what threads execute | |
| `CodeBuffer` | MinHook's memory blocks, as CreateHook and RemoveHook use them | |
| `Hde`, `Hde32`, `Hde64` | the disassembler, and its two sets of tables | `Hde32`, `Hde64` INSTANCE `Hde` |
| `Trampoline` | the making of a trampoline | INSTANCE `Hde32`, `Hde64` |
| `...Proofs` | theorems about the module of the same name | EXTENDS it and TLAPS |
| `ConnectionProofs` | theorems about what surrounds a connection of the GUI | EXTENDS `ConnectButton`, `TupleQueue` and TLAPS |
| `SetupProofs` | theorems about the set-up and both programs that run it | EXTENDS `Injection`, `ObserverDyn` and TLAPS |
| `MC...` | the instances TLC checks | EXTENDS the module of the same name |

Every module declares its parameters as constants with named assumptions; the
assumptions whose name speaks of bounds cap a counter that the code does not have
(`MaxTuples`, `MaxEvents`, `MaxCalls`, `MaxDepth`, `MaxRecords`, `MaxSessions`,
`MaxConnections`, `MaxReports`, `MaxPosted`, `ShutdownCalls`, `SocketRoom`,
`MaxSteps`); `HeldIn` of `HookTable` is a bound too. Definitions whose comment begins with *Mutant of* stand beside the
definition they distort; no specification uses them. Replacing the original by the
mutant breaks the property `PROJECT.json` pairs it with.

**TupleQueue.** A `synchronized` block is one step, because whatever it reads and
writes is read and written under the same monitor. `Object.wait` is two: it joins
the wait set (`handler = "waiting"`), and after a notification, or spuriously, it
rechecks the condition (`"woken"`). Adding to the queue and `beNotified` are two
blocks of two monitors, so they are two steps, as are the test for an empty queue
and `poll`. `accepted` and `handled` are history variables. `shutdown` is part of
the class but the GUI never calls it: both happen, since `Shutdown` is an action
without fairness. The timed variant of `waitToBeNotified` has no caller.

**HookReporting.** `frames[t]` is the stack of hook calls of thread *t*, because a
stack walk may call `malloc` and `free` itself. Each read and write of the plain
`bool shouldHook` is a step; `EnterCriticalSection` waits for `owner`; `Encode`
fills the one shared buffer; `Send` blocks while the socket is full. The original
`malloc` or `free` takes effect before the hook does anything else
(`Observer.cpp:54`, `:90`); `live` is what the allocator has handed out, `held`
what has reached a caller, so that only addresses the target can know are freed. A
Windows critical section may be entered again by its owner; between
`EnterCriticalSection` and `LeaveCriticalSection` a hook calls `getBytes`, `send` and
`fprintf` to the log (`Observer.cpp:75`, `:108`). None makes a hooked call: the log's
buffer is allocated when the set-up writes its first line (`:217`), before a hook is
enabled. So the model has no such step. That `fprintf` may wait for the disk, and what it
writes, is left out. The two
hooks differ in the record they make and in what they return; `mallocHook` and
`freeHook` share the steps, and `map` names the lines of both.

**WireReader.** A record is a sequence of cells: one for the type, one for the
size, two for the address (the low and the high half of its eight bytes), one for
the length and one per byte of trace. A field that `readFully` reads whole is
read cell by cell, so the time-out may fall inside it if `MidRecordStalls` allows. A
length cell with its top bit set is negative as a Java `int`, and `new byte[n]` then
throws an exception `run` does not catch. `Message` models what `getBytes` writes,
`*(long *)buf = (long)ptr` included: on Windows `long` has four bytes on x64 too.

**MemoryView.** Each step of `addTrace` is an action of the handler thread, with
local variables (`cur`, `ref`, `text`) per thread, because each connection makes a
handler of its own and the old one lives on. `resetGui` is two steps, the tree
and the lists. A list is a sequence of chunks, to which `AddChunk` moves a chunk and
from which `RemoveFirst` takes it, as the `DefaultListModel` does. The event thread
runs posted runnables one at a time, and not while it is inside `connect`. The user may
connect at any moment, and an earlier connection's handler may take records at any moment
after it; two history variables say what that means for the view. `hurried` is set when
a connect overtakes something, that is, when it begins with runnables posted or a record
in hand, or when a handler takes a record of an earlier connection. `gone` has the chunks
that nobody had in hand when the tree was last cleared.

**MemoryPage.** The tree maps an address to a flag and a last size. `addTrace` is a
sequence of steps of the handler thread: the flag, the put, the copy of the tree, the
bounds of the map, and `refreshMemoryPage`, which reads the table in two (`TestRows`,
`ReadRow`). `put` and `putAll` are separate, because `clearPanel` does not take the lock
they are under; if it clears the tree between them the copy is empty and `firstKey`
throws (`UpdateMapEmpty`). The runnable of `loadMemoryPage` empties the table
and refills it in two steps of the event thread (`LoadPage`, `FillPage`), since the
handler thread may look in between. `RowFills` is the sequence of rectangles
`paintComponent` fills in a row, later ones over earlier ones; `PaintedRight`
compares it, byte by byte, with `Truth`, which knows neither rows nor the order of
keys. `LowerAllocation` and `HigherAllocation` are recursive functions and end,
because each call asks about a smaller (larger) key. With `LOWER_EQUAL_ADDRESS` the
recursion need not end, so it is made of steps (`Ask`, `Overflow`). The addresses of
the Windows heap are multiples of the header's eight bytes and rows have 0x80, so a row
never splits a header; `page` takes addresses of which that is true. Each look-up sees one consistent tree, though the code
reads the `TreeMap` without a lock there. Every report of the target is taken to
arrive (`FreeSpace`).

**ConnectButton.** Both threads write the handler reference (`theSocketHandler`) and
the button's text in separate steps. A click on *Disconnect* with no handler throws on the event
thread; the exception is recorded in `crashes`. The socket thread leaves its loop when
the stream has ended (`EndLoop`), and on a type byte 0xFF while the socket is open
(`EndLoopOpen`), since `run` takes that byte for the end of the stream and never closes
the socket. It leaves `run` with an exception when a length is negative or too large for
an array (`Die`): then nothing clears the handler. A reader in step with the stream does
neither; one that a stall has put out of step may (`WireReader` has how), so both are
possible at any moment.

**HookSetup.** `SetupSocket` is one step per call of Winsock, each of which may fail;
`held` is what has been acquired and not released, and every error path releases
what the code there releases. The enumeration reports modules in any order, and
the symbols of a module those named `malloc` first, because each callback of a
module makes two searches. MinHook is seen through its interface: `MH_CreateHook`
hands out a trampoline or fails, `MH_EnableHook` puts the jump in place or fails, and
the slot is used up whatever they answer (`Observer.cpp:244`). `Detach` is what
`DllMain` does when the process ends.

**Injection.** `parse` is the state of `main`'s loop over the arguments, one turn per
step, so that an argument which swallows the next ones (`-a`) is modelled by what it
does. Every call of Windows on the way (open or launch, suspend, allocate, write,
create a thread, wait, resume) may fail and takes its own path. With neither `-p` nor
`-e` the process handle is never assigned (`"garbage"`), and the first call that is
given it fails. In the target there are its own thread, which may hold
the loader lock when it is suspended, and one thread per injector, whose
`LoadLibrary` takes that lock; the first one runs `HookSetup`, a second `LoadLibrary`
of the same library does nothing. Suspensions are counted per thread, as Windows does.

**ObserverDyn.** The older library is in no project file and has neither the flag nor
the critical section: `frames[t]` nests as deep as the stack walks make it. Each call
allocates two buffers in `getBytes` (one for the base class's part, one for the
message), frees the first and, after `send`, the second. `send` is two steps, since
nothing keeps another thread's bytes from getting between; what one `send` writes may
be split there. The library links its C runtime statically, so its own allocations
are not hooked. The thread that loads it is inside `dbghelp` during set-up and its
calls go through the hooks enabled so far. A `malloc` that fails, or a log that is
null, ends the process (`"dead"`).

**HookTable.** A call of the API holds `gCS` throughout, so at most one is under way,
and its steps are: begin (check the arguments, list the threads, or none if the
snapshot fails), freeze each listed thread in any order and move its instruction pointer if it
stands in bytes about to change, write the bytes of each hook (or fail to:
`VirtualProtect`), and unfreeze. `FreezeGivesUp` is the early return of
`thread.cpp:139`. The head of a function is `Last` instructions; the trampoline has a
copy of each and a jump back. A thread is in the source, the relay, the detour, the
trampoline, or in memory that was released, at a step. Threads start and end, and
another process suspends and resumes them, at any moment, during a call too (`Hold`,
`LetGo`; `HeldIn` bounds where it finds them). Three history
variables tell which threads a property is about: `jumped` took a jump, `stray`
were not stopped, or moved in vain, `gaveUp` is set when Freeze returned early.

**CodeBuffer.** A block is what `buffer.cpp` reserves near an origin; a piece is what
one `AllocateCodeBuffer` or `AllocateDataBuffer` hands out. Creating a hook allocates
the trampoline, its table, the backup and the relay in this order and
commits them, or rolls all of them back if a call on the way fails. Only x64 needs
the table and the relay, and only there must pieces be near each other. `WithinReach`
is about the pieces and the function; an operand of the copied head that is relative to
the instruction, of data which is far from the function already, is not in it. Changing the
pages' protection is left out.

**Hde, Hde32, Hde64, Trampoline.** The bytes are real ones: `Hde` decodes with the
tables of `table32.h` and `table64.h`, and returns what `CreateTrampolineFunction`
reads (length, opcode, whether there is a relative operand, ModRM, the immediate's
size). `Trampoline` copies or replaces one instruction per step, records in `pieces`
what was written for which old position and in `tempAddr` which addresses are still
to be filled in, and resolves those at the end. What an instruction *means* stands
beside its bytes, in the record the program is made of, and the disassembler never
sees it: this is what the properties compare with.

## 3. The runs

| run | instance | shows |
|---|---|---|
| `queue` | 3 tuples of 2 kinds, 2 calls of `shutdown` | `InOrder`, `NoLostWakeup`; `ShutdownStops`: only tuples that arrive after the request postpone the stop; the hand-off implements `OrderedDelivery` (`DeliversInOrder`), liveness included |
| `hook` | 2 threads, 1 address, 3 operations, calls nested 2 deep, a socket that buffers 1 record | `BufferIntact`, `FreeFollowsItsMalloc`, `ReportingRestored`, `EveryCallReturns`; `LastReportTrue` for the histories of one thread |
| `wire` | 3 records of 4 kinds, no stall inside a record, 32 bits | `ReceivedAsSent`, `NeverDies`, `ReaderEnds` |
| `view` | 2 connections, 3 records, 2 addresses, histories capped at 2 | `ClearedStaysCleared`, whatever is still at work; `ListsMatchTree`, `ChunksMatchRecords` where no connect overtakes anything |
| `page` | 3 reports, 4 addresses, rows of 4 bytes, pages of 8, chunks of 0, 1 and 7 bytes, headers of 2 | `PaintedRight`, `SurvivesUndisturbed` |
| `page_lookup` | 2 reports, 3 addresses | **violated**: `LookupReturns` |
| `button` | 4 connections, lost, misread or dying at any moment | `OneReader`; `ButtonTellsTruth` and `CanReconnect` while no connection ends before `connect()` returns, the latter unless the reader has died |
| `attach` | 2 injectors, 6 command lines, 3 modules of which 1 is avoided, 2 slots | `OriginalBehindEveryJump`, `NothingLeftBehind`, `SuspensionReturned`, `SuspensionsCounted`, `InjectorEnds` |
| `minhook` | 2 threads, 2 functions, 2 instructions overwritten; another process suspends threads outside the functions | `JumpsAreBacked`, `StoppedWhilePatched`, `NoTornInstruction`, `SuspendsBalanced`, `ReleasedOnlyBehindJump`, `CallNeverStuck` |
| `buffer` | 3 functions, 6 places for blocks of 4 units, x64 | `PiecesDisjoint`, `PiecesBacked`, `WithinReach` |
| `create` | a sample of every kind of instruction before plain ones, and all functions of up to 2 instructions and a last one, in 5 surroundings, both processors | `DecodedRight`, `SameFlow`, `OverwritesItsOwn` |
| `older` | the loading thread and 2 others, 3 calls, nested 2 deep, 3 modules of which 1 is avoided, 1 slot | `EveryCallReported`, `BuffersHeld`, `LogUsedWhileOpen` |

Beside these, each module states its types (`TypeOK`, `DynTypeOK` in `ObserverDyn`).
They are proved where section 5 says so; of the others TLC was asked while the models
were written, and the runs do not repeat it.

**Why the bounds are enough.** *queue*: one tuple in hand, one queued and one not
yet notified is the longest the interplay gets. *hook*: three operations let an
address be allocated, freed and allocated again, by two threads, one of them from
inside a stack walk; a socket of one record blocks at every second report. *wire*:
two records show a stream read out of step, a third one read in step again. *view*:
three records let a chunk be allocated, freed and allocated again, or a history of two be
trimmed, or two handler threads be at work on the same address with a third record of
the new connection behind them; the code's cap of 20 is only a longer history, and the
proofs are for any number of records. *page*: a chunk of 7 bytes at 2 spans three rows and two pages, the addresses 4
and 8 start a row, so their headers end one, no header is cut by its chunk's row (as
`HeadersInRows` in section 5 asks), and three reports put an allocation
inside a freed chunk; one page asked for and not yet loaded is enough to empty the
table at any moment. *button*: with four connections one can be lost, one left
open and one disconnected before the last dies. *attach*: the command lines take each path of the parser, with the process
named twice, once, or not at all; two injectors interfere, and a third would meet the
same states of the target; two modules share a function, so it is created twice, and two
slots run out. *minhook*: two functions let one hook be changed, erased or queued
while another one stays, and a jump of two instructions has an inside; two
threads let one be stopped, or held, while the other runs, starts or ends. A thread is
held where it stands when the run begins, inside an overwritten head too, or later outside
the functions; the proofs cover any number of threads and functions, held anywhere. *buffer*: a block holds three or four pieces, so one hook fills it and
the next one needs another; one function is too far away to share. *create*: two
instructions and a last one are enough for every jump over a stretched, a shrunk and
an unchanged piece, forwards and backwards. *older*: three calls let two threads nest
and interleave, and one slot is full after the first function of a kind.

**Fairness.** Threads that can run are scheduled: weak fairness of each thread's
steps, and nothing more. The target is never obliged to call `malloc`, the user
to click, anybody to call `shutdown`, a wait to return spuriously or the socket thread to
misread. `ShutdownStops` owes nothing to `MaxTuples`: it promises the stop, or that more
tuples are handled than had been accepted at the request. The GUI's
socket thread is assumed to go on reading (`WF(GuiRead)`) until it disconnects:
its queue is an unbounded list, so it never waits for the handler. The critical
section needs no strong fairness, because its owner always leaves it and the
bounded number of operations bounds the competition. In *WireReader* the network
delivers what was sent (weak fairness of `Arrive`), unless the connection is reset.
In *Injection* the injectors and the threads they make are scheduled, the target's
own thread leaves the loader lock if it runs, and the GUI connects when the Observer
waits in `accept`; `InjectorEnds` excepts the injectors whose thread is suspended,
or waits for a loader lock whose holder is. *HookTable*, *CodeBuffer*, *Trampoline*,
*MemoryView*, *MemoryPage* and *ObserverDyn* assume none: their properties are safety
ones, and `CallNeverStuck` says with `ENABLED` that a step exists, which is what
liveness would need.

**Deadlock** is checked where the system never stops, in *button* and *buffer*. Elsewhere
it does: after the last tuple the handler waits for ever; a target that has used up
its operations, a connection with both ends closed, an injector that has exited, or a
finished trampoline have nothing left to do.

## 4. What was met while modelling

`page_lookup` is violated: `MemoryJPanel.java:546` asks `floorEntry` again with the
key it has just found. A click on the bytes of a freed chunk, or *Go* to one, ends in
a `StackOverflowError`; the comments at lines 130 and 542 say "Get the allocation for
this address" and "Make sure it is allocated".

More was met that no run states, mostly because no text of the repository
promises otherwise. The models reach all of it.

* *GUI.* A time-out in the middle of a record is swallowed and the reader goes on as
  if a record began there (`SocketHandler.java:131`; with `MidRecordStalls = TRUE`
  in `WireReader.cfg`, `ReceivedAsSent` fails). Out of step, a type byte 0xFF ends the
  loop and leaves the socket open, unread, beside the next connection's; a negative or
  huge length ends the thread with the handler set, and the user can never connect again
  (`SocketHandler.java:94`, `:111`). While tuples keep arriving the handler thread never
  looks at a stop request (`MemoryTupleHandler.java:44`). A connection that ends before
  `connect()` returns leaves a *Disconnect* button without a handler, for ever. The
  old connection's handler thread is never shut down and adds stale chunks after a
  quick reconnect (`ListsMatchTree` and `ChunksMatchRecords` without `~hurried`);
  `ClearedStaysCleared` says which can come. The text of all traces survives a
  connect (`MainFrame.java:582`). The handler thread dies if the event thread empties
  the table between `MemoryJPanel.java:508` and `:512`, or the tree between `:459` and
  `:460`, and a click on the map after
  a connect throws, because its addresses outlive the tree.
* *Observer.* `shouldHook` is one flag for all threads: an operation that overlaps
  another thread's report is dropped, and two threads that pass the test together
  may report from inside each other's report. The record of a free can be
  overtaken by that of the next `malloc` of the same address. `Observer.h:184` writes the low half of a 64-bit address
  (`Records <- X64Records`). `pFile` is closed but not null after a failed
  `SetupSocket`. The result of `MH_Uninitialize` is ignored.
* *Injector.* With neither `-p` nor `-e` the handle is garbage. A failed launch leaves
  the new process suspended. After a failed attach, `resume` is given a handle that
  `LoadLibraryInjection` has closed. A second injection loads nothing. The wait without
  limit never ends when the target was suspended inside the loader lock.
* *MinHook.* `Freeze` may return early, and `Unfreeze` then resumes threads it has
  never suspended (`gaveUp`). A jump inside the copied head, backwards over a
  replaced instruction of another length, goes astray (the exception `SameFlow`
  makes). HDE takes `0F F6` and `0F F7` for instructions with an immediate, and reads
  the prefix 67 wrongly in 64-bit code; no sample uses them. A creation that fails
  after reserving a block leaves it registered and empty.
* *Older Observer.* The recursion of stack walks has no guard (`MaxDepth` caps it),
  two threads may tear each other's records, and `fprintf` may be given a null log.

## 5. What is proved

Every theorem holds for all values of the constants, from the named assumptions of
the modules it is about, and nothing else is assumed.

**ConnectionProofs, of `TupleQueue`** (any set of tuples, any number of them and of
calls of `shutdown()`). `TypeCorrect`, `OrderCorrect`, `WakeupCorrect`, `ShutdownWakes`:
`TypeOK`, `InOrder`, `NoLostWakeup` and `NoSleepAfterShutdown` are invariants.
`Refinement`: `Spec => Delivery!Safety`, the safety half of the refinement under
the mapping `stopped <- shutdownRequested`.

The inductive invariant `Inv` is `TypeOK` and four facts. `NotStarted`: before
`start()` the handler has no thread and nothing has been added.
`SleepsUnnotified`: a thread in the wait set found neither a notification nor a
stop request, and none has been given since, because both wake it.
`WorkIsNotified`: while there is work and the handler is anywhere it could go to
sleep from, the notification is set or about to be given (`reader = "notify"`);
`NoLostWakeup` alone is not inductive, because it says nothing of a handler that
is on its way to the wait. `InOrder`: what was accepted is what was handled,
followed by the tuple in hand and the queue; it is proved per action, with one
lemma (`OrderKept`) for the actions that leave the queue, the tuple in hand and
both histories alone.

**HookReportingProofs** (any number of threads, any set of addresses, any depth of
nesting). `SectionExcludes`: at most one thread is inside the critical section.
`BufferCorrect`: `BufferIntact`. `ReportingComesBack`: `ReportingRestored`.
`BufferIntact` needs to know who may write `ret_buf`, so `Inv` says of each frame
where it can be: only the top frame of a thread is outside its stack walk
(`NestedInTrace`), and a frame is between `EnterSection` and `LeaveSection` just if
its thread owns the section (`SectionOwned`). `ReportingRestored` alone is not
inductive, since it says nothing while a call is under way; `FlagDownInReport` is
its strengthening: while the flag is down, some thread is on a path that ends in
raising it. Each action is an instance of one of three lemmas (`MoveStep`: the top
frame of a thread moves on; `CallStep`: a call is pushed; `ReturnStep`: one is
popped).

`FreesFollow` and `LastReportsTrue` are about the history of the target. `History`
says which events are still being reported (`Pending`) and what that means for the
heap: an address whose `malloc` hook is still running is allocated and nobody has it
(`NotHeldYet`); the hook that allocated an address somebody holds has returned, and so
has that of every `malloc` that a free has undone (`HeldReturned`, `UndoneReturned`).
A free is an operation on an address somebody holds, so when its record is sent that
of the `malloc` has been, or never will be: this is why no free overtakes its `malloc`,
while the next `malloc` may overtake the free. `LastReportTrue` is about one thread at
work. `Solo` is what then holds besides: nested calls find the flag down and only
return (`NestedQuiet`), and what is still to be sent happened after all that was
(`SendsLatest`), so that records are sent in the order of the events (`Rising`). If as
many have been sent as have happened, each has been sent in its place, and the last
event about an address is the last record about it (`LastEventTrue`).

**WireReaderProofs** (any set of records and any cutting of the stream). `TypeCorrect`
needs no hypothesis: whatever is queued is a record, in step with the Observer or not,
because what has been read of a record (`Half`) already has a kind that the field being
read belongs to. `DeliversAsSent` and `ReaderSurvives` are `ReceivedAsSent` and
`NeverDies`. Both suppose traces whose length is not negative as a Java `int`
(`ShortTraces`; otherwise `new byte[n]` throws) and a network that does not stall for a
second inside a record (`~MidRecordStalls`; otherwise the rest of a record is read as the
next one, section 4). `DeliversAsSent` supposes besides a 32-bit target (`Win32`): of a
64-bit one the high half of an address is lost (`Observer.h:184`). `DeliversHalved` says
what is left then: the records whose low half is not null (`Told`) are queued in
order, whole but for the high half (`Halved`). The instance of `wire` satisfies all three.
The inductive invariant `InStep` has a number *n* of records that are done: `Delivered(n)`
says what of them is queued; `Aligned(n)` that the reader is between two records or
inside record *n + 1*, that the fields it has read are those of that record, cell by cell, and that
the cells under way, from the socket's buffer to the end of the network, are the rest
of that record and the messages of all later ones. The stream is not a
concatenation here, which would be a recursion: `OnWire` gives for each cell under way
the record and the place in it that it comes from.

**MemoryViewProofs** (any addresses, sessions, records and cap). Unconditionally,
`TypeCorrect` and `BaseInvariant`: the types; a handler thread past its look-up has a
chunk of its record's address (`Locals`), the tree has chunks under their own
addresses, and a list shows no chunk twice (`ListedOnce`). Two handler threads, an old one
and a new one, may be at work at once. `ListsRight` and
`ChunksRight` are `ListsMatchTree` and `ChunksMatchRecords`, about histories in which no
connect has overtaken anything (`~hurried`). The code does not enforce it (section 4 says
what happens otherwise); it holds whenever the user lets the GUI catch up before connecting
again. These properties speak of moments of rest, so the inductive invariant `ViewInv`
says what holds in between, as long as `hurried` is false. `Alone`: only the
current connection's thread works, on the latest record, and not while `connect()` runs.
`Histories`: the chunk an address has, in the tree or in the hands of that thread, has
the flag of the last *marked* record and the histories of the *pushed* ones
(`MarkedAbout`, `PushedAbout`), so that the record under way counts as far as `Mark` and
`Push` have come. `Listing`: a chunk is where its flag says, except that
the last runnable still posted for it decides if there is one, and except while its
flag has been changed and nothing posted yet (`Shown`). `Cleared` says in which order
`connect()` empties tree and lists. The lemmas before them say what `RemoveFirst` and
`AddChunk` do to a sequence without duplicates, and what `Trim` does to a history
(`HistoryGrows`: the latest `HistoryCap` records stay the latest).

`ClearedStays` is `ClearedStaysCleared`, of all histories. Its invariant `Aside` adds that
no handler thread and no posted runnable has a chunk of `gone` in hand: a thread gets hold
of a chunk by making it, which is new, or from the tree, which has none of them; and a
runnable gets it from its thread.

**ConnectionProofs, of `ConnectButton`** (any number of connections).
`ButtonTypeCorrect`, `OneReads` and `ButtonTrue`: `ButtonTypeOK`, `OneReader` and
`ButtonTellsTruth`. `ButtonInv` adds that every connection but the last has cleared the
handler's reference (`OthersSettled`), and that the reference is null while `connect()`
opens a socket and names the last connection from `Execute` until that connection's
worker clears it (`LastFollowed`). A click connects only when the reference is null, so
the last worker has left its loop; a worker that has died has not cleared it, and no
connection follows. How the loop ended plays no part, and the socket may be open still.
`ButtonTrue` needs, as long as no connection has ended before `connect()` returned, that
a connection is opened only after the last worker is done and that the text changes at
`connect()`'s return and at the worker's end alone (`ButtonFollows`).

**MemoryPageProofs** (any addresses and sizes, rows and pages of any length, any number
of reports and of posted pages). `TypeCorrect`, `PaintsRight` and `OnlyDisturbanceKills`:
the types, `PaintedRight` and `SurvivesUndisturbed`. `PaintsRight` supposes that each
address starts a row or is at least a header behind its start (`HeadersInRows`).
Addresses that are multiples of 8 are, with headers of 8 and rows of 0x80; a row that
split a header would not be painted right, since `paintComponent` paints the header of
a chunk of the row only if it starts in that row.

What is painted has nothing to do with steps; it follows from two facts about the
tree: that it is one (`TreeRight`), and that allocated chunks and headers do not overlap
(`Laid`). `LowerAllocationIs` and `HigherAllocationIs` say what the recursive look-ups
return; `LoopUnfolds` and `LoopColours` say that the loop of `paintComponent` ends and
what it paints from each key on. The provers have no induction over a formula, so each
is proved by contradiction, from the least or the greatest address at which it is false
(`Least`, `Greatest`): the call there is about a smaller or a larger address, where it
is true. `OverlapIs` and `UnderlapIs` are about the chunk before the row and the header
after it, and `PaintedIsTruth` puts them together: each byte of the row has the colour
of the last rectangle over it (`ColourOfBoth`), and that is its `Truth`. The inductive
invariant, which TLC checked on the instance of `page` first, has the rest: the types (`Typed`); that the
allocator's answer still fits while the report is on its way into the tree, when its
chunk may be between two states (`ReportFits`); and that a table the handler has seen with
rows, and a tree it has put a chunk into, have lost them only to the event thread
(`RowsRead`).

**HookTableProofs** (any set of functions and of threads, any number of overwritten
instructions). All the invariants of `minhook` but `CallNeverStuck`: `JumpsBacked`,
`Stopped`, `NoTorn`, `Balanced`, `ReleasedBehindJump`, and `TypeCorrect`. The invariant
`Inv` says how flags, code and call fit together: the flags match the code, what is to be
erased is disabled or still to be (`FlagsMatchCode`, `ErasedWhenDisabled`), what each
phase of a call leaves behind (`Phases`), and that a suspend count is the
holder's plus the call's own (`Counts`), which is what *stopped* means. The rest is
where threads stand: nowhere if they do not exist (`Nowhere`); if they are frozen, not
where bytes are about to change (`Settled`); behind the first byte of a jump only if
they are frozen and the jump is about to go, or are stray (`TornOnlyFrozen`); in a
trampoline they did not jump to only while its hook is, or is about to be, enabled
(`InTrampolineBehindMove`). `NoTornInstruction` alone says nothing of the moment when
threads have been moved and bytes are not yet written. The steps fall into five kinds, each with its lemma (`TableStep`,
`BeginStep`, `MoveStep`, `LifeStep`, `FreezeStep`), by what they leave alone.

`CallCanGoOn` and `CallEnds` say without `ENABLED` what `CallNeverStuck` is about. While a
call is under way the guard of one of its steps holds (`StepReady`): Freeze has an
answer for each thread it has listed, because a thread of the list may have ended but
cannot never have existed (`ListedWereAlive`), and of the hooks still to change there is
a first one (`LowestExists`). Each step of the call makes the number `StepsLeft`
smaller, and no step of a thread changes it, so the call ends after at most that many
steps, early returns included, if the process has finitely many threads. That the
thread which makes the call is scheduled is the only thing left to assume.

**CodeBufferProofs** (any finite set of functions, any places a block's size apart, any sizes
that fit a block). `Disjoint`, `Backed`, `Reach`: the three invariants of `buffer`; `Counted`:
each block counts its pieces. `IInv` adds to them that what a block has given out
fits it (`Fits`), that a piece of a creation under way lies in the uncommitted part
(`PendingBacked`), that a block's counts are the numbers of
committed and uncommitted pieces in it (`CountsRight`), that a piece in use has an
address (`Located`), and what function the call in progress is about (`CallAbout`). Counts need bijections of finite sets, and are
the heart of `Backed`: a block is given back when its count reaches zero, so the
count must be that of its live pieces. `Reach` follows with `PiecesNear`: each piece
was asked for near its function or near the trampoline.

**SetupProofs** (any number of injectors, command lines, modules, functions, slots,
threads and calls). The set-up is run by two programs, so its lemmas come first and are
used for both. `LoadInv` keeps what is held at each call (`Holdings`), the state of the
log (`LogKept`), that a slot below the counters belongs to the function whose detour it
is (`SlotsRight`), and that nothing is enabled before its time (`Ready`); `SetupInv`
adds the critical section (`SectionRight`), which the older library does not have.

Of `Injection`: `OriginalCorrect`, `JumpsReady`, `NothingLeft`, `LogRight`, and for the
injector `Counted`, `Stopped` (the target's own thread does not run while the Observer
is set up, which `DllInjector.cpp:248` relies on), `Returned` and `Freed`. `IInv` says
of each injector what it holds where it is in `main` (`Stage(i)`), and that the
suspensions of the target's thread are the holders' (`SuspensionsCounted`), a
count of a finite set.

Of `ObserverDyn`: `DynReports`, `DynBuffers`, `DynLogRight` and `DynTypeCorrect`, that is
`EveryCallReported`, `BuffersHeld`, `LogUsedWhileOpen` and the types, for threads that
nest and interleave as they like. `DynInv` says of each thread that its hooks are calls
of its own, each a different one, and all but the innermost in their stack walk
(`FramesRight`); that the thread has exactly the buffers its innermost hook has at that
step (`BuffersAt`); and, while the GUI is connected, what of each call is in the
stream (`SentAt`): nothing, its first half as the last thing its thread has sent, or
all of it. The nesting is in `BuffersRight`: a stack walk begins with no buffer of its
call allocated, so what a nested call leaves is nothing.

Only model-checked:

* all liveness and the liveness half of the refinement: the prover has no rule for
  fairness;
* `CallNeverStuck`, which is stated with `ENABLED`; `CallCanGoOn` has the guards instead;
* `LookupReturns`, which is false (section 4);
* `DecodedRight`, `SameFlow` and `OverwritesItsOwn` of `Trampoline`. They compare
  what the disassembler reads in the bytes of an instruction with what the instruction
  means, and the meaning stands beside each sample of the instance. A theorem would
  suppose of every instruction that it is decoded right, which is what is in question;
  it takes the samples to say that the tables are.

## 6. Not modelled, and the plan

Not modelled: the dialogs and Swing layout (no state but a flag and a text area);
`Trace` and `AllocationTrace` (immutable data, and their formatting); the colours,
the selection and the map's own picture; `TestAllocations`, a manual test; the
protection of pages in `CodeBuffer`. More than half of the repository's lines of C
are declarations that a model has nothing to say of: `dbghelp.h`, Microsoft's
header, and `pstdint.h`.

Next:

1. A composition of hooks, wire, queue and view, with an abstract specification of
   the whole: what the lists show is the target's heap, as far as it was reported.
2. `HookSetup` over `HookTable`: the two calls of MinHook refined by its steps.
3. Proofs: of the composition of item 1, that each part's promise is what the next one
   assumes; and of `Trampoline`, that a copy of any length keeps the flow of the original
   if its instructions are decoded right, which separates `SameFlow` from the tables.
