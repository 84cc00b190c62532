---------------------------- MODULE HookReporting ----------------------------
(***************************************************************************)
(* The malloc and free hooks of Observer.cpp in a running target.  A hook  *)
(* first calls the original function, then reports the operation to the    *)
(* GUI, unless the global flag shouldHook says that some hook is reporting *)
(* already.  Walking the stack may itself allocate and free, so a thread   *)
(* has a stack of hook calls.  shouldHook is a plain bool that the threads *)
(* read and write without a lock: each access is a step of its own.        *)
(* profiling, cleared only by DLL_PROCESS_DETACH, is TRUE throughout.      *)
(***************************************************************************)
EXTENDS Naturals, Sequences, FiniteSets

CONSTANTS Threads,
          NoThread,
          Addrs,        \* non-null addresses the allocator hands out
          Null,
          Fits,         \* may getBytes succeed, fail or both: a set of BOOLEANs
          MaxEvents,    \* bound: heap operations
          MaxDepth,     \* bound: hook calls nested in one thread
          SocketRoom    \* records the socket buffers before send() blocks

ASSUME NoThreadAssumption == NoThread \notin Threads
ASSUME NullAssumption == Null \notin Addrs
ASSUME FitsAssumption == Fits \subseteq BOOLEAN /\ Fits # {}
ASSUME BoundsAssumption ==
  MaxEvents \in Nat /\ MaxDepth \in Nat \ {0} /\ SocketRoom \in Nat \ {0}

VARIABLES
  live,         \* the addresses the allocator has handed out
  held,         \* those of them whose malloc call has returned
  frames,       \* per thread, the hook calls in progress, innermost first
  shouldHook,
  owner,        \* who is in the critical section cs
  retBuf,       \* ret_buf: the event encoded last, 0 before the first
  connected,    \* the GUI's end of ClientSocket is open
  stream,       \* every event sent, oldest first
  received,     \* how many of them the GUI has read
  events        \* history: every heap operation, in the order it took effect

vars == <<live, held, frames, shouldHook, owner, retBuf, connected, stream,
          received, events>>
heap == <<live, held, events>>
wire == <<connected, stream, received>>

\* Where a hook call is: "test" and "clear" are the read and the write of
\* shouldHook, "trace" the stack walk, "encode" to "leave" the critical section.
Reporting == {"trace", "enter", "encode", "send", "leave", "restore"}
InSection == {"encode", "send", "leave"}

Event == [op : {"malloc", "free"}, addr : Addrs \cup {Null}, thread : Threads,
          depth : 1 .. MaxDepth]
Frame == [ev : 1 .. MaxEvents, pc : {"test", "clear"} \cup Reporting]

Init ==
  /\ live = {} /\ held = {} /\ events = <<>>
  /\ frames = [t \in Threads |-> <<>>]
  /\ shouldHook = TRUE
  /\ owner = NoThread
  /\ retBuf = 0
  /\ connected = TRUE /\ stream = <<>> /\ received = 0

-----------------------------------------------------------------------------
(* The target calls malloc and free                                        *)

At(t, pc) == frames[t] # <<>> /\ Head(frames[t]).pc = pc

Goto(t, pc) == frames' = [frames EXCEPT ![t][1].pc = pc]

\* A thread calls from its own code, or from the stack walk of a report.
MayCall(t) ==
  /\ Len(events) < MaxEvents
  /\ \/ frames[t] = <<>>
     \/ At(t, "trace") /\ Len(frames[t]) < MaxDepth

\* The original function has run: the event took effect and the hook goes on.
Enter(t, op, a) ==
  /\ events' = Append(events, [op |-> op, addr |-> a, thread |-> t,
                               depth |-> Len(frames[t]) + 1])
  /\ frames' = [frames EXCEPT ![t] =
                  <<[ev |-> Len(events) + 1, pc |-> "test"]>> \o @]
  /\ UNCHANGED <<shouldHook, owner, retBuf, wire>>

\* Mutant of Malloc: the caller gets the address before it is reported.
MallocThenReport(t, a) ==
  /\ MayCall(t)
  /\ a \notin live
  /\ live' = live \cup ({a} \ {Null})
  /\ held' = held \cup ({a} \ {Null})
  /\ Enter(t, "malloc", a)

\* mallocHook: originalMallocs[N](size), which may answer NULL.
Malloc(t, a) ==
  /\ MayCall(t)
  /\ a \notin live
  /\ live' = live \cup ({a} \ {Null})
  /\ UNCHANGED held
  /\ Enter(t, "malloc", a)

\* freeHook: originalFrees[N](p), for an address its caller was given, or NULL.
Free(t, a) ==
  /\ MayCall(t)
  /\ a \in held \cup {Null}
  /\ live' = live \ {a}
  /\ held' = held \ {a}
  /\ Enter(t, "free", a)

-----------------------------------------------------------------------------
(* The rest of a hook                                                      *)

\* The hook returns; what a malloc hook returns is the caller's from now on.
Return(t) ==
  LET e == events[Head(frames[t]).ev] IN
  /\ frames' = [frames EXCEPT ![t] = Tail(@)]
  /\ held' = IF e.op = "malloc" THEN held \cup ({e.addr} \ {Null}) ELSE held
  /\ UNCHANGED <<live, events>>

\* Mutant of TestFlag: the hook always reports.
TestNothing(t) ==
  /\ At(t, "test")
  /\ Goto(t, "clear") /\ UNCHANGED heap
  /\ UNCHANGED <<shouldHook, owner, retBuf, wire>>

\* if( profiling && shouldHook )
TestFlag(t) ==
  /\ At(t, "test")
  /\ IF shouldHook THEN Goto(t, "clear") /\ UNCHANGED heap ELSE Return(t)
  /\ UNCHANGED <<shouldHook, owner, retBuf, wire>>

\* shouldHook = false
ClearFlag(t) ==
  /\ At(t, "clear")
  /\ shouldHook' = FALSE
  /\ Goto(t, "trace")
  /\ UNCHANGED <<heap, owner, retBuf, wire>>

\* The Trace constructor has walked the stack.
EndTrace(t) ==
  /\ At(t, "trace")
  /\ Goto(t, "enter")
  /\ UNCHANGED <<heap, shouldHook, owner, retBuf, wire>>

\* EnterCriticalSection( &cs )
EnterSection(t) ==
  /\ At(t, "enter")
  /\ owner = NoThread
  /\ owner' = t
  /\ Goto(t, "encode")
  /\ UNCHANGED <<heap, shouldHook, retBuf, wire>>

\* Mutant of Encode: the section covers the encoding alone.
EncodeAndLeave(t) ==
  /\ At(t, "encode")
  /\ \E fits \in Fits :
       /\ Goto(t, IF fits THEN "send" ELSE "leave")
       /\ retBuf' = IF fits THEN Head(frames[t]).ev ELSE retBuf
  /\ owner' = NoThread
  /\ UNCHANGED <<heap, shouldHook, wire>>

\* Mutant of Encode: a trace that is too long ends the hook at once.
EncodeOrGiveUp(t) ==
  /\ At(t, "encode")
  /\ \E fits \in Fits :
       IF fits
       THEN /\ Goto(t, "send") /\ retBuf' = Head(frames[t]).ev
            /\ UNCHANGED <<heap, owner>>
       ELSE Return(t) /\ owner' = NoThread /\ UNCHANGED retBuf
  /\ UNCHANGED <<shouldHook, wire>>

\* getBytes( ret_buf, ... ): it writes nothing and answers 0 when the stack
\* trace is too long for the buffer.
Encode(t) ==
  /\ At(t, "encode")
  /\ \E fits \in Fits :
       /\ Goto(t, IF fits THEN "send" ELSE "leave")
       /\ retBuf' = IF fits THEN Head(frames[t]).ev ELSE retBuf
  /\ UNCHANGED <<heap, shouldHook, owner, wire>>

\* send( ClientSocket, ret_buf, ... ): blocks while the socket is full; on a
\* closed connection it fails, and nobody looks at its answer.
Send(t) ==
  /\ At(t, "send")
  /\ IF connected
     THEN /\ Len(stream) - received < SocketRoom
          /\ stream' = Append(stream, retBuf)
     ELSE UNCHANGED stream
  /\ Goto(t, "leave")
  /\ UNCHANGED <<heap, shouldHook, owner, retBuf, connected, received>>

\* Mutant of LeaveSection: it is not left.
LeaveNothing(t) ==
  /\ At(t, "leave")
  /\ Goto(t, "restore")
  /\ UNCHANGED <<heap, shouldHook, owner, retBuf, wire>>

\* LeaveCriticalSection( &cs )
LeaveSection(t) ==
  /\ At(t, "leave")
  /\ owner' = NoThread
  /\ Goto(t, "restore")
  /\ UNCHANGED <<heap, shouldHook, retBuf, wire>>

\* shouldHook = true; the hook returns.
RestoreFlag(t) ==
  /\ At(t, "restore")
  /\ shouldHook' = TRUE
  /\ Return(t)
  /\ UNCHANGED <<owner, retBuf, wire>>

-----------------------------------------------------------------------------
(* The GUI's end of the socket: SocketHandler                              *)

GuiRead ==
  /\ connected
  /\ received < Len(stream)
  /\ received' = received + 1
  /\ UNCHANGED <<heap, frames, shouldHook, owner, retBuf, connected, stream>>

GuiDisconnect ==
  /\ connected
  /\ connected' = FALSE
  /\ UNCHANGED <<heap, frames, shouldHook, owner, retBuf, stream, received>>

-----------------------------------------------------------------------------
Call(t) == \E a \in Addrs \cup {Null} : Malloc(t, a) \/ Free(t, a)

HookStep(t) ==
  \/ TestFlag(t)
  \/ ClearFlag(t)
  \/ EndTrace(t)
  \/ EnterSection(t)
  \/ Encode(t)
  \/ Send(t)
  \/ LeaveSection(t)
  \/ RestoreFlag(t)

Next == GuiRead \/ GuiDisconnect \/ \E t \in Threads : Call(t) \/ HookStep(t)

Spec == Init /\ [][Next]_vars

\* Threads are scheduled; the GUI goes on reading until it disconnects.
FairSpec ==
  /\ Spec
  /\ WF_vars(GuiRead)
  /\ \A t \in Threads : WF_vars(HookStep(t))

-----------------------------------------------------------------------------
(* Properties                                                              *)

AtRest == \A t \in Threads : frames[t] = <<>>

\* What a thread sends is the record it encoded: between getBytes and send
\* nobody else writes the one ret_buf all threads share.
BufferIntact ==
  \A t \in Threads : At(t, "send") => retBuf = Head(frames[t]).ev

\* The record of a free never overtakes the record of the malloc it undoes.
FreeFollowsItsMalloc ==
  \A i, j \in 1 .. Len(stream) :
    LET m == stream[i]
        f == stream[j]
    IN (/\ m < f
        /\ events[m].op = "malloc" /\ events[f].op = "free"
        /\ events[m].addr = events[f].addr /\ events[m].addr # Null
        /\ \A e \in m + 1 .. f - 1 : events[e].addr # events[m].addr)
       => i < j

\* Reporting never switches itself off for good: when no hook is running the
\* flag is up and the critical section is free, however the calls overlapped.
ReportingRestored == AtRest => shouldHook /\ owner = NoThread

SingleThreaded ==
  \A i, j \in 1 .. Len(events) : events[i].thread = events[j].thread

\* One thread at work, every operation of it reported and none running: the last
\* record about an address tells whether it is allocated.  With two threads the
\* order of freeHook (the original first, then the report) breaks this.
LastReportTrue ==
  (SingleThreaded /\ AtRest /\ Len(stream) = Len(events)) =>
    \A i \in 1 .. Len(stream) :
      LET e == events[stream[i]] IN
      (/\ e.addr # Null
       /\ \A j \in i + 1 .. Len(stream) : events[stream[j]].addr # e.addr)
      => (e.op = "malloc" <=> e.addr \in live)

\* Every call of malloc and free returns to the target, as long as the GUI
\* reads or disconnects.
EveryCallReturns ==
  \A t \in Threads : frames[t] # <<>> ~> frames[t] = <<>>
=============================================================================
