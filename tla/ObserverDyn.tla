----------------------------- MODULE ObserverDyn -----------------------------
(***************************************************************************)
(* Observer_dyn.cpp and Observer_dyn.h, an older form of the library that  *)
(* is kept beside the Observer and is in no project file.  It sets itself  *)
(* up as the Observer does (HookSetup), but its hooks have neither the     *)
(* flag nor the critical section: each call is reported, those of a        *)
(* report's own stack walk included, from buffers allocated for it.  The   *)
(* library has a malloc of its own, which is never hooked.  The thread     *)
(* that loads it runs alone until set-up is over.                          *)
(***************************************************************************)
EXTENDS HookSetup, Sequences

CONSTANTS Threads,
          Loader,    \* the thread that loads the library
          MaxCalls,  \* bound: calls of hooked functions
          MaxDepth   \* bound: hook calls nested in one thread

ASSUME LoadingThreadAssumption == Loader \in Threads
ASSUME BoundsAssumption == MaxCalls \in Nat /\ MaxDepth \in Nat \ {0}

VARIABLES
  process,   \* "running", "ended", or "dead": a fault in a hook ended it
  calls,     \* history: every call of a hooked function, and what ran for it
  frames,    \* per thread, the hook calls in progress, innermost first
  buffers,   \* the buffers that getBytes has allocated and nobody has freed
  connected, \* the GUI's end of ClientSocket is open
  stream     \* the halves of records sent, oldest first

hookCallVars == <<calls, frames, buffers, connected, stream>>
dynVars == <<setupVars, process, hookCallVars>>

\* Where a hook call is: in its stack walk, at a malloc of getBytes, at the free of
\* the base class's buffer, at the log, in send, at the free of the message.
Steps == {"trace", "base", "message", "copied", "log", "send", "sent half", "release"}

DynTypeOK ==
  /\ SetupTypeOK
  /\ process \in {"running", "ended", "dead"} /\ connected \in BOOLEAN
  /\ calls \in Seq([thread : Threads, asked : Functions, ran : Functions])
  /\ frames \in [Threads -> Seq([call : DOMAIN calls, pc : Steps])]
  /\ buffers \subseteq [thread : Threads, depth : 1 .. MaxDepth, of : {"base", "message"}]
  /\ stream \in Seq((DOMAIN calls) \X {"head", "tail"})

DynInit ==
  /\ SetupInit
  /\ process = "running" /\ connected = TRUE
  /\ calls = <<>> /\ stream = <<>> /\ buffers = {}
  /\ frames = [t \in Threads |-> <<>>]

-----------------------------------------------------------------------------
(* Set-up and the end of the process                                       *)

\* The log alone is opened: there is no critical section to initialise.
StartDyn ==
  /\ stage = "none" /\ stage' = "WSAStartup" /\ pFile' \in {"null", "open"}
  /\ UNCHANGED <<held, section, hookVars, profiling, badLog>>

SetupSocket == \E c \in SocketCalls : SocketCall(c) \/ SocketCallFails(c)

\* From MH_Initialize on; each callback of dbghelp is the Observer's.
HookModules ==
  \/ InitMinHook \/ InitSymbols \/ ModulesDone
  \/ \E m \in Modules : EnumerateModule(m)

HookSymbols ==
  \/ SymbolsDone \/ EnableSymbol
  \/ \E s \in found : Symbol(s) \/ AllHooksUsed(s)

SetupHeapProfiling ==
  /\ process = "running" /\ frames[Loader] = <<>>
  /\ StartDyn \/ SetupSocket \/ HookModules \/ HookSymbols
  /\ UNCHANGED <<process, hookCallVars>>

\* DLL_PROCESS_DETACH: the other threads are gone by then.
EndProcess ==
  /\ process = "running" /\ stage = "over" /\ process' = "ended"
  /\ Detach /\ UNCHANGED hookCallVars

-----------------------------------------------------------------------------
(* The hooks                                                               *)

At(t, pc) == process = "running" /\ frames[t] # <<>> /\ Head(frames[t]).pc = pc
Goto(t, pc) == frames' = [frames EXCEPT ![t][1].pc = pc]
Mine(t, of) == [thread |-> t, depth |-> Len(frames[t]), of |-> of]

\* The loading thread calls from what dbghelp does for it, the others from their
\* own code once they run, and each from its stack walk.
MayCall(t) ==
  /\ process = "running" /\ Len(calls) < MaxCalls
  /\ \/ frames[t] = <<>> /\ IF t = Loader THEN stage \in {"modules", "symbols"}
                                          ELSE stage = "over"
     \/ At(t, "trace") /\ Len(frames[t]) < MaxDepth

\* Mutant of Enter: what a stack walk calls is not reported.
EnterUnlessNested(t, f) ==
  /\ MayCall(t) /\ f \in enabled /\ profiling
  /\ calls' = Append(calls, [thread |-> t, asked |-> f,
                             ran |-> originals[detour[f][1]][detour[f][2]]])
  /\ frames' = IF frames[t] # <<>> THEN frames
               ELSE [frames EXCEPT ![t] = <<[call |-> Len(calls) + 1, pc |-> "trace"]>>]
  /\ UNCHANGED <<setupVars, process, buffers, connected, stream>>

\* The jump in f leads to the detour of its slot, which runs the slot's original
\* and, while profiling is on, starts to walk the stack.
Enter(t, f) ==
  /\ MayCall(t) /\ f \in enabled /\ profiling
  /\ calls' = Append(calls, [thread |-> t, asked |-> f,
                             ran |-> originals[detour[f][1]][detour[f][2]]])
  /\ frames' = [frames EXCEPT ![t] = <<[call |-> Len(calls) + 1, pc |-> "trace"]>> \o @]
  /\ UNCHANGED <<setupVars, process, buffers, connected, stream>>

\* Trace::getTrace has come to its end.
EndTrace(t) ==
  /\ At(t, "trace") /\ Goto(t, "base")
  /\ UNCHANGED <<setupVars, process, calls, buffers, connected, stream>>

\* MemoryMessage::getBytes allocates address, length and trace.
AllocateBase(t) ==
  /\ At(t, "base") /\ Goto(t, "message")
  /\ buffers' = buffers \cup {Mine(t, "base")}
  /\ UNCHANGED <<setupVars, process, calls, connected, stream>>

\* getBytes of MallocMessage and FreeMessage puts the type, and the size, in front.
AllocateMessage(t) ==
  /\ At(t, "message") /\ Goto(t, "copied")
  /\ buffers' = buffers \cup {Mine(t, "message")}
  /\ UNCHANGED <<setupVars, process, calls, connected, stream>>

\* The memory is cleared before anybody looks whether there is any.
OutOfMemory(t) ==
  /\ At(t, "base") \/ At(t, "message")
  /\ process' = "dead"
  /\ UNCHANGED <<setupVars, hookCallVars>>

\* Mutant of FreeBase: the caller of getBytes is left to free it.
FreeNothing(t) ==
  /\ At(t, "copied") /\ Goto(t, "log")
  /\ UNCHANGED <<setupVars, process, calls, buffers, connected, stream>>

FreeBase(t) ==
  /\ At(t, "copied") /\ Goto(t, "log")
  /\ buffers' = buffers \ {Mine(t, "base")}
  /\ UNCHANGED <<setupVars, process, calls, connected, stream>>

\* mallocHook writes to the log without asking whether there is one; freeHook asks.
Log(t) ==
  LET kind == detour[calls[Head(frames[t]).call].asked][1] IN
  /\ At(t, "log") /\ Goto(t, "send")
  /\ process' = IF kind = "malloc" /\ pFile = "null" THEN "dead" ELSE "running"
  /\ badLog' = (badLog \/ pFile = "closed")
  /\ UNCHANGED <<stage, held, pFile, section, hookVars, profiling, calls, buffers,
                 connected, stream>>

\* send, whose bytes those of another thread may part: no lock is held.
Send(t, half, from, to) ==
  /\ At(t, from) /\ Goto(t, to)
  /\ stream' = IF connected THEN Append(stream, <<Head(frames[t]).call, half>>) ELSE stream
  /\ UNCHANGED <<setupVars, process, calls, buffers, connected>>

\* free(retPtr), and the hook returns.
Release(t) ==
  /\ At(t, "release")
  /\ buffers' = buffers \ {Mine(t, "message")}
  /\ frames' = [frames EXCEPT ![t] = Tail(@)]
  /\ UNCHANGED <<setupVars, process, calls, connected, stream>>

GuiDisconnect ==
  /\ connected /\ "client" \in held /\ connected' = FALSE
  /\ UNCHANGED <<setupVars, process, calls, frames, buffers, stream>>

HookStep(t) ==
  \/ EndTrace(t) \/ AllocateBase(t) \/ AllocateMessage(t) \/ OutOfMemory(t)
  \/ FreeBase(t) \/ Log(t) \/ Release(t)
  \/ Send(t, "head", "send", "sent half") \/ Send(t, "tail", "sent half", "release")

DynNext ==
  \/ SetupHeapProfiling \/ EndProcess \/ GuiDisconnect
  \/ \E t \in Threads : HookStep(t) \/ \E f \in enabled : Enter(t, f)

DynSpec == DynInit /\ [][DynNext]_dynVars

-----------------------------------------------------------------------------
(* Properties                                                              *)

ByThread(t, i) == calls[stream[i][1]].thread = t

\* The record of call c: both its halves, once each, with nothing of the same thread
\* in between.
Whole(c) ==
  \E h, e \in DOMAIN stream :
    /\ h < e /\ stream[h] = <<c, "head">> /\ stream[e] = <<c, "tail">>
    /\ \A i \in DOMAIN stream \ {h, e} :
         stream[i][1] # c /\ (ByThread(calls[c].thread, i) => i < h \/ e < i)

\* Whatever other threads send in between, a thread outside the hooks has run the
\* function it asked for each time and has sent a whole record for each call: none is
\* missing, doubled or torn by a record of its own stack walk.
EveryCallReported ==
  \A c \in DOMAIN calls :
    /\ calls[c].ran = calls[c].asked
    /\ connected /\ frames[calls[c].thread] = <<>> => Whole(c)

\* A hook sends from a buffer that is still allocated, and a thread outside the hooks
\* has none left, however deep its calls were nested.
BuffersHeld ==
  \A t \in Threads :
    /\ At(t, "send") \/ At(t, "sent half") => Mine(t, "message") \in buffers
    /\ frames[t] = <<>> => \A b \in buffers : b.thread # t
=============================================================================
