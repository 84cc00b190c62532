------------------------------ MODULE HookSetup ------------------------------
(***************************************************************************)
(* What the Observer does when it is loaded into a target and when the     *)
(* target ends (Observer.cpp: SetupSocket, setupHeapProfiling, the two     *)
(* enumeration callbacks, DllMain).  The thread that loads the library runs *)
(* all of it.  MinHook is seen through its interface: a hook is created,   *)
(* which gives out its trampoline, and enabled, and both may fail.         *)
(***************************************************************************)
EXTENDS Naturals

CONSTANTS Modules,   \* modules of the target that dbghelp enumerates
          Mallocs,   \* module |-> addresses dbghelp finds under the name malloc
          Frees,     \* module |-> addresses it finds under the name free
          Avoided,   \* msvcrt, and modules named in the Observer's own path
          NumHooks,  \* numHooks, 128 in the code
          Null

Kinds == {"malloc", "free"}
Found == [k \in Kinds |-> IF k = "malloc" THEN Mallocs ELSE Frees]
Functions == UNION {Found[k][m] : k \in Kinds, m \in Modules}
Slots == 0 .. NumHooks - 1
Symbols == [kind : Kinds, address : Functions]

ASSUME NumHooksAssumption == NumHooks \in Nat \ {0}
ASSUME NullAssumption == Null \notin Functions \cup Symbols \cup (Kinds \X Slots)

VARIABLES
  stage,       \* the call that set-up makes next, "none" before, "over" after
  held,        \* what SetupSocket has acquired and not released
  pFile,       \* the log: "null", "open" or "closed" (not null, but closed)
  section,     \* cs: "none", "ready" or "deleted"
  initialized, \* MinHook's gIsInitialized
  unseen,      \* modules not enumerated yet
  found,       \* symbols of the current module not reported yet
  current,     \* the symbol between MH_CreateHook and MH_EnableHook
  used,        \* nUsedMallocHooks, nUsedFreeHooks
  originals,   \* originalMallocs, originalFrees: whose trampoline is in the slot
  detour,      \* per function with a hook: the detour's kind and slot
  enabled,     \* functions that begin with a jump to their detour
  profiling,
  badLog       \* history: has the log been used after it was closed?

setupVars == <<stage, held, pFile, section, initialized, unseen, found, current, used,
               originals, detour, enabled, profiling, badLog>>
socketVars == <<held, pFile, section>>
hookVars == <<initialized, unseen, found, current, used, originals, detour, enabled>>

SocketCalls == {"WSAStartup", "getaddrinfo", "socket", "bind", "listen", "accept"}
Stages == SocketCalls \cup
          {"none", "MH_Initialize", "SymInitialize", "modules", "symbols", "enable", "over"}

SetupTypeOK ==
  /\ stage \in Stages
  /\ held \subseteq {"winsock", "addresses", "listener", "client"}
  /\ pFile \in {"null", "open", "closed"} /\ section \in {"none", "ready", "deleted"}
  /\ initialized \in BOOLEAN /\ profiling \in BOOLEAN /\ badLog \in BOOLEAN
  /\ unseen \subseteq Modules /\ found \subseteq Symbols
  /\ current \in Symbols \cup {Null}
  /\ used \in [Kinds -> 0 .. NumHooks]
  /\ originals \in [Kinds -> [Slots -> Functions \cup {Null}]]
  /\ detour \in [Functions -> (Kinds \X Slots) \cup {Null}]
  /\ enabled \subseteq Functions

SetupInit ==
  /\ stage = "none" /\ held = {} /\ pFile = "null" /\ section = "none"
  /\ initialized = FALSE /\ unseen = Modules /\ found = {} /\ current = Null
  /\ used = [k \in Kinds |-> 0]
  /\ originals = [k \in Kinds |-> [n \in Slots |-> Null]]
  /\ detour = [f \in Functions |-> Null] /\ enabled = {}
  /\ profiling = TRUE /\ badLog = FALSE

-----------------------------------------------------------------------------
(* setupHeapProfiling up to the connection                                 *)

\* The critical section and the log come first; fopen_s may fail.
StartSetup ==
  /\ stage = "none" /\ stage' = "WSAStartup"
  /\ section' = "ready" /\ pFile' \in {"null", "open"}
  /\ UNCHANGED <<held, hookVars, profiling, badLog>>

NextStage == [WSAStartup |-> "getaddrinfo", getaddrinfo |-> "socket", socket |-> "bind",
              bind |-> "listen", listen |-> "accept", accept |-> "MH_Initialize"]

\* What a call acquires, and what SetupSocket releases once it has succeeded.
Acquired == [WSAStartup |-> {"winsock"}, getaddrinfo |-> {"addresses"},
             socket |-> {"listener"}, bind |-> {}, listen |-> {}, accept |-> {"client"}]
ReleasedAfter == [WSAStartup |-> {}, getaddrinfo |-> {}, socket |-> {},
                  bind |-> {"addresses"}, listen |-> {}, accept |-> {"listener"}]

\* Mutant of ReleasedOnError: the listening socket is forgotten.
ReleasedButListener ==
  [WSAStartup |-> {}, getaddrinfo |-> {"winsock"}, socket |-> {"addresses", "winsock"},
   bind |-> {"addresses", "listener", "winsock"}, listen |-> {"winsock"},
   accept |-> {"listener", "winsock"}]

\* What the error path of a call releases.
ReleasedOnError ==
  [WSAStartup |-> {}, getaddrinfo |-> {"winsock"}, socket |-> {"addresses", "winsock"},
   bind |-> {"addresses", "listener", "winsock"}, listen |-> {"listener", "winsock"},
   accept |-> {"listener", "winsock"}]

SocketCall(c) ==
  /\ stage = c /\ stage' = NextStage[c]
  /\ held' = (held \cup Acquired[c]) \ ReleasedAfter[c]
  /\ UNCHANGED <<pFile, section, hookVars, profiling, badLog>>

\* SetupSocket returns 1, and setupHeapProfiling closes the log but keeps pFile.
SocketCallFails(c) ==
  /\ stage = c /\ stage' = "over"
  /\ held' = held \ ReleasedOnError[c]
  /\ pFile' = IF pFile = "open" THEN "closed" ELSE pFile
  /\ UNCHANGED <<section, hookVars, profiling, badLog>>

-----------------------------------------------------------------------------
(* setupHeapProfiling from the connection on                               *)

\* The tables are filled (InitNHooks), then MinHook and dbghelp are asked.
InitMinHook ==
  /\ stage = "MH_Initialize"
  /\ used' = [k \in Kinds |-> 0]
  /\ \/ stage' = "SymInitialize" /\ initialized' = TRUE
     \/ stage' = "over" /\ UNCHANGED initialized
  /\ UNCHANGED <<socketVars, unseen, found, current, originals, detour, enabled,
                 profiling, badLog>>

InitSymbols ==
  /\ stage = "SymInitialize" /\ stage' \in {"modules", "over"}
  /\ UNCHANGED <<socketVars, hookVars, profiling, badLog>>

\* EnumerateModulesProc64Callback.
EnumerateModule(m) ==
  /\ stage = "modules" /\ m \in unseen
  /\ unseen' = unseen \ {m}
  /\ IF m \in Avoided
     THEN UNCHANGED <<stage, found>>
     ELSE /\ stage' = "symbols"
          /\ found' = UNION {[kind : {k}, address : Found[k][m]] : k \in Kinds}
  /\ UNCHANGED <<socketVars, initialized, current, used, originals, detour, enabled,
                 profiling, badLog>>

\* Mutant of ModulesDone: the log is closed once the modules are hooked.
ModulesDoneLogClosed ==
  /\ stage = "modules" /\ unseen = {} /\ stage' = "over"
  /\ pFile' = IF pFile = "open" THEN "closed" ELSE pFile
  /\ UNCHANGED <<held, section, hookVars, profiling, badLog>>

ModulesDone ==
  /\ stage = "modules" /\ unseen = {} /\ stage' = "over"
  /\ UNCHANGED <<socketVars, hookVars, profiling, badLog>>

\* Every malloc of a module is reported before its first free.
Reported(s) == s \in found /\ (s.kind = "free" => \A r \in found : r.kind = "free")

\* enumSymbolsCallback up to MH_CreateHook, which puts the trampoline into the slot
\* unless it fails: for a function that has a hook, or for a reason of its own.
Symbol(s) ==
  /\ stage = "symbols" /\ Reported(s) /\ used[s.kind] < NumHooks
  /\ found' = found \ {s} /\ current' = s /\ stage' = "enable"
  /\ LET k == s.kind  n == used[k] IN
     \/ /\ detour[s.address] = Null
        /\ detour' = [detour EXCEPT ![s.address] = <<k, n>>]
        /\ originals' = [originals EXCEPT ![k][n] = s.address]
     \/ UNCHANGED <<detour, originals>>
  /\ UNCHANGED <<socketVars, initialized, unseen, used, enabled, profiling, badLog>>

AllHooksUsed(s) ==
  /\ stage = "symbols" /\ Reported(s) /\ used[s.kind] = NumHooks
  /\ found' = found \ {s}
  /\ UNCHANGED <<stage, socketVars, initialized, unseen, current, used, originals, detour,
                 enabled, profiling, badLog>>

\* Mutant of EnableSymbol: the slot is not counted.
EnableUncounted ==
  /\ stage = "enable" /\ stage' = "symbols" /\ current' = Null
  /\ \/ /\ detour[current.address] # Null /\ enabled' = enabled \cup {current.address}
     \/ UNCHANGED enabled
  /\ UNCHANGED <<socketVars, initialized, unseen, found, used, originals, detour, profiling,
                 badLog>>

\* MH_EnableHook, which fails for a function without a hook and may fail for
\* another; the slot is used up either way.
EnableSymbol ==
  /\ stage = "enable" /\ stage' = "symbols" /\ current' = Null
  /\ \/ /\ detour[current.address] # Null /\ enabled' = enabled \cup {current.address}
     \/ UNCHANGED enabled
  /\ used' = [used EXCEPT ![current.kind] = @ + 1]
  /\ UNCHANGED <<socketVars, initialized, unseen, found, originals, detour, profiling, badLog>>

SymbolsDone ==
  /\ stage = "symbols" /\ found = {} /\ stage' = "modules"
  /\ UNCHANGED <<socketVars, hookVars, profiling, badLog>>

SetupStep ==
  \/ \E c \in SocketCalls : SocketCall(c) \/ SocketCallFails(c)
  \/ InitMinHook \/ InitSymbols \/ ModulesDone \/ SymbolsDone \/ EnableSymbol
  \/ \E m \in Modules : EnumerateModule(m)
  \/ \E s \in found : Symbol(s) \/ AllHooksUsed(s)

-----------------------------------------------------------------------------
\* DLL_PROCESS_DETACH.  Whether MH_Uninitialize succeeds is not looked at.
Detach ==
  /\ badLog' = (badLog \/ pFile = "closed")
  /\ profiling' = FALSE
  /\ \/ /\ initialized /\ initialized' = FALSE
        /\ enabled' = {} /\ detour' = [f \in Functions |-> Null]
     \/ UNCHANGED <<initialized, enabled, detour>>
  /\ pFile' = IF pFile = "null" THEN "null" ELSE "closed"
  /\ section' = "deleted"
  /\ UNCHANGED <<stage, held, unseen, found, current, used, originals>>

-----------------------------------------------------------------------------
(* Properties                                                              *)

\* A detour finds, in its slot, the trampoline of the very function it was called
\* for, whichever of the two calls of MinHook fails for this symbol or for another,
\* and however often dbghelp reports the same function.
OriginalBehindEveryJump ==
  \A f \in enabled : LET d == detour[f] IN d # Null /\ originals[d[1]][d[2]] = f

\* No jump leads into a detour before its critical section, the socket and the
\* tables are there, or after the section is gone while profiling is still on.
ReadyBehindEveryJump ==
  enabled # {} =>
    /\ initialized /\ "client" \in held
    /\ profiling => section = "ready"

\* A set-up that fails to connect leaves no socket, no Winsock and no log open.
NothingLeftBehind ==
  stage = "over" /\ "client" \notin held => held = {} /\ pFile # "open"

\* The log is used after fclose only at the end of a process in which SetupSocket
\* failed (setupHeapProfiling leaves pFile as it was).
LogUsedWhileOpen == badLog => "client" \notin held
=============================================================================
