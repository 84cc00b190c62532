----------------------------- MODULE SetupProofs -----------------------------
(***************************************************************************)
(* Theorems about the two programs that run HookSetup's steps: the target  *)
(* of an injection (Injection), and the older form of the library          *)
(* (ObserverDyn).  The lemmas about the set-up itself come first, and are  *)
(* used for both.  What is proved holds for any number of injectors,       *)
(* threads, hooks and calls, and for any target and command lines.         *)
(***************************************************************************)
EXTENDS Injection, ObserverDyn, FiniteSetTheorems, SequenceTheorems, TLAPS

-----------------------------------------------------------------------------
(* The set-up, for every target and every number of hooks                  *)

Early == SocketCalls \cup {"none", "MH_Initialize"}
Late == {"SymInitialize", "modules", "symbols", "enable"}

\* What SetupSocket holds before each of its calls, and what is held after it.
HeldBefore ==
  [WSAStartup |-> {}, getaddrinfo |-> {"winsock"}, socket |-> {"winsock", "addresses"},
   bind |-> {"winsock", "addresses", "listener"}, listen |-> {"winsock", "listener"},
   accept |-> {"winsock", "listener"}]
Holdings ==
  /\ \A c \in SocketCalls : stage = c => held = HeldBefore[c]
  /\ stage = "none" => held = {}
  /\ stage \in Late \cup {"MH_Initialize"} => "client" \in held
  /\ NothingLeftBehind

\* The log.
LogKept ==
  /\ stage \in Stages \ {"none", "over"} => pFile # "closed"
  /\ pFile = "closed" /\ profiling => "client" \notin held
  /\ stage # "over" => profiling
  /\ profiling => ~badLog
  /\ LogUsedWhileOpen

\* A hook's slot holds its trampoline, and the next free slot is no hook's.
SlotsRight ==
  /\ stage \in Early => enabled = {} /\ \A f \in Functions : detour[f] = Null
  /\ stage = "enable" => current \in Symbols /\ used[current.kind] < NumHooks
  /\ \A f \in Functions : detour[f] # Null =>
       LET k == detour[f][1]  n == detour[f][2] IN
       /\ originals[k][n] = f
       /\ n < used[k] \/ (stage = "enable" /\ current.kind = k /\ n = used[k])
  /\ \A f \in enabled : detour[f] # Null

\* Hooks are enabled between the connection and the end.
Ready ==
  /\ stage \in Late => initialized
  /\ enabled # {} => initialized /\ "client" \in held

\* The critical section, which the older form of the library does not have.
SectionRight == stage # "none" /\ profiling => section = "ready"

LoadInv == SetupTypeOK /\ Holdings /\ LogKept /\ SlotsRight /\ Ready
SetupInv == LoadInv /\ SectionRight

-----------------------------------------------------------------------------
\* The agreement of slots and jumps, from the invariant.
LEMMA SlotsSuffice == LoadInv => OriginalBehindEveryJump
BY DEF LoadInv, SlotsRight, OriginalBehindEveryJump, SetupTypeOK

LEMMA LoadInitially == SetupInit => LoadInv
<1> SUFFICES ASSUME SetupInit PROVE LoadInv
  OBVIOUS
<1> USE DEF SetupInit
<1>1. SetupTypeOK
  <2>1. used \in [Kinds -> 0 .. NumHooks] /\ current \in Symbols \cup {Null}
    BY NumHooksAssumption
  <2>2. originals \in [Kinds -> [Slots -> Functions \cup {Null}]]
    OBVIOUS
  <2>3. detour \in [Functions -> (Kinds \X Slots) \cup {Null}] /\ enabled \subseteq Functions
    OBVIOUS
  <2>4. /\ stage \in Stages /\ held \subseteq {"winsock", "addresses", "listener", "client"}
        /\ pFile \in {"null", "open", "closed"} /\ section \in {"none", "ready", "deleted"}
        /\ unseen \subseteq Modules /\ found \subseteq Symbols
    BY DEF Stages
  <2> QED
    BY <2>1, <2>2, <2>3, <2>4 DEF SetupTypeOK
<1>2. Holdings /\ LogKept /\ Ready
  BY DEF Holdings, LogKept, Ready, SocketCalls, Late, Stages, NothingLeftBehind,
         LogUsedWhileOpen
<1>3. SlotsRight
  BY DEF SlotsRight
<1> QED
  BY <1>1, <1>2, <1>3 DEF LoadInv

\* The log is opened, before anything else.
LEMMA OpenKeeps ==
  ASSUME LoadInv, stage = "none", stage' = "WSAStartup", pFile' \in {"null", "open"},
         section' \in {section, "ready"}, UNCHANGED <<held, hookVars, profiling, badLog>>
  PROVE  LoadInv'
<1> USE DEF LoadInv, hookVars
<1>1. SetupTypeOK'
  BY DEF SetupTypeOK, Stages, SocketCalls
<1>2. Holdings' /\ LogKept' /\ Ready'
  BY DEF Holdings, LogKept, Ready, SocketCalls, Late, Stages, NothingLeftBehind,
         LogUsedWhileOpen, HeldBefore
<1>3. SlotsRight'
  BY DEF SlotsRight, Early, SocketCalls
<1> QED
  BY <1>1, <1>2, <1>3

\* The calls of SetupSocket: each holds what the one before it has left.
LEMMA SocketKeeps ==
  ASSUME LoadInv, NEW c \in SocketCalls, SocketCall(c) \/ SocketCallFails(c)
  PROVE  LoadInv'
<1> USE DEF LoadInv
<1>1. /\ stage = c /\ held = HeldBefore[c] /\ pFile # "closed"
      /\ UNCHANGED <<section, hookVars, profiling, badLog>>
  BY DEF SocketCall, SocketCallFails, Holdings, LogKept, Stages, SocketCalls
<1>2. enabled = {} /\ \A f \in Functions : detour[f] = Null
  BY <1>1 DEF SlotsRight, Early
<1>3. CASE SocketCall(c)
  <2>1. /\ stage' \in SocketCalls \cup {"MH_Initialize"} /\ pFile' = pFile
        /\ \A d \in SocketCalls : stage' = d => held' = HeldBefore[d]
        /\ stage' = "MH_Initialize" => held' = {"winsock", "client"}
        /\ held' \subseteq {"winsock", "addresses", "listener", "client"}
    BY <1>1, <1>3 DEF SocketCall, SocketCalls, NextStage, Acquired, ReleasedAfter, HeldBefore
  <2>2. SetupTypeOK'
    BY <1>1, <2>1 DEF SetupTypeOK, Stages, hookVars
  <2>3. Holdings'
    BY <2>1 DEF Holdings, SocketCalls, Late, NothingLeftBehind
  <2>4. LogKept'
    <3>1. profiling /\ ~badLog
      BY <1>1 DEF LogKept, SocketCalls
    <3> QED
      BY <1>1, <2>1, <3>1 DEF LogKept, LogUsedWhileOpen
  <2>5. SlotsRight' /\ Ready'
    BY <1>1, <1>2, <2>1 DEF SlotsRight, Ready, hookVars, SocketCalls, Late
  <2> QED
    BY <2>2, <2>3, <2>4, <2>5
<1>4. CASE SocketCallFails(c)
  <2>1. stage' = "over" /\ held' = {} /\ pFile' \in {"null", "closed"}
    BY <1>1, <1>4 DEF SocketCallFails, SocketCalls, HeldBefore, ReleasedOnError, SetupTypeOK
  <2>2. SetupTypeOK'
    BY <1>1, <2>1 DEF SetupTypeOK, Stages, hookVars
  <2>3. Holdings' /\ LogKept'
    BY <1>1, <2>1 DEF Holdings, SocketCalls, Late, NothingLeftBehind, LogKept, LogUsedWhileOpen
  <2>4. SlotsRight' /\ Ready'
    BY <1>1, <1>2, <2>1 DEF SlotsRight, Ready, hookVars, SocketCalls, Late
  <2> QED
    BY <2>2, <2>3, <2>4
<1> QED
  BY <1>3, <1>4

\* The rest of setupHeapProfiling up to the enumeration.
LEMMA BeginKeeps == LoadInv /\ (InitMinHook \/ InitSymbols) => LoadInv'
<1> SUFFICES ASSUME LoadInv, InitMinHook \/ InitSymbols PROVE LoadInv'
  OBVIOUS
<1> USE DEF LoadInv, socketVars
<1>1. CASE InitMinHook
  <2>1. /\ stage = "MH_Initialize" /\ stage' \in {"SymInitialize", "over"}
        /\ used' = [k \in Kinds |-> 0] /\ initialized' \in BOOLEAN
        /\ stage' = "SymInitialize" => initialized'
        /\ UNCHANGED <<held, pFile, section, unseen, found, current, originals, detour, enabled,
                       profiling, badLog>>
    BY <1>1 DEF InitMinHook, SetupTypeOK
  <2>2. enabled = {} /\ \A f \in Functions : detour[f] = Null
    BY <2>1 DEF SlotsRight, Early
  <2>3. "client" \in held
    BY <2>1 DEF Holdings
  <2>4. SetupTypeOK'
    <3>1. used' \in [Kinds -> 0 .. NumHooks]
      BY <2>1, NumHooksAssumption
    <3> QED
      BY <2>1, <3>1 DEF SetupTypeOK, Stages
  <2>5. Holdings'
    BY <2>1, <2>3 DEF Holdings, SocketCalls, Late, NothingLeftBehind
  <2>6. LogKept'
    BY <2>1 DEF LogKept, LogUsedWhileOpen, Stages
  <2>7. SlotsRight' /\ Ready'
    BY <2>1, <2>2 DEF SlotsRight, Ready, Early, SocketCalls, Late
  <2> QED
    BY <2>4, <2>5, <2>6, <2>7
<1>2. CASE InitSymbols
  <2>1. /\ stage = "SymInitialize" /\ stage' \in {"modules", "over"}
        /\ UNCHANGED <<held, pFile, section, initialized, unseen, found, current, used, originals,
                       detour, enabled, profiling, badLog>>
    BY <1>2 DEF InitSymbols, hookVars
  <2>2. SetupTypeOK'
    BY <2>1 DEF SetupTypeOK, Stages
  <2>3. Holdings' /\ LogKept'
    BY <2>1 DEF Holdings, SocketCalls, Late, NothingLeftBehind, LogKept, LogUsedWhileOpen, Stages
  <2>4. SlotsRight' /\ Ready'
    BY <2>1 DEF SlotsRight, Ready, Early, SocketCalls, Late
  <2> QED
    BY <2>2, <2>3, <2>4
<1> QED
  BY <1>1, <1>2

\* What follows from the invariant while symbols are enumerated, and what of it a
\* step of the enumeration keeps that leaves the slots alone.
LEMMA Enumerating ==
  ASSUME LoadInv, stage \in {"modules", "symbols", "enable"}
  PROVE  /\ "client" \in held /\ initialized /\ pFile # "closed"
         /\ profiling /\ ~badLog
BY DEF LoadInv, Holdings, Late, Ready, LogKept, Stages

LEMMA EnumerationKeeps ==
  ASSUME LoadInv, stage \in {"modules", "symbols", "enable"},
         stage' \in {"modules", "symbols", "enable", "over"},
         UNCHANGED <<held, pFile, section, initialized, profiling, badLog>>
  PROVE  Holdings' /\ LogKept' /\ Ready'
<1>1. /\ "client" \in held /\ initialized /\ pFile # "closed"
      /\ profiling /\ ~badLog
  BY Enumerating
<1> QED
  BY <1>1 DEF Holdings, SocketCalls, Late, NothingLeftBehind, LogKept, LogUsedWhileOpen,
              Stages, Ready

\* The steps between two symbols, and a symbol for which no slot is left.
LEMMA BetweenKeeps ==
  ASSUME LoadInv,
         \/ \E m \in Modules : EnumerateModule(m)
         \/ ModulesDone \/ SymbolsDone
         \/ \E s \in found : AllHooksUsed(s)
  PROVE  LoadInv'
<1> USE DEF LoadInv, socketVars, hookVars
<1>1. /\ stage \in {"modules", "symbols"} /\ stage' \in {"modules", "symbols", "over"}
      /\ UNCHANGED <<held, pFile, section, initialized, current, used, originals, detour, enabled,
                     profiling, badLog>>
  BY DEF EnumerateModule, ModulesDone, SymbolsDone, AllHooksUsed
<1>2. unseen' \subseteq Modules /\ found' \subseteq Symbols
  <2>1. \A m \in Modules : \A k \in Kinds : Found[k][m] \subseteq Functions
    BY DEF Functions
  <2>2. \A m \in Modules :
          UNION {[kind : {k}, address : Found[k][m]] : k \in Kinds} \subseteq Symbols
    <3> TAKE m \in Modules
    <3>1. ASSUME NEW k \in Kinds PROVE [kind : {k}, address : Found[k][m]] \subseteq Symbols
      <4>1. Found[k][m] \subseteq Functions
        BY <2>1
      <4> QED
        BY <4>1 DEF Symbols
    <3> QED
      BY <3>1
  <2>3. unseen \subseteq Modules /\ found \subseteq Symbols
    BY DEF SetupTypeOK
  <2>4. CASE \E m \in Modules : EnumerateModule(m)
    BY <2>2, <2>3, <2>4 DEF EnumerateModule
  <2>5. CASE ModulesDone \/ SymbolsDone \/ \E s \in found : AllHooksUsed(s)
    BY <2>3, <2>5 DEF ModulesDone, SymbolsDone, AllHooksUsed
  <2> QED
    BY <2>4, <2>5
<1>3. SetupTypeOK'
  BY <1>1, <1>2 DEF SetupTypeOK, Stages
<1>4. Holdings' /\ LogKept' /\ Ready'
  BY <1>1, EnumerationKeeps
<1>5. SlotsRight'
  BY <1>1 DEF SlotsRight, Early, SocketCalls
<1> QED
  BY <1>3, <1>4, <1>5

\* MH_CreateHook puts its trampoline into the next free slot, if at all.
LEMMA CreateKeeps ==
  ASSUME LoadInv, NEW s \in Symbols, Symbol(s)
  PROVE  LoadInv'
<1> USE DEF LoadInv, socketVars
<1> DEFINE k == s.kind
           n == used[k]
           a == s.address
<1>1. /\ stage = "symbols" /\ stage' = "enable" /\ n < NumHooks /\ current' = s
      /\ UNCHANGED <<held, pFile, section, initialized, unseen, used, enabled, profiling, badLog>>
      /\ found' \subseteq found
  BY DEF Symbol
<1>2. k \in Kinds /\ a \in Functions /\ n \in Slots /\ n \in Nat
  BY <1>1, NumHooksAssumption DEF Symbols, SetupTypeOK, Slots
<1>3. \/ /\ detour[a] = Null /\ detour' = [detour EXCEPT ![a] = <<k, n>>]
         /\ originals' = [originals EXCEPT ![k][n] = a]
      \/ UNCHANGED <<detour, originals>>
  BY DEF Symbol
<1> HIDE DEF k, n, a
<1>4. Holdings' /\ LogKept' /\ Ready'
  BY <1>1, EnumerationKeeps
<1>5. SetupTypeOK'
  <2>1. detour' \in [Functions -> (Kinds \X Slots) \cup {Null}]
    BY <1>2, <1>3 DEF SetupTypeOK
  <2>2. originals' \in [Kinds -> [Slots -> Functions \cup {Null}]]
    <3>1. originals \in [Kinds -> [Slots -> Functions \cup {Null}]]
      BY DEF SetupTypeOK
    <3>2. [originals[k] EXCEPT ![n] = a] \in [Slots -> Functions \cup {Null}]
      BY <1>2, <3>1
    <3>3. [originals EXCEPT ![k][n] = a] \in [Kinds -> [Slots -> Functions \cup {Null}]]
      BY <1>2, <3>1, <3>2
    <3> QED
      BY <1>3, <3>1, <3>3
  <2> QED
    BY <1>1, <2>1, <2>2 DEF SetupTypeOK, Stages
<1>6. \A f \in Functions : detour[f] # Null =>
        /\ originals[detour[f][1]][detour[f][2]] = f
        /\ detour[f][1] \in Kinds /\ detour[f][2] \in Slots /\ detour[f][2] < used[detour[f][1]]
  BY <1>1 DEF SlotsRight, SetupTypeOK
<1>7. \A f \in Functions : detour'[f] # Null =>
        /\ originals'[detour'[f][1]][detour'[f][2]] = f
        /\ detour'[f][2] < used[detour'[f][1]] \/ (k = detour'[f][1] /\ detour'[f][2] = used[k])
  <2> SUFFICES ASSUME NEW f \in Functions, detour'[f] # Null
               PROVE  /\ originals'[detour'[f][1]][detour'[f][2]] = f
                      /\ detour'[f][2] < used[detour'[f][1]]
                         \/ (k = detour'[f][1] /\ detour'[f][2] = used[k])
    OBVIOUS
  <2>1. CASE UNCHANGED <<detour, originals>>
    BY <1>6, <2>1
  <2>2. CASE /\ detour[a] = Null /\ detour' = [detour EXCEPT ![a] = <<k, n>>]
             /\ originals' = [originals EXCEPT ![k][n] = a]
    <3>1. /\ \A j \in Kinds, i \in Slots : originals'[j][i] = IF j = k /\ i = n THEN a ELSE originals[j][i]
          /\ detour'[f] = IF f = a THEN <<k, n>> ELSE detour[f]
      BY <1>2, <2>2 DEF SetupTypeOK
    <3>2. CASE f = a
      BY <1>2, <3>1, <3>2 DEF n
    <3>3. CASE f # a
      <4>1. ~(detour[f][1] = k /\ detour[f][2] = n)
        BY <1>2, <1>6, <3>1, <3>3 DEF n, Slots
      <4> QED
        BY <1>6, <3>1, <3>3, <4>1
    <3> QED
      BY <3>2, <3>3
  <2> QED
    BY <1>3, <2>1, <2>2
<1>8. \A f \in enabled : detour'[f] # Null
  <2>1. <<k, n>> # Null
    BY <1>2, NullAssumption
  <2>2. enabled \subseteq Functions /\ \A f \in enabled : detour[f] # Null
    BY DEF SlotsRight, SetupTypeOK
  <2> QED
    BY <1>2, <1>3, <2>1, <2>2 DEF SetupTypeOK
<1>9. SlotsRight'
  BY <1>1, <1>7, <1>8 DEF SlotsRight, Early, SocketCalls, k, n
<1> QED
  BY <1>4, <1>5, <1>9

\* MH_EnableHook, after which the slot counts as used.
LEMMA EnableKeeps == LoadInv /\ EnableSymbol => LoadInv'
<1> SUFFICES ASSUME LoadInv, EnableSymbol PROVE LoadInv'
  OBVIOUS
<1> USE DEF LoadInv, socketVars
<1>1. /\ stage = "enable" /\ stage' = "symbols" /\ current' = Null
      /\ used' = [used EXCEPT ![current.kind] = @ + 1]
      /\ UNCHANGED <<held, pFile, section, initialized, unseen, found, originals, detour,
                     profiling, badLog>>
      /\ \/ detour[current.address] # Null /\ enabled' = enabled \cup {current.address}
         \/ enabled' = enabled
  BY DEF EnableSymbol
<1>2. /\ current \in Symbols /\ current.kind \in Kinds /\ current.address \in Functions
      /\ used[current.kind] < NumHooks
  BY <1>1 DEF SlotsRight, Symbols
<1>3. Holdings' /\ LogKept' /\ Ready'
  BY <1>1, EnumerationKeeps
<1>4. SetupTypeOK'
  <2>1. used' \in [Kinds -> 0 .. NumHooks]
    BY <1>1, <1>2, NumHooksAssumption DEF SetupTypeOK
  <2> QED
    BY <1>1, <1>2, <2>1 DEF SetupTypeOK, Stages
<1>5. ASSUME NEW f \in Functions, detour[f] # Null
      PROVE  detour[f][2] < used'[detour[f][1]]
  <2>1. /\ detour[f][1] \in Kinds /\ detour[f][2] \in Nat
        /\ detour[f][2] < used[detour[f][1]]
           \/ (current.kind = detour[f][1] /\ detour[f][2] = used[detour[f][1]])
    BY <1>1, <1>5 DEF SlotsRight, SetupTypeOK, Slots
  <2>2. \A k \in Kinds : used[k] \in Nat /\ used'[k] = IF k = current.kind THEN used[k] + 1 ELSE used[k]
    BY <1>1, <1>2, NumHooksAssumption DEF SetupTypeOK
  <2> QED
    BY <2>1, <2>2
<1>6. SlotsRight'
  BY <1>1, <1>5 DEF SlotsRight, Early, SocketCalls
<1> QED
  BY <1>3, <1>4, <1>6

\* Every step of set-up.
LEMMA LoadKeeps == LoadInv /\ SetupStep => LoadInv'
<1> SUFFICES ASSUME LoadInv, SetupStep PROVE LoadInv'
  OBVIOUS
<1>1. found \subseteq Symbols /\ unseen \subseteq Modules
  BY DEF LoadInv, SetupTypeOK
<1>2. ASSUME NEW c \in SocketCalls, SocketCall(c) \/ SocketCallFails(c) PROVE LoadInv'
  BY <1>2, SocketKeeps
<1>3. CASE InitMinHook \/ InitSymbols
  BY <1>3, BeginKeeps
<1>4. CASE EnableSymbol
  BY <1>4, EnableKeeps
<1>5. ASSUME NEW s \in found, Symbol(s) PROVE LoadInv'
  BY <1>1, <1>5, CreateKeeps
<1>6. CASE \/ \E m \in Modules : EnumerateModule(m)
           \/ ModulesDone \/ SymbolsDone
           \/ \E s \in found : AllHooksUsed(s)
  BY <1>6, BetweenKeeps
<1> QED
  BY <1>2, <1>3, <1>4, <1>5, <1>6 DEF SetupStep

\* The end of the process, once set-up is over.
LEMMA UnloadKeeps ==
  ASSUME LoadInv, stage = "over", profiling, Detach
  PROVE  LoadInv' /\ ~profiling'
<1> USE DEF LoadInv
<1>1. /\ ~badLog /\ (pFile = "closed" => "client" \notin held)
  BY DEF LogKept
<1>2. /\ stage' = "over" /\ ~profiling' /\ section' = "deleted"
      /\ pFile' = IF pFile = "null" THEN "null" ELSE "closed"
      /\ badLog' = (badLog \/ pFile = "closed")
      /\ UNCHANGED <<held, unseen, found, current, used, originals>>
      /\ \/ enabled' = {} /\ detour' = [f \in Functions |-> Null] /\ initialized' = FALSE
         \/ UNCHANGED <<initialized, enabled, detour>>
  BY DEF Detach
<1>3. profiling' = FALSE /\ badLog' \in BOOLEAN /\ initialized' \in BOOLEAN
  BY DEF Detach, SetupTypeOK
<1>4. SetupTypeOK'
  BY <1>2, <1>3 DEF SetupTypeOK
<1>5. Holdings'
  BY <1>2 DEF Holdings, SocketCalls, Late, NothingLeftBehind
<1>6. LogKept'
  BY <1>1, <1>2 DEF LogKept, LogUsedWhileOpen
<1>7. SlotsRight'
  BY <1>2 DEF SlotsRight, Early, SocketCalls
<1>8. Ready'
  BY <1>2 DEF Ready, Late
<1> QED
  BY <1>2, <1>4, <1>5, <1>6, <1>7, <1>8

-----------------------------------------------------------------------------
(* The critical section                                                    *)

LEMMA SetupInitially == SetupInit => SetupInv
BY LoadInitially DEF SetupInit, SetupInv, SectionRight

LEMMA StartKeeps == SetupInv /\ StartSetup => SetupInv'
<1> SUFFICES ASSUME SetupInv, StartSetup PROVE SetupInv'
  OBVIOUS
<1>1. LoadInv'
  BY OpenKeeps DEF SetupInv, StartSetup
<1> QED
  BY <1>1 DEF SetupInv, SectionRight, StartSetup

LEMMA SetupKeeps == SetupInv /\ SetupStep => SetupInv'
<1> SUFFICES ASSUME SetupInv, SetupStep PROVE SetupInv'
  OBVIOUS
<1>1. stage # "none" /\ UNCHANGED <<section, profiling>>
  BY DEF SetupStep, SocketCall, SocketCallFails, SocketCalls, InitMinHook, InitSymbols, ModulesDone,
         SymbolsDone, EnableSymbol, EnumerateModule, Symbol, AllHooksUsed, socketVars
<1>2. LoadInv'
  BY LoadKeeps DEF SetupInv
<1> QED
  BY <1>1, <1>2 DEF SetupInv, SectionRight

LEMMA DetachKeeps ==
  ASSUME SetupInv, stage = "over", profiling, Detach
  PROVE  SetupInv' /\ ~profiling'
BY UnloadKeeps DEF SetupInv, SectionRight

\* The critical section is there whenever a jump is.
LEMMA ReadySuffices == SetupInv => ReadyBehindEveryJump
<1> SUFFICES ASSUME SetupInv, enabled # {}
             PROVE  initialized /\ "client" \in held /\ (profiling => section = "ready")
  BY DEF ReadyBehindEveryJump
<1>1. stage # "none"
  BY DEF SetupInv, LoadInv, SlotsRight, Early
<1> QED
  BY <1>1 DEF SetupInv, LoadInv, Ready, SectionRight

\* Set-up is untouched by a step that leaves its variables alone.
LEMMA SetupUntouched == SetupInv /\ UNCHANGED setupVars => SetupInv'
BY DEF setupVars, SetupInv, LoadInv, SectionRight, SetupTypeOK, Holdings, LogKept, SlotsRight,
       Ready, NothingLeftBehind, LogUsedWhileOpen

-----------------------------------------------------------------------------
(* The inductive invariant of an injection                                 *)

Holders == {i \in Injectors : holding[i]}

\* Where main is tells what it has: up to the suspension nothing, then the handle
\* and the suspension, until one of them is given up.
Stage(i) ==
  /\ pc[i] \in {"parse", "check", "open", "launch"} => handle[i] = "none"
  /\ pc[i] \in {"parse", "check", "open", "suspend", "launch"} => ~holding[i] /\ ~launched[i]
  /\ pc[i] \in {"open", "suspend"} => parse[i].processId # 0
  /\ pc[i] = "suspend" => handle[i] = "open"
  /\ pc[i] = "allocate" => (handle[i] = "open" /\ holding[i]) \/ (handle[i] = "garbage" /\ ~holding[i])
  /\ pc[i] \in {"write", "create", "wait", "resume"} => handle[i] = "open" /\ holding[i]
  /\ pc[i] = "catch" => (handle[i] = "open" /\ holding[i]) \/ handle[i] = "closed"
  /\ handle[i] = "open" => launched[i] \/ parse[i].processId # 0
  /\ handle[i] = "open" \/ holding[i] => target # "absent"
  /\ remote[i] => pc[i] \in {"write", "create", "wait"}
  /\ pc[i] = "exit" /\ holding[i] /\ target = "alive" =>
       exit[i] = -1 /\ (launched[i] \/ handle[i] = "closed")

\* The threads of the injectors in the target, and the loader lock.
ThreadsRight ==
  /\ \A i \in Injectors : thread[i] = "running" => pc[i] = "wait" /\ target = "alive"
  /\ loader \in Injectors => thread[loader] = "running"
  /\ stage \notin {"none", "over"} => loader \in Injectors
  /\ target = "absent" => suspends[Own] = 0
  /\ target # "ended" => profiling

\* The inductive invariant.
IInv ==
  /\ TypeOK /\ SetupInv /\ ThreadsRight /\ SuspensionsCounted
  /\ \A i \in Injectors : Stage(i)

-----------------------------------------------------------------------------
\* The holders are finitely many, and one more or one less changes their number so.
LEMMA HoldersCount ==
  ASSUME NEW H, H \subseteq Injectors
  PROVE  /\ Cardinality(H) \in Nat
         /\ \A i \in Injectors \ H : Cardinality(H \cup {i}) = Cardinality(H) + 1
         /\ \A i \in H : Cardinality(H \ {i}) = Cardinality(H) - 1 /\ Cardinality(H) > 0
<1>1. IsFiniteSet(H) /\ Cardinality(H) \in Nat
  BY InjectorsAssumption, FS_Subset, FS_CardinalityType
<1>2. \A i \in Injectors \ H : Cardinality(H \cup {i}) = Cardinality(H) + 1
  BY <1>1, FS_AddElement
<1>3. ASSUME NEW i \in H PROVE Cardinality(H \ {i}) = Cardinality(H) - 1 /\ Cardinality(H) > 0
  <2>1. Cardinality(H \ {i}) = Cardinality(H) - 1
    BY <1>1, FS_RemoveElement
  <2>2. Cardinality(H) # 0
    BY <1>1, FS_EmptySet
  <2> QED
    BY <1>1, <2>1, <2>2
<1> QED
  BY <1>1, <1>2, <1>3

\* Changing whether one injector holds the target.
LEMMA HoldersChange ==
  ASSUME NEW i \in Injectors, NEW b \in BOOLEAN, holding \in [Injectors -> BOOLEAN],
         holding' = [holding EXCEPT ![i] = b]
  PROVE  Holders' = IF b THEN Holders \cup {i} ELSE Holders \ {i}
BY DEF Holders

LEMMA Initially == Init => IInv
<1> SUFFICES ASSUME Init PROVE IInv
  OBVIOUS
<1>1. SetupInv
  BY SetupInitially DEF Init
<1>2. TypeOK
  <2>1. [i |-> 1, processId |-> 0, commandLine |-> <<>>, dllPath |-> ""] \in ParseState
    BY DEF ParseState
  <2>2. parse \in [Injectors -> ParseState]
    BY <2>1 DEF Init
  <2>3. SetupTypeOK
    BY <1>1 DEF SetupInv, LoadInv
  <2> QED
    BY <2>2, <2>3 DEF Init, TypeOK, Stops
<1>3. ThreadsRight
  BY LoaderAssumption DEF Init, ThreadsRight, SetupInit, TargetThreads
<1>4. SuspensionsCounted
  <2>1. {i \in Injectors : holding[i]} = {}
    BY DEF Init
  <2> QED
    BY <2>1, FS_EmptySet DEF Init, SuspensionsCounted, TargetThreads
<1>5. ASSUME NEW i \in Injectors PROVE Stage(i)
  BY DEF Init, Stage
<1> QED
  BY <1>1, <1>2, <1>3, <1>4, <1>5 DEF IInv

\* The steps of main that leave the target and its suspensions alone: set-up and
\* the count are as before, and another injector notices nothing.
LEMMA OthersKeep ==
  ASSUME IInv, NEW i \in Injectors, UNCHANGED <<setupVars, targetVars, holding>>,
         \A j \in Injectors \ {i} :
           /\ pc'[j] = pc[j] /\ handle'[j] = handle[j] /\ launched'[j] = launched[j]
           /\ parse'[j] = parse[j] /\ remote'[j] = remote[j] /\ exit'[j] = exit[j],
         TypeOK', Stage(i)', thread[i] = "running" => pc'[i] = "wait"
  PROVE  IInv'
<1> USE DEF IInv, targetVars
<1>1. SetupInv'
  BY SetupUntouched
<1>2. ThreadsRight'
  BY DEF ThreadsRight, setupVars
<1>3. SuspensionsCounted'
  BY DEF SuspensionsCounted
<1>4. \A j \in Injectors : Stage(j)'
  BY DEF Stage
<1> QED
  BY <1>1, <1>2, <1>3, <1>4

-----------------------------------------------------------------------------
(* The command line, and the steps of main that leave the target alone     *)

\* What one turn of the loop makes of the parse state is one again.
LEMMA ParseTypes ==
  ASSUME TypeOK, NEW i \in Injectors, parse[i].i <= Len(args[i])
  PROVE  NextParse(i) \in ParseState
<1>1. PICK line \in Seq(Words) : line = args[i]
  BY LinesAssumption DEF TypeOK
<1>2. PICK p \in ParseState : p = parse[i]
  BY DEF TypeOK
<1>3. /\ p.i \in Nat \ {0} /\ p.i <= Len(line) /\ Len(line) \in Nat
      /\ p.i + 1 \in Nat \ {0} /\ p.i + 2 \in Nat \ {0} /\ Len(line) + 1 \in Nat \ {0}
  <2>1. p.i \in Nat \ {0}
    BY <1>2 DEF ParseState
  <2>2. Len(line) \in Nat
    BY <1>1, LenProperties
  <2>3. p.i <= Len(line)
    BY <1>1, <1>2
  <2> QED
    BY <2>1, <2>2, <2>3
<1>4. HasValue(i) => Value(i) \in Words
  BY <1>1, <1>2, <1>3, SMTT(30) DEF HasValue, Value
<1>5. p.commandLine \o SubSeq(line, p.i + 1, Len(line)) \in Seq(Words)
  <2>1. p.commandLine \in Seq(Words)
    BY DEF ParseState
  <2>2. SubSeq(line, p.i + 1, Len(line)) \in Seq(Words)
    <3>1. \A n \in p.i + 1 .. Len(line) : line[n] \in Words
      BY <1>3
    <3>2. p.i + 1 \in Int /\ Len(line) \in Int
      BY <1>3
    <3> QED
      BY <3>1, <3>2, SubSeqProperties
  <2> QED
    BY <2>1, <2>2, ConcatProperties
<1>6. HasValue(i) => <<Value(i)>> \in Seq(Words)
  BY <1>4
<1>7. CASE Argument(i) = "-p" /\ HasValue(i)
  <2>1. PICK x \in {0, 1} : x = IF Value(i) \in Pids THEN 1 ELSE 0
    OBVIOUS
  <2>2. PICK n \in Nat \ {0} : n = p.i + 1
    BY <1>3
  <2>3. NextParse(i) = [p EXCEPT !.processId = x, !.i = n]
    BY <1>1, <1>2, <1>7, <2>1, <2>2 DEF NextParse
  <2> QED
    BY <1>2, <2>1, <2>2, <2>3 DEF ParseState
<1>8. CASE Argument(i) = "-e" /\ HasValue(i)
  <2>1. PICK w \in Seq(Words) : w = <<Value(i)>>
    BY <1>6, <1>8
  <2>2. PICK n \in Nat \ {0} : n = p.i + 2
    BY <1>3
  <2>3. NextParse(i) = [p EXCEPT !.commandLine = w, !.i = n]
    BY <1>1, <1>2, <1>8, <2>1, <2>2 DEF NextParse
  <2> QED
    BY <1>2, <2>1, <2>2, <2>3 DEF ParseState
<1>9. CASE Argument(i) = "-a"
  <2>1. PICK c \in Seq(Words) : c = p.commandLine \o SubSeq(line, p.i + 1, Len(line))
    BY <1>5
  <2>2. PICK n \in Nat \ {0} : n = p.i + 1
    BY <1>3
  <2>3. NextParse(i) = [p EXCEPT !.commandLine = c, !.i = n]
    BY <1>1, <1>2, <1>9, <2>1, <2>2 DEF NextParse
  <2> QED
    BY <1>2, <2>1, <2>2, <2>3 DEF ParseState
<1>10. CASE Argument(i) = "-d"
  <2>1. PICK d \in Words \cup {""} : d = IF HasValue(i) THEN Value(i) ELSE p.dllPath
    BY <1>4 DEF ParseState
  <2>2. PICK n \in Nat \ {0} : n = Len(line) + 1
    BY <1>3
  <2>3. NextParse(i) = [p EXCEPT !.dllPath = d, !.i = n]
    BY <1>1, <1>2, <1>10, <2>1, <2>2 DEF NextParse
  <2> QED
    BY <1>2, <2>1, <2>2, <2>3 DEF ParseState
<1>11. CASE /\ ~(Argument(i) = "-p" /\ HasValue(i)) /\ ~(Argument(i) = "-e" /\ HasValue(i))
            /\ Argument(i) # "-a" /\ Argument(i) # "-d"
  <2>1. PICK n \in Nat \ {0} : n = p.i + 1
    BY <1>3
  <2>2. NextParse(i) = [p EXCEPT !.i = n]
    BY <1>1, <1>2, <1>11, <2>1 DEF NextParse
  <2> QED
    BY <1>2, <2>1, <2>2 DEF ParseState
<1> QED
  BY <1>7, <1>8, <1>9, <1>10, <1>11

LEMMA ParseKeeps ==
  ASSUME IInv, NEW i \in Injectors, ParseArgument(i) \/ Parsed(i)
  PROVE  IInv'
<1> USE DEF IInv, targetVars
<1>1. Stage(i) /\ pc[i] = "parse" /\ UNCHANGED <<args, handle, launched, remote, holding>>
      /\ UNCHANGED <<setupVars, targetVars>>
  BY DEF ParseArgument, Parsed
<1>2. CASE ParseArgument(i)
  <2>0. TypeOK /\ parse \in [Injectors -> ParseState]
    BY DEF TypeOK
  <2>1. /\ parse' \in [Injectors -> ParseState] /\ \A j \in Injectors \ {i} : parse'[j] = parse[j]
        /\ UNCHANGED <<pc, exit>>
    BY <1>2, <2>0, ParseTypes DEF ParseArgument
  <2>2. TypeOK'
    BY <1>1, <2>1 DEF TypeOK, SetupTypeOK, setupVars
  <2>3. Stage(i)'
    BY <1>1, <2>1 DEF Stage
  <2>4. thread[i] # "running"
    BY <1>1 DEF ThreadsRight
  <2> QED
    BY <1>1, <2>1, <2>2, <2>3, <2>4, OthersKeep
<1>3. CASE Parsed(i)
  <2>1. /\ parse' = parse /\ pc \in [Injectors -> Stops] /\ exit \in [Injectors -> {-1, 0, 1}]
        /\ \/ pc' = [pc EXCEPT ![i] = "exit"] /\ exit' = [exit EXCEPT ![i] = -1]
           \/ pc' = [pc EXCEPT ![i] = "check"] /\ exit' = exit
    BY <1>3 DEF Parsed, TypeOK
  <2>2. TypeOK'
    BY <1>1, <2>1, SMTT(30) DEF TypeOK, SetupTypeOK, setupVars, Stops
  <2>3. Stage(i)'
    BY <1>1, <2>1 DEF Stage
  <2>4. thread[i] # "running"
    BY <1>1 DEF ThreadsRight
  <2>5. \A j \in Injectors \ {i} : pc'[j] = pc[j] /\ exit'[j] = exit[j]
    BY <2>1
  <2> QED
    BY <1>1, <2>1, <2>2, <2>3, <2>4, <2>5, OthersKeep
<1> QED
  BY <1>2, <1>3

\* The checks before the target is touched, and main's failures there.
LEMMA CheckKeeps ==
  ASSUME IInv, NEW i \in Injectors, CheckLibrary(i) \/ OpenTarget(i)
  PROVE  IInv'
<1> USE DEF IInv, targetVars
<1>1. /\ Stage(i) /\ pc[i] \in {"check", "open"} /\ parse[i].processId \in {0, 1}
      /\ UNCHANGED <<args, parse, launched, remote, holding>> /\ UNCHANGED <<setupVars, targetVars>>
      /\ pc \in [Injectors -> Stops] /\ exit \in [Injectors -> {-1, 0, 1}]
      /\ handle \in [Injectors -> {"none", "open", "closed", "garbage"}]
  BY DEF CheckLibrary, OpenTarget, TypeOK, ParseState
<1>2. PICK p \in Stops, h \in {"none", "open", "garbage"}, e \in {-1, 0, 1} :
        /\ pc' = [pc EXCEPT ![i] = p] /\ handle' = [handle EXCEPT ![i] = h]
        /\ exit' = [exit EXCEPT ![i] = e]
        /\ \/ p = "exit" /\ h = "none"
           \/ p = "open" /\ h = "none" /\ parse[i].processId # 0
           \/ p = "launch" /\ h = "none"
           \/ p = "allocate" /\ h = "garbage"
           \/ p = "suspend" /\ h = "open" /\ parse[i].processId # 0 /\ target = "alive"
  <2>1. handle[i] = "none"
    BY <1>1 DEF Stage
  <2>2. exit[i] \in {-1, 0, 1} /\ exit = [exit EXCEPT ![i] = exit[i]] /\ handle = [handle EXCEPT ![i] = "none"]
    BY <1>1, <2>1
  <2>3. CASE CheckLibrary(i)
    BY <1>1, <2>1, <2>2, <2>3 DEF CheckLibrary, Exit, Stops
  <2>4. CASE OpenTarget(i)
    BY <1>1, <2>1, <2>2, <2>4 DEF OpenTarget, Exit, Stops, Stage
  <2> QED
    BY <2>3, <2>4
<1>3. TypeOK'
  BY <1>1, <1>2 DEF TypeOK, SetupTypeOK, setupVars
<1>4. Stage(i)'
  BY <1>1, <1>2 DEF Stage
<1>5. thread[i] # "running"
  BY <1>1 DEF ThreadsRight
<1>6. \A j \in Injectors \ {i} : pc'[j] = pc[j] /\ exit'[j] = exit[j] /\ handle'[j] = handle[j]
  BY <1>1, <1>2
<1> QED
  BY <1>1, <1>3, <1>4, <1>5, <1>6, OthersKeep

-----------------------------------------------------------------------------
(* Loading the library: every failure before the thread is made throws     *)

LEMMA LoadingKeeps ==
  ASSUME IInv, NEW i \in Injectors, AllocateName(i) \/ WriteName(i) \/ WaitForThread(i)
  PROVE  IInv'
<1> USE DEF IInv, targetVars
<1>1. /\ Stage(i) /\ pc[i] \in {"allocate", "write", "wait"}
      /\ UNCHANGED <<args, parse, launched, holding, exit>> /\ UNCHANGED <<setupVars, targetVars>>
      /\ pc \in [Injectors -> Stops] /\ remote \in [Injectors -> BOOLEAN]
      /\ handle \in [Injectors -> {"none", "open", "closed", "garbage"}]
  BY DEF AllocateName, WriteName, WaitForThread, Throw, TypeOK
<1>2. PICK p \in Stops, h \in {"open", "closed"}, r \in BOOLEAN :
        /\ pc' = [pc EXCEPT ![i] = p] /\ handle' = [handle EXCEPT ![i] = h]
        /\ remote' = [remote EXCEPT ![i] = r]
        /\ \/ p = "catch" /\ h = "closed" /\ ~r
           \/ p \in {"write", "create"} /\ h = "open" /\ handle[i] = "open"
           \/ p \in {"catch", "resume"} /\ h = "open" /\ handle[i] = "open" /\ holding[i] /\ ~r
  <2>1. remote = [remote EXCEPT ![i] = remote[i]] /\ remote[i] \in BOOLEAN
        /\ (handle[i] = "open" => handle = [handle EXCEPT ![i] = "open"])
    BY <1>1
  <2>2. CASE AllocateName(i)
    BY <1>1, <2>1, <2>2 DEF AllocateName, Throw, Reaches, Stops
  <2>3. CASE WriteName(i)
    BY <1>1, <2>1, <2>3 DEF WriteName, Throw, Reaches, Stops
  <2>4. CASE WaitForThread(i)
    BY <1>1, <2>1, <2>4 DEF WaitForThread, Stage, Stops
  <2> QED
    BY <1>1, <2>2, <2>3, <2>4
<1>3. TypeOK'
  BY <1>1, <1>2 DEF TypeOK, SetupTypeOK, setupVars
<1>4. Stage(i)'
  BY <1>1, <1>2 DEF Stage
<1>5. thread[i] # "running"
  <2>1. CASE WaitForThread(i)
    BY <2>1 DEF WaitForThread
  <2>2. CASE AllocateName(i) \/ WriteName(i)
    BY <2>2 DEF AllocateName, WriteName, ThreadsRight
  <2> QED
    BY <2>1, <2>2
<1>6. \A j \in Injectors \ {i} : pc'[j] = pc[j] /\ remote'[j] = remote[j] /\ handle'[j] = handle[j]
  BY <1>1, <1>2
<1> QED
  BY <1>1, <1>3, <1>4, <1>5, <1>6, OthersKeep

\* The thread is made in a target that is there, and while its maker holds it.
LEMMA CreateThreadKeeps ==
  ASSUME IInv, NEW i \in Injectors, CreateThread(i)
  PROVE  IInv'
<1> USE DEF IInv
<1>1. /\ Stage(i) /\ pc[i] = "create" /\ handle[i] = "open" /\ holding[i]
      /\ UNCHANGED <<args, parse, launched, holding, exit, target, loader, suspends, result>>
      /\ UNCHANGED setupVars
      /\ pc \in [Injectors -> Stops] /\ remote \in [Injectors -> BOOLEAN]
      /\ handle \in [Injectors -> {"none", "open", "closed", "garbage"}]
      /\ thread \in [Injectors -> {"none", "running", "ended"}]
  BY DEF CreateThread, Throw, TypeOK, Stage
<1>2. PICK p \in Stops, h \in {"open", "closed"}, r \in BOOLEAN, t \in {"none", "running", "ended"} :
        /\ pc' = [pc EXCEPT ![i] = p] /\ handle' = [handle EXCEPT ![i] = h]
        /\ remote' = [remote EXCEPT ![i] = r] /\ thread' = [thread EXCEPT ![i] = t]
        /\ \/ p = "catch" /\ h = "closed" /\ ~r /\ t = thread[i] /\ t # "running"
           \/ p = "wait" /\ h = "open" /\ t = "running" /\ target = "alive"
  <2>1. remote = [remote EXCEPT ![i] = remote[i]] /\ remote[i] \in BOOLEAN
        /\ handle = [handle EXCEPT ![i] = "open"]
        /\ thread = [thread EXCEPT ![i] = thread[i]] /\ thread[i] \in {"none", "running", "ended"}
    BY <1>1
  <2>2. thread[i] # "running"
    BY <1>1 DEF ThreadsRight
  <2> QED
    BY <1>1, <2>1, <2>2 DEF CreateThread, Throw, Reaches, Stops
<1>3. SetupInv'
  BY <1>1, SetupUntouched
<1>4. TypeOK'
  BY <1>1, <1>2 DEF TypeOK, SetupTypeOK, setupVars
<1>5. ThreadsRight'
  <2>1. \A j \in Injectors : thread'[j] = "running" => pc'[j] = "wait" /\ target' = "alive"
    BY <1>1, <1>2 DEF ThreadsRight
  <2>2. loader \in Injectors => thread'[loader] = "running"
    BY <1>1, <1>2 DEF ThreadsRight
  <2> QED
    BY <1>1, <2>1, <2>2 DEF ThreadsRight, setupVars
<1>6. SuspensionsCounted'
  BY <1>1 DEF SuspensionsCounted
<1>7. \A j \in Injectors : Stage(j)'
  BY <1>1, <1>2 DEF Stage
<1> QED
  BY <1>3, <1>4, <1>5, <1>6, <1>7

-----------------------------------------------------------------------------
(* Suspending and resuming the target                                      *)

\* The steps that change who holds the target: the rest of the invariant is as before
\* if the count and the stage of the injector are right.
LEMMA HoldingKeeps ==
  ASSUME IInv, NEW i \in Injectors, TypeOK', SuspensionsCounted', Stage(i)',
         UNCHANGED <<setupVars, loader, thread>>,
         thread[i] # "running",
         target' = target \/ (target = "absent" /\ target' = "alive"),
         target' = "absent" => suspends'[Own] = 0,
         \A j \in Injectors \ {i} :
           /\ pc'[j] = pc[j] /\ handle'[j] = handle[j] /\ launched'[j] = launched[j]
           /\ parse'[j] = parse[j] /\ remote'[j] = remote[j] /\ exit'[j] = exit[j]
           /\ holding'[j] = holding[j]
  PROVE  IInv'
<1> USE DEF IInv
<1>1. SetupInv'
  BY SetupUntouched
<1>2. ThreadsRight'
  BY DEF ThreadsRight, setupVars
<1>3. \A j \in Injectors : Stage(j)'
  BY DEF Stage
<1> QED
  BY <1>1, <1>2, <1>3

\* What is known of the suspensions before a step of main.
LEMMA Counts ==
  ASSUME IInv, NEW i \in Injectors
  PROVE  /\ suspends \in [TargetThreads -> Nat] /\ Own \in TargetThreads /\ Own \in Present
         /\ Present \subseteq TargetThreads
         /\ Holders \subseteq Injectors /\ Cardinality(Holders) \in Nat
         /\ holding \in [Injectors -> BOOLEAN]
         /\ target = "alive" => suspends[Own] = Cardinality(Holders)
         /\ holding[i] => Cardinality(Holders) > 0 /\ Cardinality(Holders \ {i}) = Cardinality(Holders) - 1
         /\ ~holding[i] => Cardinality(Holders \cup {i}) = Cardinality(Holders) + 1
<1>1. Holders \subseteq Injectors
  BY DEF Holders
<1>2. /\ Cardinality(Holders) \in Nat
      /\ holding[i] => Cardinality(Holders) > 0 /\ Cardinality(Holders \ {i}) = Cardinality(Holders) - 1
      /\ ~holding[i] => Cardinality(Holders \cup {i}) = Cardinality(Holders) + 1
  <2>1. holding[i] => i \in Holders
    BY DEF Holders
  <2>2. ~holding[i] => i \in Injectors \ Holders
    BY DEF Holders
  <2> QED
    BY <1>1, <2>1, <2>2, HoldersCount
<1>3. target = "alive" => suspends[Own] = Cardinality(Holders)
  BY DEF IInv, SuspensionsCounted, Holders
<1> QED
  BY <1>1, <1>2, <1>3 DEF IInv, TypeOK, TargetThreads, Present

LEMMA SuspendKeeps ==
  ASSUME IInv, NEW i \in Injectors, Suspend(i)
  PROVE  IInv'
<1>1. /\ Stage(i) /\ pc[i] = "suspend" /\ handle[i] = "open" /\ ~holding[i] /\ ~launched[i]
      /\ parse[i].processId # 0
      /\ UNCHANGED <<setupVars, args, parse, handle, launched, remote, target, loader, thread, result>>
      /\ pc \in [Injectors -> Stops] /\ exit \in [Injectors -> {-1, 0, 1}]
  BY DEF IInv, Suspend, TypeOK, Stage
<1>2. thread[i] # "running"
  BY <1>1 DEF IInv, ThreadsRight
<1>3. CASE pc' = [pc EXCEPT ![i] = "exit"] /\ exit' = [exit EXCEPT ![i] = 1]
           /\ UNCHANGED <<suspends, holding>>
  <2>1. TypeOK'
    BY <1>1, <1>3 DEF IInv, TypeOK, SetupTypeOK, setupVars, Stops
  <2>2. SuspensionsCounted'
    BY <1>1, <1>3 DEF IInv, SuspensionsCounted
  <2>3. Stage(i)'
    BY <1>1, <1>3 DEF Stage
  <2>4. target' = "absent" => suspends'[Own] = 0
    BY <1>1, <1>3 DEF IInv, ThreadsRight
  <2> QED
    BY <1>1, <1>2, <1>3, <2>1, <2>2, <2>3, <2>4, HoldingKeeps
<1>4. CASE /\ target = "alive"
           /\ suspends' = [t \in TargetThreads |-> suspends[t] + (IF t \in Present THEN 1 ELSE 0)]
           /\ holding' = [holding EXCEPT ![i] = TRUE]
           /\ pc' = [pc EXCEPT ![i] = "allocate"] /\ UNCHANGED exit
  <2>1. suspends' \in [TargetThreads -> Nat] /\ suspends'[Own] = suspends[Own] + 1
    <3>1. ASSUME NEW t \in TargetThreads PROVE suspends[t] + (IF t \in Present THEN 1 ELSE 0) \in Nat
      <4>1. suspends[t] \in Nat
        BY Counts
      <4> QED
        BY <4>1
    <3>2. suspends'[Own] = suspends[Own] + 1
      BY <1>4, Counts
    <3> QED
      BY <1>4, <3>1, <3>2
  <2>2. holding' \in [Injectors -> BOOLEAN] /\ holding'[i]
    BY <1>4, Counts
  <2>3. TypeOK'
    BY <1>1, <1>4, <2>1, <2>2 DEF IInv, TypeOK, SetupTypeOK, setupVars, Stops
  <2>4. Holders' = Holders \cup {i}
    BY <1>4, HoldersChange, Counts
  <2>5. SuspensionsCounted'
    BY <1>1, <1>4, <2>1, <2>4, Counts DEF SuspensionsCounted, Holders
  <2>6. Stage(i)'
    BY <1>1, <1>4, <2>2 DEF Stage
  <2>7. \A j \in Injectors \ {i} : pc'[j] = pc[j] /\ holding'[j] = holding[j]
    BY <1>1, <1>4, Counts
  <2> QED
    BY <1>1, <1>2, <1>4, <2>3, <2>5, <2>6, <2>7, HoldingKeeps
<1> QED
  BY <1>3, <1>4 DEF Suspend, Exit

\* A target that is launched has no holder before: nobody holds one that is absent.
LEMMA LaunchKeeps ==
  ASSUME IInv, NEW i \in Injectors, Launch(i)
  PROVE  IInv'
<1>1. /\ Stage(i) /\ pc[i] = "launch" /\ handle[i] = "none" /\ ~holding[i] /\ ~launched[i]
      /\ UNCHANGED <<setupVars, args, parse, remote, loader, thread, result>>
      /\ pc \in [Injectors -> Stops] /\ exit \in [Injectors -> {-1, 0, 1}]
      /\ launched \in [Injectors -> BOOLEAN]
      /\ handle \in [Injectors -> {"none", "open", "closed", "garbage"}]
  BY DEF IInv, Launch, TypeOK, Stage
<1>2. thread[i] # "running"
  BY <1>1 DEF IInv, ThreadsRight
<1>3. CASE pc' = [pc EXCEPT ![i] = "exit"] /\ exit' = [exit EXCEPT ![i] = -1]
           /\ UNCHANGED <<target, suspends, holding, launched, handle>>
  <2>1. TypeOK'
    BY <1>1, <1>3 DEF IInv, TypeOK, SetupTypeOK, setupVars, Stops
  <2>2. SuspensionsCounted'
    BY <1>1, <1>3 DEF IInv, SuspensionsCounted
  <2>3. Stage(i)'
    BY <1>1, <1>3 DEF Stage
  <2>4. target' = "absent" => suspends'[Own] = 0
    BY <1>1, <1>3 DEF IInv, ThreadsRight
  <2> QED
    BY <1>1, <1>2, <1>3, <2>1, <2>2, <2>3, <2>4, HoldingKeeps
<1>4. CASE /\ target = "absent" /\ target' = "alive"
           /\ suspends' = [suspends EXCEPT ![Own] = 1]
           /\ holding' = [holding EXCEPT ![i] = TRUE]
           /\ launched' = [launched EXCEPT ![i] = TRUE]
           /\ handle' = [handle EXCEPT ![i] = "open"]
           /\ pc' = [pc EXCEPT ![i] = "allocate"] /\ UNCHANGED exit
  <2>1. suspends' \in [TargetThreads -> Nat] /\ suspends'[Own] = 1
    BY <1>4, Counts
  <2>2. holding' \in [Injectors -> BOOLEAN] /\ holding'[i]
    BY <1>4, Counts
  <2>3. TypeOK'
    BY <1>1, <1>4, <2>1, <2>2 DEF IInv, TypeOK, SetupTypeOK, setupVars, Stops
  <2>4. Holders' = Holders \cup {i}
    BY <1>4, HoldersChange, Counts
  <2>5. Holders = {}
    BY <1>4 DEF IInv, Stage, Holders
  <2>6. Cardinality(Holders') = 1
    BY <1>1, <2>4, <2>5, Counts, FS_EmptySet
  <2>7. SuspensionsCounted'
    BY <2>1, <2>6 DEF SuspensionsCounted, Holders
  <2>8. Stage(i)'
    BY <1>1, <1>4, <2>2 DEF Stage
  <2>9. \A j \in Injectors \ {i} : pc'[j] = pc[j] /\ holding'[j] = holding[j]
          /\ launched'[j] = launched[j] /\ handle'[j] = handle[j]
    BY <1>1, <1>4, Counts
  <2> QED
    BY <1>1, <1>2, <1>4, <2>3, <2>7, <2>8, <2>9, HoldingKeeps
<1> QED
  BY <1>3, <1>4 DEF Launch, Exit

\* ResumeThread on a count keeps it a number.
LEMMA LessTypes == \A n \in Nat : Less(n) \in Nat
BY DEF Less

\* One suspension less, and one holder less.
LEMMA ResumeKeeps ==
  ASSUME IInv, NEW i \in Injectors, Catch(i) \/ Resume(i)
  PROVE  IInv'
<1>1. /\ Stage(i) /\ pc[i] \in {"catch", "resume"}
      /\ UNCHANGED <<setupVars, args, parse, handle, launched, remote, target, loader, thread, result>>
      /\ pc \in [Injectors -> Stops] /\ exit \in [Injectors -> {-1, 0, 1}]
      /\ launched \in [Injectors -> BOOLEAN] /\ ~remote[i]
  BY DEF IInv, Catch, Resume, TypeOK, Stage
<1>2. thread[i] # "running"
  BY <1>1 DEF IInv, ThreadsRight
<1>3. PICK e \in {-1, 0} : /\ pc' = [pc EXCEPT ![i] = "exit"] /\ exit' = [exit EXCEPT ![i] = e]
                           /\ e = 0 => pc[i] = "resume"
  BY DEF Catch, Resume, Exit
<1>4. CASE UNCHANGED <<suspends, holding>> /\ (holding[i] /\ target = "alive" =>
             e = -1 /\ (launched[i] \/ handle[i] = "closed"))
  <2>1. TypeOK'
    BY <1>1, <1>3, <1>4 DEF IInv, TypeOK, SetupTypeOK, setupVars, Stops
  <2>2. SuspensionsCounted'
    BY <1>1, <1>4 DEF IInv, SuspensionsCounted
  <2>3. Stage(i)'
    BY <1>1, <1>3, <1>4 DEF Stage
  <2>4. target' = "absent" => suspends'[Own] = 0
    BY <1>1, <1>4 DEF IInv, ThreadsRight
  <2>5. \A j \in Injectors \ {i} : pc'[j] = pc[j] /\ exit'[j] = exit[j]
    BY <1>1, <1>3
  <2> QED
    BY <1>1, <1>2, <1>4, <2>1, <2>2, <2>3, <2>4, <2>5, HoldingKeeps
<1>5. CASE /\ suspends' \in [TargetThreads -> Nat] /\ suspends'[Own] = Less(suspends[Own])
           /\ holding' = [holding EXCEPT ![i] = FALSE] /\ holding[i]
  <2>1. holding' \in [Injectors -> BOOLEAN] /\ ~holding'[i]
    BY <1>5, Counts
  <2>2. TypeOK'
    BY <1>1, <1>3, <1>5, <2>1 DEF IInv, TypeOK, SetupTypeOK, setupVars, Stops
  <2>3. Holders' = Holders \ {i}
    BY <1>5, HoldersChange, Counts
  <2>4. SuspensionsCounted'
    <3>1. target = "alive" => suspends[Own] = Cardinality(Holders) /\ Cardinality(Holders) > 0
            /\ Cardinality(Holders \ {i}) = Cardinality(Holders) - 1
      BY <1>5, Counts
    <3>2. target = "alive" => suspends'[Own] = Cardinality(Holders \ {i})
      BY <1>5, <3>1, Counts DEF Less
    <3> QED
      BY <1>1, <2>3, <3>2 DEF SuspensionsCounted, Holders
  <2>5. Stage(i)'
    BY <1>1, <1>3, <2>1 DEF Stage
  <2>6. target' = "absent" => suspends'[Own] = 0
    BY <1>1, <1>5 DEF Stage
  <2>7. \A j \in Injectors \ {i} : pc'[j] = pc[j] /\ exit'[j] = exit[j] /\ holding'[j] = holding[j]
    BY <1>1, <1>3, <1>5, Counts
  <2> QED
    BY <1>1, <1>2, <2>2, <2>4, <2>5, <2>6, <2>7, HoldingKeeps
<1>6. CASE ResumeProcess(i)
  <2>1. CASE Reaches(i)
    <3>1. suspends' \in [TargetThreads -> Nat] /\ suspends'[Own] = Less(suspends[Own])
      <4>1. suspends' = [t \in TargetThreads |->
                          IF t \in Present THEN Less(suspends[t]) ELSE suspends[t]]
        BY <1>6, <2>1 DEF ResumeProcess
      <4>2. \A t \in TargetThreads : suspends[t] \in Nat /\ Less(suspends[t]) \in Nat
        <5>1. \A t \in TargetThreads : suspends[t] \in Nat
          BY Counts
        <5> QED
          BY <5>1, LessTypes
      <4>3. \A t \in TargetThreads :
              (IF t \in Present THEN Less(suspends[t]) ELSE suspends[t]) \in Nat
        BY <4>2
      <4>4. suspends'[Own] = Less(suspends[Own])
        BY <4>1, Counts
      <4> QED
        BY <4>1, <4>3, <4>4
    <3>2. holding[i]
      BY <1>1, <2>1 DEF Stage, Reaches
    <3> QED
      BY <1>5, <1>6, <2>1, <3>1, <3>2 DEF ResumeProcess
  <2>2. CASE ~Reaches(i)
    <3>1. UNCHANGED <<suspends, holding>>
      BY <1>6, <2>2 DEF ResumeProcess
    <3>2. holding[i] /\ target = "alive" => pc[i] = "catch" /\ handle[i] = "closed"
      BY <1>1, <2>2 DEF Reaches, Stage
    <3> QED
      BY <1>3, <1>4, <3>1, <3>2
  <2> QED
    BY <2>1, <2>2
<1>7. CASE Catch(i)
  <2>1. CASE parse[i].processId # 0
    BY <1>6, <1>7, <2>1 DEF Catch
  <2>2. CASE parse[i].processId = 0
    <3>1. UNCHANGED <<suspends, holding>> /\ pc[i] = "catch"
      BY <1>7, <2>2 DEF Catch
    <3>2. launched[i] \/ handle[i] = "closed"
      BY <1>1, <2>2, <3>1 DEF Stage
    <3> QED
      BY <1>3, <1>4, <3>1, <3>2
  <2> QED
    BY <2>1, <2>2
<1>8. CASE Resume(i)
  <2>1. CASE launched[i]
    <3>1. /\ suspends' = [suspends EXCEPT ![Own] = Less(@)] /\ holding' = [holding EXCEPT ![i] = FALSE]
          /\ pc[i] = "resume"
      BY <1>8, <2>1 DEF Resume
    <3>2. suspends' \in [TargetThreads -> Nat] /\ suspends'[Own] = Less(suspends[Own])
      <4>1. PICK n \in Nat : n = Less(suspends[Own])
        BY Counts, LessTypes
      <4>2. suspends' = [suspends EXCEPT ![Own] = n]
        BY <3>1, <4>1
      <4> QED
        BY <4>1, <4>2, Counts
    <3> QED
      BY <1>1, <1>5, <3>1, <3>2 DEF Stage
  <2>2. CASE ~launched[i]
    BY <1>6, <1>8, <2>2 DEF Resume
  <2> QED
    BY <2>1, <2>2
<1> QED
  BY <1>7, <1>8

-----------------------------------------------------------------------------
(* The target's threads                                                    *)

\* Main and the suspensions stay as they are in the target's own steps.
LEMMA TargetKeeps ==
  ASSUME IInv, TypeOK', SetupInv', ThreadsRight', UNCHANGED <<mainVars, suspends>>,
         target' = target \/ (target = "alive" /\ target' = "ended")
  PROVE  IInv'
<1>1. SuspensionsCounted'
  BY DEF IInv, SuspensionsCounted, mainVars
<1>2. \A i \in Injectors : Stage(i)'
  BY DEF IInv, Stage, mainVars
<1> QED
  BY <1>1, <1>2 DEF IInv

\* What is known when nobody holds the loader lock.
LEMMA LockFree == IInv /\ loader \notin Injectors => stage \in {"none", "over"}
BY DEF IInv, ThreadsRight

LEMMA LoadLibraryKeeps ==
  ASSUME IInv, NEW i \in Injectors, LoadLibrary(i)
  PROVE  IInv'
<1>1. /\ Running(i) /\ thread[i] = "running" /\ target = "alive" /\ loader = Null
      /\ UNCHANGED <<mainVars, target, suspends>>
      /\ thread \in [Injectors -> {"none", "running", "ended"}] /\ result \in [Injectors -> {0, 1}]
  BY InjectorsAssumption DEF LoadLibrary, Running, IInv, TypeOK
<1>2. Null \notin Injectors
  BY LoaderAssumption DEF TargetThreads
<1>3. CASE stage = "none" /\ StartSetup /\ loader' = i /\ UNCHANGED <<thread, result>>
  <2>1. SetupInv' /\ profiling' = profiling
    BY <1>3, StartKeeps DEF IInv, StartSetup
  <2>2. SetupTypeOK'
    BY <2>1 DEF SetupInv, LoadInv
  <2>3. TypeOK'
    BY <1>1, <1>3, <2>2 DEF IInv, TypeOK, mainVars, TargetThreads
  <2>4. ThreadsRight'
    BY <1>1, <1>3, <2>1 DEF IInv, ThreadsRight, mainVars
  <2> QED
    BY <1>1, <2>1, <2>3, <2>4, TargetKeeps
<1>4. CASE /\ UNCHANGED <<setupVars, loader>>
           /\ thread' = [thread EXCEPT ![i] = "ended"]
           /\ result' = [result EXCEPT ![i] = IF stage = "over" THEN 1 ELSE 0]
  <2>1. SetupInv'
    BY <1>4, SetupUntouched DEF IInv
  <2>2. SetupTypeOK'
    BY <2>1 DEF SetupInv, LoadInv
  <2>3. PICK r \in {0, 1} : r = IF stage = "over" THEN 1 ELSE 0
    OBVIOUS
  <2>4. result' = [result EXCEPT ![i] = r]
    BY <1>4, <2>3
  <2>5. TypeOK'
    BY <1>1, <1>4, <2>2, <2>3, <2>4 DEF IInv, TypeOK, mainVars
  <2>6. ThreadsRight'
    BY <1>1, <1>2, <1>4 DEF IInv, ThreadsRight, mainVars, setupVars
  <2> QED
    BY <1>1, <2>1, <2>5, <2>6, TargetKeeps
<1> QED
  BY <1>3, <1>4 DEF LoadLibrary

\* The thread that holds the lock goes on with set-up, and gives the lock up at its end.
LEMMA SetUpKeeps ==
  ASSUME IInv, NEW i \in Injectors, SetUp(i) \/ LibraryLoaded(i)
  PROVE  IInv'
<1>1. /\ loader = i /\ thread[i] = "running" /\ target = "alive"
      /\ UNCHANGED <<mainVars, target, suspends>>
      /\ thread \in [Injectors -> {"none", "running", "ended"}] /\ result \in [Injectors -> {0, 1}]
  BY InjectorsAssumption DEF SetUp, LibraryLoaded, Running, IInv, TypeOK, targetVars
<1>2. CASE SetUp(i)
  <2>1. SetupInv' /\ UNCHANGED <<loader, thread, result>>
    BY <1>2, SetupKeeps DEF IInv, SetUp, targetVars
  <2>2. profiling' = profiling
    BY <1>2 DEF SetUp, SetupStep, SocketCall, SocketCallFails, InitMinHook, InitSymbols,
                ModulesDone, SymbolsDone, EnableSymbol, EnumerateModule, Symbol, AllHooksUsed
  <2>3. SetupTypeOK'
    BY <2>1 DEF SetupInv, LoadInv
  <2>4. TypeOK'
    BY <1>1, <2>1, <2>3 DEF IInv, TypeOK, mainVars
  <2>5. ThreadsRight'
    BY <1>1, <2>1, <2>2 DEF IInv, ThreadsRight, mainVars
  <2> QED
    BY <1>1, <2>1, <2>4, <2>5, TargetKeeps
<1>3. CASE LibraryLoaded(i)
  <2>1. /\ stage = "over" /\ loader' = Null /\ UNCHANGED setupVars
        /\ thread' = [thread EXCEPT ![i] = "ended"] /\ result' = [result EXCEPT ![i] = 1]
    BY <1>3 DEF LibraryLoaded
  <2>2. SetupInv'
    BY <2>1, SetupUntouched DEF IInv
  <2>3. SetupTypeOK'
    BY <2>2 DEF SetupInv, LoadInv
  <2>4. TypeOK'
    BY <1>1, <2>1, <2>3 DEF IInv, TypeOK, mainVars
  <2>5. ThreadsRight'
    BY <1>1, <2>1, LoaderAssumption DEF IInv, ThreadsRight, mainVars, setupVars, TargetThreads
  <2> QED
    BY <1>1, <2>2, <2>4, <2>5, TargetKeeps
<1> QED
  BY <1>2, <1>3

LEMMA OwnKeeps ==
  ASSUME IInv, OwnLocks \/ OwnUnlocks
  PROVE  IInv'
<1>1. /\ loader \notin Injectors /\ loader' \in {Own, Null}
      /\ UNCHANGED <<setupVars, mainVars, target, suspends, thread, result>>
  BY InjectorsAssumption, LoaderAssumption DEF OwnLocks, OwnUnlocks, TargetThreads
<1>2. SetupInv'
  BY <1>1, SetupUntouched DEF IInv
<1>3. SetupTypeOK'
  BY <1>2 DEF SetupInv, LoadInv
<1>4. TypeOK'
  BY <1>1, <1>3 DEF IInv, TypeOK, mainVars, TargetThreads
<1>5. ThreadsRight'
  BY <1>1, InjectorsAssumption, LoaderAssumption
     DEF IInv, ThreadsRight, mainVars, setupVars, TargetThreads
<1> QED
  BY <1>1, <1>2, <1>4, <1>5, TargetKeeps

\* The end of the target takes its threads with it, and detaches an Observer that
\* has been set up.
LEMMA EndKeeps ==
  ASSUME IInv, EndTarget
  PROVE  IInv'
<1>1. /\ target = "alive" /\ target' = "ended" /\ loader = Null
      /\ thread' = [i \in Injectors |-> IF thread[i] = "running" THEN "ended" ELSE thread[i]]
      /\ UNCHANGED <<mainVars, loader, suspends, result>>
      /\ thread \in [Injectors -> {"none", "running", "ended"}]
  BY DEF EndTarget, Running, IInv, TypeOK
<1>2. stage \in {"none", "over"} /\ stage' = stage
  <2>1. loader \notin Injectors
    BY <1>1, LoaderAssumption DEF TargetThreads
  <2> QED
    BY <2>1, LockFree DEF EndTarget, Detach, setupVars
<1>3. SetupInv'
  <2>1. CASE stage = "over"
    BY <2>1, <1>1, DetachKeeps DEF EndTarget, IInv, ThreadsRight
  <2>2. CASE stage # "over"
    BY <2>2, SetupUntouched DEF EndTarget, IInv
  <2> QED
    BY <2>1, <2>2
<1>4. SetupTypeOK'
  BY <1>3 DEF SetupInv, LoadInv
<1>5. thread' \in [Injectors -> {"none", "running", "ended"}] /\ \A i \in Injectors : thread'[i] # "running"
  BY <1>1
<1>6. TypeOK'
  BY <1>1, <1>4, <1>5 DEF IInv, TypeOK, mainVars
<1>7. ThreadsRight'
  BY <1>1, <1>2, <1>5, LoaderAssumption DEF IInv, ThreadsRight, TargetThreads
<1> QED
  BY <1>1, <1>3, <1>6, <1>7, TargetKeeps

-----------------------------------------------------------------------------
LEMMA Preserved == IInv /\ [Next]_vars => IInv'
<1> SUFFICES ASSUME IInv, [Next]_vars PROVE IInv'
  OBVIOUS
<1>1. ASSUME NEW i \in Injectors, Injector(i) PROVE IInv'
  BY <1>1, ParseKeeps, CheckKeeps, LoadingKeeps, CreateThreadKeeps, SuspendKeeps, LaunchKeeps,
     ResumeKeeps DEF Injector
<1>2. ASSUME NEW i \in Injectors, LoadLibrary(i) \/ SetUp(i) \/ LibraryLoaded(i) PROVE IInv'
  BY <1>2, LoadLibraryKeeps, SetUpKeeps
<1>3. CASE OwnLocks \/ OwnUnlocks \/ EndTarget
  BY <1>3, OwnKeeps, EndKeeps
<1>4. CASE UNCHANGED vars
  <2>1. UNCHANGED <<setupVars, mainVars, targetVars>>
    BY <1>4 DEF vars
  <2>2. SetupInv'
    BY <2>1, SetupUntouched DEF IInv
  <2>3. SetupTypeOK'
    BY <2>2 DEF SetupInv, LoadInv
  <2>4. TypeOK'
    BY <2>1, <2>3 DEF IInv, TypeOK, mainVars, targetVars
  <2>5. ThreadsRight'
    BY <2>1 DEF IInv, ThreadsRight, setupVars, mainVars, targetVars
  <2> QED
    BY <2>1, <2>2, <2>4, <2>5, TargetKeeps DEF targetVars
<1> QED
  BY <1>1, <1>2, <1>3, <1>4 DEF Next

\* The invariant holds in every reachable state.
THEOREM Invariant == Spec => []IInv
<1>1. Init => IInv
  BY Initially
<1>2. IInv /\ [Next]_vars => IInv'
  BY Preserved
<1> QED
  BY <1>1, <1>2, PTL DEF Spec

\* Types, for any number of injectors, of modules and of functions in them.
THEOREM TypeCorrect == Spec => []TypeOK
<1>1. IInv => TypeOK
  BY DEF IInv
<1> QED
  BY <1>1, Invariant, PTL

\* Whatever MinHook and dbghelp do, an enabled detour finds the trampoline of its own
\* function in its slot (enumSymbolsCallback, Observer.cpp).
THEOREM OriginalCorrect == Spec => []OriginalBehindEveryJump
<1>1. IInv => OriginalBehindEveryJump
  BY SlotsSuffice DEF IInv, SetupInv, LoadInv
<1> QED
  BY <1>1, Invariant, PTL

\* Jumps are there only between the connection and the end (setupHeapProfiling, DllMain).
THEOREM JumpsReady == Spec => []ReadyBehindEveryJump
<1>1. IInv => ReadyBehindEveryJump
  BY ReadySuffices DEF IInv
<1> QED
  BY <1>1, Invariant, PTL

\* A failed set-up leaves nothing open (SetupSocket, setupHeapProfiling).
THEOREM NothingLeft == Spec => []NothingLeftBehind
<1>1. IInv => NothingLeftBehind
  BY DEF IInv, SetupInv, LoadInv, Holdings
<1> QED
  BY <1>1, Invariant, PTL

\* The closed log is used only by a process that never got its connection.
THEOREM LogRight == Spec => []LogUsedWhileOpen
<1>1. IInv => LogUsedWhileOpen
  BY DEF IInv, SetupInv, LoadInv, LogKept
<1> QED
  BY <1>1, Invariant, PTL

\* The target's own thread is suspended exactly as often as somebody holds it
\* (suspend, resume, CreateProcess and ResumeThread in DllInjector.cpp).
THEOREM Counted == Spec => []SuspensionsCounted
<1>1. IInv => SuspensionsCounted
  BY DEF IInv
<1> QED
  BY <1>1, Invariant, PTL

\* It does not run while the Observer is set up, for any number of injectors.
THEOREM Stopped == Spec => []StoppedDuringSetup
<1>1. IInv => StoppedDuringSetup
  <2> SUFFICES ASSUME IInv, stage \notin {"none", "over"} PROVE suspends[Own] > 0
    BY DEF StoppedDuringSetup
  <2>1. loader \in Injectors /\ pc[loader] = "wait" /\ target = "alive"
    BY DEF IInv, ThreadsRight
  <2>2. holding[loader]
    BY <2>1 DEF IInv, Stage
  <2> QED
    BY <2>1, <2>2, Counts
<1> QED
  BY <1>1, Invariant, PTL

\* Who still holds the target when it exits has failed, and either launched the target
\* or lost its handle (main, DllInjector.cpp).
THEOREM Returned == Spec => []SuspensionReturned
<1>1. IInv => SuspensionReturned
  BY DEF IInv, Stage, SuspensionReturned
<1> QED
  BY <1>1, Invariant, PTL

\* The name of the library is freed on every path (LoadLibraryInjection).
THEOREM Freed == Spec => []NameFreed
<1>1. IInv => NameFreed
  BY DEF IInv, Stage, NameFreed
<1> QED
  BY <1>1, Invariant, PTL

-----------------------------------------------------------------------------
(* The inductive invariant of the older form                               *)

Calls == [thread : Threads, asked : Functions, ran : Functions]
Frames == [call : DOMAIN calls, pc : Steps]
Halves == (DOMAIN calls) \X {"head", "tail"}

\* Every call has run what it asked for; a hook in progress means that there is a
\* jump, and profiling goes on until the process ends.
CallsRight ==
  /\ calls \in Seq(Calls) /\ \A c \in DOMAIN calls : calls[c].ran = calls[c].asked
  /\ process \in {"running", "ended", "dead"} /\ connected \in BOOLEAN
  /\ process # "ended" => profiling
  /\ \A t \in Threads : process = "running" /\ frames[t] # <<>> => enabled # {}

\* The hooks in progress in a thread are calls of its own, and all but the innermost
\* are in their stack walk.
FramesRight ==
  /\ frames \in [Threads -> Seq(Frames)]
  /\ \A t \in Threads :
       /\ Len(frames[t]) <= MaxDepth
       /\ \A i \in 1 .. Len(frames[t]) :
            /\ calls[frames[t][i].call].thread = t
            /\ i # 1 => frames[t][i].pc = "trace"
            /\ \A j \in 1 .. Len(frames[t]) : frames[t][i].call = frames[t][j].call => i = j

\* The buffers that a hook call has at each of its steps.
BuffersAt(p) ==
  CASE p \in {"trace", "base"} -> {}
    [] p = "message" -> {"base"}
    [] p = "copied" -> {"base", "message"}
    [] OTHER -> {"message"}

\* Only the innermost call of a thread has any.
BuffersRight ==
  /\ buffers \subseteq [thread : Threads, depth : 1 .. MaxDepth, of : {"base", "message"}]
  /\ \A b \in [thread : Threads, depth : 1 .. MaxDepth, of : {"base", "message"}] :
       b \in buffers <=> /\ frames[b.thread] # <<>> /\ b.depth = Len(frames[b.thread])
                         /\ b.of \in BuffersAt(frames[b.thread][1].pc)

\* Nothing of call c is in the stream, or its first half, after which its thread has
\* sent nothing.
Unsent(c) == \A i \in DOMAIN stream : stream[i][1] # c
HalfSent(c) ==
  \E h \in DOMAIN stream :
    /\ stream[h] = <<c, "head">>
    /\ \A i \in DOMAIN stream \ {h} :
         stream[i][1] # c /\ (ByThread(calls[c].thread, i) => i < h)

\* What of call c has been sent when its hook is at step p.
SentAt(p, c) ==
  CASE p = "release" -> Whole(c)
    [] p = "sent half" -> HalfSent(c)
    [] OTHER -> Unsent(c)

\* The hook of call c of thread t is at step p.
InHook(t, c, p) == \E i \in 1 .. Len(frames[t]) : frames[t][i].call = c /\ frames[t][i].pc = p

AllReported ==
  \A c \in DOMAIN calls, t \in Threads :
    calls[c].thread = t =>
      /\ (\A p \in Steps : ~InHook(t, c, p)) => Whole(c)
      /\ \A p \in Steps : InHook(t, c, p) => SentAt(p, c)

StreamRight == stream \in Seq(Halves) /\ (connected => AllReported)

DynInv == LoadInv /\ CallsRight /\ FramesRight /\ BuffersRight /\ StreamRight

LEMMA LoadUntouched == LoadInv /\ UNCHANGED setupVars => LoadInv'
BY DEF setupVars, LoadInv, SetupTypeOK, Holdings, LogKept, SlotsRight, Ready,
       NothingLeftBehind, LogUsedWhileOpen

LEMMA DynInitially == DynInit => DynInv
<1> SUFFICES ASSUME DynInit PROVE DynInv
  OBVIOUS
<1>1. LoadInv
  BY LoadInitially DEF DynInit
<1>2. /\ calls = <<>> /\ stream = <<>> /\ buffers = {} /\ frames = [t \in Threads |-> <<>>]
      /\ process = "running" /\ connected = TRUE /\ profiling = TRUE
  BY DEF DynInit, SetupInit
<1>3. CallsRight
  BY <1>2 DEF CallsRight
<1>4. FramesRight
  BY <1>2, BoundsAssumption DEF FramesRight
<1>5. BuffersRight
  BY <1>2 DEF BuffersRight
<1>6. StreamRight
  BY <1>2 DEF StreamRight, AllReported
<1> QED
  BY <1>1, <1>3, <1>4, <1>5, <1>6 DEF DynInv

-----------------------------------------------------------------------------
(* What a hook's step does to the calls in progress                        *)

\* The innermost call of a thread.
LEMMA Innermost ==
  ASSUME FramesRight, NEW t \in Threads, frames[t] # <<>>
  PROVE  /\ frames[t] \in Seq(Frames) /\ Len(frames[t]) \in Nat \ {0}
         /\ Head(frames[t]) = frames[t][1] /\ frames[t][1] \in Frames
         /\ Len(frames[t]) \in 1 .. MaxDepth /\ 1 \in 1 .. Len(frames[t])
         /\ calls[frames[t][1].call].thread = t /\ frames[t][1].call \in DOMAIN calls
<1>1. frames[t] \in Seq(Frames) /\ Len(frames[t]) <= MaxDepth
  BY DEF FramesRight
<1>2. Len(frames[t]) \in Nat \ {0}
  BY <1>1, EmptySeq
<1>3. frames[t][1] \in Frames
  BY <1>1, <1>2, ElementOfSeq
<1>4. Head(frames[t]) = frames[t][1]
  BY <1>1
<1>5. \A n \in Nat \ {0} : 1 \in 1 .. n
  OBVIOUS
<1>6. 1 \in 1 .. Len(frames[t])
  BY <1>2, <1>5
<1>7. calls[frames[t][1].call].thread = t
  BY <1>6 DEF FramesRight
<1> QED
  BY <1>1, <1>2, <1>3, <1>4, <1>6, <1>7, BoundsAssumption DEF Frames

LEMMA GotoFrames ==
  ASSUME FramesRight, NEW t \in Threads, frames[t] # <<>>, NEW p \in Steps, Goto(t, p)
  PROVE  /\ frames' \in [Threads -> Seq(Frames)]
         /\ \A u \in Threads : Len(frames'[u]) = Len(frames[u])
         /\ \A u \in Threads : u # t => frames'[u] = frames[u]
         /\ \A i \in 1 .. Len(frames[t]) :
              frames'[t][i].call = frames[t][i].call /\ (i # 1 => frames'[t][i] = frames[t][i])
         /\ frames'[t][1].pc = p /\ frames'[t] # <<>>
<1> DEFINE s == frames[t]
           e == [frames[t][1] EXCEPT !.pc = p]
<1>1. s \in Seq(Frames) /\ Len(s) \in Nat \ {0} /\ s[1] \in Frames
  BY Innermost
<1>2. e \in Frames /\ e.call = s[1].call /\ e.pc = p
  BY <1>1 DEF Frames
<1>3. frames' = [frames EXCEPT ![t] = [s EXCEPT ![1] = e]]
  BY DEF Goto
<1> HIDE DEF e
<1>4. /\ [s EXCEPT ![1] = e] \in Seq(Frames) /\ Len([s EXCEPT ![1] = e]) = Len(s)
      /\ \A i \in 1 .. Len(s) : [s EXCEPT ![1] = e][i] = IF i = 1 THEN e ELSE s[i]
  BY <1>1, <1>2, ExceptSeq
<1>5. frames \in [Threads -> Seq(Frames)]
  BY DEF FramesRight
<1>6. frames'[t] = [s EXCEPT ![1] = e] /\ \A u \in Threads : u # t => frames'[u] = frames[u]
  BY <1>3, <1>5
<1>7. frames' \in [Threads -> Seq(Frames)]
  BY <1>3, <1>4, <1>5
<1>8. frames'[t] # <<>>
  BY <1>1, <1>4, <1>6, EmptySeq
<1> QED
  BY <1>1, <1>2, <1>4, <1>6, <1>7, <1>8

\* A step inside a hook moves its innermost call on.
LEMMA GotoKeeps ==
  ASSUME DynInv, NEW t \in Threads, NEW q, At(t, q), NEW p \in Steps, Goto(t, p),
         calls' = calls
  PROVE  FramesRight'
<1>1. frames[t] # <<>> /\ FramesRight
  BY DEF At, DynInv
<1>2. Frames' = Frames
  BY DEF Frames
<1>3. ASSUME NEW u \in Threads, NEW i \in 1 .. Len(frames'[u])
      PROVE  /\ calls[frames'[u][i].call].thread = u
             /\ i # 1 => frames'[u][i].pc = "trace"
             /\ \A j \in 1 .. Len(frames'[u]) : frames'[u][i].call = frames'[u][j].call => i = j
  <2>1. /\ Len(frames'[u]) = Len(frames[u])
        /\ \A j \in 1 .. Len(frames[u]) : /\ frames'[u][j].call = frames[u][j].call
                                          /\ j # 1 => frames'[u][j] = frames[u][j]
    BY <1>1, GotoFrames
  <2>2. i \in 1 .. Len(frames[u])
    BY <2>1
  <2>3. /\ calls[frames[u][i].call].thread = u /\ (i # 1 => frames[u][i].pc = "trace")
        /\ \A j \in 1 .. Len(frames[u]) : frames[u][i].call = frames[u][j].call => i = j
    BY <1>1, <2>2 DEF FramesRight
  <2> QED
    BY <2>1, <2>2, <2>3
<1>4. frames' \in [Threads -> Seq(Frames)] /\ \A u \in Threads : Len(frames'[u]) = Len(frames[u])
  BY <1>1, GotoFrames
<1> QED
  BY <1>1, <1>2, <1>3, <1>4 DEF FramesRight

\* The buffers are right if those of the innermost call are.
LEMMA GotoBuffers ==
  ASSUME DynInv, NEW t \in Threads, NEW q, At(t, q), NEW p \in Steps, Goto(t, p),
         buffers' \subseteq [thread : Threads, depth : 1 .. MaxDepth, of : {"base", "message"}],
         \A b \in [thread : Threads, depth : 1 .. MaxDepth, of : {"base", "message"}] :
           b \in buffers' <=> IF b.thread = t /\ b.depth = Len(frames[t])
                              THEN b.of \in BuffersAt(p) ELSE b \in buffers
  PROVE  BuffersRight'
<1>1. frames[t] # <<>> /\ FramesRight /\ BuffersRight
  BY DEF At, DynInv
<1>2. ASSUME NEW b \in [thread : Threads, depth : 1 .. MaxDepth, of : {"base", "message"}]
      PROVE  b \in buffers' <=> /\ frames'[b.thread] # <<>> /\ b.depth = Len(frames'[b.thread])
                                /\ b.of \in BuffersAt(frames'[b.thread][1].pc)
  <2>1. CASE b.thread = t
    <3>1. Len(frames'[t]) = Len(frames[t]) /\ frames'[t][1].pc = p /\ frames'[t] # <<>>
      BY <1>1, GotoFrames
    <3> QED
      BY <1>1, <2>1, <3>1 DEF BuffersRight
  <2>2. CASE b.thread # t
    <3>1. frames'[b.thread] = frames[b.thread]
      BY <1>1, <2>2, GotoFrames
    <3> QED
      BY <1>1, <2>2, <3>1 DEF BuffersRight
  <2> QED
    BY <2>1, <2>2
<1> QED
  BY <1>2 DEF BuffersRight

\* The stream is right if it is for the innermost call, and the others have lost
\* nothing.
LEMMA GotoStream ==
  ASSUME DynInv, NEW t \in Threads, NEW q, At(t, q), NEW p \in Steps, Goto(t, p),
         calls' = calls, AllReported, NEW n, n = frames[t][1].call, SentAt(p, n)',
         \A c \in DOMAIN calls :
           c # frames[t][1].call =>
             /\ Whole(c) => Whole(c)'
             /\ Unsent(c) => Unsent(c)'
             /\ calls[c].thread # t /\ HalfSent(c) => HalfSent(c)'
  PROVE  AllReported'
<1> DEFINE cc == frames[t][1].call
<1>1. frames[t] # <<>> /\ FramesRight /\ calls[cc].thread = t /\ Len(frames[t]) \in Nat \ {0}
  BY Innermost DEF At, DynInv
<1>2. /\ \A u \in Threads : Len(frames'[u]) = Len(frames[u])
      /\ \A u \in Threads : u # t => frames'[u] = frames[u]
      /\ \A i \in 1 .. Len(frames[t]) :
           frames'[t][i].call = frames[t][i].call /\ (i # 1 => frames'[t][i] = frames[t][i])
      /\ frames'[t][1].pc = p
  BY <1>1, GotoFrames
<1>3. SUFFICES ASSUME NEW c \in DOMAIN calls, NEW u \in Threads, calls[c].thread = u
               PROVE  /\ (\A x \in Steps : ~InHook(u, c, x)') => Whole(c)'
                      /\ \A x \in Steps : InHook(u, c, x)' => SentAt(x, c)'
  BY DEF AllReported
<1>4. c # cc => (Whole(c) => Whole(c)') /\ (Unsent(c) => Unsent(c)')
                /\ (u # t /\ HalfSent(c) => HalfSent(c)')
  BY <1>3
<1>5. /\ (\A x \in Steps : ~InHook(u, c, x)) => Whole(c)
      /\ \A x \in Steps : InHook(u, c, x) => SentAt(x, c)
  BY <1>3 DEF AllReported
<1>6. c = cc => u = t
  BY <1>1, <1>3
<1>7. ASSUME \A x \in Steps : ~InHook(u, c, x)' PROVE Whole(c)'
  <2>1. c # cc
    <3>1. ~InHook(u, c, p)'
      BY <1>7
    <3> QED
      BY <1>1, <1>2, <1>6, <3>1 DEF InHook
  <2>2. ASSUME NEW x \in Steps PROVE ~InHook(u, c, x)
    <3> SUFFICES ASSUME NEW i \in 1 .. Len(frames[u]), frames[u][i].call = c PROVE FALSE
      BY DEF InHook
    <3>1. frames'[u][i].call = c /\ i \in 1 .. Len(frames'[u])
      BY <1>2
    <3>2. frames'[u][i] \in Frames
      BY <1>1, <3>1, GotoFrames, ElementOfSeq
    <3>3. PICK x2 \in Steps : frames'[u][i].pc = x2
      BY <3>2 DEF Frames
    <3>4. InHook(u, c, x2)'
      BY <3>1, <3>3 DEF InHook
    <3> QED
      BY <1>7, <3>4
  <2> QED
    BY <1>4, <1>5, <2>1, <2>2
<1>8. ASSUME NEW x \in Steps, InHook(u, c, x)' PROVE SentAt(x, c)'
  <2>1. PICK i \in 1 .. Len(frames'[u]) : frames'[u][i].call = c /\ frames'[u][i].pc = x
    BY <1>8 DEF InHook
  <2>2. i \in 1 .. Len(frames[u]) /\ frames[u][i].call = c
    BY <1>2, <2>1
  <2>3. CASE u = t /\ i = 1
    BY <1>2, <2>1, <2>2, <2>3
  <2>4. CASE u = t /\ i # 1
    <3>1. frames[u][i].pc = "trace" /\ x = "trace"
      BY <1>1, <1>2, <2>1, <2>2, <2>4 DEF FramesRight
    <3>2. c # cc
      BY <1>1, <2>2, <2>4 DEF FramesRight
    <3>3. SentAt(x, c)
      BY <1>5, <2>2, <3>1 DEF InHook
    <3> QED
      BY <1>4, <3>1, <3>2, <3>3 DEF SentAt
  <2>5. CASE u # t
    <3>1. frames[u][i].pc = x /\ c # cc
      BY <1>2, <1>6, <2>1, <2>5
    <3>2. SentAt(x, c)
      BY <1>5, <2>2, <3>1 DEF InHook
    <3> QED
      BY <1>4, <2>5, <3>1, <3>2 DEF SentAt
  <2> QED
    BY <2>3, <2>4, <2>5
<1> QED
  BY <1>7, <1>8

LEMMA StreamStays ==
  ASSUME UNCHANGED <<calls, stream>>, NEW c
  PROVE  /\ Whole(c) <=> Whole(c)'
         /\ HalfSent(c) <=> HalfSent(c)'
         /\ Unsent(c) <=> Unsent(c)'
<1>1. Whole(c) <=> Whole(c)'
  BY DEF Whole, ByThread
<1>2. HalfSent(c) <=> HalfSent(c)'
  BY DEF HalfSent, ByThread
<1>3. Unsent(c) <=> Unsent(c)'
  BY DEF Unsent
<1> QED
  BY <1>1, <1>2, <1>3

\* What another piece of a record does to a call whose record it is, and to others.
LEMMA StreamGrows ==
  ASSUME calls \in Seq(Calls), stream \in Seq(Halves), NEW n \in DOMAIN calls,
         NEW half \in {"head", "tail"}, stream' = Append(stream, <<n, half>>), calls' = calls,
         NEW c \in DOMAIN calls
  PROVE  /\ stream' \in Seq(Halves)
         /\ c # n => (Whole(c) => Whole(c)') /\ (Unsent(c) => Unsent(c)')
         /\ calls[c].thread # calls[n].thread /\ HalfSent(c) => HalfSent(c)'
         /\ half = "head" /\ Unsent(n) => HalfSent(n)'
         /\ half = "tail" /\ HalfSent(n) => Whole(n)'
<1> DEFINE l == Len(stream)
           x == <<n, half>>
<1>1. x \in Halves /\ x[1] = n /\ x[2] = half
  BY DEF Halves
<1>2. l \in Nat /\ DOMAIN stream = 1 .. l
  BY LenProperties
<1>3. /\ stream' \in Seq(Halves) /\ DOMAIN stream' = 1 .. l + 1 /\ stream'[l + 1] = x
      /\ \A i \in 1 .. l : stream'[i] = stream[i]
  BY <1>1, AppendProperties, LenProperties
<1> HIDE DEF x
<1>4. ASSUME c # n, Whole(c) PROVE Whole(c)'
  <2>1. PICK h \in 1 .. l, e \in 1 .. l :
          /\ h < e /\ stream[h] = <<c, "head">> /\ stream[e] = <<c, "tail">>
          /\ \A i \in (1 .. l) \ {h, e} :
               stream[i][1] # c /\ (ByThread(calls[c].thread, i) => i < h \/ e < i)
    BY <1>2, <1>4 DEF Whole
  <2>2. /\ h \in 1 .. l + 1 /\ e \in 1 .. l + 1
        /\ stream'[h] = <<c, "head">> /\ stream'[e] = <<c, "tail">>
    BY <1>2, <1>3, <2>1
  <2>3. ASSUME NEW i \in (1 .. l + 1) \ {h, e}
        PROVE  stream'[i][1] # c /\ (calls[stream'[i][1]].thread = calls[c].thread => i < h \/ e < i)
    <3>1. CASE i \in 1 .. l
      BY <1>3, <2>1, <2>3, <3>1 DEF ByThread
    <3>2. CASE i = l + 1
      BY <1>1, <1>2, <1>3, <1>4, <3>2
    <3> QED
      BY <1>2, <2>3, <3>1, <3>2
  <2> QED
    BY <1>3, <2>1, <2>2, <2>3, ZenonT(30) DEF Whole, ByThread
<1>5. ASSUME c # n, Unsent(c) PROVE Unsent(c)'
  BY <1>1, <1>2, <1>3, <1>5 DEF Unsent
<1>6. ASSUME calls[c].thread # calls[n].thread, HalfSent(c) PROVE HalfSent(c)'
  <2>1. PICK h \in 1 .. l :
          /\ stream[h] = <<c, "head">>
          /\ \A i \in (1 .. l) \ {h} :
               stream[i][1] # c /\ (ByThread(calls[c].thread, i) => i < h)
    BY <1>2, <1>6 DEF HalfSent
  <2>2. ASSUME NEW i \in (1 .. l + 1) \ {h}
        PROVE  stream'[i][1] # c /\ (calls[stream'[i][1]].thread = calls[c].thread => i < h)
    <3>1. CASE i \in 1 .. l
      BY <1>3, <2>1, <2>2, <3>1 DEF ByThread
    <3>2. CASE i = l + 1
      BY <1>1, <1>2, <1>3, <1>6, <3>2
    <3> QED
      BY <1>2, <2>2, <3>1, <3>2
  <2>3. h \in 1 .. l + 1 /\ stream'[h] = <<c, "head">>
    BY <1>2, <1>3, <2>1
  <2> QED
    BY <1>3, <2>2, <2>3 DEF HalfSent, ByThread
<1>7. ASSUME half = "head", Unsent(n) PROVE HalfSent(n)'
  BY <1>1, <1>2, <1>3, <1>7 DEF HalfSent, Unsent, ByThread, x
<1>8. ASSUME half = "tail", HalfSent(n) PROVE Whole(n)'
  <2>1. PICK h \in 1 .. l :
          /\ stream[h] = <<n, "head">>
          /\ \A i \in (1 .. l) \ {h} :
               stream[i][1] # n /\ (ByThread(calls[n].thread, i) => i < h)
    BY <1>2, <1>8 DEF HalfSent
  <2>2. stream'[h] = <<n, "head">> /\ stream'[l + 1] = <<n, "tail">> /\ h < l + 1
    BY <1>2, <1>3, <1>8, <2>1 DEF x
  <2>3. ASSUME NEW i \in (1 .. l + 1) \ {h, l + 1}
        PROVE  stream'[i][1] # n /\ (calls[stream'[i][1]].thread = calls[n].thread => i < h)
    <3>1. i \in (1 .. l) \ {h}
      BY <1>2, <2>3
    <3> QED
      BY <1>3, <2>1, <3>1 DEF ByThread
  <2>4. h \in 1 .. l + 1 /\ l + 1 \in 1 .. l + 1
    BY <1>2
  <2>5. \E a, b \in 1 .. l + 1 :
          /\ a < b /\ stream'[a] = <<n, "head">> /\ stream'[b] = <<n, "tail">>
          /\ \A i \in (1 .. l + 1) \ {a, b} :
               stream'[i][1] # n /\ (calls[stream'[i][1]].thread = calls[n].thread => i < a \/ b < i)
    <3>1. \A i \in (1 .. l + 1) \ {h, l + 1} :
            stream'[i][1] # n /\ (calls[stream'[i][1]].thread = calls[n].thread => i < h \/ l + 1 < i)
      BY <2>3
    <3> QED
      BY <2>2, <2>4, <3>1
  <2> QED
    BY <1>3, <2>5, ZenonT(30) DEF Whole, ByThread
<1> QED
  BY <1>3, <1>4, <1>5, <1>6, <1>7, <1>8

-----------------------------------------------------------------------------
(* The steps of a hook                                                     *)

\* What a step inside a hook does to set-up and the calls: nothing.
LEMMA StepCalls ==
  ASSUME DynInv, NEW t \in Threads, NEW q, At(t, q), NEW p \in Steps, Goto(t, p),
         UNCHANGED <<enabled, profiling, calls, connected>>, process' \in {"running", "dead"}
  PROVE  CallsRight'
<1>1. frames[t] # <<>> /\ FramesRight /\ process = "running" /\ CallsRight
  BY DEF At, DynInv
<1>2. ASSUME NEW u \in Threads, frames'[u] # <<>> PROVE frames[u] # <<>>
  BY <1>1, <1>2, GotoFrames
<1>3. Calls' = Calls
  BY DEF Calls
<1> QED
  BY <1>1, <1>2, <1>3 DEF CallsRight

\* A step that sends nothing, before the record or after it.
LEMMA StepStream ==
  ASSUME DynInv, NEW t \in Threads, NEW q, At(t, q), NEW p \in Steps, Goto(t, p),
         UNCHANGED <<calls, connected, stream>>,
         q \in Steps \ {"sent half", "release"}, p \notin {"sent half", "release"}
  PROVE  StreamRight'
<1>1. frames[t] # <<>> /\ FramesRight /\ StreamRight
  BY DEF At, DynInv
<1>2. Halves' = Halves
  BY DEF Halves
<1>3. ASSUME connected' PROVE AllReported'
  <2>1. AllReported
    BY <1>1, <1>3 DEF StreamRight
  <2> DEFINE cc == frames[t][1].call
  <2>2. /\ cc \in DOMAIN calls /\ calls[cc].thread = t /\ frames[t][1].pc = q
        /\ 1 \in 1 .. Len(frames[t])
    BY <1>1, Innermost DEF At
  <2>3. SentAt(q, cc)
    <3>1. InHook(t, cc, q)
      BY <2>2 DEF InHook
    <3> QED
      BY <2>1, <2>2, <3>1 DEF AllReported
  <2>4. PICK n : n = cc
    OBVIOUS
  <2>5. SentAt(p, n)'
    BY <2>3, <2>4 DEF SentAt, Unsent
  <2>6. ASSUME NEW c \in DOMAIN calls
        PROVE  /\ Whole(c) => Whole(c)'
               /\ Unsent(c) => Unsent(c)'
               /\ HalfSent(c) => HalfSent(c)'
    BY StreamStays
  <2> QED
    BY <2>1, <2>4, <2>5, <2>6, GotoStream
<1> QED
  BY <1>1, <1>2, <1>3 DEF StreamRight

\* A step that allocates buffers for the innermost call, or frees its own.
LEMMA StepBuffers ==
  ASSUME DynInv, NEW t \in Threads, NEW q, At(t, q), NEW p \in Steps, Goto(t, p),
         NEW more \in SUBSET {"base", "message"}, NEW less \in SUBSET {"base", "message"},
         buffers' = (buffers \cup {Mine(t, o) : o \in more}) \ {Mine(t, o) : o \in less},
         BuffersAt(p) = (BuffersAt(q) \cup more) \ less
  PROVE  BuffersRight'
<1> DEFINE B == [thread : Threads, depth : 1 .. MaxDepth, of : {"base", "message"}]
<1>1. frames[t] # <<>> /\ FramesRight /\ BuffersRight
  BY DEF At, DynInv
<1>2. frames[t][1].pc = q /\ Len(frames[t]) \in 1 .. MaxDepth
  BY <1>1, Innermost DEF At
<1>3. ASSUME NEW o \in {"base", "message"} PROVE Mine(t, o) \in B
  BY <1>2 DEF Mine
<1>4. ASSUME NEW b \in B, NEW o
      PROVE  b = Mine(t, o) <=> b.thread = t /\ b.depth = Len(frames[t]) /\ b.of = o
  BY DEF Mine
<1>5. buffers' \subseteq B
  <2>1. buffers \subseteq B
    BY <1>1 DEF BuffersRight
  <2> QED
    BY <1>3, <2>1
<1>6. ASSUME NEW b \in B
      PROVE  b \in buffers' <=> IF b.thread = t /\ b.depth = Len(frames[t])
                                THEN b.of \in BuffersAt(p) ELSE b \in buffers
  <2>1. CASE b.thread = t /\ b.depth = Len(frames[t])
    <3>1. b \in buffers <=> b.of \in BuffersAt(q)
      BY <1>1, <1>2, <2>1 DEF BuffersRight
    <3>2. \A S \in SUBSET {"base", "message"} : b \in {Mine(t, o) : o \in S} <=> b.of \in S
      BY <1>4, <2>1
    <3> QED
      BY <2>1, <3>1, <3>2
  <2>2. CASE ~(b.thread = t /\ b.depth = Len(frames[t]))
    <3>1. \A o : b # Mine(t, o)
      BY <1>4, <2>2
    <3> QED
      BY <2>2, <3>1
  <2> QED
    BY <2>1, <2>2
<1> QED
  BY <1>5, <1>6, GotoBuffers

\* A step that sends nothing and leaves set-up alone.
LEMMA StepKeeps ==
  ASSUME DynInv, NEW t \in Threads, NEW q \in Steps \ {"sent half", "release"}, At(t, q),
         NEW p \in Steps \ {"sent half", "release"}, Goto(t, p),
         NEW more \in SUBSET {"base", "message"}, NEW less \in SUBSET {"base", "message"},
         buffers' = (buffers \cup {Mine(t, o) : o \in more}) \ {Mine(t, o) : o \in less},
         BuffersAt(p) = (BuffersAt(q) \cup more) \ less,
         UNCHANGED <<setupVars, calls, connected, stream>>, process' \in {"running", "dead"}
  PROVE  DynInv'
<1>1. LoadInv' /\ UNCHANGED <<enabled, profiling>>
  BY LoadUntouched DEF DynInv, setupVars
<1>2. UNCHANGED <<calls, connected, stream>> /\ p \in Steps /\ q \in Steps
  OBVIOUS
<1>3. CallsRight'
  BY <1>1, <1>2, StepCalls
<1>4. FramesRight'
  BY <1>2, GotoKeeps
<1>5. BuffersRight'
  BY <1>2, StepBuffers
<1>6. StreamRight'
  BY <1>2, StepStream
<1> QED
  BY <1>1, <1>3, <1>4, <1>5, <1>6 DEF DynInv

\* The steps in which getBytes works, and the end of the stack walk.
LEMMA PrepareKeeps ==
  ASSUME DynInv, NEW t \in Threads,
         EndTrace(t) \/ AllocateBase(t) \/ AllocateMessage(t) \/ FreeBase(t)
  PROVE  DynInv'
<1>1. /\ {"trace", "base", "message", "copied", "log"} \subseteq Steps \ {"sent half", "release"}
      /\ BuffersAt("trace") = {} /\ BuffersAt("base") = {} /\ BuffersAt("message") = {"base"}
      /\ BuffersAt("copied") = {"base", "message"} /\ BuffersAt("log") = {"message"}
      /\ process = "running"
  BY DEF Steps, BuffersAt, At, EndTrace, AllocateBase, AllocateMessage, FreeBase
<1>2. CASE EndTrace(t)
  <2>1. At(t, "trace") /\ Goto(t, "base") /\ UNCHANGED <<setupVars, process, calls, connected, stream>>
    BY <1>2 DEF EndTrace
  <2>2. PICK more \in SUBSET {"base", "message"}, less \in SUBSET {"base", "message"} :
          more = {} /\ less = {}
    OBVIOUS
  <2>3. buffers' = (buffers \cup {Mine(t, o) : o \in more}) \ {Mine(t, o) : o \in less}
    BY <1>2, <2>2 DEF EndTrace
  <2>4. BuffersAt("base") = (BuffersAt("trace") \cup more) \ less
    BY <1>1, <2>2
  <2> QED
    BY <1>1, <2>1, <2>3, <2>4, StepKeeps
<1>3. CASE AllocateBase(t)
  <2>1. At(t, "base") /\ Goto(t, "message") /\ UNCHANGED <<setupVars, process, calls, connected, stream>>
    BY <1>3 DEF AllocateBase
  <2>2. PICK more \in SUBSET {"base", "message"}, less \in SUBSET {"base", "message"} :
          more = {"base"} /\ less = {}
    OBVIOUS
  <2>3. buffers' = (buffers \cup {Mine(t, o) : o \in more}) \ {Mine(t, o) : o \in less}
    BY <1>3, <2>2 DEF AllocateBase
  <2>4. BuffersAt("message") = (BuffersAt("base") \cup more) \ less
    BY <1>1, <2>2
  <2> QED
    BY <1>1, <2>1, <2>3, <2>4, StepKeeps
<1>4. CASE AllocateMessage(t)
  <2>1. At(t, "message") /\ Goto(t, "copied") /\ UNCHANGED <<setupVars, process, calls, connected, stream>>
    BY <1>4 DEF AllocateMessage
  <2>2. PICK more \in SUBSET {"base", "message"}, less \in SUBSET {"base", "message"} :
          more = {"message"} /\ less = {}
    OBVIOUS
  <2>3. buffers' = (buffers \cup {Mine(t, o) : o \in more}) \ {Mine(t, o) : o \in less}
    BY <1>4, <2>2 DEF AllocateMessage
  <2>4. BuffersAt("copied") = (BuffersAt("message") \cup more) \ less
    BY <1>1, <2>2
  <2> QED
    BY <1>1, <2>1, <2>3, <2>4, StepKeeps
<1>5. CASE FreeBase(t)
  <2>1. At(t, "copied") /\ Goto(t, "log") /\ UNCHANGED <<setupVars, process, calls, connected, stream>>
    BY <1>5 DEF FreeBase
  <2>2. PICK more \in SUBSET {"base", "message"}, less \in SUBSET {"base", "message"} :
          more = {} /\ less = {"base"}
    OBVIOUS
  <2>3. buffers' = (buffers \cup {Mine(t, o) : o \in more}) \ {Mine(t, o) : o \in less}
    BY <1>5, <2>2 DEF FreeBase
  <2>4. BuffersAt("log") = (BuffersAt("copied") \cup more) \ less
    BY <1>1, <2>2
  <2> QED
    BY <1>1, <2>1, <2>3, <2>4, StepKeeps
<1> QED
  BY <1>2, <1>3, <1>4, <1>5

\* The log is open, or was never, whenever a hook comes to it.
LEMMA LogKeeps ==
  ASSUME DynInv, NEW t \in Threads, Log(t)
  PROVE  DynInv'
<1>1. /\ At(t, "log") /\ Goto(t, "send") /\ "send" \in Steps /\ "log" \in Steps
      /\ process' \in {"running", "dead"} /\ badLog' = (badLog \/ pFile = "closed")
      /\ UNCHANGED <<stage, held, pFile, section, hookVars, profiling, calls, buffers,
                     connected, stream>>
  BY DEF Log, Steps
<1>2. process = "running" /\ frames[t] # <<>> /\ enabled # {} /\ profiling
  BY <1>1 DEF At, DynInv, CallsRight
<1>3. pFile # "closed"
  BY <1>2 DEF DynInv, LoadInv, Ready, LogKept
<1>4. badLog' = badLog
  BY <1>1, <1>3 DEF DynInv, LoadInv, SetupTypeOK
<1>5. UNCHANGED setupVars
  BY <1>1, <1>4 DEF setupVars, hookVars
<1>6. PICK more \in SUBSET {"base", "message"}, less \in SUBSET {"base", "message"} :
        more = {} /\ less = {}
  OBVIOUS
<1>7. buffers' = (buffers \cup {Mine(t, o) : o \in more}) \ {Mine(t, o) : o \in less}
  BY <1>1, <1>6
<1>8. BuffersAt("send") = (BuffersAt("log") \cup more) \ less
  BY <1>6 DEF BuffersAt
<1>9. {"log", "send"} \subseteq Steps \ {"sent half", "release"}
  BY DEF Steps
<1> QED
  BY <1>1, <1>5, <1>7, <1>8, <1>9, StepKeeps

\* Half a record is sent.
LEMMA SendKeeps ==
  ASSUME DynInv, NEW t \in Threads,
         NEW half, NEW from, NEW to, Send(t, half, from, to),
         \/ half = "head" /\ from = "send" /\ to = "sent half"
         \/ half = "tail" /\ from = "sent half" /\ to = "release"
  PROVE  DynInv'
<1>1. /\ At(t, from) /\ Goto(t, to) /\ UNCHANGED <<setupVars, process, calls, buffers, connected>>
      /\ stream' = IF connected THEN Append(stream, <<Head(frames[t]).call, half>>) ELSE stream
      /\ from \in Steps /\ to \in Steps /\ half \in {"head", "tail"}
  BY DEF Send, Steps
<1>2. /\ frames[t] # <<>> /\ FramesRight /\ process' \in {"running", "dead"}
      /\ CallsRight /\ StreamRight
  BY <1>1 DEF At, DynInv
<1>3. PICK n \in DOMAIN calls : /\ n = frames[t][1].call /\ Head(frames[t]) = frames[t][1]
                               /\ calls[n].thread = t /\ InHook(t, n, from)
  <2>1. /\ frames[t][1].call \in DOMAIN calls /\ Head(frames[t]) = frames[t][1]
        /\ calls[frames[t][1].call].thread = t /\ 1 \in 1 .. Len(frames[t])
    BY <1>2, Innermost
  <2>2. frames[t][1].pc = from
    BY <1>1, <2>1 DEF At
  <2> QED
    BY <2>1, <2>2 DEF InHook
<1>4. LoadInv' /\ UNCHANGED <<enabled, profiling, calls, connected>>
  BY <1>1, LoadUntouched DEF DynInv, setupVars
<1>5. CallsRight'
  BY <1>1, <1>2, <1>4, StepCalls
<1>6. FramesRight'
  BY <1>1, <1>4, GotoKeeps
<1>7. BuffersRight'
  <2>1. PICK none \in SUBSET {"base", "message"} : none = {}
    OBVIOUS
  <2>2. buffers' = (buffers \cup {Mine(t, o) : o \in none}) \ {Mine(t, o) : o \in none}
    BY <1>1, <2>1
  <2>3. BuffersAt(to) = (BuffersAt(from) \cup none) \ none
    BY <2>1 DEF BuffersAt
  <2> QED
    BY <1>1, <2>2, <2>3, StepBuffers
<1>8. Halves' = Halves /\ stream \in Seq(Halves) /\ calls \in Seq(Calls) /\ calls' = calls
  BY <1>2, <1>4 DEF Halves, StreamRight, CallsRight
<1>9. CASE ~connected
  <2>1. stream' = stream
    BY <1>1, <1>9
  <2>2. ~connected'
    BY <1>1, <1>9
  <2>3. StreamRight'
    BY <1>8, <2>1, <2>2 DEF StreamRight
  <2> QED
    BY <1>4, <1>5, <1>6, <1>7, <2>3 DEF DynInv
<1>10. CASE connected
  <2>1. stream' = Append(stream, <<n, half>>) /\ AllReported
    BY <1>1, <1>2, <1>3, <1>10 DEF StreamRight
  <2>2. stream' \in Seq(Halves)
    BY <1>1, <1>8, <2>1, StreamGrows
  <2>3. SentAt(from, n)
    BY <1>1, <1>3, <2>1 DEF AllReported
  <2>4. SentAt(to, n)'
    <3>1. CASE half = "head"
      <4>1. Unsent(n)
        BY <2>3, <3>1 DEF SentAt
      <4>2. HalfSent(n)'
        BY <1>1, <1>8, <2>1, <3>1, <4>1, StreamGrows
      <4> QED
        BY <3>1, <4>2 DEF SentAt
    <3>2. CASE half = "tail"
      <4>1. HalfSent(n)
        BY <2>3, <3>2 DEF SentAt
      <4>2. Whole(n)'
        BY <1>1, <1>8, <2>1, <3>2, <4>1, StreamGrows
      <4> QED
        BY <3>2, <4>2 DEF SentAt
    <3> QED
      BY <3>1, <3>2
  <2>5. ASSUME NEW c \in DOMAIN calls, c # n
        PROVE  /\ Whole(c) => Whole(c)'
               /\ Unsent(c) => Unsent(c)'
               /\ calls[c].thread # t /\ HalfSent(c) => HalfSent(c)'
    BY <1>1, <1>3, <1>8, <2>1, <2>5, StreamGrows
  <2>6. AllReported'
    BY <1>1, <1>3, <1>8, <2>1, <2>4, <2>5, GotoStream
  <2>7. StreamRight'
    BY <1>8, <2>2, <2>6 DEF StreamRight
  <2> QED
    BY <1>4, <1>5, <1>6, <1>7, <2>7 DEF DynInv
<1> QED
  BY <1>9, <1>10

\* The hook returns: its record is whole, and its thread goes on with the stack walk
\* that has called it, if any.
LEMMA ReleaseKeeps ==
  ASSUME DynInv, NEW t \in Threads, Release(t)
  PROVE  DynInv'
<1>1. /\ At(t, "release") /\ buffers' = buffers \ {Mine(t, "message")}
      /\ frames' = [frames EXCEPT ![t] = Tail(@)]
      /\ UNCHANGED <<setupVars, process, calls, connected, stream>> /\ "release" \in Steps
  BY DEF Release, Steps
<1>2. /\ frames[t] # <<>> /\ FramesRight /\ CallsRight /\ StreamRight /\ BuffersRight
  BY <1>1 DEF At, DynInv
<1> DEFINE s == frames[t]
<1>3. /\ s \in Seq(Frames) /\ Len(s) \in Nat \ {0} /\ s[1].pc = "release"
      /\ 1 \in 1 .. Len(s) /\ s[1].call \in DOMAIN calls /\ calls[s[1].call].thread = t
      /\ Len(s) \in 1 .. MaxDepth
  BY <1>1, <1>2, Innermost DEF At
<1>4. /\ frames'[t] \in Seq(Frames) /\ Len(frames'[t]) = Len(s) - 1
      /\ \A i \in 1 .. Len(s) - 1 : frames'[t][i] = s[i + 1]
      /\ \A u \in Threads : u # t => frames'[u] = frames[u]
      /\ frames' \in [Threads -> Seq(Frames)]
  <2>1. frames \in [Threads -> Seq(Frames)]
    BY <1>2 DEF FramesRight
  <2>2. /\ Tail(s) \in Seq(Frames) /\ Len(Tail(s)) = Len(s) - 1
        /\ \A i \in 1 .. Len(s) - 1 : Tail(s)[i] = s[i + 1]
    BY <1>2, <1>3, HeadTailProperties
  <2>3. frames' = [frames EXCEPT ![t] = Tail(s)]
    BY <1>1
  <2> QED
    BY <2>1, <2>2, <2>3
<1>5. Frames' = Frames /\ Halves' = Halves /\ Calls' = Calls /\ UNCHANGED <<calls, stream>>
  BY <1>1 DEF Frames, Halves, Calls
<1>6. LoadInv' /\ UNCHANGED <<enabled, profiling>>
  BY <1>1, LoadUntouched DEF DynInv, setupVars
<1>7. CallsRight'
  BY <1>1, <1>2, <1>4, <1>5, <1>6 DEF CallsRight
<1>8. \A i \in 1 .. Len(frames'[t]) : i + 1 \in 1 .. Len(s) /\ frames'[t][i] = s[i + 1] /\ i \in Nat
  <2>1. \A m \in Nat \ {0} : \A i \in 1 .. m - 1 : i + 1 \in 1 .. m /\ i \in Nat
    OBVIOUS
  <2> QED
    BY <1>3, <1>4, <2>1
<1>9. FramesRight'
  <2>1. ASSUME NEW u \in Threads, NEW i \in 1 .. Len(frames'[u])
        PROVE  /\ calls[frames'[u][i].call].thread = u
               /\ i # 1 => frames'[u][i].pc = "trace"
               /\ \A j \in 1 .. Len(frames'[u]) : frames'[u][i].call = frames'[u][j].call => i = j
    <3>1. CASE u = t
      <4>1. \A j \in 1 .. Len(s) :
              /\ calls[s[j].call].thread = t /\ (j # 1 => s[j].pc = "trace")
              /\ \A k \in 1 .. Len(s) : s[j].call = s[k].call => j = k
        BY <1>2 DEF FramesRight
      <4>2. i + 1 \in 1 .. Len(s) /\ i + 1 # 1 /\ frames'[t][i] = s[i + 1]
        BY <1>8, <3>1
      <4>3. ASSUME NEW j \in 1 .. Len(frames'[u]), frames'[u][i].call = frames'[u][j].call
            PROVE  i = j
        <5>1. i + 1 = j + 1
          BY <1>8, <3>1, <4>1, <4>2, <4>3
        <5> QED
          BY <1>8, <3>1, <5>1
      <4> QED
        BY <3>1, <4>1, <4>2, <4>3
    <3>2. CASE u # t
      BY <1>2, <1>4, <3>2 DEF FramesRight
    <3> QED
      BY <3>1, <3>2
  <2>2. \A u \in Threads : Len(frames'[u]) <= MaxDepth
    BY <1>2, <1>3, <1>4, BoundsAssumption DEF FramesRight
  <2> QED
    BY <1>4, <1>5, <2>1, <2>2 DEF FramesRight
<1>10. frames'[t] # <<>> => 1 \in 1 .. Len(frames'[t]) /\ frames'[t][1].pc = "trace"
  <2> SUFFICES ASSUME frames'[t] # <<>> PROVE 1 \in 1 .. Len(frames'[t]) /\ frames'[t][1].pc = "trace"
    OBVIOUS
  <2>1. Len(frames'[t]) \in Nat \ {0}
    BY <1>4, EmptySeq
  <2>2. \A n \in Nat \ {0} : 1 \in 1 .. n /\ 1 + 1 # 1
    OBVIOUS
  <2>3. 1 \in 1 .. Len(frames'[t])
    BY <2>1, <2>2
  <2>4. frames'[t][1] = s[1 + 1] /\ 1 + 1 \in 1 .. Len(s)
    BY <1>8, <2>3
  <2> QED
    BY <1>2, <2>2, <2>3, <2>4 DEF FramesRight
<1>11. BuffersRight'
  <2> DEFINE B == [thread : Threads, depth : 1 .. MaxDepth, of : {"base", "message"}]
  <2>1. ASSUME NEW b \in B, b.thread = t PROVE b \notin buffers'
    <3>1. b \in buffers => b.depth = Len(s) /\ b.of = "message"
      BY <1>2, <1>3, <2>1 DEF BuffersRight, BuffersAt
    <3>2. b.depth = Len(s) /\ b.of = "message" => b = Mine(t, "message")
      BY <2>1 DEF Mine
    <3> QED
      BY <1>1, <3>1, <3>2
  <2>2. ASSUME NEW b \in B, b.thread # t PROVE b \in buffers' <=> b \in buffers
    BY <1>1, <2>2 DEF Mine
  <2>3. frames'[t] # <<>> => BuffersAt(frames'[t][1].pc) = {}
    BY <1>10 DEF BuffersAt
  <2>4. ASSUME NEW b \in B
        PROVE  b \in buffers' <=> /\ frames'[b.thread] # <<>> /\ b.depth = Len(frames'[b.thread])
                                  /\ b.of \in BuffersAt(frames'[b.thread][1].pc)
    <3>1. CASE b.thread = t
      BY <2>1, <2>3, <3>1
    <3>2. CASE b.thread # t
      BY <1>2, <1>4, <2>2, <3>2 DEF BuffersRight
    <3> QED
      BY <3>1, <3>2
  <2>5. buffers' \subseteq B
    BY <1>1, <1>2 DEF BuffersRight
  <2> QED
    BY <2>4, <2>5 DEF BuffersRight
<1>12. StreamRight'
  <2>1. ASSUME connected' PROVE AllReported'
    <3>1. AllReported
      BY <1>1, <1>2, <2>1 DEF StreamRight
    <3>2. SUFFICES ASSUME NEW c \in DOMAIN calls, NEW u \in Threads, calls[c].thread = u
                   PROVE  /\ (\A x \in Steps : ~InHook(u, c, x)') => Whole(c)'
                          /\ \A x \in Steps : InHook(u, c, x)' => SentAt(x, c)'
      BY <1>5 DEF AllReported
    <3>3. /\ (\A x \in Steps : ~InHook(u, c, x)) => Whole(c)
          /\ \A x \in Steps : InHook(u, c, x) => SentAt(x, c)
      BY <3>1, <3>2 DEF AllReported
    <3>4. ASSUME NEW x \in Steps PROVE InHook(u, c, x)' => InHook(u, c, x)
      <4>1. CASE u = t
        BY <1>8, <4>1 DEF InHook
      <4>2. CASE u # t
        BY <1>4, <4>2 DEF InHook
      <4> QED
        BY <4>1, <4>2
    <3>5. ASSUME NEW x \in Steps, InHook(u, c, x) PROVE InHook(u, c, x)' \/ Whole(c)
      <4>1. CASE u # t
        BY <1>4, <3>5, <4>1 DEF InHook
      <4>2. CASE u = t /\ c = s[1].call
        <5>1. InHook(t, c, "release")
          BY <1>3, <4>2 DEF InHook
        <5>2. SentAt("release", c)
          BY <1>1, <3>3, <4>2, <5>1
        <5> QED
          BY <5>2 DEF SentAt
      <4>3. CASE u = t /\ c # s[1].call
        <5>1. PICK i \in 1 .. Len(s) : s[i].call = c /\ s[i].pc = x
          BY <3>5, <4>3 DEF InHook
        <5>2. i # 1
          BY <4>3, <5>1
        <5>3. i - 1 \in 1 .. Len(frames'[t]) /\ (i - 1) + 1 = i
          BY <1>3, <1>4, <5>2
        <5>4. frames'[t][i - 1] = s[i]
          BY <1>8, <5>3
        <5> QED
          BY <4>3, <5>1, <5>3, <5>4 DEF InHook
      <4> QED
        BY <4>1, <4>2, <4>3
    <3>6. (Whole(c) <=> Whole(c)') /\ (HalfSent(c) <=> HalfSent(c)') /\ (Unsent(c) <=> Unsent(c)')
      BY <1>5, StreamStays
    <3>7. \A x \in Steps : SentAt(x, c) => SentAt(x, c)'
      BY <3>6 DEF SentAt
    <3> QED
      BY <3>3, <3>4, <3>5, <3>6, <3>7
  <2> QED
    BY <1>2, <1>5, <2>1 DEF StreamRight
<1> QED
  BY <1>6, <1>7, <1>9, <1>11, <1>12 DEF DynInv

\* A hooked function is called: the call is the newest and the innermost, and its
\* detour runs the original of that very function.
LEMMA EnterKeeps ==
  ASSUME DynInv, NEW t \in Threads, NEW f \in enabled, Enter(t, f)
  PROVE  DynInv'
<1> DEFINE s == frames[t]
           n == Len(calls) + 1
           e == [call |-> n, pc |-> "trace"]
           r == [thread |-> t, asked |-> f, ran |-> originals[detour[f][1]][detour[f][2]]]
<1>1. /\ calls' = Append(calls, r) /\ frames' = [frames EXCEPT ![t] = <<e>> \o s]
      /\ UNCHANGED <<setupVars, process, buffers, connected, stream>>
      /\ s = <<>> \/ (At(t, "trace") /\ Len(s) < MaxDepth)
  BY DEF Enter, MayCall
<1>2. LoadInv /\ FramesRight /\ CallsRight /\ StreamRight /\ BuffersRight
  BY DEF DynInv
<1>3. r \in Calls /\ r.ran = r.asked /\ r.thread = t
  <2>1. f \in Functions
    BY <1>2 DEF LoadInv, SetupTypeOK
  <2>2. originals[detour[f][1]][detour[f][2]] = f
    BY <1>2, SlotsSuffice DEF OriginalBehindEveryJump
  <2> QED
    BY <2>1, <2>2 DEF Calls
<1> HIDE DEF r
<1>4. /\ calls \in Seq(Calls) /\ Len(calls) \in Nat /\ DOMAIN calls = 1 .. Len(calls)
      /\ s \in Seq(Frames) /\ Len(s) \in Nat /\ Len(s) <= MaxDepth
  BY <1>2, LenProperties DEF CallsRight, FramesRight
<1>5. /\ calls' \in Seq(Calls) /\ DOMAIN calls' = 1 .. n /\ calls'[n] = r
      /\ \A c \in DOMAIN calls : calls'[c] = calls[c] /\ c # n /\ c \in DOMAIN calls'
      /\ n \in DOMAIN calls' /\ DOMAIN calls' = DOMAIN calls \cup {n}
  <2>1. /\ calls' \in Seq(Calls) /\ Len(calls') = n /\ calls'[n] = r
        /\ \A c \in 1 .. Len(calls) : calls'[c] = calls[c]
    BY <1>1, <1>3, <1>4, AppendProperties
  <2>2. DOMAIN calls' = 1 .. n
    BY <2>1, LenProperties
  <2> QED
    BY <1>4, <2>1, <2>2
<1>6. Frames \subseteq Frames' /\ e \in Frames' /\ Calls' = Calls
  BY <1>5 DEF Frames, Steps, Calls
<1>7. /\ frames'[t] \in Seq(Frames') /\ Len(frames'[t]) = Len(s) + 1 /\ frames'[t][1] = e
      /\ \A i \in 1 .. Len(s) : frames'[t][i + 1] = s[i]
      /\ \A u \in Threads : u # t => frames'[u] = frames[u]
      /\ frames' \in [Threads -> Seq(Frames')]
  <2>1. <<e>> \in Seq(Frames') /\ s \in Seq(Frames') /\ Len(<<e>>) = 1 /\ <<e>>[1] = e
    BY <1>4, <1>6, SeqMonotonic
  <2> DEFINE new == <<e>> \o s
  <2>2. /\ new \in Seq(Frames') /\ Len(new) = 1 + Len(s)
        /\ \A i \in 1 .. 1 + Len(s) : new[i] = IF i <= 1 THEN <<e>>[i] ELSE s[i - 1]
    <3>1. /\ new \in Seq(Frames') /\ Len(new) = Len(<<e>>) + Len(s)
          /\ \A i \in 1 .. Len(<<e>>) + Len(s) :
               new[i] = IF i <= Len(<<e>>) THEN <<e>>[i] ELSE s[i - Len(<<e>>)]
      BY <2>1, ConcatProperties
    <3> QED
      BY <2>1, <3>1
  <2>3. \A u \in Threads : frames[u] \in Seq(Frames')
    BY <1>2, <1>6, SeqMonotonic DEF FramesRight
  <2>4. frames' = [frames EXCEPT ![t] = new] /\ frames \in [Threads -> Seq(Frames)]
    BY <1>1, <1>2 DEF FramesRight
  <2> HIDE DEF new, e
  <2>5. frames'[t] = new /\ \A u \in Threads : u # t => frames'[u] = frames[u]
    BY <2>4
  <2>6. frames' \in [Threads -> Seq(Frames')]
    BY <2>2, <2>3, <2>4, <2>5
  <2>7. new[1] = e /\ \A i \in 1 .. Len(s) : new[i + 1] = s[i]
    <3>1. 1 \in 1 .. 1 + Len(s) /\ 1 <= 1
      BY <1>4
    <3>2. ASSUME NEW i \in 1 .. Len(s)
          PROVE  i + 1 \in 1 .. 1 + Len(s) /\ ~(i + 1 <= 1) /\ (i + 1) - 1 = i
      BY <1>4
    <3> QED
      BY <2>1, <2>2, <3>1, <3>2
  <2> QED
    BY <1>4, <2>2, <2>5, <2>6, <2>7
<1> HIDE DEF e
<1>8. e.call = n /\ e.pc = "trace"
  BY DEF e
<1>9. s # <<>> => s[1].pc = "trace" /\ Len(s) < MaxDepth
  BY <1>1, <1>2, Innermost DEF At
<1>10. LoadInv' /\ UNCHANGED <<enabled, profiling>>
  BY <1>1, <1>2, LoadUntouched DEF setupVars
<1>11. CallsRight'
  <2>1. \A c \in DOMAIN calls' : calls'[c].ran = calls'[c].asked
    BY <1>2, <1>3, <1>5 DEF CallsRight
  <2>2. enabled # {}
    OBVIOUS
  <2> QED
    BY <1>1, <1>2, <1>5, <1>6, <1>10, <2>1, <2>2 DEF CallsRight
<1>12. \A i \in 1 .. Len(frames'[t]) : i = 1 \/ (i - 1 \in 1 .. Len(s) /\ frames'[t][i] = s[i - 1])
  <2>1. ASSUME NEW i \in 1 .. Len(frames'[t]), i # 1
        PROVE  i - 1 \in 1 .. Len(s) /\ (i - 1) + 1 = i
    BY <1>4, <1>7, <2>1
  <2> QED
    BY <1>7, <2>1
<1>13. /\ \A i \in 1 .. Len(s) : /\ s[i].pc = "trace" /\ s[i].call \in DOMAIN calls
                                 /\ calls[s[i].call].thread = t
       /\ \A i, j \in 1 .. Len(s) : s[i].call = s[j].call => i = j
  <2>1. ASSUME NEW i \in 1 .. Len(s) PROVE s[i].pc = "trace"
    <3>1. s # <<>>
      BY <1>4
    <3> QED
      BY <1>2, <1>9, <3>1 DEF FramesRight
  <2>2. \A i \in 1 .. Len(s) : s[i] \in Frames
    BY <1>4, ElementOfSeq
  <2> QED
    BY <1>2, <2>1, <2>2 DEF FramesRight, Frames
<1>14. FramesRight'
  <2>1. ASSUME NEW u \in Threads, NEW i \in 1 .. Len(frames'[u])
        PROVE  /\ calls'[frames'[u][i].call].thread = u
               /\ i # 1 => frames'[u][i].pc = "trace"
               /\ \A j \in 1 .. Len(frames'[u]) : frames'[u][i].call = frames'[u][j].call => i = j
    <3>1. CASE u = t
      <4>1. ASSUME NEW j \in 1 .. Len(frames'[t])
            PROVE  \/ j = 1 /\ frames'[t][j].call = n
                   \/ /\ j - 1 \in 1 .. Len(s) /\ frames'[t][j].call = s[j - 1].call
                      /\ frames'[t][j].pc = "trace" /\ frames'[t][j].call \in DOMAIN calls
                      /\ calls[frames'[t][j].call].thread = t
        BY <1>7, <1>8, <1>12, <1>13, SMTT(30)
      <4>2. calls'[frames'[t][i].call].thread = t
        BY <1>3, <1>5, <3>1, <4>1
      <4>3. i # 1 => frames'[t][i].pc = "trace"
        BY <3>1, <4>1
      <4>4. ASSUME NEW j \in 1 .. Len(frames'[t]), frames'[t][i].call = frames'[t][j].call
            PROVE  i = j
        <5>1. CASE i = 1 \/ j = 1
          BY <1>5, <3>1, <4>1, <4>4, <5>1
        <5>2. CASE i # 1 /\ j # 1
          <6>1. i - 1 = j - 1
            BY <1>13, <3>1, <4>1, <4>4, <5>2
          <6> QED
            BY <3>1, <6>1
        <5> QED
          BY <5>1, <5>2
      <4> QED
        BY <3>1, <4>2, <4>3, <4>4
    <3>2. CASE u # t
      <4>1. /\ frames'[u] = frames[u] /\ frames[u] \in Seq(Frames) /\ i \in 1 .. Len(frames[u])
        BY <1>2, <1>7, <3>2 DEF FramesRight
      <4>2. frames[u][i] \in Frames
        BY <4>1, ElementOfSeq
      <4>3. calls'[frames[u][i].call] = calls[frames[u][i].call]
        BY <1>5, <4>2 DEF Frames
      <4> QED
        BY <1>2, <4>1, <4>3 DEF FramesRight
    <3> QED
      BY <3>1, <3>2
  <2>2. Len(s) + 1 <= MaxDepth
    <3>1. CASE s = <<>>
      BY <3>1, BoundsAssumption
    <3>2. CASE s # <<>>
      BY <1>4, <1>9, <3>2, BoundsAssumption
    <3> QED
      BY <3>1, <3>2
  <2>3. \A u \in Threads : Len(frames'[u]) <= MaxDepth
    BY <1>2, <1>7, <2>2 DEF FramesRight
  <2> QED
    BY <1>7, <2>1, <2>3 DEF FramesRight
<1>15. BuffersRight'
  <2> DEFINE B == [thread : Threads, depth : 1 .. MaxDepth, of : {"base", "message"}]
  <2>1. BuffersAt("trace") = {}
    BY DEF BuffersAt
  <2>2. ASSUME NEW b \in B
        PROVE  b \in buffers <=> /\ frames'[b.thread] # <<>> /\ b.depth = Len(frames'[b.thread])
                                 /\ b.of \in BuffersAt(frames'[b.thread][1].pc)
    <3>1. CASE b.thread = t
      <4>1. b \notin buffers
        BY <1>2, <1>9, <2>1, <3>1 DEF BuffersRight
      <4> QED
        BY <1>7, <1>8, <2>1, <3>1, <4>1
    <3>2. CASE b.thread # t
      BY <1>2, <1>7, <3>2 DEF BuffersRight
    <3> QED
      BY <3>1, <3>2
  <2> QED
    BY <1>1, <1>2, <2>2 DEF BuffersRight
<1>16. Halves \subseteq Halves' /\ stream \in Seq(Halves) /\ stream' = stream
  BY <1>1, <1>2, <1>5 DEF Halves, StreamRight
<1>17. \A i \in DOMAIN stream : stream[i][1] \in DOMAIN calls
  BY <1>16, LenProperties, ElementOfSeq DEF Halves
<1>18. StreamRight'
  <2>1. stream' \in Seq(Halves')
    BY <1>16, SeqMonotonic
  <2>2. ASSUME connected' PROVE AllReported'
    <3>1. AllReported
      BY <1>1, <1>2, <2>2 DEF StreamRight
    <3>2. SUFFICES ASSUME NEW c \in DOMAIN calls', NEW u \in Threads, calls'[c].thread = u
                   PROVE  /\ (\A x \in Steps : ~InHook(u, c, x)') => Whole(c)'
                          /\ \A x \in Steps : InHook(u, c, x)' => SentAt(x, c)'
      BY DEF AllReported
    <3>3. CASE c = n
      <4>1. u = t
        BY <1>3, <1>5, <3>2, <3>3
      <4>2. Unsent(c)'
        BY <1>5, <1>16, <1>17, <3>3 DEF Unsent
      <4>3. ASSUME NEW x \in Steps PROVE InHook(t, c, x)' <=> x = "trace"
        <5>1. 1 \in 1 .. Len(frames'[t])
          BY <1>4, <1>7
        <5>2. ASSUME NEW i \in 1 .. Len(frames'[t]), frames'[t][i].call = n PROVE i = 1
          <6>1. ASSUME i # 1 PROVE FALSE
            <7>1. frames'[t][i].call \in DOMAIN calls
              BY <1>12, <1>13, <6>1
            <7> QED
              BY <1>5, <5>2, <7>1
          <6> QED
            BY <6>1
        <5> QED
          BY <1>7, <1>8, <3>3, <5>1, <5>2 DEF InHook
      <4>4. SentAt("trace", c)' /\ "trace" \in Steps
        BY <4>2 DEF SentAt, Steps
      <4> QED
        BY <4>1, <4>3, <4>4
    <3>4. CASE c # n
      <4>1. c \in DOMAIN calls /\ calls[c].thread = u /\ calls'[c] = calls[c]
        BY <1>5, <3>2, <3>4
      <4>2. /\ (\A x \in Steps : ~InHook(u, c, x)) => Whole(c)
            /\ \A x \in Steps : InHook(u, c, x) => SentAt(x, c)
        BY <3>1, <4>1 DEF AllReported
      <4>3. ASSUME NEW x \in Steps PROVE InHook(u, c, x)' <=> InHook(u, c, x)
        <5>1. CASE u # t
          BY <1>7, <5>1 DEF InHook
        <5>2. CASE u = t
          <6>1. ASSUME InHook(t, c, x) PROVE InHook(t, c, x)'
            <7>1. PICK i \in 1 .. Len(s) : s[i].call = c /\ s[i].pc = x
              BY <6>1 DEF InHook
            <7>2. frames'[t][i + 1] = s[i]
              BY <1>7
            <7>3. \A k \in Nat : \A j \in 1 .. k : j + 1 \in 1 .. k + 1
              OBVIOUS
            <7>4. i + 1 \in 1 .. Len(frames'[t])
              BY <1>4, <1>7, <7>3
            <7> QED
              BY <7>1, <7>2, <7>4 DEF InHook
          <6>2. ASSUME InHook(t, c, x)' PROVE InHook(t, c, x)
            <7>1. PICK i \in 1 .. Len(frames'[t]) : frames'[t][i].call = c /\ frames'[t][i].pc = x
              BY <6>2 DEF InHook
            <7>2. i # 1
              BY <1>7, <1>8, <3>4, <7>1
            <7> QED
              BY <1>12, <7>1, <7>2 DEF InHook
          <6> QED
            BY <5>2, <6>1, <6>2
        <5> QED
          BY <5>1, <5>2
      <4>4. \A v, i : i \in DOMAIN stream => (ByThread(v, i)' <=> ByThread(v, i))
        BY <1>5, <1>16, <1>17 DEF ByThread
      <4>5. Whole(c) => Whole(c)'
        BY <1>16, <4>1, <4>4 DEF Whole
      <4>6. HalfSent(c) => HalfSent(c)'
        BY <1>16, <4>1, <4>4 DEF HalfSent
      <4>7. Unsent(c) => Unsent(c)'
        BY <1>16 DEF Unsent
      <4>8. \A x \in Steps : SentAt(x, c) => SentAt(x, c)'
        BY <4>5, <4>6, <4>7 DEF SentAt
      <4> QED
        BY <4>2, <4>3, <4>5, <4>8
    <3> QED
      BY <3>3, <3>4
  <2> QED
    BY <2>1, <2>2 DEF StreamRight
<1> QED
  BY <1>10, <1>11, <1>14, <1>15, <1>18 DEF DynInv

-----------------------------------------------------------------------------
(* The other steps                                                         *)

\* What depends on the calls alone is untouched when they are.
LEMMA CallsStay ==
  ASSUME DynInv, UNCHANGED <<calls, frames, buffers, stream>>, connected' => connected
  PROVE  FramesRight' /\ BuffersRight' /\ StreamRight'
<1>1. Frames' = Frames /\ Halves' = Halves
  BY DEF Frames, Halves
<1>2. FramesRight'
  BY <1>1 DEF DynInv, FramesRight
<1>3. BuffersRight'
  BY DEF DynInv, BuffersRight
<1>4. AllReported => AllReported'
  <2> SUFFICES ASSUME AllReported PROVE AllReported'
    OBVIOUS
  <2> SUFFICES ASSUME NEW c \in DOMAIN calls, NEW u \in Threads, calls[c].thread = u
               PROVE  /\ (\A x \in Steps : ~InHook(u, c, x)') => Whole(c)'
                      /\ \A x \in Steps : InHook(u, c, x)' => SentAt(x, c)'
    BY DEF AllReported
  <2>1. (Whole(c) <=> Whole(c)') /\ (HalfSent(c) <=> HalfSent(c)') /\ (Unsent(c) <=> Unsent(c)')
    BY StreamStays
  <2>2. \A x \in Steps : (SentAt(x, c) => SentAt(x, c)') /\ (InHook(u, c, x)' <=> InHook(u, c, x))
    BY <2>1 DEF SentAt, InHook
  <2> QED
    BY <2>1, <2>2 DEF AllReported
<1>5. StreamRight'
  BY <1>1, <1>4 DEF DynInv, StreamRight
<1> QED
  BY <1>2, <1>3, <1>5

\* Set-up, which the loading thread runs on its own.
LEMMA SetupKeepsCalls ==
  ASSUME DynInv, SetupHeapProfiling
  PROVE  DynInv'
<1>1. UNCHANGED <<process, calls, frames, buffers, connected, stream>>
  BY DEF SetupHeapProfiling, hookCallVars
<1>2. FramesRight' /\ BuffersRight' /\ StreamRight'
  BY <1>1, CallsStay
<1>3. CASE StartDyn
  <2>1. LoadInv'
    BY <1>3, OpenKeeps DEF StartDyn, DynInv
  <2>2. UNCHANGED <<enabled, profiling>>
    BY <1>3 DEF StartDyn, hookVars
  <2>3. CallsRight'
    BY <1>1, <2>2 DEF DynInv, CallsRight, Calls
  <2> QED
    BY <1>2, <2>1, <2>3 DEF DynInv
<1>4. CASE SetupSocket \/ HookModules \/ HookSymbols
  <2>1. SetupStep
    BY <1>4 DEF SetupSocket, HookModules, HookSymbols, SetupStep
  <2>2. LoadInv'
    BY <2>1, LoadKeeps DEF DynInv
  <2>3. profiling' = profiling /\ enabled \subseteq enabled'
    BY <2>1 DEF SetupStep, SocketCall, SocketCallFails, InitMinHook, InitSymbols, ModulesDone,
                SymbolsDone, EnableSymbol, EnumerateModule, Symbol, AllHooksUsed, hookVars
  <2>4. CallsRight'
    BY <1>1, <2>3 DEF DynInv, CallsRight, Calls
  <2> QED
    BY <1>2, <2>2, <2>4 DEF DynInv
<1> QED
  BY <1>3, <1>4 DEF SetupHeapProfiling

LEMMA EndKeepsCalls ==
  ASSUME DynInv, EndProcess
  PROVE  DynInv'
<1>1. /\ process = "running" /\ stage = "over" /\ process' = "ended" /\ Detach
      /\ UNCHANGED <<calls, frames, buffers, connected, stream>>
  BY DEF EndProcess, hookCallVars
<1>2. FramesRight' /\ BuffersRight' /\ StreamRight'
  BY <1>1, CallsStay
<1>3. LoadInv'
  BY <1>1, UnloadKeeps DEF DynInv, CallsRight
<1>4. CallsRight'
  BY <1>1 DEF DynInv, CallsRight, Calls
<1> QED
  BY <1>2, <1>3, <1>4 DEF DynInv

\* The GUI disconnects, a hook faults for want of memory, or nothing happens.
LEMMA IdleKeeps ==
  ASSUME DynInv, \/ GuiDisconnect
                 \/ \E t \in Threads : OutOfMemory(t)
                 \/ UNCHANGED dynVars
  PROVE  DynInv'
<1>1. /\ UNCHANGED setupVars /\ UNCHANGED <<calls, frames, buffers, stream>>
      /\ process' \in {process, "dead"}
      /\ process' = "dead" => process \in {"running", "dead"}
  BY DEF GuiDisconnect, OutOfMemory, At, dynVars, hookCallVars
<1>2. FramesRight' /\ BuffersRight' /\ StreamRight' /\ connected' \in BOOLEAN
  <2>1. CASE GuiDisconnect
    <3>1. connected' = FALSE
      BY <2>1 DEF GuiDisconnect
    <3> QED
      BY <1>1, <3>1, CallsStay
  <2>2. CASE UNCHANGED hookCallVars
    <3>1. connected' = connected
      BY <2>2 DEF hookCallVars
    <3>2. connected' \in BOOLEAN
      BY <3>1 DEF DynInv, CallsRight
    <3> QED
      BY <1>1, <3>1, <3>2, CallsStay
  <2> QED
    BY <2>1, <2>2 DEF OutOfMemory, dynVars
<1>3. LoadInv' /\ UNCHANGED <<enabled, profiling>>
  BY <1>1, LoadUntouched DEF DynInv, setupVars
<1>4. CallsRight'
  <2>1. profiling' <=> profiling
    BY <1>3
  <2>2. process' \in {"running", "ended", "dead"} /\ (process' # "ended" => profiling')
    <3>1. process' # "ended" => process # "ended"
      BY <1>1
    <3>2. process' \in {"running", "ended", "dead"}
      BY <1>1 DEF DynInv, CallsRight
    <3> QED
      BY <2>1, <3>1, <3>2, Zenon DEF DynInv, CallsRight
  <2>3. \A t \in Threads : process' = "running" /\ frames'[t] # <<>> => enabled' # {}
    BY <1>1, <1>3 DEF DynInv, CallsRight
  <2>4. calls' \in Seq(Calls') /\ \A c \in DOMAIN calls' : calls'[c].ran = calls'[c].asked
    BY <1>1 DEF DynInv, CallsRight, Calls
  <2> QED
    BY <1>2, <2>2, <2>3, <2>4, Zenon DEF CallsRight
<1> QED
  BY <1>2, <1>3, <1>4 DEF DynInv

LEMMA DynPreserved == DynInv /\ [DynNext]_dynVars => DynInv'
<1> SUFFICES ASSUME DynInv, [DynNext]_dynVars PROVE DynInv'
  OBVIOUS
<1>1. ASSUME NEW t \in Threads, HookStep(t) PROVE DynInv'
  <2>1. CASE EndTrace(t) \/ AllocateBase(t) \/ AllocateMessage(t) \/ FreeBase(t)
    BY <2>1, PrepareKeeps
  <2>2. CASE OutOfMemory(t)
    BY <2>2, IdleKeeps
  <2>3. CASE Log(t)
    BY <2>3, LogKeeps
  <2>4. CASE Release(t)
    BY <2>4, ReleaseKeeps
  <2>5. CASE Send(t, "head", "send", "sent half")
    BY <2>5, SendKeeps
  <2>6. CASE Send(t, "tail", "sent half", "release")
    BY <2>6, SendKeeps
  <2> QED
    BY <1>1, <2>1, <2>2, <2>3, <2>4, <2>5, <2>6 DEF HookStep
<1>2. ASSUME NEW t \in Threads, NEW f \in enabled, Enter(t, f) PROVE DynInv'
  BY <1>2, EnterKeeps
<1>3. CASE SetupHeapProfiling
  BY <1>3, SetupKeepsCalls
<1>4. CASE EndProcess
  BY <1>4, EndKeepsCalls
<1>5. CASE GuiDisconnect \/ UNCHANGED dynVars
  BY <1>5, IdleKeeps
<1> QED
  BY <1>1, <1>2, <1>3, <1>4, <1>5 DEF DynNext

-----------------------------------------------------------------------------
\* The invariant of the older form, for any number of threads and calls, nested to
\* any depth.
THEOREM DynInvariant == DynSpec => []DynInv
<1>1. DynInit => DynInv
  BY DynInitially
<1>2. DynInv /\ [DynNext]_dynVars => DynInv'
  BY DynPreserved
<1> QED
  BY <1>1, <1>2, PTL DEF DynSpec

\* Its types.
THEOREM DynTypeCorrect == DynSpec => []DynTypeOK
<1>1. DynInv => DynTypeOK
  BY DEF DynInv, LoadInv, CallsRight, FramesRight, BuffersRight, StreamRight, DynTypeOK, Calls,
         Frames, Halves
<1> QED
  BY <1>1, DynInvariant, PTL

\* Without a lock, and with calls of their own stack walks in between, the hooks of the
\* older form run the right original and send one whole record for each call
\* (mallocHook and freeHook, Observer_dyn.cpp).
THEOREM DynReports == DynSpec => []EveryCallReported
<1>1. DynInv => EveryCallReported
  <2> SUFFICES ASSUME DynInv, NEW c \in DOMAIN calls
               PROVE  /\ calls[c].ran = calls[c].asked
                      /\ connected /\ frames[calls[c].thread] = <<>> => Whole(c)
    BY DEF EveryCallReported
  <2>1. calls[c].ran = calls[c].asked /\ calls[c] \in Calls
    BY LenProperties, ElementOfSeq DEF DynInv, CallsRight
  <2>2. ASSUME connected, frames[calls[c].thread] = <<>> PROVE Whole(c)
    <3>1. AllReported
      BY <2>2 DEF DynInv, StreamRight
    <3>2. \A x \in Steps : ~InHook(calls[c].thread, c, x)
      BY <2>2 DEF InHook
    <3> QED
      BY <2>1, <3>1, <3>2 DEF AllReported, Calls
  <2> QED
    BY <2>1, <2>2
<1> QED
  BY <1>1, DynInvariant, PTL

\* It sends from memory it still owns and frees what it has allocated (getBytes and the
\* hooks, Observer_dyn.cpp and Observer_dyn.h).
THEOREM DynBuffers == DynSpec => []BuffersHeld
<1>1. DynInv => BuffersHeld
  <2> SUFFICES ASSUME DynInv, NEW t \in Threads
               PROVE  /\ At(t, "send") \/ At(t, "sent half") => Mine(t, "message") \in buffers
                      /\ frames[t] = <<>> => \A b \in buffers : b.thread # t
    BY DEF BuffersHeld
  <2>1. ASSUME At(t, "send") \/ At(t, "sent half") PROVE Mine(t, "message") \in buffers
    <3>1. /\ frames[t] # <<>> /\ frames[t][1].pc \in {"send", "sent half"}
          /\ Len(frames[t]) \in 1 .. MaxDepth
      BY <2>1, Innermost DEF At, DynInv
    <3>2. Mine(t, "message") \in [thread : Threads, depth : 1 .. MaxDepth, of : {"base", "message"}]
      BY <3>1 DEF Mine
    <3> QED
      BY <3>1, <3>2 DEF DynInv, BuffersRight, BuffersAt, Mine
  <2>2. ASSUME frames[t] = <<>>, NEW b \in buffers PROVE b.thread # t
    BY <2>2 DEF DynInv, BuffersRight
  <2> QED
    BY <2>1, <2>2
<1> QED
  BY <1>1, DynInvariant, PTL

\* Its log is used after it is closed only in a process that never got its connection.
THEOREM DynLogRight == DynSpec => []LogUsedWhileOpen
<1>1. DynInv => LogUsedWhileOpen
  BY DEF DynInv, LoadInv, LogKept
<1> QED
  BY <1>1, DynInvariant, PTL
=============================================================================
