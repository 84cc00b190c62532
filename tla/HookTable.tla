------------------------------ MODULE HookTable ------------------------------
(***************************************************************************)
(* MinHook's table of hooks (hook.cpp) and the way it stops the process to *)
(* change code (thread.cpp).  A call of the API holds gCS from its first   *)
(* statement to its last, so there is one call at a time, and it is made   *)
(* by a thread of its own.  A call that changes code stops the other       *)
(* threads one by one, moves an instruction pointer that stands in bytes   *)
(* about to change, writes the bytes of one hook after the other and lets  *)
(* the threads go.  The other threads run, start and end in between.       *)
(*                                                                         *)
(* The bytes a jump overwrites are Last instructions of the target; a copy *)
(* of them, and a jump to the instruction Last + 1, is the trampoline.  A  *)
(* jump leads through a relay to the detour, which may call the trampoline.*)
(***************************************************************************)
EXTENDS Naturals, FiniteSets

CONSTANTS Targets,   \* addresses of the functions that may be hooked
          Threads,   \* the threads of the process but the caller
          Last,      \* instructions of a target that a jump overwrites
          HeldIn     \* bound: where a thread may be when another process suspends it

ASSUME TargetAssumption == Targets \subseteq Nat \ {0}
ASSUME LastAssumption == Last \in Nat \ {0}

VARIABLES
  initialized, \* gIsInitialized
  hooks,       \* gHooks, a vector sorted by pTarget
  enabled,     \* the hooks with isEnabled
  queued,      \* the hooks with queueEnable
  code,        \* what the first bytes of a target are
  op,          \* the call under way; "change": one that enables and disables
  pc,          \* where it is
  todo,        \* the hooks whose bytes it has still to change
  dropping,    \* the hooks it erases at its end
  failed,      \* has VirtualProtect failed?
  listed,      \* ScopedThreadExclusive::threads_
  unfrozen,    \* the threads of it that Freeze has not reached
  life,        \* per thread: "absent", "alive" or "ended"
  suspends,    \* its suspend count
  holds,       \* has another process suspended it, and not resumed it? (0 or 1)
  ip,          \* its instruction pointer
  jumped,      \* history: the threads that took a jump and have not come out
  stray,       \* history: the threads that a change of code did not stop, or
               \* that were moved for one that failed
  gaveUp       \* history: has Freeze ever returned early?

tableVars == <<initialized, hooks, enabled, queued>>
callVars == <<op, pc, todo, dropping, failed, listed, unfrozen>>
threadVars == <<life, suspends, holds, ip>>
history == <<jumped, stray, gaveUp>>
vars == <<tableVars, code, callVars, threadVars, history>>

Ops == {"none", "change", "remove", "uninitialize"}
Parts == {"elsewhere", "source", "relay", "detour", "trampoline", "released"}
Ips == {p \in [part : Parts, hook : Targets \cup {0}, step : 0 .. Last + 1] :
          p.part # "elsewhere" => p.hook \in Targets}

At(part, h, i) == [part |-> part, hook |-> h, step |-> i]
Elsewhere == At("elsewhere", 0, 0)

TypeOK ==
  /\ initialized \in BOOLEAN
  /\ hooks \subseteq Targets /\ enabled \subseteq hooks /\ queued \subseteq hooks
  /\ code \in [Targets -> {"original", "jump"}]
  /\ op \in Ops /\ pc \in {"idle", "freeze", "patch", "unfreeze", "free"}
  /\ todo \subseteq hooks /\ dropping \subseteq hooks /\ failed \in BOOLEAN
  /\ unfrozen \subseteq listed /\ listed \subseteq Threads
  /\ life \in [Threads -> {"absent", "alive", "ended"}]
  /\ suspends \in [Threads -> Nat] /\ holds \in [Threads -> {0, 1}]
  /\ ip \in [Threads -> Ips]
  /\ jumped \subseteq Threads /\ stray \subseteq Threads
  /\ gaveUp \in BOOLEAN

Init ==
  /\ initialized = FALSE /\ hooks = {} /\ enabled = {} /\ queued = {}
  /\ code = [h \in Targets |-> "original"]
  /\ op = "none" /\ pc = "idle" /\ todo = {} /\ dropping = {} /\ failed = FALSE
  /\ listed = {} /\ unfrozen = {}
  /\ life \in [Threads -> {"absent", "alive"}]
  /\ ip \in [Threads -> {Elsewhere} \cup {At("source", h, i) : h \in Targets, i \in 2 .. Last}]
  /\ holds \in [Threads -> {0, 1}] /\ suspends = holds
  /\ \A t \in Threads : life[t] = "absent" => holds[t] = 0 /\ ip[t] = Elsewhere
  /\ jumped = {} /\ stray = {} /\ gaveUp = FALSE

Alive == {t \in Threads : life[t] = "alive"}

\* A thread that may take a step.
Running(t) == life[t] = "alive" /\ suspends[t] = 0

-----------------------------------------------------------------------------
(* Calls of the API.  One that returns an error before it changes anything *)
(* leaves the state alone and is not listed.                               *)

Idle == pc = "idle"

Initialize ==
  /\ Idle /\ ~initialized
  /\ initialized' = TRUE
  /\ UNCHANGED <<hooks, enabled, queued, code, callVars, threadVars, history>>

\* Trampoline, relay and backup are made and the entry inserted, disabled.
CreateHook(h) ==
  /\ Idle /\ initialized /\ h \notin hooks
  /\ hooks' = hooks \cup {h}
  /\ UNCHANGED <<initialized, enabled, queued, code, callVars, threadVars, history>>

\* QueueEnableHook, for one hook or MH_ALL_HOOKS.
QueueEnableHook(H) ==
  /\ Idle /\ initialized /\ H \subseteq hooks
  /\ queued' = queued \cup H
  /\ UNCHANGED <<initialized, hooks, enabled, code, callVars, threadVars, history>>

QueueDisableHook(H) ==
  /\ Idle /\ initialized /\ H \subseteq hooks
  /\ queued' = queued \ H
  /\ UNCHANGED <<initialized, hooks, enabled, code, callVars, threadVars, history>>

\* The ScopedThreadExclusive constructor takes the list of the threads that
\* exist now, or an empty one if there is no snapshot to be had; the hooks H are
\* to change, those of D to go.
Begin(name, H, D) ==
  /\ Idle /\ initialized
  /\ op' = name /\ todo' = H /\ dropping' = D /\ failed' = FALSE
  /\ IF H = {} THEN pc' = "free" /\ listed' = {} /\ unfrozen' = {}
               ELSE pc' = "freeze" /\ listed' \in {Alive, {}} /\ unfrozen' = listed'
  /\ UNCHANGED <<tableVars, code, threadVars, history>>

EnableHook(h) == h \in hooks \ enabled /\ Begin("change", {h}, {})
EnableAllHooks == hooks # enabled /\ Begin("change", hooks \ enabled, {})
DisableHook(h) == h \in enabled /\ Begin("change", {h}, {})
DisableAllHooks == enabled # {} /\ Begin("change", enabled, {})

\* A hook that is disabled already is erased without stopping anybody.
RemoveHook(h) == h \in hooks /\ Begin("remove", {h} \cap enabled, {h})

ApplyQueued ==
  LET H == (queued \ enabled) \cup (enabled \ queued)
  IN H # {} /\ Begin("change", H, {})

Uninitialize == Begin("uninitialize", enabled, hooks)

-----------------------------------------------------------------------------
(* Stopping the threads, changing the code, letting them go                *)

\* Mutant of Moved: DisableHook hands over the two lists the wrong way round.
MovedOneWay(p) ==
  IF p.part = "source" /\ p.hook \in todo THEN At("trampoline", p.hook, p.step) ELSE p

\* Mutant of Moved: nothing is done for the hooks about to be enabled.
MovedBack(p) ==
  IF p.part = "trampoline" /\ p.hook \in todo \cap enabled
  THEN At("source", p.hook, p.step) ELSE p

\* oldIPs and newIPs: of a hook about to be enabled the instructions of the
\* target map to those of the trampoline, of one about to be disabled back.
Moved(p) ==
  IF p.part = "source" /\ p.hook \in todo \ enabled THEN At("trampoline", p.hook, p.step)
  ELSE IF p.part = "trampoline" /\ p.hook \in todo \cap enabled
       THEN At("source", p.hook, p.step) ELSE p

\* Mutant of FreezeThread: a thread that is suspended already is left alone.
FreezeRunning(t) ==
  /\ pc = "freeze" /\ t \in unfrozen /\ life[t] = "alive"
  /\ unfrozen' = unfrozen \ {t}
  /\ suspends' = [suspends EXCEPT ![t] = 1]
  /\ ip' = [ip EXCEPT ![t] = Moved(@)]
  /\ UNCHANGED <<tableVars, code, op, pc, todo, dropping, failed, listed, life,
                 holds, history>>

\* Freeze, one thread: SuspendThread, GetThreadContext, SetThreadContext.
FreezeThread(t) ==
  /\ pc = "freeze" /\ t \in unfrozen /\ life[t] = "alive"
  /\ unfrozen' = unfrozen \ {t}
  /\ suspends' = [suspends EXCEPT ![t] = @ + 1]
  /\ ip' = [ip EXCEPT ![t] = Moved(@)]
  /\ UNCHANGED <<tableVars, code, op, pc, todo, dropping, failed, listed, life,
                 holds, history>>

\* Mutant of FreezeGivesUp: an ended thread is waited for.
FreezeInsists(t) ==
  /\ pc = "freeze" /\ t \in unfrozen /\ life[t] = "absent"
  /\ pc' = "patch" /\ gaveUp' = TRUE
  /\ UNCHANGED <<tableVars, code, op, todo, dropping, failed, listed, unfrozen,
                 threadVars, jumped, stray>>

\* The context of a thread that has ended cannot be read: Freeze returns, and
\* nobody is told.
FreezeGivesUp(t) ==
  /\ pc = "freeze" /\ t \in unfrozen /\ life[t] = "ended"
  /\ pc' = "patch" /\ gaveUp' = TRUE
  /\ UNCHANGED <<tableVars, code, op, todo, dropping, failed, listed, unfrozen,
                 threadVars, jumped, stray>>

FreezeDone ==
  /\ pc = "freeze" /\ unfrozen = {}
  /\ pc' = "patch"
  /\ UNCHANGED <<tableVars, code, op, todo, dropping, failed, listed, unfrozen,
                 threadVars, history>>

Lowest(h) == h \in todo /\ \A g \in todo : h <= g

\* EnableHookLL and DisableHookLL, in the order of the vector.
Patch(h) ==
  /\ pc = "patch" /\ ~failed /\ Lowest(h)
  /\ todo' = todo \ {h}
  /\ IF h \in enabled
     THEN /\ code' = [code EXCEPT ![h] = "original"]
          /\ enabled' = enabled \ {h} /\ queued' = queued \ {h}
     ELSE /\ code' = [code EXCEPT ![h] = "jump"]
          /\ enabled' = enabled \cup {h} /\ queued' = queued \cup {h}
  /\ stray' = stray \cup (Alive \ listed)
  /\ UNCHANGED <<initialized, hooks, op, pc, dropping, failed, listed, unfrozen,
                 threadVars, jumped, gaveUp>>

\* VirtualProtect fails: the call returns, the hooks still to change with it.
PatchFails ==
  /\ pc = "patch" /\ ~failed /\ todo # {}
  /\ failed' = TRUE
  /\ stray' = stray \cup {t \in Alive : ip[t].hook \in todo}
  /\ UNCHANGED <<tableVars, code, op, pc, todo, dropping, listed, unfrozen,
                 threadVars, jumped, gaveUp>>

\* The destructor: Unfreeze resumes every thread of the list, reached or not.
Unfreeze ==
  /\ pc = "patch" /\ (failed \/ todo = {})
  /\ pc' = "unfreeze"
  /\ UNCHANGED <<tableVars, code, op, todo, dropping, failed, listed, unfrozen,
                 threadVars, history>>

\* Mutant of UnfreezeThread: a thread is resumed until it runs.
UnfreezeFully(t) ==
  /\ pc = "unfreeze" /\ t \in listed
  /\ listed' = listed \ {t} /\ unfrozen' = unfrozen \ {t}
  /\ suspends' = [suspends EXCEPT ![t] = 0]
  /\ UNCHANGED <<tableVars, code, op, pc, todo, dropping, failed, life, holds, ip,
                 history>>

UnfreezeThread(t) ==
  /\ pc = "unfreeze" /\ t \in listed
  /\ listed' = listed \ {t} /\ unfrozen' = unfrozen \ {t}
  /\ suspends' = [suspends EXCEPT ![t] = IF @ = 0 THEN 0 ELSE @ - 1]
  /\ UNCHANGED <<tableVars, code, op, pc, todo, dropping, failed, life, holds, ip,
                 history>>

\* Mutant of UnfreezeDone: RemoveHook and Uninitialize ignore the status.
UnfreezeAndFree ==
  /\ pc = "unfreeze" /\ listed = {}
  /\ IF op \in {"remove", "uninitialize"}
     THEN pc' = "free" /\ UNCHANGED <<op, dropping>>
     ELSE pc' = "idle" /\ op' = "none" /\ dropping' = {}
  /\ todo' = {} /\ failed' = FALSE
  /\ UNCHANGED <<tableVars, code, listed, unfrozen, threadVars, history>>

\* The status is returned, or the erasing of hooks follows.
UnfreezeDone ==
  /\ pc = "unfreeze" /\ listed = {}
  /\ IF ~failed /\ op \in {"remove", "uninitialize"}
     THEN pc' = "free" /\ UNCHANGED <<op, dropping>>
     ELSE pc' = "idle" /\ op' = "none" /\ dropping' = {}
  /\ todo' = {} /\ failed' = FALSE
  /\ UNCHANGED <<tableVars, code, listed, unfrozen, threadVars, history>>

\* FreeBuffer and erase, or UninitializeBuffer and the swap: what stood in the
\* trampoline or the relay stands in released memory now.
Free ==
  /\ pc = "free"
  /\ hooks' = hooks \ dropping
  /\ enabled' = enabled \ dropping /\ queued' = queued \ dropping
  /\ initialized' = (op # "uninitialize")
  /\ ip' = [t \in Threads |->
             IF ip[t].part \in {"trampoline", "relay"} /\ ip[t].hook \in dropping
             THEN At("released", ip[t].hook, 0) ELSE ip[t]]
  /\ pc' = "idle" /\ op' = "none" /\ dropping' = {}
  /\ UNCHANGED <<code, todo, failed, listed, unfrozen, life, suspends, holds, history>>

CallStep ==
  \/ \E t \in Threads : FreezeThread(t) \/ FreezeGivesUp(t) \/ UnfreezeThread(t)
  \/ \E h \in Targets : Patch(h)
  \/ FreezeDone \/ PatchFails \/ Unfreeze \/ UnfreezeDone \/ Free

-----------------------------------------------------------------------------
(* The other threads                                                       *)

Go(t, p) ==
  /\ ip' = [ip EXCEPT ![t] = p]
  /\ jumped' = IF p = Elsewhere THEN jumped \ {t}
               ELSE IF p.part = "relay" THEN jumped \cup {t} ELSE jumped
  /\ stray' = IF p = Elsewhere THEN stray \ {t} ELSE stray
  /\ UNCHANGED <<tableVars, code, callVars, life, suspends, holds, gaveUp>>

CallTarget(t, h) ==
  /\ Running(t) /\ ip[t] = Elsewhere
  /\ Go(t, At("source", h, 1))

\* One instruction of the target; the first is the jump when there is one.
ExecuteSource(t) ==
  /\ Running(t) /\ ip[t].part = "source"
  /\ LET h == ip[t].hook  i == ip[t].step IN
     \/ i = 1 /\ code[h] = "jump" /\ Go(t, At("relay", h, 0))
     \/ i <= Last /\ code[h] = "original" /\ Go(t, At("source", h, i + 1))
     \/ i = Last + 1 /\ Go(t, Elsewhere)

ExecuteRelay(t) ==
  /\ Running(t) /\ ip[t].part = "relay"
  /\ Go(t, At("detour", ip[t].hook, 0))

\* The detour calls the trampoline through the pointer CreateHook gave it ...
CallOriginal(t) ==
  /\ Running(t) /\ ip[t].part = "detour"
  /\ LET h == ip[t].hook
     IN Go(t, IF h \in hooks THEN At("trampoline", h, 1) ELSE At("released", h, 0))

\* ... or returns without.
ReturnFromDetour(t) ==
  /\ Running(t) /\ ip[t].part = "detour"
  /\ Go(t, Elsewhere)

ExecuteTrampoline(t) ==
  /\ Running(t) /\ ip[t].part = "trampoline"
  /\ LET h == ip[t].hook  i == ip[t].step IN
     \/ i <= Last /\ Go(t, At("trampoline", h, i + 1))
     \/ i = Last + 1 /\ Go(t, At("source", h, Last + 1))

StartThread(t) ==
  /\ life[t] = "absent"
  /\ life' = [life EXCEPT ![t] = "alive"]
  /\ UNCHANGED <<tableVars, code, callVars, suspends, holds, ip, history>>

EndThread(t) ==
  /\ Running(t) /\ ip[t] = Elsewhere
  /\ life' = [life EXCEPT ![t] = "ended"]
  /\ UNCHANGED <<tableVars, code, callVars, suspends, holds, ip, history>>

\* Another process suspends the thread, which may be half-way through a hook ...
Hold(t) ==
  /\ life[t] = "alive" /\ holds[t] = 0 /\ ip[t].part \in HeldIn
  /\ holds' = [holds EXCEPT ![t] = 1]
  /\ suspends' = [suspends EXCEPT ![t] = @ + 1]
  /\ UNCHANGED <<tableVars, code, callVars, life, ip, history>>

\* ... and resumes it: DllInjector does both.
LetGo(t) ==
  /\ life[t] = "alive" /\ holds[t] = 1
  /\ holds' = [holds EXCEPT ![t] = 0]
  /\ suspends' = [suspends EXCEPT ![t] = IF @ = 0 THEN 0 ELSE @ - 1]
  /\ UNCHANGED <<tableVars, code, callVars, life, ip, history>>

ThreadStep ==
  \E t \in Threads :
    \/ \E h \in Targets : CallTarget(t, h)
    \/ ExecuteSource(t) \/ ExecuteRelay(t) \/ CallOriginal(t) \/ ReturnFromDetour(t)
    \/ ExecuteTrampoline(t)
    \/ StartThread(t) \/ EndThread(t) \/ Hold(t) \/ LetGo(t)

Call ==
  \/ \E h \in Targets : CreateHook(h) \/ EnableHook(h) \/ DisableHook(h) \/ RemoveHook(h)
  \/ \E h \in hooks : QueueEnableHook({h}) \/ QueueDisableHook({h})
  \/ QueueEnableHook(hooks) \/ QueueDisableHook(hooks)
  \/ Initialize \/ EnableAllHooks \/ DisableAllHooks \/ ApplyQueued \/ Uninitialize

Next == Call \/ CallStep \/ ThreadStep

Spec == Init /\ [][Next]_vars

-----------------------------------------------------------------------------
(* Properties                                                              *)

\* RemoveHook and Uninitialize erase an entry and release its trampoline and
\* relay only once the target's bytes are restored, whatever fails on the way:
\* a jump always leads to a hook that is there, and its flag says so.
JumpsAreBacked ==
  \A h \in Targets : code[h] = "jump" => h \in hooks /\ h \in enabled

\* While code is being changed no thread of the list can run, whoever else
\* suspends and resumes threads of the process meanwhile, as long as Freeze has
\* never given up (the count of a thread it did not reach is off from then on).
StoppedWhilePatched ==
  pc = "patch" /\ ~gaveUp => \A t \in listed : ~Running(t)

\* A thread never goes on inside a jump, behind its first byte: each change of
\* code finds the threads moved out of the bytes it writes.  Excepted are
\* threads a change did not stop, because they are younger than its list, those
\* moved for a change that then failed, and a process in which Freeze has given up.
NoTornInstruction ==
  ~gaveUp => \A t \in Threads :
    Running(t) /\ ip[t].part = "source" /\ ip[t].step \in 2 .. Last
      /\ code[ip[t].hook] = "jump"
    => t \in stray

\* With no call under way the counts are those of the holders: no thread stays
\* suspended behind a call, and unless Freeze gave up none has been resumed
\* behind its holder's back.
SuspendsBalanced ==
  Idle => \A t \in Threads :
            /\ suspends[t] <= holds[t]
            /\ ~gaveUp => suspends[t] = holds[t]

\* Memory of an erased hook is entered only by a thread that came through its
\* jump: one that was moved into a trampoline is moved out before it goes, with
\* the same exceptions.
ReleasedOnlyBehindJump ==
  ~gaveUp => \A t \in Threads :
    ip[t].part = "released" => t \in jumped \cup stray

\* No call gets stuck half way, with gCS held and threads stopped: whatever the
\* others do, one of its steps can be taken (and each brings it nearer its end).
CallNeverStuck == ~Idle => ENABLED CallStep
=============================================================================
