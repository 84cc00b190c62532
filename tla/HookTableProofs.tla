--------------------------- MODULE HookTableProofs ---------------------------
(***************************************************************************)
(* Theorems about HookTable, for every set of targets and of threads and   *)
(* every length of the overwritten code.                                   *)
(***************************************************************************)
EXTENDS HookTable, FiniteSetTheorems, WellFoundedInduction, TLAPS

\* Threads that Freeze has suspended and Unfreeze has not resumed yet.
Frozen == listed \ unfrozen

\* Freeze and the changing of code are under way, and nothing has failed.
Changing == pc \in {"freeze", "patch"} /\ ~failed

\* A jump stands where isEnabled says so, and nowhere else.
FlagsMatchCode == \A h \in Targets : code[h] = "jump" <=> h \in enabled

\* What is to be erased is disabled or still to be disabled; a call that erases
\* enables nothing.
ErasedWhenDisabled ==
  /\ dropping \cap enabled \subseteq todo
  /\ todo \cap dropping \subseteq enabled
  /\ pc \in {"idle", "free"} => todo = {}

\* What each phase of a call leaves behind.
Phases ==
  /\ pc \in {"idle", "free"} => listed = {} /\ todo = {} /\ dropping \cap enabled = {}
  /\ pc = "idle" => dropping = {}
  /\ pc = "freeze" => ~failed
  /\ pc = "unfreeze" => failed \/ todo = {}
  /\ pc \in {"patch", "unfreeze"} /\ ~gaveUp => unfrozen = {}

\* A thread that does not exist is nowhere and has no count.
Nowhere ==
  \A t \in Threads : life[t] # "alive" =>
    ip[t] = Elsewhere /\ (~gaveUp => t \notin Frozen /\ suspends[t] = 0)

\* The suspend count is what the holder and Freeze have added to it.
Counts ==
  \A t \in Threads :
    LET n == holds[t] + (IF t \in Frozen THEN 1 ELSE 0)
    IN suspends[t] <= n /\ (~gaveUp => suspends[t] = n)

\* Not where a change under way moves instruction pointers from.
Clear(p) ==
  /\ p.part = "source" => p.hook \notin todo \ enabled
  /\ p.part = "trampoline" => p.hook \notin todo \cap enabled

\* A frozen thread does not stand where a change under way will write.
Settled ==
  Changing /\ ~gaveUp => \A t \in Frozen : Clear(ip[t])

Behind(t) == ip[t].part = "source" /\ ip[t].step \in 2 .. Last

\* A thread behind the first byte of a jump is frozen, and the jump about to go.
TornOnlyFrozen ==
  ~gaveUp => \A t \in Threads \ stray :
    Behind(t) /\ code[ip[t].hook] = "jump"
    => Changing /\ t \in Frozen /\ ip[t].hook \in todo

\* A thread that took no jump is in no relay, detour or released memory; if it is
\* in a trampoline, the hook is enabled or about to be.
InTrampolineBehindMove ==
  ~gaveUp => \A t \in Threads \ (stray \cup jumped) :
    /\ ip[t].part \notin {"relay", "detour", "released"}
    /\ ip[t].part = "trampoline" =>
         \/ ip[t].hook \in enabled
         \/ Changing /\ t \in Frozen /\ ip[t].hook \in todo

Inv ==
  /\ TypeOK /\ FlagsMatchCode /\ ErasedWhenDisabled /\ Phases
  /\ Nowhere /\ Counts /\ Settled /\ TornOnlyFrozen /\ InTrampolineBehindMove

-----------------------------------------------------------------------------
(* The kinds of steps                                                      *)

\* A call that changes the table only.
TableStep ==
  \/ Initialize
  \/ \E h \in Targets : CreateHook(h)
  \/ \E H \in SUBSET hooks : QueueEnableHook(H) \/ QueueDisableHook(H)

\* A call that changes code or erases hooks.
BeginStep ==
  \E name \in Ops, H \in SUBSET hooks, D \in SUBSET hooks :
    D \cap enabled \subseteq H /\ H \cap D \subseteq enabled /\ Begin(name, H, D)

\* Where the instruction pointer of a thread may go from where it is.
Legal(t, p) ==
  /\ p \in Ips
  /\ p.part = "source" /\ p.step \in 2 .. Last => code[p.hook] = "original"
  /\ p.part \in {"detour", "released"} => ip[t].part \in {"relay", "detour"}
  /\ p.part = "trampoline" =>
       \/ ip[t].part = "detour"
       \/ ip[t].part = "trampoline" /\ ip[t].hook = p.hook

MoveStep == \E t \in Threads, p \in Ips : Running(t) /\ Legal(t, p) /\ Go(t, p)

LifeStep(t) == StartThread(t) \/ EndThread(t) \/ Hold(t) \/ LetGo(t)

FreezeStep(t) == FreezeThread(t) \/ FreezeGivesUp(t)

LEMMA ElsewhereType == Elsewhere \in Ips
BY LastAssumption DEF Elsewhere, At, Ips, Parts

LEMMA AtType ==
  ASSUME NEW part \in Parts, NEW h \in Targets \cup {0}, NEW i \in 0 .. Last + 1,
         part # "elsewhere" => h \in Targets
  PROVE  /\ At(part, h, i) \in Ips
         /\ At(part, h, i).part = part /\ At(part, h, i).hook = h
         /\ At(part, h, i).step = i
BY DEF At, Ips

LEMMA ApiCalls == ASSUME TypeOK, Call PROVE TableStep \/ BeginStep
<1>1. ASSUME NEW h \in Targets, CreateHook(h) \/ EnableHook(h) \/ DisableHook(h) \/ RemoveHook(h)
      PROVE  TableStep \/ BeginStep
  <2>1. CASE CreateHook(h)
    BY <2>1 DEF TableStep
  <2>2. CASE EnableHook(h)
    <3>1. {h} \in SUBSET hooks /\ {} \in SUBSET hooks /\ "change" \in Ops
      BY <2>2 DEF EnableHook, Ops
    <3>2. QED
      BY <2>2, <3>1 DEF EnableHook, BeginStep
  <2>3. CASE DisableHook(h)
    <3>1. {h} \in SUBSET hooks /\ {} \in SUBSET hooks /\ "change" \in Ops
      BY <2>3 DEF DisableHook, Ops, TypeOK
    <3>2. QED
      BY <2>3, <3>1 DEF DisableHook, BeginStep
  <2>4. CASE RemoveHook(h)
    <3>1. {h} \cap enabled \in SUBSET hooks /\ {h} \in SUBSET hooks /\ "remove" \in Ops
      BY <2>4 DEF RemoveHook, Ops
    <3>2. QED
      BY <2>4, <3>1 DEF RemoveHook, BeginStep
  <2>5. QED
    BY <1>1, <2>1, <2>2, <2>3, <2>4
<1>2. ASSUME EnableAllHooks
      PROVE  BeginStep
  <2>1. hooks \ enabled \in SUBSET hooks /\ {} \in SUBSET hooks /\ "change" \in Ops
    BY DEF Ops
  <2>2. QED
    BY <1>2, <2>1 DEF EnableAllHooks, BeginStep
<1>3. ASSUME DisableAllHooks
      PROVE  BeginStep
  <2>1. enabled \in SUBSET hooks /\ {} \in SUBSET hooks /\ "change" \in Ops
    BY DEF Ops, TypeOK
  <2>2. QED
    BY <1>3, <2>1 DEF DisableAllHooks, BeginStep
<1>4. ASSUME ApplyQueued
      PROVE  BeginStep
  <2> DEFINE H == (queued \ enabled) \cup (enabled \ queued)
  <2>1. H \in SUBSET hooks /\ {} \in SUBSET hooks /\ "change" \in Ops
    BY DEF Ops, TypeOK
  <2>2. Begin("change", H, {})
    BY <1>4 DEF ApplyQueued
  <2> HIDE DEF H
  <2>3. QED
    BY <2>1, <2>2 DEF BeginStep
<1>5. ASSUME Uninitialize
      PROVE  BeginStep
  <2>1. enabled \in SUBSET hooks /\ hooks \in SUBSET hooks /\ "uninitialize" \in Ops
    BY DEF Ops, TypeOK
  <2>2. QED
    BY <1>5, <2>1 DEF Uninitialize, BeginStep
<1>6. ASSUME NEW h \in hooks, QueueEnableHook({h}) \/ QueueDisableHook({h})
      PROVE  TableStep
  <2>1. {h} \in SUBSET hooks
    OBVIOUS
  <2>2. QED
    BY <1>6, <2>1 DEF TableStep
<1>7. ASSUME QueueEnableHook(hooks) \/ QueueDisableHook(hooks)
      PROVE  TableStep
  BY <1>7 DEF TableStep
<1>8. QED
  BY <1>1, <1>2, <1>3, <1>4, <1>5, <1>6, <1>7 DEF Call, TableStep

LEMMA Moves ==
  ASSUME TypeOK, NEW t \in Threads,
         \/ \E h \in Targets : CallTarget(t, h)
         \/ ExecuteSource(t) \/ ExecuteRelay(t) \/ CallOriginal(t) \/ ReturnFromDetour(t)
         \/ ExecuteTrampoline(t)
  PROVE  MoveStep
<1>0. /\ ip[t] \in Ips /\ ip[t].part \in Parts /\ ip[t].hook \in Targets \cup {0}
      /\ ip[t].step \in 0 .. Last + 1
      /\ ip[t].part # "elsewhere" => ip[t].hook \in Targets
  BY DEF TypeOK, Ips
<1>1. ASSUME NEW p, Running(t), Legal(t, p), Go(t, p)
      PROVE  MoveStep
  BY <1>1 DEF MoveStep, Legal
<1>2. Legal(t, Elsewhere)
  BY ElsewhereType, LastAssumption DEF Legal, Elsewhere, At
<1>3. CASE \E h \in Targets : CallTarget(t, h)
  <2>1. PICK h \in Targets : CallTarget(t, h)
    BY <1>3
  <2>2. Legal(t, At("source", h, 1))
    BY AtType, LastAssumption DEF Legal, Parts
  <2>3. QED
    BY <1>1, <2>1, <2>2 DEF CallTarget
<1>4. CASE ExecuteSource(t)
  <2> DEFINE h == ip[t].hook  i == ip[t].step
  <2>1. Legal(t, At("relay", h, 0))
    BY <1>0, <1>4, AtType, LastAssumption DEF Legal, Parts, ExecuteSource
  <2>2. ASSUME i <= Last, code[h] = "original"
        PROVE  Legal(t, At("source", h, i + 1))
    <3>1. i + 1 \in 0 .. Last + 1 /\ "source" \in Parts
      BY <1>0, <2>2, LastAssumption DEF Parts
    <3> DEFINE p == At("source", h, i + 1)
    <3>2. p \in Ips /\ p.part = "source" /\ p.hook = h
      BY <1>0, <1>4, <3>1, AtType DEF ExecuteSource
    <3> HIDE DEF p
    <3>3. Legal(t, p)
      BY <2>2, <3>2 DEF Legal
    <3>4. QED
      BY <3>3 DEF p
  <2>3. QED
    BY <1>1, <1>2, <1>4, <2>1, <2>2 DEF ExecuteSource
<1>5. CASE ExecuteRelay(t)
  <2>1. Legal(t, At("detour", ip[t].hook, 0))
    BY <1>0, <1>5, AtType, LastAssumption DEF Legal, Parts, ExecuteRelay
  <2>2. QED
    BY <1>1, <1>5, <2>1 DEF ExecuteRelay
<1>6. CASE CallOriginal(t)
  <2> DEFINE h == ip[t].hook
  <2>1. Legal(t, At("trampoline", h, 1)) /\ Legal(t, At("released", h, 0))
    BY <1>0, <1>6, AtType, LastAssumption DEF Legal, Parts, CallOriginal
  <2>2. QED
    BY <1>1, <1>6, <2>1 DEF CallOriginal
<1>7. CASE ReturnFromDetour(t)
  BY <1>1, <1>2, <1>7 DEF ReturnFromDetour
<1>8. CASE ExecuteTrampoline(t)
  <2> DEFINE h == ip[t].hook  i == ip[t].step
  <2>1. ASSUME i <= Last
        PROVE  Legal(t, At("trampoline", h, i + 1))
    BY <1>0, <1>8, <2>1, AtType, LastAssumption DEF Legal, Parts, ExecuteTrampoline
  <2>2. Legal(t, At("source", h, Last + 1))
    BY <1>0, <1>8, AtType, LastAssumption DEF Legal, Parts, ExecuteTrampoline
  <2>3. QED
    BY <1>1, <1>8, <2>1, <2>2 DEF ExecuteTrampoline
<1>9. QED
  BY <1>3, <1>4, <1>5, <1>6, <1>7, <1>8

LEMMA Cases ==
  ASSUME TypeOK, Next
  PROVE  \/ TableStep \/ BeginStep
         \/ \E t \in Threads : FreezeStep(t) \/ UnfreezeThread(t) \/ LifeStep(t)
         \/ \E h \in Targets : Patch(h)
         \/ FreezeDone \/ PatchFails \/ Unfreeze \/ UnfreezeDone \/ Free \/ MoveStep
<1>1. CASE Call
  BY <1>1, ApiCalls
<1>2. CASE CallStep
  BY <1>2 DEF CallStep, FreezeStep
<1>3. CASE ThreadStep
  BY <1>3, Moves DEF ThreadStep, LifeStep
<1>4. QED
  BY <1>1, <1>2, <1>3 DEF Next

-----------------------------------------------------------------------------
(* The invariant is inductive, one part after the other                    *)

LEMMA MovedType ==
  ASSUME TypeOK, NEW p \in Ips
  PROVE  /\ Moved(p) \in Ips
         /\ Moved(p).hook = p.hook /\ Moved(p).step = p.step
         /\ Clear(Moved(p))
BY DEF Moved, Clear, At, Ips, Parts, TypeOK

LEMMA TypeStep == ASSUME TypeOK, Phases, Next PROVE TypeOK'
<1> USE DEF TypeOK, tableVars, callVars, threadVars, history
<1>1. CASE TableStep
  BY <1>1 DEF TableStep, Initialize, CreateHook, QueueEnableHook, QueueDisableHook
<1>2. CASE BeginStep
  BY <1>2 DEF BeginStep, Begin, Alive
<1>3. ASSUME NEW t \in Threads, FreezeStep(t)
      PROVE  TypeOK'
  <2>1. CASE FreezeThread(t)
    <3>1. Moved(ip[t]) \in Ips
      BY MovedType
    <3>2. QED
      BY <2>1, <3>1 DEF FreezeThread
  <2>2. CASE FreezeGivesUp(t)
    BY <2>2 DEF FreezeGivesUp
  <2>3. QED
    BY <1>3, <2>1, <2>2 DEF FreezeStep
<1>4. ASSUME NEW t \in Threads, UnfreezeThread(t)
      PROVE  TypeOK'
  BY <1>4 DEF UnfreezeThread
<1>5. ASSUME NEW t \in Threads, LifeStep(t)
      PROVE  TypeOK'
  BY <1>5 DEF LifeStep, StartThread, EndThread, Hold, LetGo
<1>6. ASSUME NEW h \in Targets, Patch(h)
      PROVE  TypeOK'
  BY <1>6 DEF Patch, Alive, Lowest
<1>7. CASE FreezeDone \/ PatchFails \/ Unfreeze \/ UnfreezeDone
  BY <1>7 DEF FreezeDone, PatchFails, Unfreeze, UnfreezeDone, Alive, Ops
<1>8. CASE Free
  <2>1. ASSUME NEW t \in Threads
        PROVE  ip[t].part # "elsewhere" => At("released", ip[t].hook, 0) \in Ips
    <3>1. /\ "released" \in Parts /\ ip[t].hook \in Targets \cup {0} /\ 0 \in 0 .. Last + 1
          /\ ip[t].part # "elsewhere" => ip[t].hook \in Targets
      BY LastAssumption DEF Ips, Parts
    <3>2. QED
      BY <3>1, AtType
  <2>2. ip' \in [Threads -> Ips]
    BY <1>8, <2>1 DEF Free
  <2>3. QED
    BY <1>8, <2>2 DEF Free, Ops, Phases
<1>9. CASE MoveStep
  BY <1>9 DEF MoveStep, Go
<1>10. QED
  BY <1>1, <1>2, <1>3, <1>4, <1>5, <1>6, <1>7, <1>8, <1>9, Cases

\* erased entries, phases and flags
LEMMA TableInvStep ==
  ASSUME TypeOK, FlagsMatchCode, ErasedWhenDisabled, Phases, Next
  PROVE  FlagsMatchCode' /\ ErasedWhenDisabled' /\ Phases'
<1> USE DEF TypeOK, FlagsMatchCode, ErasedWhenDisabled, Phases, tableVars, callVars,
            threadVars, history, Idle
<1>1. CASE TableStep
  BY <1>1 DEF TableStep, Initialize, CreateHook, QueueEnableHook, QueueDisableHook
<1>2. CASE BeginStep
  BY <1>2 DEF BeginStep, Begin
<1>3. ASSUME NEW t \in Threads, FreezeStep(t)
      PROVE  FlagsMatchCode' /\ ErasedWhenDisabled' /\ Phases'
  BY <1>3 DEF FreezeStep, FreezeThread, FreezeGivesUp
<1>4. ASSUME NEW t \in Threads, UnfreezeThread(t)
      PROVE  FlagsMatchCode' /\ ErasedWhenDisabled' /\ Phases'
  BY <1>4 DEF UnfreezeThread
<1>5. ASSUME NEW t \in Threads, LifeStep(t)
      PROVE  FlagsMatchCode' /\ ErasedWhenDisabled' /\ Phases'
  BY <1>5 DEF LifeStep, StartThread, EndThread, Hold, LetGo
<1>6. ASSUME NEW h \in Targets, Patch(h)
      PROVE  FlagsMatchCode' /\ ErasedWhenDisabled' /\ Phases'
  BY <1>6 DEF Patch, Lowest
<1>7. CASE FreezeDone \/ PatchFails \/ Unfreeze \/ UnfreezeDone
  BY <1>7 DEF FreezeDone, PatchFails, Unfreeze, UnfreezeDone
<1>8. CASE Free
  BY <1>8 DEF Free
<1>9. CASE MoveStep
  BY <1>9 DEF MoveStep, Go
<1>10. QED
  BY <1>1, <1>2, <1>3, <1>4, <1>5, <1>6, <1>7, <1>8, <1>9, Cases

\* suspend counts, and threads that are not alive
LEMMA CountStep ==
  ASSUME TypeOK, Phases, Nowhere, Counts, Next
  PROVE  Counts'
<1> USE DEF TypeOK, Counts, Phases, tableVars, callVars, threadVars, history, Frozen
<1>1. CASE TableStep
  BY <1>1 DEF TableStep, Initialize, CreateHook, QueueEnableHook, QueueDisableHook
<1>2. CASE BeginStep
  BY <1>2 DEF BeginStep, Begin, Alive, Idle
<1>3. ASSUME NEW t \in Threads, FreezeStep(t)
      PROVE  Counts'
  BY <1>3 DEF FreezeStep, FreezeThread, FreezeGivesUp
<1>4. ASSUME NEW t \in Threads, UnfreezeThread(t)
      PROVE  Counts'
  BY <1>4 DEF UnfreezeThread
<1>5. ASSUME NEW t \in Threads, LifeStep(t)
      PROVE  Counts'
  BY <1>5 DEF LifeStep, StartThread, EndThread, Hold, LetGo
<1>6. ASSUME NEW h \in Targets, Patch(h)
      PROVE  Counts'
  BY <1>6 DEF Patch
<1>7. CASE FreezeDone \/ PatchFails \/ Unfreeze \/ UnfreezeDone
  BY <1>7 DEF FreezeDone, PatchFails, Unfreeze, UnfreezeDone
<1>8. CASE Free
  BY <1>8 DEF Free
<1>9. CASE MoveStep
  BY <1>9 DEF MoveStep, Go
<1>10. QED
  BY <1>1, <1>2, <1>3, <1>4, <1>5, <1>6, <1>7, <1>8, <1>9, Cases

LEMMA NowhereStep ==
  ASSUME TypeOK, Phases, Nowhere, Counts, Next
  PROVE  Nowhere'
<1> USE DEF TypeOK, Nowhere, Phases, tableVars, callVars, threadVars, history, Frozen
<1>1. CASE TableStep
  BY <1>1 DEF TableStep, Initialize, CreateHook, QueueEnableHook, QueueDisableHook
<1>2. CASE BeginStep
  BY <1>2 DEF BeginStep, Begin, Alive, Idle
<1>3. ASSUME NEW t \in Threads, FreezeStep(t)
      PROVE  Nowhere'
  BY <1>3 DEF FreezeStep, FreezeThread, FreezeGivesUp
<1>4. ASSUME NEW t \in Threads, UnfreezeThread(t)
      PROVE  Nowhere'
  BY <1>4 DEF UnfreezeThread
<1>5. ASSUME NEW t \in Threads, LifeStep(t)
      PROVE  Nowhere'
  BY <1>5 DEF LifeStep, StartThread, EndThread, Hold, LetGo, Running, Counts
<1>6. ASSUME NEW h \in Targets, Patch(h)
      PROVE  Nowhere'
  BY <1>6 DEF Patch
<1>7. CASE FreezeDone \/ PatchFails \/ Unfreeze \/ UnfreezeDone
  BY <1>7 DEF FreezeDone, PatchFails, Unfreeze, UnfreezeDone
<1>8. CASE Free
  BY <1>8 DEF Free, Elsewhere, At
<1>9. CASE MoveStep
  BY <1>9 DEF MoveStep, Go, Running
<1>10. QED
  BY <1>1, <1>2, <1>3, <1>4, <1>5, <1>6, <1>7, <1>8, <1>9, Cases

\* A frozen thread cannot run, and exists.
LEMMA FrozenStands ==
  ASSUME TypeOK, Counts, Nowhere, ~gaveUp, NEW t \in Frozen
  PROVE  ~Running(t) /\ life[t] = "alive"
BY DEF TypeOK, Counts, Nowhere, Running, Frozen

\* frozen threads stand clear of the change
LEMMA SettledStep ==
  ASSUME Inv, Next
  PROVE  Settled'
<1> USE DEF Inv, TypeOK, Settled, Changing, Frozen, tableVars, callVars, threadVars, history
<1>1. CASE TableStep
  BY <1>1 DEF TableStep, Initialize, CreateHook, QueueEnableHook, QueueDisableHook, Idle
<1>2. CASE BeginStep
  BY <1>2 DEF BeginStep, Begin
<1>3. ASSUME NEW t \in Threads, FreezeThread(t)
      PROVE  Settled'
  <2>1. Clear(Moved(ip[t]))
    BY MovedType
  <2>2. ip'[t] = Moved(ip[t]) /\ \A u \in Threads \ {t} : ip'[u] = ip[u]
    BY <1>3 DEF FreezeThread
  <2>3. \A u \in Frozen \cup {t} : ~gaveUp => Clear(ip'[u])
    BY <1>3, <2>1, <2>2 DEF FreezeThread, Phases
  <2>4. QED
    BY <1>3, <2>3 DEF FreezeThread, Clear
<1>4. ASSUME NEW t \in Threads, FreezeGivesUp(t)
      PROVE  Settled'
  BY <1>4 DEF FreezeGivesUp
<1>5. ASSUME NEW t \in Threads, UnfreezeThread(t)
      PROVE  Settled'
  BY <1>5 DEF UnfreezeThread
<1>6. ASSUME NEW t \in Threads, LifeStep(t)
      PROVE  Settled'
  BY <1>6 DEF LifeStep, StartThread, EndThread, Hold, LetGo, Clear
<1>7. ASSUME NEW h \in Targets, Patch(h)
      PROVE  Settled'
  BY <1>7 DEF Patch, Clear
<1>8. CASE FreezeDone \/ PatchFails \/ Unfreeze \/ UnfreezeDone
  BY <1>8 DEF FreezeDone, PatchFails, Unfreeze, UnfreezeDone, Clear
<1>9. CASE Free
  BY <1>9 DEF Free
<1>10. CASE MoveStep
  <2>1. PICK t \in Threads, p \in Ips : Running(t) /\ Go(t, p)
    BY <1>10 DEF MoveStep
  <2>2. ~gaveUp => t \notin Frozen
    BY <2>1, FrozenStands
  <2>3. QED
    BY <2>1, <2>2 DEF Go, Clear
<1>11. QED
  BY <1>1, <1>2, <1>3, <1>4, <1>5, <1>6, <1>7, <1>8, <1>9, <1>10, Cases DEF FreezeStep

\* nobody goes on inside a jump
LEMMA TornStep ==
  ASSUME Inv, Next
  PROVE  TornOnlyFrozen'
<1> USE DEF Inv, TypeOK, TornOnlyFrozen, Changing, Frozen, Behind, tableVars, callVars,
            threadVars, history
<1>1. CASE TableStep
  BY <1>1 DEF TableStep, Initialize, CreateHook, QueueEnableHook, QueueDisableHook, Idle
<1>2. CASE BeginStep
  BY <1>2 DEF BeginStep, Begin, Idle
<1>3. ASSUME NEW t \in Threads, FreezeThread(t)
      PROVE  TornOnlyFrozen'
  <2>1. ip'[t] = Moved(ip[t]) /\ \A u \in Threads \ {t} : ip'[u] = ip[u]
    BY <1>3 DEF FreezeThread
  <2>2. Phases
    OBVIOUS
  <2>3. QED
    BY <1>3, <2>1, <2>2 DEF FreezeThread, Moved, At, Phases
<1>4. ASSUME NEW t \in Threads, FreezeGivesUp(t)
      PROVE  TornOnlyFrozen'
  BY <1>4 DEF FreezeGivesUp
<1>5. ASSUME NEW t \in Threads, UnfreezeThread(t)
      PROVE  TornOnlyFrozen'
  BY <1>5 DEF UnfreezeThread
<1>6. ASSUME NEW t \in Threads, LifeStep(t)
      PROVE  TornOnlyFrozen'
  BY <1>6 DEF LifeStep, StartThread, EndThread, Hold, LetGo
<1>7. ASSUME NEW h \in Targets, Patch(h)
      PROVE  TornOnlyFrozen'
  <2>1. ASSUME ~gaveUp, NEW t \in Threads \ stray', Behind(t)', code'[ip'[t].hook] = "jump"
        PROVE  Changing' /\ t \in Frozen' /\ ip'[t].hook \in todo'
    <3>1. t \in Threads \ stray /\ t \notin Alive \ listed
      BY <1>7, <2>1 DEF Patch
    <3>2. t \in Alive
      BY <1>7, <2>1 DEF Nowhere, Alive, Elsewhere, At, Patch
    <3>3. t \in Frozen
      BY <1>7, <2>1, <3>1, <3>2 DEF Phases, Patch
    <3>4. ip[t].hook # h
      BY <1>7, <2>1, <3>3 DEF Patch, Settled, Clear, Lowest
    <3>5. ip'[t] = ip[t] /\ ip[t].hook \in Targets
      BY <1>7, <2>1 DEF Patch, Ips
    <3>6. code[ip[t].hook] = "jump"
      BY <1>7, <2>1, <3>4, <3>5 DEF Patch
    <3>7. ip[t].hook \in todo /\ Changing
      BY <2>1, <3>1, <3>5, <3>6
    <3>8. QED
      BY <1>7, <3>3, <3>4, <3>5, <3>7 DEF Patch
  <2>2. QED
    BY <1>7, <2>1 DEF Patch
<1>8. CASE FreezeDone \/ UnfreezeDone
  BY <1>8 DEF FreezeDone, UnfreezeDone
<1>9. CASE PatchFails
  <2>1. ASSUME ~gaveUp, NEW t \in Threads \ stray', Behind(t), code[ip[t].hook] = "jump"
        PROVE  FALSE
    <3>1. t \in Frozen /\ ip[t].hook \in todo
      BY <1>9, <2>1 DEF PatchFails
    <3>2. t \in Alive
      BY <2>1, <3>1, FrozenStands DEF Alive
    <3>3. QED
      BY <1>9, <2>1, <3>1, <3>2 DEF PatchFails
  <2>2. QED
    BY <1>9, <2>1 DEF PatchFails
<1>10. CASE Unfreeze
  BY <1>10 DEF Unfreeze
<1>11. CASE Free
  BY <1>11 DEF Free, At
<1>12. CASE MoveStep
  <2>1. PICK t \in Threads, p \in Ips : Running(t) /\ Legal(t, p) /\ Go(t, p)
    BY <1>12 DEF MoveStep
  <2>2. ~gaveUp => t \notin Frozen
    BY <2>1, FrozenStands
  <2>3. p = Elsewhere => p.part = "elsewhere"
    BY DEF Elsewhere, At
  <2>4. QED
    BY <2>1, <2>2, <2>3 DEF Go, Legal
<1>13. QED
  BY <1>1, <1>2, <1>3, <1>4, <1>5, <1>6, <1>7, <1>8, <1>9, <1>10, <1>11, <1>12, Cases
     DEF FreezeStep

\* nobody is in a trampoline whose hook may go, unless through its jump
LEMMA TrampolineStep ==
  ASSUME Inv, Next
  PROVE  InTrampolineBehindMove'
<1> USE DEF Inv, TypeOK, InTrampolineBehindMove, Changing, Frozen, tableVars, callVars,
            threadVars, history
<1>1. CASE TableStep
  BY <1>1 DEF TableStep, Initialize, CreateHook, QueueEnableHook, QueueDisableHook, Idle
<1>2. CASE BeginStep
  BY <1>2 DEF BeginStep, Begin, Idle
<1>3. ASSUME NEW t \in Threads, FreezeThread(t)
      PROVE  InTrampolineBehindMove'
  <2>1. ip'[t] = Moved(ip[t]) /\ \A u \in Threads \ {t} : ip'[u] = ip[u]
    BY <1>3 DEF FreezeThread
  <2>2. QED
    BY <1>3, <2>1 DEF FreezeThread, Moved, At, Phases
<1>4. ASSUME NEW t \in Threads, FreezeGivesUp(t)
      PROVE  InTrampolineBehindMove'
  BY <1>4 DEF FreezeGivesUp
<1>5. ASSUME NEW t \in Threads, UnfreezeThread(t)
      PROVE  InTrampolineBehindMove'
  BY <1>5 DEF UnfreezeThread
<1>6. ASSUME NEW t \in Threads, LifeStep(t)
      PROVE  InTrampolineBehindMove'
  BY <1>6 DEF LifeStep, StartThread, EndThread, Hold, LetGo
<1>7. ASSUME NEW h \in Targets, Patch(h)
      PROVE  InTrampolineBehindMove'
  <2>1. ASSUME ~gaveUp, NEW t \in Threads \ (stray' \cup jumped), ip[t].part = "trampoline"
        PROVE  \/ ip[t].hook \in enabled'
               \/ Changing' /\ t \in Frozen' /\ ip[t].hook \in todo'
    <3>1. t \in Threads \ (stray \cup jumped) /\ t \notin Alive \ listed
      BY <1>7, <2>1 DEF Patch
    <3>2. t \in Alive
      BY <2>1 DEF Nowhere, Alive, Elsewhere, At
    <3>3. t \in Frozen
      BY <1>7, <2>1, <3>1, <3>2 DEF Phases, Patch
    <3>4. ip[t].hook = h => h \notin enabled
      BY <1>7, <2>1, <3>3 DEF Patch, Settled, Clear, Lowest
    <3>5. QED
      BY <1>7, <2>1, <3>1, <3>3, <3>4 DEF Patch
  <2>2. QED
    BY <1>7, <2>1 DEF Patch
<1>8. CASE FreezeDone \/ UnfreezeDone
  BY <1>8 DEF FreezeDone, UnfreezeDone
<1>9. CASE PatchFails
  <2>1. ASSUME ~gaveUp, NEW t \in Threads \ (stray' \cup jumped), ip[t].part = "trampoline"
        PROVE  ip[t].hook \in enabled
    <3>1. CASE Changing /\ t \in Frozen /\ ip[t].hook \in todo
      <4>1. t \in Alive
        BY <2>1, <3>1, FrozenStands DEF Alive
      <4>2. QED
        BY <1>9, <2>1, <3>1, <4>1 DEF PatchFails
    <3>2. QED
      BY <1>9, <2>1, <3>1 DEF PatchFails
  <2>2. QED
    BY <1>9, <2>1 DEF PatchFails
<1>10. CASE Unfreeze
  BY <1>10 DEF Unfreeze
<1>11. CASE Free
  BY <1>11 DEF Free, At, Phases
<1>12. CASE MoveStep
  <2>1. PICK t \in Threads, p \in Ips : Running(t) /\ Legal(t, p) /\ Go(t, p)
    BY <1>12 DEF MoveStep
  <2>2. ~gaveUp => t \notin Frozen
    BY <2>1, FrozenStands
  <2>3. p = Elsewhere => p.part = "elsewhere"
    BY DEF Elsewhere, At
  <2>4. QED
    BY <2>1, <2>2, <2>3 DEF Go, Legal
<1>13. QED
  BY <1>1, <1>2, <1>3, <1>4, <1>5, <1>6, <1>7, <1>8, <1>9, <1>10, <1>11, <1>12, Cases
     DEF FreezeStep

-----------------------------------------------------------------------------
(* The theorems                                                            *)

LEMMA InitInv == ASSUME Init PROVE Inv
<1>1. \A t \in Threads : /\ ip[t] \in Ips
                         /\ ip[t].part \in {"elsewhere", "source"}
  <2>1. ASSUME NEW h \in Targets, NEW i \in 2 .. Last
        PROVE  At("source", h, i) \in Ips /\ At("source", h, i).part = "source"
    BY AtType, LastAssumption DEF Parts
  <2>2. Elsewhere \in Ips /\ Elsewhere.part = "elsewhere"
    BY ElsewhereType DEF Elsewhere, At
  <2>3. QED
    BY <2>1, <2>2 DEF Init
<1>2. ip \in [Threads -> Ips] /\ suspends \in [Threads -> Nat]
  BY <1>1 DEF Init
<1>3. /\ life \in [Threads -> {"absent", "alive", "ended"}]
      /\ code \in [Targets -> {"original", "jump"}]
  <2>1. life \in [Threads -> {"absent", "alive"}]
    BY DEF Init
  <2>2. code = [h \in Targets |-> "original"]
    BY DEF Init
  <2>3. QED
    BY <2>1, <2>2
<1>4. TypeOK
  <2>1. initialized \in BOOLEAN /\ failed \in BOOLEAN /\ gaveUp \in BOOLEAN
    BY Zenon DEF Init
  <2>2. op = "none" /\ pc = "idle" /\ holds \in [Threads -> {0, 1}]
    BY DEF Init
  <2>3. /\ hooks \subseteq Targets /\ enabled \subseteq hooks /\ queued \subseteq hooks
        /\ todo \subseteq hooks /\ dropping \subseteq hooks
        /\ unfrozen \subseteq listed /\ listed \subseteq Threads
        /\ jumped \subseteq Threads /\ stray \subseteq Threads
    BY DEF Init
  <2>4. QED
    BY <1>2, <1>3, <2>1, <2>2, <2>3 DEF TypeOK, Ops
<1>5. FlagsMatchCode /\ ErasedWhenDisabled /\ Phases
  BY DEF Init, FlagsMatchCode, ErasedWhenDisabled, Phases
<1>6. Nowhere /\ Counts
  BY DEF Init, Nowhere, Counts, Frozen
<1>7. Settled
  BY DEF Init, Settled, Changing
<1>8. TornOnlyFrozen
  BY <1>1 DEF Init, TornOnlyFrozen, Behind, Ips
<1>9. InTrampolineBehindMove
  BY <1>1 DEF InTrampolineBehindMove
<1>10. QED
  BY <1>4, <1>5, <1>6, <1>7, <1>8, <1>9 DEF Inv

LEMMA Inductive == ASSUME Inv, [Next]_vars PROVE Inv'
<1>1. CASE Next
  BY <1>1, TypeStep, TableInvStep, CountStep, NowhereStep, SettledStep, TornStep,
     TrampolineStep DEF Inv
<1>2. CASE UNCHANGED vars
  <2> USE <1>2 DEF vars, tableVars, callVars, threadVars, history
  <2>1. TypeOK' /\ FlagsMatchCode' /\ ErasedWhenDisabled' /\ Phases'
    BY DEF Inv, TypeOK, FlagsMatchCode, ErasedWhenDisabled, Phases
  <2>2. Nowhere' /\ Counts' /\ Settled'
    BY DEF Inv, Nowhere, Counts, Settled, Changing, Frozen, Clear
  <2>3. TornOnlyFrozen' /\ InTrampolineBehindMove'
    BY DEF Inv, TornOnlyFrozen, InTrampolineBehindMove, Changing, Frozen, Behind
  <2>4. QED
    BY <2>1, <2>2, <2>3 DEF Inv
<1>3. QED
  BY <1>1, <1>2

\* The inductive invariant holds of every behaviour of MinHook's table.
THEOREM Invariant == Spec => []Inv
BY InitInv, Inductive, PTL DEF Spec

\* The variables keep their types.
THEOREM TypeCorrect == Spec => []TypeOK
<1>1. Inv => TypeOK
  BY DEF Inv
<1>2. QED
  BY <1>1, Invariant, PTL

\* RemoveHook and Uninitialize never leave a jump in a target whose hook they have
\* erased, wherever VirtualProtect fails (hook.cpp 120-144, 285-327).
THEOREM JumpsBacked == Spec => []JumpsAreBacked
<1>1. Inv => JumpsAreBacked
  BY DEF Inv, TypeOK, FlagsMatchCode, JumpsAreBacked
<1>2. QED
  BY <1>1, Invariant, PTL

\* ScopedThreadExclusive keeps the threads it lists stopped while code is written,
\* for any number of threads and of other processes' suspensions (thread.cpp 103-186).
THEOREM Stopped == Spec => []StoppedWhilePatched
<1>1. Inv => StoppedWhilePatched
  <2>1. ASSUME Inv, pc = "patch", ~gaveUp, NEW t \in listed
        PROVE  ~Running(t)
    <3>1. t \in Frozen
      BY <2>1 DEF Inv, Phases, Frozen
    <3>2. QED
      BY <2>1, <3>1, FrozenStands DEF Inv
  <2>2. QED
    BY <2>1 DEF StoppedWhilePatched
<1>2. QED
  BY <1>1, Invariant, PTL

\* No thread goes on behind the first byte of a jump, for any length of the
\* overwritten code (the lists oldIPs and newIPs of hook.cpp, thread.cpp 166-175).
THEOREM NoTorn == Spec => []NoTornInstruction
<1>1. Inv => NoTornInstruction
  <2>1. ASSUME Inv, ~gaveUp, NEW t \in Threads, Running(t), Behind(t),
               code[ip[t].hook] = "jump", t \notin stray
        PROVE  FALSE
    <3>1. t \in Frozen
      BY <2>1 DEF Inv, TornOnlyFrozen
    <3>2. QED
      BY <2>1, <3>1, FrozenStands DEF Inv
  <2>2. QED
    BY <2>1 DEF NoTornInstruction, Behind
<1>2. QED
  BY <1>1, Invariant, PTL

\* No call leaves a thread suspended, and none takes away another process's
\* suspension unless Freeze gave up (thread.cpp 139-186).
THEOREM Balanced == Spec => []SuspendsBalanced
<1>1. Inv => SuspendsBalanced
  BY DEF Inv, TypeOK, Phases, Counts, Frozen, SuspendsBalanced, Idle
<1>2. QED
  BY <1>1, Invariant, PTL

\* A thread that was moved into a trampoline is out of it before its memory is
\* released (hook.cpp 285-327 with 313-321).
THEOREM ReleasedBehindJump == Spec => []ReleasedOnlyBehindJump
<1>1. Inv => ReleasedOnlyBehindJump
  BY DEF Inv, InTrampolineBehindMove, ReleasedOnlyBehindJump
<1>2. QED
  BY <1>1, Invariant, PTL

-----------------------------------------------------------------------------
(* A call ends                                                             *)

\* A thread that a call has listed exists, or has existed.
ListedWereAlive == \A t \in listed : life[t] # "absent"

\* One of the steps of the call under way can be taken: where it is, the guard
\* of that step holds.
StepReady ==
  \/ pc = "freeze" /\ \E t \in unfrozen : life[t] \in {"alive", "ended"}
  \/ pc = "freeze" /\ unfrozen = {}
  \/ pc = "patch" /\ ~failed /\ \E h \in Targets : Lowest(h)
  \/ pc = "patch" /\ (failed \/ todo = {})
  \/ pc = "unfreeze" /\ \E t \in Threads : t \in listed
  \/ pc = "unfreeze" /\ listed = {}
  \/ pc = "free"

Phase == [idle |-> 0, free |-> 1, unfreeze |-> 2, patch |-> 3, freeze |-> 4]

\* At most so many steps of the call are left.
StepsLeft ==
  2 * Phase[pc] + Cardinality(unfrozen) + Cardinality(listed) + Cardinality(todo)
    + (IF failed THEN 0 ELSE 1)

LEMMA ListedStep ==
  ASSUME TypeOK, ListedWereAlive, [Next]_vars
  PROVE  ListedWereAlive'
<1> USE DEF TypeOK, ListedWereAlive, tableVars, callVars, threadVars, history
<1>1. CASE TableStep
  BY <1>1 DEF TableStep, Initialize, CreateHook, QueueEnableHook, QueueDisableHook
<1>2. CASE BeginStep
  BY <1>2 DEF BeginStep, Begin, Alive
<1>3. ASSUME NEW t \in Threads, FreezeStep(t) \/ UnfreezeThread(t) \/ LifeStep(t)
      PROVE  ListedWereAlive'
  BY <1>3 DEF FreezeStep, FreezeThread, FreezeGivesUp, UnfreezeThread, LifeStep,
              StartThread, EndThread, Hold, LetGo
<1>4. ASSUME NEW h \in Targets, Patch(h)
      PROVE  ListedWereAlive'
  BY <1>4 DEF Patch
<1>5. CASE FreezeDone \/ PatchFails \/ Unfreeze \/ UnfreezeDone \/ Free
  BY <1>5 DEF FreezeDone, PatchFails, Unfreeze, UnfreezeDone, Free
<1>6. CASE MoveStep
  BY <1>6 DEF MoveStep, Go
<1>7. CASE UNCHANGED vars
  BY <1>7 DEF vars
<1>8. QED
  BY <1>1, <1>2, <1>3, <1>4, <1>5, <1>6, <1>7, Cases

\* gHooks has finitely many entries, because CreateHook adds one at a time.
LEMMA HooksFinite ==
  /\ Init => IsFiniteSet(hooks)
  /\ TypeOK /\ IsFiniteSet(hooks) /\ [Next]_vars => IsFiniteSet(hooks')
<1>1. Init => IsFiniteSet(hooks)
  BY FS_EmptySet DEF Init
<1>2. ASSUME TypeOK, IsFiniteSet(hooks), Next
      PROVE  IsFiniteSet(hooks')
  <2> USE DEF tableVars, callVars, threadVars, history
  <2>1. hooks' \subseteq hooks \/ \E h \in Targets : hooks' = hooks \cup {h}
    <3>1. CASE TableStep
      BY <3>1 DEF TableStep, Initialize, CreateHook, QueueEnableHook, QueueDisableHook
    <3>2. CASE BeginStep
      BY <3>2 DEF BeginStep, Begin
    <3>3. ASSUME NEW t \in Threads, FreezeStep(t) \/ UnfreezeThread(t) \/ LifeStep(t)
          PROVE  hooks' = hooks
      BY <3>3 DEF FreezeStep, FreezeThread, FreezeGivesUp, UnfreezeThread, LifeStep,
                  StartThread, EndThread, Hold, LetGo
    <3>4. ASSUME NEW h \in Targets, Patch(h)
          PROVE  hooks' = hooks
      BY <3>4 DEF Patch
    <3>5. CASE FreezeDone \/ PatchFails \/ Unfreeze \/ UnfreezeDone \/ Free
      BY <3>5 DEF FreezeDone, PatchFails, Unfreeze, UnfreezeDone, Free
    <3>6. CASE MoveStep
      BY <3>6 DEF MoveStep, Go
    <3>7. QED
      BY <1>2, <3>1, <3>2, <3>3, <3>4, <3>5, <3>6, Cases
  <2>2. \A h \in Targets : IsFiniteSet(hooks \cup {h})
    BY <1>2, FS_AddElement
  <2>3. QED
    BY <1>2, <2>1, <2>2, FS_Subset
<1>3. TypeOK /\ IsFiniteSet(hooks) /\ UNCHANGED vars => IsFiniteSet(hooks')
  BY DEF vars, tableVars
<1>4. QED
  BY <1>1, <1>2, <1>3

\* There is a first hook in the vector of those still to change.
LEMMA LowestExists ==
  ASSUME TypeOK, todo # {}
  PROVE  \E h \in Targets : Lowest(h)
<1> DEFINE R == OpToRel(<, Nat)
<1>1. todo \subseteq Nat /\ todo \subseteq Targets
  BY TargetAssumption DEF TypeOK
<1>2. IsWellFoundedOn(R, Nat)
  BY NatLessThanWellFounded
<1>3. \A x, y \in Nat : x < y => <<x, y>> \in R
  BY DEF OpToRel
<1> HIDE DEF R
<1>4. PICK h \in todo : \A g \in todo : ~ (<<g, h>> \in R)
  BY <1>1, <1>2, WFMin, Zenon
<1>5. \A g \in todo : ~ (g < h)
  BY <1>1, <1>3, <1>4, Zenon
<1>6. \A g \in todo : h <= g
  BY <1>1, <1>5
<1>7. QED
  BY <1>1, <1>6 DEF Lowest

\* Whatever the other threads do, and whatever fails, a call of the API that holds
\* gCS finds the guard of its next step true: it waits for no thread and for no
\* other call (hook.cpp 120-144, 191-262, thread.cpp 103-186).
THEOREM CallCanGoOn == Spec => [](~Idle => StepReady)
<1>1. Init => ListedWereAlive
  BY DEF Init, ListedWereAlive
<1>2. Inv /\ ListedWereAlive /\ [Next]_vars => ListedWereAlive'
  BY ListedStep DEF Inv
<1>3. Inv /\ ListedWereAlive => (~Idle => StepReady)
  <2> SUFFICES ASSUME Inv, ListedWereAlive, ~Idle
               PROVE  StepReady
    OBVIOUS
  <2>1. TypeOK /\ pc \in {"freeze", "patch", "unfreeze", "free"}
    BY DEF Inv, TypeOK, Idle
  <2>2. CASE pc = "freeze"
    BY <2>1, <2>2 DEF TypeOK, ListedWereAlive, StepReady
  <2>3. CASE pc = "patch"
    BY <2>1, <2>3, LowestExists DEF StepReady
  <2>4. CASE pc = "unfreeze"
    BY <2>1, <2>4 DEF TypeOK, StepReady
  <2>5. CASE pc = "free"
    BY <2>5 DEF StepReady
  <2>6. QED
    BY <2>1, <2>2, <2>3, <2>4, <2>5
<1>4. QED
  BY <1>1, <1>2, <1>3, Invariant, PTL DEF Spec

LEMMA SmallerSet ==
  ASSUME NEW S, IsFiniteSet(S), NEW T \in SUBSET S
  PROVE  /\ Cardinality(S) \in Nat /\ Cardinality(T) \in Nat
         /\ Cardinality(T) <= Cardinality(S)
         /\ T # S => Cardinality(T) < Cardinality(S)
<1>1. IsFiniteSet(T) /\ Cardinality(T) <= Cardinality(S)
      /\ (Cardinality(S) = Cardinality(T) => S = T)
  BY FS_Subset
<1>2. Cardinality(S) \in Nat /\ Cardinality(T) \in Nat
  BY <1>1, FS_CardinalityType
<1>3. QED
  BY <1>1, <1>2

LEMMA FewerLeft ==
  ASSUME IsFiniteSet(Threads), TypeOK, TypeOK', IsFiniteSet(hooks), CallStep
  PROVE  StepsLeft \in Nat /\ StepsLeft' < StepsLeft
<1> USE DEF TypeOK, tableVars, callVars, threadVars, history
<1>1. /\ IsFiniteSet(listed) /\ IsFiniteSet(unfrozen) /\ IsFiniteSet(todo)
  BY FS_Subset
<1> DEFINE u == Cardinality(unfrozen)  l == Cardinality(listed)  d == Cardinality(todo)
           u1 == Cardinality(unfrozen')  l1 == Cardinality(listed')
           d1 == Cardinality(todo')
           f == IF failed THEN 0 ELSE 1  f1 == IF failed' THEN 0 ELSE 1
<1>2. ASSUME unfrozen' \subseteq unfrozen, listed' \subseteq listed, todo' \subseteq todo
      PROVE  /\ u \in Nat /\ l \in Nat /\ d \in Nat
             /\ u1 \in Nat /\ l1 \in Nat /\ d1 \in Nat
             /\ u1 <= u /\ l1 <= l /\ d1 <= d
             /\ unfrozen' # unfrozen => u1 < u
             /\ listed' # listed => l1 < l
             /\ todo' # todo => d1 < d
  BY <1>1, <1>2, SmallerSet
<1> DEFINE Onward ==
             \/ /\ pc' = pc /\ failed' = failed
                /\ unfrozen' # unfrozen \/ listed' # listed \/ todo' # todo
             \/ pc' = pc /\ ~failed /\ failed'
             \/ Phase[pc'] < Phase[pc]
           Shrinking ==
             unfrozen' \subseteq unfrozen /\ listed' \subseteq listed /\ todo' \subseteq todo
<1>3. Shrinking /\ Onward
  <2>1. ASSUME NEW t \in Threads, FreezeThread(t) \/ UnfreezeThread(t)
        PROVE  Shrinking /\ Onward
    BY <2>1 DEF FreezeThread, UnfreezeThread
  <2>2. ASSUME NEW t \in Threads, FreezeGivesUp(t)
        PROVE  Shrinking /\ Onward
    BY <2>2 DEF FreezeGivesUp, Phase
  <2>3. ASSUME NEW h \in Targets, Patch(h)
        PROVE  Shrinking /\ Onward
    BY <2>3 DEF Patch, Lowest
  <2>4. CASE PatchFails
    BY <2>4 DEF PatchFails
  <2>5. CASE FreezeDone \/ Unfreeze
    BY <2>5 DEF FreezeDone, Unfreeze, Phase
  <2>6. CASE UnfreezeDone
    BY <2>6 DEF UnfreezeDone, Phase
  <2>7. CASE Free
    BY <2>7 DEF Free, Phase
  <2>8. QED
    BY <2>1, <2>2, <2>3, <2>4, <2>5, <2>6, <2>7 DEF CallStep
<1>4. /\ Phase[pc] \in 0 .. 4 /\ Phase[pc'] \in 0 .. 4
      /\ f \in {0, 1} /\ f1 \in {0, 1}
      /\ failed' = failed => f1 = f
      /\ ~failed /\ failed' => f1 < f
  BY DEF Phase
<1>5. /\ StepsLeft = 2 * Phase[pc] + u + l + d + f
      /\ StepsLeft' = 2 * Phase[pc'] + u1 + l1 + d1 + f1
  BY DEF StepsLeft
<1> HIDE DEF u, l, d, u1, l1, d1, f, f1
<1>6. QED
  BY <1>2, <1>3, <1>4, <1>5

\* ... and each of its steps leaves fewer to be taken, which no step of another
\* thread undoes: a call ends after as many steps as StepsLeft says when it begins,
\* if the process has finitely many threads.
THEOREM CallEnds ==
  IsFiniteSet(Threads) =>
    (Spec => [][/\ CallStep => StepsLeft \in Nat /\ StepsLeft' < StepsLeft
                /\ ThreadStep => StepsLeft' = StepsLeft]_vars)
<1> SUFFICES ASSUME IsFiniteSet(Threads)
             PROVE  Spec => [][/\ CallStep => StepsLeft \in Nat /\ StepsLeft' < StepsLeft
                               /\ ThreadStep => StepsLeft' = StepsLeft]_vars
  OBVIOUS
<1>1. TypeOK /\ ThreadStep => StepsLeft' = StepsLeft
  <2>1. ASSUME TypeOK, ThreadStep
        PROVE  callVars' = callVars
    BY <2>1 DEF ThreadStep, CallTarget, ExecuteSource, ExecuteRelay, CallOriginal,
            ReturnFromDetour, ExecuteTrampoline, Go, StartThread, EndThread, Hold, LetGo
  <2>2. QED
    BY <2>1 DEF callVars, StepsLeft
<1>2. TypeOK /\ TypeOK' /\ IsFiniteSet(hooks) /\ [Next]_vars
      => [/\ CallStep => StepsLeft \in Nat /\ StepsLeft' < StepsLeft
          /\ ThreadStep => StepsLeft' = StepsLeft]_vars
  BY <1>1, FewerLeft
<1>3. Init => IsFiniteSet(hooks)
  BY HooksFinite
<1>4. TypeOK /\ IsFiniteSet(hooks) /\ [Next]_vars => IsFiniteSet(hooks)'
  BY HooksFinite
<1>5. QED
  BY <1>2, <1>3, <1>4, TypeCorrect, PTL DEF Spec
=============================================================================
