------------------------ MODULE HookReportingProofs ------------------------
(***************************************************************************)
(* Theorems about HookReporting, for every set of threads and addresses    *)
(* and every bound.                                                        *)
(***************************************************************************)
EXTENDS HookReporting, SequenceTheorems, TLAPS

Places == {"test", "clear"} \cup Reporting
Calls == [Threads -> Seq(Frame)]

\* What the steps below need to know of the types.
Types ==
  /\ frames \in Calls
  /\ owner \in Threads \cup {NoThread}
  /\ shouldHook \in BOOLEAN
  /\ Len(events) \in 0 .. MaxEvents

Inside(t, places) == frames[t] # <<>> /\ frames[t][1].pc \in places

\* Only a stack walk calls malloc and free: every hook call but the innermost
\* of a thread is in one.
NestedInTrace ==
  \A t \in Threads : \A i \in 2 .. Len(frames[t]) : frames[t][i].pc = "trace"

\* The critical section belongs to the thread whose innermost hook call is
\* between EnterCriticalSection and LeaveCriticalSection.
SectionOwned == \A t \in Threads : Inside(t, InSection) <=> owner = t

\* The flag is down only while some hook is reporting.
FlagDownInReport ==
  ~shouldHook => \E t \in Threads : Len(frames[t]) > 1 \/ Inside(t, Reporting)

Inv == Types /\ NestedInTrace /\ SectionOwned /\ BufferIntact /\ FlagDownInReport

-----------------------------------------------------------------------------
(* What the steps do to the hook calls in progress                         *)

\* Threads other than t keep their hook calls.
OthersKeep(t) == \A u \in Threads \ {t} : frames'[u] = frames[u]

LEMMA FirstFrame ==
  ASSUME frames \in Calls, NEW t \in Threads, frames[t] # <<>>
  PROVE  /\ frames[t] \in Seq(Frame)
         /\ Len(frames[t]) \in Nat \ {0}
         /\ Head(frames[t]) = frames[t][1]
         /\ frames[t][1] \in Frame
<1>1. frames[t] \in Seq(Frame)
  BY DEF Calls
<1>2. Len(frames[t]) \in Nat \ {0}
  BY <1>1, EmptySeq
<1>3. frames[t][1] \in Frame
  BY <1>1, <1>2, ElementOfSeq
<1>4. QED
  BY <1>1, <1>2, <1>3

\* Goto moves the innermost hook call of t and nothing else.
LEMMA GotoMoves ==
  ASSUME frames \in Calls, NEW t \in Threads, frames[t] # <<>>,
         NEW pc \in Places, Goto(t, pc)
  PROVE  /\ frames' \in Calls
         /\ OthersKeep(t)
         /\ frames'[t] # <<>> /\ Len(frames'[t]) = Len(frames[t])
         /\ frames'[t][1] = [ev |-> frames[t][1].ev, pc |-> pc]
         /\ \A i \in 2 .. Len(frames[t]) : frames'[t][i] = frames[t][i]
<1> DEFINE f == [frames[t][1] EXCEPT !.pc = pc]
<1>1. f \in Frame /\ f = [ev |-> frames[t][1].ev, pc |-> pc]
  BY FirstFrame DEF Frame, Places
<1>2. frames'[t] = [frames[t] EXCEPT ![1] = f] /\ OthersKeep(t)
      /\ frames' = [frames EXCEPT ![t] = [frames[t] EXCEPT ![1] = f]]
  BY DEF Goto, Calls, OthersKeep
<1>3. /\ frames'[t] \in Seq(Frame)
      /\ Len(frames'[t]) = Len(frames[t])
      /\ \A j \in 1 .. Len(frames[t]) :
           frames'[t][j] = IF j = 1 THEN f ELSE frames[t][j]
  <2> HIDE DEF f
  <2>1. 1 \in 1 .. Len(frames[t])
    BY FirstFrame
  <2>2. QED
    BY <1>1, <1>2, <2>1, FirstFrame, ExceptSeq
<1>4. frames' \in Calls
  BY <1>2, <1>3 DEF Calls
<1>5. frames'[t] # <<>>
  BY <1>3, FirstFrame
<1>6. frames'[t][1] = f
  BY <1>3, FirstFrame
<1>7. \A i \in 2 .. Len(frames[t]) : frames'[t][i] = frames[t][i]
  BY <1>3, FirstFrame
<1>8. QED
  BY <1>1, <1>2, <1>3, <1>4, <1>5, <1>6, <1>7

\* Enter puts a new hook call in front of those of t.
LEMMA EnterPushes ==
  ASSUME Types, NEW t \in Threads, NEW op, NEW a, Len(events) < MaxEvents, Enter(t, op, a)
  PROVE  /\ frames' \in Calls
         /\ OthersKeep(t)
         /\ frames'[t] # <<>> /\ Len(frames'[t]) = Len(frames[t]) + 1
         /\ frames'[t][1] = [ev |-> Len(events) + 1, pc |-> "test"]
         /\ \A i \in 2 .. Len(frames[t]) + 1 : frames'[t][i] = frames[t][i - 1]
<1> DEFINE f == [ev |-> Len(events) + 1, pc |-> "test"]
<1>1. f \in Frame /\ f.pc = "test"
  BY BoundsAssumption DEF Frame, Types
<1>2. frames'[t] = <<f>> \o frames[t] /\ OthersKeep(t)
      /\ frames' = [frames EXCEPT ![t] = <<f>> \o frames[t]]
  BY DEF Enter, Calls, OthersKeep, Types
<1>3. frames[t] \in Seq(Frame) /\ Len(frames[t]) \in Nat
  BY LenProperties DEF Types, Calls
<1> HIDE DEF f
<1>4. <<f>> \in Seq(Frame) /\ Len(<<f>>) = 1 /\ <<f>>[1] = f
  BY <1>1
<1>5. /\ frames'[t] \in Seq(Frame)
      /\ Len(frames'[t]) = Len(frames[t]) + 1
      /\ \A i \in 1 .. 1 + Len(frames[t]) :
           frames'[t][i] = IF i <= 1 THEN <<f>>[i] ELSE frames[t][i - 1]
  BY <1>2, <1>3, <1>4, ConcatProperties
<1>6. frames' \in Calls
  BY <1>2, <1>5 DEF Types, Calls
<1>7. frames'[t] # <<>> /\ frames'[t][1] = f
  BY <1>3, <1>4, <1>5
<1>8. \A i \in 2 .. Len(frames[t]) + 1 : frames'[t][i] = frames[t][i - 1]
  BY <1>3, <1>5
<1>9. frames'[t][1] = [ev |-> Len(events) + 1, pc |-> "test"]
  BY <1>7 DEF f
<1>10. QED
  BY <1>2, <1>5, <1>6, <1>7, <1>8, <1>9

\* Return drops the innermost hook call of t.
LEMMA ReturnPops ==
  ASSUME frames \in Calls, NEW t \in Threads, frames[t] # <<>>, Return(t)
  PROVE  /\ frames' \in Calls
         /\ OthersKeep(t)
         /\ Len(frames'[t]) = Len(frames[t]) - 1
         /\ \A i \in 1 .. Len(frames[t]) - 1 : frames'[t][i] = frames[t][i + 1]
<1>1. frames'[t] = Tail(frames[t]) /\ OthersKeep(t)
      /\ frames' = [frames EXCEPT ![t] = Tail(frames[t])]
  BY DEF Return, Calls, OthersKeep
<1>2. /\ frames'[t] \in Seq(Frame)
      /\ Len(frames'[t]) = Len(frames[t]) - 1
      /\ \A i \in 1 .. Len(frames'[t]) : frames'[t][i] = frames[t][i + 1]
  BY <1>1, FirstFrame, HeadTailProperties
<1>3. frames' \in Calls
  BY <1>1, <1>2 DEF Calls
<1>4. QED
  BY <1>1, <1>2, <1>3

-----------------------------------------------------------------------------
(* The inductive invariant                                                 *)

\* No call is in progress at the start.
LEMMA InitInv == Init => Inv
<1> SUFFICES ASSUME Init PROVE Inv
  OBVIOUS
<1> USE DEF Init
<1>1. frames \in Calls
  BY EmptySeq DEF Calls
<1>2. Types
  BY <1>1, BoundsAssumption DEF Types
<1>3. NestedInTrace
  BY DEF NestedInTrace
<1>4. SectionOwned
  BY NoThreadAssumption DEF SectionOwned, Inside
<1>5. BufferIntact
  BY DEF BufferIntact, At
<1>6. FlagDownInReport
  BY DEF FlagDownInReport
<1>7. QED
  BY <1>2, <1>3, <1>4, <1>5, <1>6 DEF Inv

\* A new call is made from the target's own code or from a stack walk.
LEMMA CallStep ==
  ASSUME Inv, NEW t \in Threads, Call(t)
  PROVE  Inv'
<1>1. PICK op, a : Enter(t, op, a) /\ MayCall(t)
  BY DEF Call, Malloc, Free
<1>2. frames[t] = <<>> \/ Inside(t, {"trace"})
  BY <1>1, FirstFrame DEF MayCall, At, Inside, Inv, Types
<1>3. Len(events) < MaxEvents
  BY <1>1 DEF MayCall
<1>4. /\ frames' \in Calls
      /\ OthersKeep(t)
      /\ frames'[t] # <<>> /\ Len(frames'[t]) = Len(frames[t]) + 1
      /\ frames'[t][1] = [ev |-> Len(events) + 1, pc |-> "test"]
      /\ \A i \in 2 .. Len(frames[t]) + 1 : frames'[t][i] = frames[t][i - 1]
  BY <1>1, <1>3, EnterPushes DEF Inv
<1>5. UNCHANGED <<owner, shouldHook, retBuf>> /\ Len(events') = Len(events) + 1
  BY <1>1 DEF Enter
<1>6. Types'
  BY <1>3, <1>4, <1>5, BoundsAssumption DEF Types, Inv
<1>7. NestedInTrace'
  <2> SUFFICES ASSUME NEW u \in Threads, NEW i \in 2 .. Len(frames'[u])
               PROVE  frames'[u][i].pc = "trace"
    BY DEF NestedInTrace
  <2>1. CASE u # t
    BY <1>4, <2>1 DEF NestedInTrace, Inv, OthersKeep
  <2>2. CASE u = t /\ frames[t] = <<>>
    BY <1>4, <2>2
  <2>3. CASE u = t /\ Inside(t, {"trace"})
    <3>1. /\ Len(frames[t]) \in Nat \ {0} /\ frames[t][1].pc = "trace"
          /\ \A j \in 2 .. Len(frames[t]) : frames[t][j].pc = "trace"
      BY <2>3, FirstFrame DEF Inside, NestedInTrace, Inv, Types
    <3>2. i - 1 \in 1 .. Len(frames[t]) /\ frames'[t][i] = frames[t][i - 1]
      BY <1>4, <2>3, <3>1
    <3>3. QED
      BY <2>3, <3>1, <3>2
  <2>4. QED
    BY <1>2, <2>1, <2>2, <2>3
<1>8. SectionOwned'
  BY <1>2, <1>4, <1>5 DEF SectionOwned, Inside, Inv, OthersKeep, InSection
<1>9. BufferIntact'
  BY <1>4, <1>5 DEF BufferIntact, At, Inv, OthersKeep
<1>10. FlagDownInReport'
  BY <1>2, <1>4, <1>5 DEF FlagDownInReport, Inside, Inv, OthersKeep, Reporting
<1>11. QED
  BY <1>6, <1>7, <1>8, <1>9, <1>10 DEF Inv

\* What a step that only moves the innermost call of t leaves to show.
LEMMA MoveKeeps ==
  ASSUME Inv, NEW t \in Threads, NEW pc \in Places, frames[t] # <<>>,
         Goto(t, pc), Len(events') = Len(events),
         owner' \in Threads \cup {NoThread}, shouldHook' \in BOOLEAN
  PROVE  /\ Types' /\ NestedInTrace' /\ OthersKeep(t)
         /\ frames'[t] # <<>>
         /\ Len(frames'[t]) = Len(frames[t]) /\ frames'[t][1].pc = pc
         /\ frames'[t][1].ev = frames[t][1].ev
         /\ \A places : Inside(t, places)' <=> pc \in places
         /\ \A u \in Threads \ {t} : \A places : Inside(u, places)' <=> Inside(u, places)
<1>2. /\ frames' \in Calls
      /\ OthersKeep(t)
      /\ frames'[t] # <<>> /\ Len(frames'[t]) = Len(frames[t])
      /\ frames'[t][1] = [ev |-> frames[t][1].ev, pc |-> pc]
      /\ \A i \in 2 .. Len(frames[t]) : frames'[t][i] = frames[t][i]
  BY GotoMoves DEF Inv, Types
<1>3. Types'
  BY <1>2 DEF Types, Inv
<1>4. NestedInTrace'
  BY <1>2 DEF NestedInTrace, Inv, OthersKeep
<1>5. \A places : Inside(t, places)' <=> pc \in places
  BY <1>2 DEF Inside
<1>6. \A u \in Threads \ {t} : \A places : Inside(u, places)' <=> Inside(u, places)
  BY <1>2 DEF Inside, OthersKeep
<1>7. QED
  BY <1>2, <1>3, <1>4, <1>5, <1>6

\* A step that moves the innermost call of t keeps the invariant when it keeps
\* owner, buffer and flag in step with the place it moves to.
LEMMA MoveStep ==
  ASSUME Inv, NEW t \in Threads, NEW from \in Places, NEW pc \in Places,
         At(t, from), Goto(t, pc), Len(events') = Len(events),
         owner' \in Threads \cup {NoThread}, shouldHook' \in BOOLEAN,
         pc \in InSection <=> owner' = t,
         \A u \in Threads \ {t} : owner' = u <=> owner = u,
         pc = "send" => retBuf' = frames[t][1].ev,
         retBuf' = retBuf \/ owner = t,
         shouldHook' \/ pc \in Reporting \/ (~shouldHook /\ from \notin Reporting)
  PROVE  Inv'
<1>1. frames[t] # <<>> /\ frames[t][1].pc = from
  BY FirstFrame DEF At, Inv, Types
<1>2. /\ Types' /\ NestedInTrace' /\ OthersKeep(t)
      /\ frames'[t] # <<>>
      /\ Len(frames'[t]) = Len(frames[t]) /\ frames'[t][1].pc = pc
      /\ frames'[t][1].ev = frames[t][1].ev
      /\ \A places : Inside(t, places)' <=> pc \in places
      /\ \A u \in Threads \ {t} : \A places : Inside(u, places)' <=> Inside(u, places)
  BY <1>1, MoveKeeps
<1>3. SectionOwned'
  <2>1. Inside(t, InSection)' <=> owner' = t
    BY <1>2
  <2>2. ASSUME NEW u \in Threads \ {t} PROVE Inside(u, InSection)' <=> owner' = u
    BY <1>2 DEF Inv, SectionOwned
  <2>3. QED
    BY <2>1, <2>2 DEF SectionOwned, Inside
<1>4. BufferIntact'
  <2> SUFFICES ASSUME NEW u \in Threads, At(u, "send")'
               PROVE  retBuf' = Head(frames'[u]).ev
    BY DEF BufferIntact
  <2>1. Head(frames'[u]) = frames'[u][1] /\ frames'[u] # <<>> /\ frames'[u][1].pc = "send"
    BY <1>2, FirstFrame DEF At, Types
  <2>2. CASE u = t
    BY <1>2, <2>1, <2>2
  <2>3. CASE u # t
    <3>1. frames'[u] = frames[u] /\ At(u, "send")
      BY <1>2, <2>3 DEF OthersKeep, At
    <3>2. Inside(u, InSection)
      BY <2>1, <3>1 DEF Inside, InSection
    <3>3. owner # t
      BY <2>3, <3>2 DEF Inv, SectionOwned
    <3>4. QED
      BY <3>1, <3>3 DEF BufferIntact, Inv
  <2>4. QED
    BY <2>2, <2>3
<1>5. FlagDownInReport'
  <2> SUFFICES ASSUME ~shouldHook'
               PROVE  \E u \in Threads : Len(frames'[u]) > 1 \/ Inside(u, Reporting)'
    BY DEF FlagDownInReport, Inside
  <2>1. CASE pc \in Reporting
    BY <1>2, <2>1
  <2>2. CASE ~shouldHook /\ from \notin Reporting
    <3>1. PICK u \in Threads : Len(frames[u]) > 1 \/ Inside(u, Reporting)
      BY <2>2 DEF Inv, FlagDownInReport
    <3>2. CASE u = t
      BY <1>1, <1>2, <2>2, <3>1, <3>2 DEF Inside
    <3>3. CASE u # t
      BY <1>2, <3>1, <3>3 DEF OthersKeep
    <3>4. QED
      BY <3>2, <3>3
  <2>3. QED
    BY <2>1, <2>2
<1>6. QED
  BY <1>2, <1>3, <1>4, <1>5 DEF Inv

\* A hook that returns was outside the critical section; if its thread has
\* another hook call in progress, that one is in a stack walk.
LEMMA ReturnStep ==
  ASSUME Inv, NEW t \in Threads, NEW from \in {"test", "restore"},
         At(t, from), Return(t), UNCHANGED <<owner, retBuf>>, shouldHook' \in BOOLEAN,
         shouldHook' \/ (~shouldHook /\ from = "test")
  PROVE  Inv'
<1>1. frames[t] # <<>> /\ frames[t][1].pc = from /\ Len(frames[t]) \in Nat \ {0}
  BY FirstFrame DEF At, Inv, Types
<1>2. /\ frames' \in Calls
      /\ OthersKeep(t)
      /\ Len(frames'[t]) = Len(frames[t]) - 1
      /\ \A i \in 1 .. Len(frames[t]) - 1 : frames'[t][i] = frames[t][i + 1]
  BY <1>1, ReturnPops DEF Inv, Types
<1>3. Types'
  BY <1>2 DEF Types, Inv, Return
<1>4. \A i \in 1 .. Len(frames[t]) - 1 : frames'[t][i].pc = "trace"
  BY <1>1, <1>2 DEF Inv, NestedInTrace
<1>5. Len(frames[t]) > 1 <=> frames'[t] # <<>>
  <2>1. frames'[t] \in Seq(Frame)
    BY <1>2 DEF Calls
  <2>2. QED
    BY <1>1, <1>2, <2>1, EmptySeq
<1>6. frames'[t] # <<>> => frames'[t][1].pc = "trace"
  BY <1>1, <1>4, <1>5
<1>7. NestedInTrace'
  BY <1>1, <1>2, <1>4 DEF NestedInTrace, Inv, OthersKeep
<1>8. SectionOwned'
  <2>1. owner # t
    BY <1>1 DEF Inv, SectionOwned, Inside, InSection
  <2>2. ~Inside(t, InSection)'
    BY <1>6 DEF Inside, InSection
  <2>3. QED
    BY <1>2, <2>1, <2>2 DEF Inv, SectionOwned, Inside, OthersKeep
<1>9. BufferIntact'
  <2>1. ~At(t, "send")'
    <3>1. frames'[t] # <<>> => Head(frames'[t]) = frames'[t][1]
      BY <1>2, FirstFrame
    <3>2. QED
      BY <1>6, <3>1 DEF At
  <2>2. QED
    BY <1>2, <2>1 DEF Inv, BufferIntact, At, OthersKeep
<1>10. FlagDownInReport'
  <2> SUFFICES ASSUME ~shouldHook'
               PROVE  \E u \in Threads : Len(frames'[u]) > 1 \/ Inside(u, Reporting)'
    BY DEF FlagDownInReport, Inside
  <2>1. PICK u \in Threads : Len(frames[u]) > 1 \/ Inside(u, Reporting)
    BY DEF Inv, FlagDownInReport
  <2>2. CASE u = t
    <3>1. Len(frames[t]) > 1
      BY <1>1, <2>1, <2>2 DEF Inside, Reporting
    <3>2. Inside(t, Reporting)'
      BY <1>5, <1>6, <3>1 DEF Inside, Reporting
    <3>3. QED
      BY <3>2
  <2>3. CASE u # t
    BY <1>2, <2>1, <2>3 DEF OthersKeep, Inside
  <2>4. QED
    BY <2>2, <2>3
<1>11. QED
  BY <1>3, <1>7, <1>8, <1>9, <1>10 DEF Inv

\* Every step of a hook keeps the invariant.
LEMMA HookStepKeeps ==
  ASSUME Inv, NEW t \in Threads, HookStep(t)
  PROVE  Inv'
<1> USE DEF heap, wire, Places, Reporting, InSection
<1>1. owner \in Threads \cup {NoThread} /\ shouldHook \in BOOLEAN /\ NoThread \notin Threads
  BY NoThreadAssumption DEF Inv, Types
<1>2. ASSUME NEW pc \in InSection, At(t, pc) PROVE owner = t
  BY <1>2, FirstFrame DEF At, Inv, SectionOwned, Inside, Types
<1>3. ASSUME NEW pc \in Places \ InSection, At(t, pc) PROVE owner # t
  BY <1>3, FirstFrame DEF At, Inv, SectionOwned, Inside, Types
<1>4. CASE TestFlag(t)
  <2>1. CASE shouldHook
    BY <1>1, <1>3, <1>4, <2>1, MoveStep DEF TestFlag
  <2>2. CASE ~shouldHook
    BY <1>1, <1>4, <2>2, ReturnStep DEF TestFlag
  <2>3. QED
    BY <2>1, <2>2
<1>5. CASE ClearFlag(t)
  BY <1>1, <1>3, <1>5, MoveStep DEF ClearFlag
<1>6. CASE EndTrace(t)
  BY <1>1, <1>3, <1>6, MoveStep DEF EndTrace
<1>7. CASE EnterSection(t)
  BY <1>1, <1>3, <1>7, MoveStep DEF EnterSection
<1>8. CASE Encode(t)
  <2>1. owner = t /\ Head(frames[t]) = frames[t][1]
    BY <1>2, <1>8, FirstFrame DEF Encode, At, Inv, Types
  <2>2. PICK fits \in Fits :
          /\ Goto(t, IF fits THEN "send" ELSE "leave")
          /\ retBuf' = IF fits THEN Head(frames[t]).ev ELSE retBuf
    BY <1>8 DEF Encode
  <2>3. CASE fits
    BY <1>1, <1>8, <2>1, <2>2, <2>3, MoveStep DEF Encode
  <2>4. CASE ~fits
    BY <1>1, <1>8, <2>1, <2>2, <2>4, MoveStep DEF Encode
  <2>5. QED
    BY <2>3, <2>4
<1>9. CASE Send(t)
  BY <1>1, <1>2, <1>9, MoveStep DEF Send
<1>10. CASE LeaveSection(t)
  BY <1>1, <1>2, <1>10, MoveStep DEF LeaveSection
<1>11. CASE RestoreFlag(t)
  BY <1>1, <1>11, ReturnStep DEF RestoreFlag
<1>12. QED
  BY <1>4, <1>5, <1>6, <1>7, <1>8, <1>9, <1>10, <1>11 DEF HookStep

\* The invariant depends on these variables alone.
LEMMA StutterKeeps ==
  Inv /\ UNCHANGED <<frames, owner, shouldHook, retBuf, events>> => Inv'
BY DEF Inv, Types, NestedInTrace, SectionOwned, Inside, BufferIntact, At, FlagDownInReport

LEMMA InvKept == Inv /\ [Next]_vars => Inv'
<1> SUFFICES ASSUME Inv, [Next]_vars PROVE Inv'
  OBVIOUS
<1>1. CASE GuiRead \/ GuiDisconnect \/ UNCHANGED vars
  BY <1>1, StutterKeeps DEF GuiRead, GuiDisconnect, vars, heap
<1>2. ASSUME NEW t \in Threads, Call(t) PROVE Inv'
  BY <1>2, CallStep
<1>3. ASSUME NEW t \in Threads, HookStep(t) PROVE Inv'
  BY <1>3, HookStepKeeps
<1>4. QED
  BY <1>1, <1>2, <1>3 DEF Next

\* The invariant holds in every reachable state.
THEOREM Invariant == Spec => []Inv
BY InitInv, InvKept, PTL DEF Spec

\* Two threads are never between EnterCriticalSection and LeaveCriticalSection.
MutualExclusion ==
  \A t, u \in Threads :
    Inside(t, InSection) /\ Inside(u, InSection) => t = u

\* The critical section of the hooks excludes, for any number of threads and
\* however deep their stack walks nest calls.
THEOREM SectionExcludes == Spec => []MutualExclusion
<1>1. Inv => MutualExclusion
  BY DEF Inv, SectionOwned, MutualExclusion
<1>2. QED
  BY <1>1, Invariant, PTL

\* What a thread sends is what it encoded, although all share one buffer.
THEOREM BufferCorrect == Spec => []BufferIntact
<1>1. Inv => BufferIntact
  BY DEF Inv
<1>2. QED
  BY <1>1, Invariant, PTL

\* When no hook is running, reporting is on and the critical section free.
THEOREM ReportingComesBack == Spec => []ReportingRestored
<1>1. Inv => ReportingRestored
  <2> SUFFICES ASSUME Inv, AtRest PROVE shouldHook /\ owner = NoThread
    BY DEF ReportingRestored
  <2>1. \A t \in Threads : frames[t] = <<>> /\ Len(frames[t]) = 0
    BY DEF AtRest
  <2>2. shouldHook
    BY <2>1 DEF Inv, FlagDownInReport, Inside
  <2>3. owner = NoThread
    BY <2>1 DEF Inv, Types, SectionOwned, Inside
  <2>4. QED
    BY <2>2, <2>3
<1>2. QED
  BY <1>1, Invariant, PTL
-----------------------------------------------------------------------------
(* The events whose hook call is still in progress                         *)

Pending ==
  {e \in 1 .. Len(events) :
     \E t \in Threads : \E k \in 1 .. Len(frames[t]) : frames[t][k].ev = e}

\* Event m is the last one about address a in history h.
LastAbout(h, m, a) ==
  /\ m \in 1 .. Len(h) /\ h[m].addr = a
  /\ \A e \in m + 1 .. Len(h) : h[e].addr # a

\* In history h, event f frees what event m allocated.
Undoes(h, f, m) ==
  /\ m < f
  /\ h[m].op = "malloc" /\ h[f].op = "free"
  /\ h[m].addr = h[f].addr /\ h[m].addr # Null
  /\ \A e \in m + 1 .. f - 1 : h[e].addr # h[m].addr

\* What has been sent and what is being reported are events; a hook call
\* reports an event of its own thread.
EventsNamed ==
  /\ events \in Seq(Event)
  /\ live \subseteq Addrs /\ held \subseteq live
  /\ \A t \in Threads : \A k \in 1 .. Len(frames[t]) :
       /\ frames[t][k].ev \in 1 .. Len(events)
       /\ events[frames[t][k].ev].thread = t
  /\ \A i \in 1 .. Len(stream) : stream[i] \in 1 .. Len(events)
  /\ stream \in Seq(Nat)

\* No two hook calls report the same event.
OneCallEach ==
  \A t \in Threads : \A k, l \in 1 .. Len(frames[t]) :
    frames[t][k].ev = frames[t][l].ev => k = l

\* An address whose malloc hook is still running is allocated, nobody has it
\* yet, and nothing has happened to it since.
NotHeldYet ==
  \A m \in Pending :
    events[m].op = "malloc" /\ events[m].addr # Null =>
      events[m].addr \in live \ held /\ LastAbout(events, m, events[m].addr)

\* The hook that allocated an address somebody holds has returned, and so has
\* that of every malloc that a free has undone.
HeldReturned == \A a \in held : \A m \in Pending : ~LastAbout(events, m, a)
UndoneReturned == \A m, f \in 1 .. Len(events) : Undoes(events, f, m) => m \notin Pending

\* The last event about an address tells whether it is allocated.
LastEventTrue ==
  \A a \in Addrs : \A m \in 1 .. Len(events) :
    LastAbout(events, m, a) => (events[m].op = "malloc" <=> a \in live)

History ==
  /\ EventsNamed /\ OneCallEach /\ NotHeldYet /\ HeldReturned
  /\ UndoneReturned /\ LastEventTrue /\ FreeFollowsItsMalloc

LEMMA SentInOrder ==
  FreeFollowsItsMalloc <=>
    \A i, j \in 1 .. Len(stream) : Undoes(events, stream[j], stream[i]) => i < j
BY DEF FreeFollowsItsMalloc, Undoes

\* What one more event changes in what the events say.
LEMMA NewEvent ==
  ASSUME events \in Seq(Event), NEW e, events' = Append(events, e)
  PROVE  /\ Len(events') = Len(events) + 1 /\ events'[Len(events) + 1] = e
         /\ \A i \in 1 .. Len(events) : events'[i] = events[i]
         /\ \A m \in 1 .. Len(events) : \A a :
              LastAbout(events', m, a) <=> LastAbout(events, m, a) /\ e.addr # a
         /\ \A a : LastAbout(events', Len(events) + 1, a) <=> e.addr = a
         /\ \A m, f \in 1 .. Len(events) : Undoes(events', f, m) <=> Undoes(events, f, m)
         /\ \A m \in 1 .. Len(events) :
              Undoes(events', Len(events) + 1, m) =>
                /\ e.op = "free" /\ e.addr # Null
                /\ events[m].op = "malloc" /\ LastAbout(events, m, e.addr)
<1>1. Len(events) \in Nat
  BY LenProperties
<1>2. /\ Len(events') = Len(events) + 1 /\ events'[Len(events) + 1] = e
      /\ \A i \in 1 .. Len(events) : events'[i] = events[i]
  BY AppendProperties
<1>3. ASSUME NEW m \in 1 .. Len(events), NEW a
      PROVE  LastAbout(events', m, a) <=> LastAbout(events, m, a) /\ e.addr # a
  BY <1>1, <1>2 DEF LastAbout
<1>4. \A a : LastAbout(events', Len(events) + 1, a) <=> e.addr = a
  BY <1>1, <1>2 DEF LastAbout
<1>5. ASSUME NEW m \in 1 .. Len(events), NEW f \in 1 .. Len(events)
      PROVE  Undoes(events', f, m) <=> Undoes(events, f, m)
  BY <1>1, <1>2 DEF Undoes
<1>6. ASSUME NEW m \in 1 .. Len(events), Undoes(events', Len(events) + 1, m)
      PROVE  /\ e.op = "free" /\ e.addr # Null
             /\ events[m].op = "malloc" /\ LastAbout(events, m, e.addr)
  BY <1>1, <1>2, <1>6 DEF Undoes, LastAbout
<1>7. QED
  BY <1>2, <1>3, <1>4, <1>5, <1>6

LEMMA InitHistory == Init => History
<1> SUFFICES ASSUME Init PROVE History
  OBVIOUS
<1> USE DEF Init
<1>1. EventsNamed
  BY EmptySeq DEF EventsNamed
<1>2. Pending = {}
  BY DEF Pending
<1>3. OneCallEach /\ FreeFollowsItsMalloc
  BY DEF OneCallEach, FreeFollowsItsMalloc
<1>4. UndoneReturned /\ LastEventTrue
  BY DEF UndoneReturned, LastEventTrue
<1>5. NotHeldYet /\ HeldReturned
  BY <1>2 DEF NotHeldYet, HeldReturned
<1>6. QED
  BY <1>1, <1>3, <1>4, <1>5 DEF History

\* A new operation, whether its hook call is the thread's first or is nested.
LEMMA CallKeepsHistory ==
  ASSUME Inv, History, NEW t \in Threads, Call(t)
  PROVE  History'
<1>1. PICK a \in Addrs \cup {Null} : Malloc(t, a) \/ Free(t, a)
  BY DEF Call
<1>2. PICK op \in {"malloc", "free"} : Enter(t, op, a) /\ (op = "malloc" => Malloc(t, a))
                                      /\ (op = "free" => Free(t, a))
  BY <1>1 DEF Malloc, Free
<1> DEFINE n == Len(events)
           e == [op |-> op, addr |-> a, thread |-> t, depth |-> Len(frames[t]) + 1]
<1>3. MayCall(t) /\ n < MaxEvents /\ n \in Nat
  BY <1>2 DEF MayCall, Malloc, Free, Inv, Types
<1>4. Len(frames[t]) \in Nat /\ Len(frames[t]) + 1 \in 1 .. MaxDepth
  <2>1. frames[t] \in Seq(Frame)
    BY DEF Inv, Types, Calls
  <2>2. QED
    BY <1>3, <2>1, LenProperties, BoundsAssumption DEF MayCall
<1>5. e \in Event /\ e.addr = a /\ e.op = op /\ e.thread = t
  BY <1>4 DEF Event
<1>6. events' = Append(events, e) /\ stream' = stream
  BY <1>2 DEF Enter, wire
<1>7. /\ frames' \in Calls
      /\ OthersKeep(t)
      /\ frames'[t] # <<>> /\ Len(frames'[t]) = Len(frames[t]) + 1
      /\ frames'[t][1] = [ev |-> n + 1, pc |-> "test"]
      /\ \A i \in 2 .. Len(frames[t]) + 1 : frames'[t][i] = frames[t][i - 1]
  BY <1>2, <1>3, EnterPushes DEF Inv
<1> HIDE DEF e
<1>8. events \in Seq(Event)
  BY DEF History, EventsNamed
<1>9. /\ Len(events') = n + 1 /\ events'[n + 1] = e
      /\ \A i \in 1 .. n : events'[i] = events[i]
      /\ \A m \in 1 .. n : \A b : LastAbout(events', m, b) <=> LastAbout(events, m, b) /\ a # b
      /\ \A b : LastAbout(events', n + 1, b) <=> a = b
      /\ \A m, f \in 1 .. n : Undoes(events', f, m) <=> Undoes(events, f, m)
      /\ \A m \in 1 .. n : Undoes(events', n + 1, m) =>
           op = "free" /\ a # Null /\ events[m].op = "malloc" /\ LastAbout(events, m, a)
  BY <1>5, <1>6, <1>8, NewEvent
<1>10. \A u \in Threads : \A k \in 1 .. Len(frames[u]) :
         /\ frames[u][k].ev \in 1 .. n
         /\ events'[frames[u][k].ev] = events[frames[u][k].ev]
         /\ events[frames[u][k].ev].thread = u
  BY <1>9 DEF History, EventsNamed
<1>11. Pending' = Pending \cup {n + 1}
  <2>1. ASSUME NEW m \in Pending' PROVE m \in Pending \cup {n + 1}
    <3>1. m \in 1 .. n + 1
      BY <1>9, <2>1 DEF Pending
    <3>2. PICK u \in Threads : \E k \in 1 .. Len(frames'[u]) : frames'[u][k].ev = m
      BY <2>1 DEF Pending
    <3>3. PICK k \in 1 .. Len(frames'[u]) : frames'[u][k].ev = m
      BY <3>2
    <3>4. CASE m = n + 1
      BY <3>4
    <3>5. CASE m # n + 1 /\ u # t
      BY <1>3, <1>7, <3>1, <3>3, <3>5, SMTT(30) DEF Pending, OthersKeep
    <3>6. CASE m # n + 1 /\ u = t
      <4>1. k # 1 /\ k - 1 \in 1 .. Len(frames[t]) /\ frames[t][k - 1].ev = m
        BY <1>4, <1>7, <3>3, <3>6
      <4>2. QED
        BY <1>3, <3>1, <3>6, <4>1 DEF Pending
    <3>7. QED
      BY <3>4, <3>5, <3>6
  <2>2. n + 1 \in Pending'
    BY <1>3, <1>4, <1>7, <1>9 DEF Pending
  <2>3. ASSUME NEW m \in Pending PROVE m \in Pending'
    <3>1. m \in 1 .. n + 1
      BY <1>3, <2>3 DEF Pending
    <3>2. PICK u \in Threads : \E k \in 1 .. Len(frames[u]) : frames[u][k].ev = m
      BY <2>3 DEF Pending
    <3>3. PICK k \in 1 .. Len(frames[u]) : frames[u][k].ev = m
      BY <3>2
    <3>4. CASE u # t
      BY <1>7, <1>9, <3>1, <3>3, <3>4 DEF Pending, OthersKeep
    <3>5. CASE u = t
      <4>1. k + 1 \in 1 .. Len(frames'[t]) /\ frames'[t][k + 1].ev = m
        BY <1>4, <1>7, <3>3, <3>5
      <4>2. QED
        BY <1>9, <3>1, <4>1 DEF Pending
    <3>6. QED
      BY <3>4, <3>5
  <2>4. QED
    BY <2>1, <2>2, <2>3
<1>12. Pending \subseteq 1 .. n /\ n + 1 \notin Pending
  BY <1>3 DEF Pending
<1>13. held \subseteq live /\ live \subseteq Addrs /\ Null \notin live
  BY NullAssumption DEF History, EventsNamed
<1>14. EventsNamed'
  <2>1. events' \in Seq(Event)
    BY <1>5, <1>6, <1>8, AppendProperties
  <2>2. live' \subseteq Addrs /\ held' \subseteq live'
    BY <1>2, <1>13 DEF Malloc, Free
  <2>3. \A i \in 1 .. Len(stream') : stream'[i] \in 1 .. Len(events')
    BY <1>3, <1>6, <1>9 DEF History, EventsNamed
  <2>4. ASSUME NEW u \in Threads, NEW k \in 1 .. Len(frames'[u])
        PROVE  frames'[u][k].ev \in 1 .. Len(events') /\ events'[frames'[u][k].ev].thread = u
    <3>1. CASE u # t
      <4>1. frames'[u] = frames[u] /\ k \in 1 .. Len(frames[u])
        BY <1>7, <3>1 DEF OthersKeep
      <4>2. QED
        BY <1>3, <1>9, <1>10, <4>1
    <3>2. CASE u = t /\ k = 1
      BY <1>3, <1>5, <1>7, <1>9, <3>2
    <3>3. CASE u = t /\ k # 1
      <4>1. k - 1 \in 1 .. Len(frames[t]) /\ frames'[u][k] = frames[t][k - 1]
        BY <1>4, <1>7, <3>3
      <4>2. QED
        BY <1>3, <1>9, <1>10, <3>3, <4>1
    <3>4. QED
      BY <3>1, <3>2, <3>3
  <2>5. QED
    BY <1>6, <2>1, <2>2, <2>3, <2>4 DEF History, EventsNamed
<1>15. OneCallEach'
  <2> SUFFICES ASSUME NEW u \in Threads, NEW k \in 1 .. Len(frames'[u]),
                      NEW l \in 1 .. Len(frames'[u]), frames'[u][k].ev = frames'[u][l].ev
               PROVE  k = l
    BY DEF OneCallEach
  <2>1. CASE u # t
    BY <1>7, <2>1 DEF OthersKeep, History, OneCallEach
  <2>2. CASE u = t
    <3>1. \A i \in 2 .. Len(frames[t]) + 1 :
            /\ i - 1 \in 1 .. Len(frames[t]) /\ frames'[t][i] = frames[t][i - 1]
            /\ frames[t][i - 1].ev \in 1 .. n
      BY <1>4, <1>7, <1>10
    <3>2. frames'[t][1].ev = n + 1
      BY <1>7
    <3>3. k \in 1 .. Len(frames[t]) + 1 /\ l \in 1 .. Len(frames[t]) + 1
      BY <1>7, <2>2
    <3>4. CASE k = 1 \/ l = 1
      <4>1. \A i \in 2 .. Len(frames[t]) + 1 : frames'[t][i].ev # n + 1
        <5>1. \A i \in 2 .. Len(frames[t]) + 1 : frames'[t][i].ev \in 1 .. n
          BY <3>1
        <5>2. QED
          BY <1>3, <5>1
      <4>2. \A i \in 1 .. Len(frames[t]) + 1 : i # 1 => i \in 2 .. Len(frames[t]) + 1
        BY <1>4
      <4>3. QED
        BY <2>2, <3>2, <3>3, <3>4, <4>1, <4>2
    <3>5. CASE k # 1 /\ l # 1
      <4>1. frames[t][k - 1].ev = frames[t][l - 1].ev /\ k - 1 \in 1 .. Len(frames[t])
            /\ l - 1 \in 1 .. Len(frames[t])
        <5>1. k \in 2 .. Len(frames[t]) + 1 /\ l \in 2 .. Len(frames[t]) + 1
          BY <1>4, <3>3, <3>5
        <5>2. frames'[t][k] = frames[t][k - 1] /\ frames'[t][l] = frames[t][l - 1]
          BY <3>1, <5>1
        <5>3. QED
          BY <2>2, <3>1, <5>1, <5>2
      <4>2. k - 1 = l - 1
        BY <4>1 DEF History, OneCallEach
      <4>3. QED
        BY <3>3, <4>2, <1>4
    <3>6. QED
      BY <3>4, <3>5
  <2>3. QED
    BY <2>1, <2>2
<1>16. NotHeldYet'
  <2> SUFFICES ASSUME NEW m \in Pending', events'[m].op = "malloc", events'[m].addr # Null
               PROVE  events'[m].addr \in live' \ held' /\ LastAbout(events', m, events'[m].addr)
    BY DEF NotHeldYet
  <2>1. CASE m = n + 1
    BY <1>2, <1>5, <1>9, <1>13, <2>1 DEF Malloc
  <2>2. CASE m \in Pending
    <3>1. events'[m] = events[m] /\ m \in 1 .. n
      BY <1>9, <1>12, <2>2
    <3>2. events[m].addr \in live \ held /\ LastAbout(events, m, events[m].addr)
      BY <2>2, <3>1 DEF History, NotHeldYet
    <3>3. a # events[m].addr
      BY <1>2, <1>13, <3>2 DEF Malloc, Free
    <3>4. QED
      BY <1>2, <1>9, <3>1, <3>2, <3>3 DEF Malloc, Free
  <2>3. QED
    BY <1>11, <2>1, <2>2
<1>17. HeldReturned'
  <2> SUFFICES ASSUME NEW b \in held', NEW m \in Pending', LastAbout(events', m, b) PROVE FALSE
    BY DEF HeldReturned
  <2>1. b \in held /\ a # b
    BY <1>2, <1>13 DEF Malloc, Free
  <2>2. m \in Pending
    BY <1>9, <1>11, <2>1
  <2>3. QED
    BY <1>9, <1>12, <2>1, <2>2 DEF History, HeldReturned
<1>18. UndoneReturned'
  <2> SUFFICES ASSUME NEW m \in 1 .. n + 1, NEW f \in 1 .. n + 1, Undoes(events', f, m)
               PROVE  m \notin Pending'
    BY <1>9 DEF UndoneReturned
  <2>1. m < f
    BY DEF Undoes
  <2>2. m \in 1 .. n /\ m # n + 1
    BY <1>3, <2>1
  <2>3. CASE f = n + 1
    <3>1. op = "free" /\ a # Null /\ LastAbout(events, m, a)
      BY <1>9, <2>2, <2>3
    <3>2. a \in held
      BY <1>2, <3>1 DEF Free
    <3>3. QED
      BY <1>11, <2>2, <3>1, <3>2 DEF History, HeldReturned
  <2>4. CASE f \in 1 .. n
    BY <1>9, <1>11, <2>2, <2>4 DEF History, UndoneReturned
  <2>5. QED
    BY <1>3, <2>3, <2>4
<1>19. LastEventTrue'
  <2> SUFFICES ASSUME NEW b \in Addrs, NEW m \in 1 .. n + 1, LastAbout(events', m, b)
               PROVE  events'[m].op = "malloc" <=> b \in live'
    BY <1>9 DEF LastEventTrue
  <2>1. CASE m = n + 1
    BY <1>2, <1>5, <1>9, <2>1, NullAssumption DEF Malloc, Free
  <2>2. CASE m \in 1 .. n
    BY <1>2, <1>9, <2>2 DEF Malloc, Free, History, LastEventTrue
  <2>3. QED
    BY <1>3, <2>1, <2>2
<1>20. FreeFollowsItsMalloc'
  <2>1. \A i, j \in 1 .. Len(stream) : Undoes(events, stream[j], stream[i]) => i < j
    BY SentInOrder DEF History
  <2>2. \A i \in 1 .. Len(stream) : stream[i] \in 1 .. n
    BY DEF History, EventsNamed
  <2>3. \A i, j \in 1 .. Len(stream') : Undoes(events', stream'[j], stream'[i]) => i < j
    BY <1>6, <1>9, <2>1, <2>2
  <2>4. QED
    BY <2>3 DEF FreeFollowsItsMalloc, Undoes
<1>21. QED
  BY <1>14, <1>15, <1>16, <1>17, <1>18, <1>19, <1>20 DEF History
\* The hook goes on: what it sends is the event it reports.
LEMMA MoveKeepsHistory ==
  ASSUME Inv, History, NEW t \in Threads, NEW pc \in Places, frames[t] # <<>>,
         Goto(t, pc), UNCHANGED heap,
         stream' \in {stream, Append(stream, frames[t][1].ev)}
  PROVE  History'
<1>1. /\ OthersKeep(t)
      /\ Len(frames'[t]) = Len(frames[t])
      /\ frames'[t][1] = [ev |-> frames[t][1].ev, pc |-> pc]
      /\ \A i \in 2 .. Len(frames[t]) : frames'[t][i] = frames[t][i]
  BY GotoMoves DEF Inv, Types
<1>2. Len(frames[t]) \in Nat \ {0} /\ 1 \in 1 .. Len(frames[t])
  BY FirstFrame DEF Inv, Types
<1>3. \A u \in Threads :
        /\ Len(frames'[u]) = Len(frames[u])
        /\ \A k \in 1 .. Len(frames[u]) : frames'[u][k].ev = frames[u][k].ev
  <2>1. ASSUME NEW k \in 1 .. Len(frames[t]) PROVE frames'[t][k].ev = frames[t][k].ev
    <3>1. CASE k = 1
      BY <1>1, <3>1
    <3>2. CASE k # 1
      <4>1. k \in 2 .. Len(frames[t])
        BY <1>2, <3>2
      <4>2. QED
        BY <1>1, <4>1
    <3>3. QED
      BY <3>1, <3>2
  <2>2. QED
    BY <1>1, <2>1 DEF OthersKeep
<1>4. UNCHANGED <<events, live, held>>
  BY DEF heap
<1>5. Pending' = Pending
  <2>1. ASSUME NEW e
        PROVE  (\E u \in Threads : \E k \in 1 .. Len(frames'[u]) : frames'[u][k].ev = e) <=>
               (\E u \in Threads : \E k \in 1 .. Len(frames[u]) : frames[u][k].ev = e)
    BY <1>3
  <2>2. QED
    BY <1>4, <2>1 DEF Pending
<1>6. frames[t][1].ev \in Pending /\ frames[t][1].ev \in 1 .. Len(events)
  BY <1>2 DEF Pending, History, EventsNamed
<1>7. stream \in Seq(Nat) /\ Len(stream) \in Nat /\ \A i \in 1 .. Len(stream) : stream[i] \in 1 .. Len(events)
  BY LenProperties DEF History, EventsNamed
<1>8. \/ stream' = stream
      \/ /\ Len(stream') = Len(stream) + 1
         /\ stream'[Len(stream) + 1] = frames[t][1].ev
         /\ \A i \in 1 .. Len(stream) : stream'[i] = stream[i]
  BY <1>6, <1>7, AppendProperties
<1>9. EventsNamed'
  <2>1. stream' \in Seq(Nat)
    BY <1>6, <1>7, AppendProperties, SMTT(30)
  <2>2. \A i \in 1 .. Len(stream') : stream'[i] \in 1 .. Len(events)
    <3>1. CASE stream' = stream
      BY <1>7, <3>1
    <3>2. CASE stream' # stream
      <4> SUFFICES ASSUME NEW i \in 1 .. Len(stream') PROVE stream'[i] \in 1 .. Len(events)
        OBVIOUS
      <4>1. i \in 1 .. Len(stream) \/ i = Len(stream) + 1
        BY <1>7, <1>8, <3>2
      <4>2. QED
        BY <1>6, <1>7, <1>8, <3>2, <4>1
    <3>3. QED
      BY <3>1, <3>2
  <2>3. QED
    <3>1. ASSUME NEW u \in Threads, NEW k \in 1 .. Len(frames'[u])
          PROVE  frames'[u][k].ev \in 1 .. Len(events) /\ events[frames'[u][k].ev].thread = u
      <4>1. k \in 1 .. Len(frames[u]) /\ frames'[u][k].ev = frames[u][k].ev
        BY <1>3
      <4>2. QED
        BY <4>1 DEF History, EventsNamed
    <3>2. QED
      BY <1>4, <2>1, <2>2, <3>1 DEF History, EventsNamed
<1>10. OneCallEach'
  BY <1>3 DEF History, OneCallEach
<1>11. NotHeldYet' /\ HeldReturned' /\ UndoneReturned' /\ LastEventTrue'
  BY <1>4, <1>5 DEF History, NotHeldYet, HeldReturned, UndoneReturned, LastEventTrue
<1>12. FreeFollowsItsMalloc'
  <2>1. \A i, j \in 1 .. Len(stream) : Undoes(events, stream[j], stream[i]) => i < j
    BY SentInOrder DEF History
  <2> SUFFICES ASSUME NEW i \in 1 .. Len(stream'), NEW j \in 1 .. Len(stream'),
                      Undoes(events, stream'[j], stream'[i])
               PROVE  i < j
    BY <1>4 DEF FreeFollowsItsMalloc, Undoes
  <2>2. CASE stream' = stream
    BY <2>1, <2>2
  <2>3. CASE stream' # stream
    <3>1. /\ i \in 1 .. Len(stream) \/ i = Len(stream) + 1
          /\ j \in 1 .. Len(stream) \/ j = Len(stream) + 1
      BY <1>7, <1>8, <2>3
    <3>2. i # Len(stream) + 1
      <4> SUFFICES ASSUME i = Len(stream) + 1 PROVE FALSE
        OBVIOUS
      <4>1. stream'[i] = frames[t][1].ev
        BY <1>8, <2>3
      <4>2. CASE j = i
        BY <1>6, <4>1, <4>2 DEF Undoes
      <4>3. CASE j \in 1 .. Len(stream)
        <5>1. stream'[j] = stream[j] /\ stream[j] \in 1 .. Len(events)
          BY <1>7, <1>8, <2>3, <4>3
        <5>2. QED
          BY <1>6, <4>1, <5>1 DEF History, UndoneReturned
      <4>4. QED
        BY <3>1, <4>2, <4>3
    <3>3. CASE j = Len(stream) + 1
      BY <1>7, <3>1, <3>2, <3>3
    <3>4. CASE j \in 1 .. Len(stream)
      BY <1>8, <2>1, <2>3, <3>1, <3>2, <3>4
    <3>5. QED
      BY <3>1, <3>3, <3>4
  <2>4. QED
    BY <2>2, <2>3
<1>13. QED
  BY <1>9, <1>10, <1>11, <1>12 DEF History

\* A hook returns: what a malloc hook returns is its caller's from now on.
LEMMA ReturnKeepsHistory ==
  ASSUME Inv, History, NEW t \in Threads, frames[t] # <<>>, Return(t), UNCHANGED stream
  PROVE  History'
<1> DEFINE r == frames[t][1].ev
           n == Len(frames[t])
<1>1. n \in Nat \ {0} /\ 1 \in 1 .. n /\ Head(frames[t]) = frames[t][1]
  BY FirstFrame DEF Inv, Types
<1>2. /\ OthersKeep(t)
      /\ Len(frames'[t]) = n - 1
      /\ \A i \in 1 .. n - 1 : frames'[t][i] = frames[t][i + 1]
  BY ReturnPops DEF Inv, Types
<1>3. UNCHANGED <<events, live>>
  BY DEF Return
<1>4. held' = IF events[r].op = "malloc" THEN held \cup ({events[r].addr} \ {Null}) ELSE held
  BY <1>1 DEF Return
<1>5. r \in Pending /\ r \in 1 .. Len(events) /\ events[r].thread = t
  BY <1>1 DEF Pending, History, EventsNamed
<1>6. Pending' = Pending \ {r}
  <2>1. ASSUME NEW m \in Pending' PROVE m \in Pending \ {r}
    <3>1. m \in 1 .. Len(events)
      BY <1>3, <2>1 DEF Pending
    <3>2. PICK u \in Threads : \E k \in 1 .. Len(frames'[u]) : frames'[u][k].ev = m
      BY <2>1 DEF Pending
    <3>3. PICK k \in 1 .. Len(frames'[u]) : frames'[u][k].ev = m
      BY <3>2
    <3>4. CASE u # t
      <4>1. frames'[u] = frames[u]
        BY <1>2, <3>4 DEF OthersKeep
      <4>2. m \in Pending /\ events[m].thread = u
        BY <3>1, <3>3, <4>1 DEF Pending, History, EventsNamed
      <4>3. QED
        BY <1>5, <3>4, <4>2
    <3>5. CASE u = t
      <4>1. k \in 1 .. n - 1 /\ k + 1 \in 1 .. n /\ k + 1 # 1 /\ frames[t][k + 1].ev = m
        BY <1>1, <1>2, <3>3, <3>5
      <4>2. m # r
        BY <1>1, <4>1 DEF History, OneCallEach
      <4>3. QED
        BY <3>1, <4>1, <4>2 DEF Pending
    <3>6. QED
      BY <3>4, <3>5
  <2>2. ASSUME NEW m \in Pending \ {r} PROVE m \in Pending'
    <3>1. m \in 1 .. Len(events)
      BY <2>2 DEF Pending
    <3>2. PICK u \in Threads : \E k \in 1 .. Len(frames[u]) : frames[u][k].ev = m
      BY <2>2 DEF Pending
    <3>3. PICK k \in 1 .. Len(frames[u]) : frames[u][k].ev = m
      BY <3>2
    <3>4. CASE u # t
      BY <1>2, <1>3, <3>1, <3>3, <3>4 DEF Pending, OthersKeep
    <3>5. CASE u = t
      <4>1. k # 1
        BY <2>2, <3>3, <3>5
      <4>2. k - 1 \in 1 .. n - 1 /\ (k - 1) + 1 = k
        BY <1>1, <3>3, <3>5, <4>1
      <4>3. frames'[t][k - 1] = frames[t][k] /\ k - 1 \in 1 .. Len(frames'[t])
        BY <1>2, <4>2
      <4>4. QED
        BY <1>3, <3>1, <3>3, <3>5, <4>3 DEF Pending
    <3>6. QED
      BY <3>4, <3>5
  <2>3. QED
    BY <2>1, <2>2
<1>7. events[r].op = "malloc" /\ events[r].addr # Null =>
        events[r].addr \in live \ held /\ LastAbout(events, r, events[r].addr)
  BY <1>5 DEF History, NotHeldYet
<1>8. EventsNamed'
  <2>1. held' \subseteq live'
    BY <1>3, <1>4, <1>7 DEF History, EventsNamed
  <2>2. ASSUME NEW u \in Threads, NEW k \in 1 .. Len(frames'[u])
        PROVE  frames'[u][k].ev \in 1 .. Len(events) /\ events[frames'[u][k].ev].thread = u
    <3>1. CASE u # t
      BY <1>2, <3>1 DEF OthersKeep, History, EventsNamed
    <3>2. CASE u = t
      <4>1. k + 1 \in 1 .. n /\ frames'[t][k] = frames[t][k + 1]
        BY <1>1, <1>2, <3>2
      <4>2. QED
        BY <3>2, <4>1 DEF History, EventsNamed
    <3>3. QED
      BY <3>1, <3>2
  <2>3. QED
    BY <1>3, <2>1, <2>2 DEF History, EventsNamed
<1>9. OneCallEach'
  <2> SUFFICES ASSUME NEW u \in Threads, NEW k \in 1 .. Len(frames'[u]),
                      NEW l \in 1 .. Len(frames'[u]), frames'[u][k].ev = frames'[u][l].ev
               PROVE  k = l
    BY DEF OneCallEach
  <2>1. CASE u # t
    BY <1>2, <2>1 DEF OthersKeep, History, OneCallEach
  <2>2. CASE u = t
    <3>1. /\ k + 1 \in 1 .. n /\ frames'[t][k] = frames[t][k + 1]
          /\ l + 1 \in 1 .. n /\ frames'[t][l] = frames[t][l + 1]
      BY <1>1, <1>2, <2>2
    <3>2. k + 1 = l + 1
      BY <2>2, <3>1 DEF History, OneCallEach
    <3>3. QED
      BY <3>2
  <2>3. QED
    BY <2>1, <2>2
<1>10. NotHeldYet'
  <2> SUFFICES ASSUME NEW m \in Pending', events[m].op = "malloc", events[m].addr # Null
               PROVE  events[m].addr \in live \ held' /\ LastAbout(events, m, events[m].addr)
    BY <1>3 DEF NotHeldYet
  <2>1. m \in Pending /\ m # r /\ m \in 1 .. Len(events)
    BY <1>6 DEF Pending
  <2>2. events[m].addr \in live \ held /\ LastAbout(events, m, events[m].addr)
    BY <2>1 DEF History, NotHeldYet
  <2>3. CASE events[r].op = "malloc" /\ events[r].addr = events[m].addr
    BY <1>5, <1>7, <2>1, <2>2, <2>3 DEF LastAbout
  <2>4. CASE ~(events[r].op = "malloc" /\ events[r].addr = events[m].addr)
    BY <1>4, <2>2, <2>4
  <2>5. QED
    BY <2>3, <2>4
<1>11. HeldReturned'
  <2> SUFFICES ASSUME NEW a \in held', NEW m \in Pending', LastAbout(events, m, a) PROVE FALSE
    BY <1>3 DEF HeldReturned
  <2>1. m \in Pending /\ m # r
    BY <1>6
  <2>2. CASE a \in held
    BY <2>1, <2>2 DEF History, HeldReturned
  <2>3. CASE a \notin held
    <3>1. LastAbout(events, r, a)
      BY <1>4, <1>7, <2>3
    <3>2. QED
      BY <2>1, <3>1 DEF LastAbout
  <2>4. QED
    BY <2>2, <2>3
<1>12. UndoneReturned' /\ LastEventTrue'
  BY <1>3, <1>6 DEF History, UndoneReturned, LastEventTrue
<1>13. FreeFollowsItsMalloc'
  BY <1>3 DEF History, FreeFollowsItsMalloc
<1>14. QED
  BY <1>8, <1>9, <1>10, <1>11, <1>12, <1>13 DEF History

\* Every step keeps what the events say.
LEMMA HistoryKept == Inv /\ History /\ [Next]_vars => History'
<1> SUFFICES ASSUME Inv, History, [Next]_vars PROVE History'
  OBVIOUS
<1> USE DEF heap, wire
<1>1. CASE GuiRead \/ GuiDisconnect \/ UNCHANGED vars
  <2>1. UNCHANGED <<events, live, held, frames, stream>>
    BY <1>1 DEF GuiRead, GuiDisconnect, vars
  <2>2. Pending' = Pending
    BY <2>1 DEF Pending
  <2>3. EventsNamed' /\ OneCallEach' /\ FreeFollowsItsMalloc'
    <3>1. EventsNamed'
      BY <2>1 DEF History, EventsNamed
    <3>2. OneCallEach'
      BY <2>1 DEF History, OneCallEach
    <3>3. FreeFollowsItsMalloc'
      BY <2>1 DEF History, FreeFollowsItsMalloc
    <3>4. QED
      BY <3>1, <3>2, <3>3
  <2>4. NotHeldYet' /\ HeldReturned' /\ UndoneReturned' /\ LastEventTrue'
    BY <2>1, <2>2 DEF History, NotHeldYet, HeldReturned, UndoneReturned, LastEventTrue
  <2>5. QED
    BY <2>3, <2>4 DEF History
<1>2. ASSUME NEW t \in Threads, Call(t) PROVE History'
  BY <1>2, CallKeepsHistory
<1>3. ASSUME NEW t \in Threads, HookStep(t) PROVE History'
  <2>1. \A pc : At(t, pc) => frames[t] # <<>> /\ Head(frames[t]) = frames[t][1]
    BY FirstFrame DEF At, Inv, Types
  <2>2. CASE \E pc \in Places : Goto(t, pc) /\ frames[t] # <<>> /\ UNCHANGED heap /\ UNCHANGED stream
    BY <2>2, MoveKeepsHistory
  <2>3. CASE Return(t) /\ frames[t] # <<>> /\ UNCHANGED stream
    BY <2>3, ReturnKeepsHistory
  <2>4. CASE Send(t)
    <3>1. retBuf = frames[t][1].ev /\ frames[t] # <<>>
      BY <2>1, <2>4 DEF Send, Inv, BufferIntact
    <3>2. QED
      BY <2>4, <3>1, MoveKeepsHistory DEF Send, Places, Reporting
  <2>5. CASE TestFlag(t)
    BY <2>1, <2>2, <2>3, <2>5 DEF TestFlag, Places
  <2>6. CASE ClearFlag(t) \/ EndTrace(t) \/ EnterSection(t) \/ LeaveSection(t)
    <3>1. \E pc \in Places : Goto(t, pc)
      BY <2>6 DEF ClearFlag, EndTrace, EnterSection, LeaveSection, Places, Reporting
    <3>2. frames[t] # <<>> /\ UNCHANGED heap /\ UNCHANGED stream
      BY <2>1, <2>6 DEF ClearFlag, EndTrace, EnterSection, LeaveSection
    <3>3. QED
      BY <2>2, <3>1, <3>2
  <2>7. CASE Encode(t)
    <3>1. \E pc \in Places : Goto(t, pc)
      BY <2>7 DEF Encode, Places, Reporting
    <3>2. QED
      BY <2>1, <2>2, <2>7, <3>1 DEF Encode
  <2>8. CASE RestoreFlag(t)
    BY <2>1, <2>3, <2>8 DEF RestoreFlag
  <2>9. QED
    BY <1>3, <2>4, <2>5, <2>6, <2>7, <2>8 DEF HookStep
<1>4. QED
  BY <1>1, <1>2, <1>3 DEF Next

\* The events and what is being reported agree in every reachable state.
THEOREM HistoryInvariant == Spec => [](Inv /\ History)
<1>1. Init => Inv /\ History
  BY InitInv, InitHistory
<1>2. Inv /\ History /\ [Next]_vars => (Inv /\ History)'
  BY InvKept, HistoryKept
<1>3. QED
  BY <1>1, <1>2, PTL DEF Spec

\* The record of a free never overtakes that of the malloc it undoes, for any
\* number of threads, any nesting and any operation that is not reported.
THEOREM FreesFollow == Spec => []FreeFollowsItsMalloc
<1>1. History => FreeFollowsItsMalloc
  BY DEF History
<1>2. QED
  BY <1>1, HistoryInvariant, PTL
-----------------------------------------------------------------------------
(* One thread at work                                                      *)

ToSend == {"test", "clear", "trace", "enter", "encode", "send"}

\* The call of t that its own code made.
Outermost(t) == frames[t][Len(frames[t])]

\* Events are sent in the order they took effect.
Rising ==
  \A i, j \in 1 .. Len(stream) : i < j => stream[j] - stream[i] >= j - i

\* A nested call finds the flag down: it has nothing to do but return.
Shallow(t) ==
  Len(frames[t]) <= 2 /\ (Len(frames[t]) > 1 => frames[t][1].pc = "test")

Silent == ~shouldHook

FlagDown(t) == Len(frames[t]) > 1 \/ Inside(t, Reporting) => Silent

QuietIn(t) == Shallow(t) /\ FlagDown(t)

NestedQuiet == \A t \in Threads : QuietIn(t)

\* What is still to be sent took effect after all that has been sent.
SendsLatest ==
  \A t \in Threads : frames[t] # <<>> /\ Outermost(t).pc \in ToSend =>
    \A i \in 1 .. Len(stream) : stream[i] < Outermost(t).ev

Solo == Rising /\ NestedQuiet /\ SendsLatest

\* How deep the calls of a thread nest, in numbers.
LEMMA Depths ==
  /\ \A n \in Nat \ {0} : ~(n > 1) => n = 1
  /\ \A n \in Nat \ {0} : n <= 2 => n - 1 <= 2 /\ ~(n - 1 > 1)
OBVIOUS

\* With one thread at work, the others have no call in progress.
LEMMA OthersIdle ==
  Inv /\ History /\ SingleThreaded =>
    \A t, u \in Threads : frames[t] # <<>> /\ frames[u] # <<>> => u = t
<1> SUFFICES ASSUME Inv, History, SingleThreaded, NEW t \in Threads, NEW u \in Threads,
                    frames[t] # <<>>, frames[u] # <<>>
             PROVE  u = t
  OBVIOUS
<1>1. 1 \in 1 .. Len(frames[t]) /\ 1 \in 1 .. Len(frames[u])
  BY FirstFrame DEF Inv, Types
<1>2. /\ events[frames[t][1].ev].thread = t /\ frames[t][1].ev \in 1 .. Len(events)
      /\ events[frames[u][1].ev].thread = u /\ frames[u][1].ev \in 1 .. Len(events)
  BY <1>1 DEF History, EventsNamed
<1>3. QED
  BY <1>2 DEF SingleThreaded

LEMMA OthersStayIdle ==
  ASSUME Inv', History', SingleThreaded'
  PROVE  \A t, u \in Threads : frames'[t] # <<>> /\ frames'[u] # <<>> => u = t
<1>1. (Inv /\ History /\ SingleThreaded =>
         \A t, u \in Threads : frames[t] # <<>> /\ frames[u] # <<>> => u = t)'
  BY OthersIdle, PTL
<1>2. QED
  BY <1>1

\* A thread at rest is quiet.
LEMMA IdleQuiet ==
  \A t \in Threads : frames[t] = <<>> => QuietIn(t)
<1> SUFFICES ASSUME NEW t \in Threads, frames[t] = <<>> PROVE QuietIn(t)
  OBVIOUS
<1>1. Shallow(t)
  BY DEF Shallow
<1>2. ~(Len(frames[t]) > 1) /\ ~Inside(t, Reporting)
  BY DEF Inside
<1>3. QED
  BY <1>1, <1>2 DEF QuietIn, FlagDown

LEMMA IdleStaysQuiet ==
  \A t \in Threads : frames'[t] = <<>> => QuietIn(t)'
<1>1. (\A t \in Threads : frames[t] = <<>> => QuietIn(t))'
  BY IdleQuiet, PTL
<1>2. QED
  BY <1>1

LEMMA InitSolo == Init => Solo
<1> SUFFICES ASSUME Init PROVE Solo
  OBVIOUS
<1> USE DEF Init
<1>1. Rising
  BY DEF Rising
<1>2. NestedQuiet
  BY IdleQuiet DEF NestedQuiet
<1>3. SendsLatest
  BY DEF SendsLatest
<1>4. QED
  BY <1>1, <1>2, <1>3 DEF Solo

\* A new call: the outermost one is of the latest event, a nested one finds the
\* flag that the stack walk it comes from has put down.
LEMMA CallKeepsSolo ==
  ASSUME Inv, History, Inv', History', SingleThreaded', Solo, NEW t \in Threads, Call(t)
  PROVE  Solo'
<1>1. PICK op, a : Enter(t, op, a) /\ MayCall(t)
  BY DEF Call, Malloc, Free
<1> DEFINE n == Len(frames[t])
<1>2. /\ frames'[t] # <<>> /\ Len(frames'[t]) = n + 1
      /\ frames'[t][1] = [ev |-> Len(events) + 1, pc |-> "test"]
      /\ \A i \in 2 .. n + 1 : frames'[t][i] = frames[t][i - 1]
  BY <1>1, EnterPushes DEF Inv, MayCall
<1>3. frames[t] \in Seq(Frame) /\ n \in Nat
  BY LenProperties DEF Inv, Types, Calls
<1>4. UNCHANGED stream /\ (Silent => Silent')
  BY <1>1 DEF Enter, wire, Silent
<1>5. \A u \in Threads : frames'[u] # <<>> => u = t
  BY <1>2, OthersStayIdle
<1>6. CASE frames[t] = <<>>
  <2>1. n = 0 /\ Outermost(t)' = [ev |-> Len(events) + 1, pc |-> "test"]
    BY <1>2, <1>6 DEF Outermost
  <2>2. \A i \in 1 .. Len(stream) : stream[i] \in 1 .. Len(events)
    BY DEF History, EventsNamed
  <2>3. Len(events) \in Nat
    BY BoundsAssumption DEF Inv, Types
  <2>4. SendsLatest'
    BY <1>4, <1>5, <2>1, <2>2, <2>3 DEF SendsLatest
  <2>5. NestedQuiet'
    <3>1. Len(frames'[t]) = 1 /\ frames'[t][1].pc \notin Reporting
      BY <1>2, <2>1 DEF Reporting
    <3>2. Shallow(t)' /\ ~Inside(t, Reporting)' /\ ~(Len(frames'[t]) > 1)
      BY <3>1 DEF Shallow, Inside
    <3>3. QuietIn(t)'
      BY <3>2 DEF QuietIn, FlagDown
    <3>4. QED
      BY <1>5, <3>3, IdleStaysQuiet DEF NestedQuiet
  <2>6. QED
    BY <1>4, <2>4, <2>5 DEF Solo, Rising
<1>7. CASE frames[t] # <<>>
  <2>1. n \in Nat \ {0} /\ frames[t][1].pc = "trace"
    BY <1>1, <1>7, FirstFrame DEF MayCall, At, Inv, Types
  <2>2. Silent /\ n = 1
    <3>1. Shallow(t) /\ FlagDown(t)
      BY DEF Solo, NestedQuiet, QuietIn
    <3>2. n = 1
      <4>1. ~(n > 1)
        BY <2>1, <3>1 DEF Shallow
      <4>2. QED
        BY <2>1, <4>1, Depths
    <3>3. Inside(t, Reporting)
      BY <1>7, <2>1 DEF Inside, Reporting
    <3>4. QED
      BY <3>1, <3>2, <3>3 DEF FlagDown
  <2>3. Outermost(t)' = Outermost(t)
    BY <1>2, <2>1 DEF Outermost
  <2>4. SendsLatest'
    BY <1>4, <1>5, <1>7, <2>3 DEF Solo, SendsLatest
  <2>5. NestedQuiet'
    <3>1. Len(frames'[t]) = 2 /\ frames'[t][1].pc = "test" /\ Silent'
      BY <1>2, <1>4, <2>2
    <3>2. Shallow(t)'
      BY <3>1 DEF Shallow
    <3>3. QuietIn(t)'
      BY <3>1, <3>2 DEF QuietIn, FlagDown
    <3>4. QED
      BY <1>5, <3>3, IdleStaysQuiet DEF NestedQuiet
  <2>6. QED
    BY <1>4, <2>4, <2>5 DEF Solo, Rising
<1>8. QED
  BY <1>6, <1>7

\* The outermost call goes on.
LEMMA MoveKeepsSolo ==
  ASSUME Inv, History, SingleThreaded, Solo, NEW t \in Threads,
         NEW from \in Places, NEW pc \in Places, At(t, from), Goto(t, pc),
         Len(frames[t]) = 1, pc \in Reporting => Silent',
         \/ UNCHANGED stream /\ (pc \in ToSend => from \in ToSend)
         \/ /\ from \in ToSend /\ pc \notin ToSend
            /\ stream' = Append(stream, frames[t][1].ev)
  PROVE  Solo'
<1>1. frames[t] # <<>> /\ frames[t][1].pc = from /\ 1 \in 1 .. Len(frames[t])
  BY FirstFrame DEF At, Inv, Types
<1>2. /\ frames' \in Calls
      /\ OthersKeep(t)
      /\ frames'[t] # <<>> /\ Len(frames'[t]) = 1
      /\ frames'[t][1] = [ev |-> frames[t][1].ev, pc |-> pc]
  BY <1>1, GotoMoves DEF Inv, Types
<1>3. \A u \in Threads : u # t => frames'[u] = <<>>
  BY <1>1, <1>2, OthersIdle DEF OthersKeep
<1>4. Outermost(t) = frames[t][1] /\ Outermost(t)' = frames'[t][1]
  BY <1>2 DEF Outermost
<1>5. NestedQuiet'
  <2>1. Shallow(t)' /\ ~(Len(frames'[t]) > 1)
    BY <1>2 DEF Shallow
  <2>2. Inside(t, Reporting)' <=> pc \in Reporting
    BY <1>2 DEF Inside
  <2>3. QuietIn(t)'
    BY <2>1, <2>2 DEF QuietIn, FlagDown
  <2>4. QED
    BY <1>3, <2>3, IdleStaysQuiet DEF NestedQuiet
<1>6. stream \in Seq(Nat) /\ Len(stream) \in Nat /\ \A i \in 1 .. Len(stream) : stream[i] \in Nat
  BY LenProperties, ElementOfSeq DEF History, EventsNamed
<1>7. CASE UNCHANGED stream /\ (pc \in ToSend => from \in ToSend)
  <2>1. SendsLatest'
    <3> SUFFICES ASSUME NEW u \in Threads, frames'[u] # <<>>, Outermost(u)'.pc \in ToSend
                 PROVE  \A i \in 1 .. Len(stream) : stream[i] < Outermost(u)'.ev
      BY <1>7 DEF SendsLatest
    <3>1. u = t
      BY <1>3
    <3>2. Outermost(t).pc \in ToSend /\ Outermost(u)'.ev = Outermost(t).ev
      BY <1>1, <1>2, <1>4, <1>7, <3>1
    <3>3. QED
      BY <1>1, <3>2 DEF Solo, SendsLatest
  <2>2. QED
    BY <1>5, <1>7, <2>1 DEF Solo, Rising
<1>8. CASE /\ from \in ToSend /\ pc \notin ToSend
           /\ stream' = Append(stream, frames[t][1].ev)
  <2>1. \A i \in 1 .. Len(stream) : stream[i] < frames[t][1].ev
    BY <1>1, <1>4, <1>8 DEF Solo, SendsLatest
  <2>2. frames[t][1].ev \in Nat
    BY <1>1 DEF History, EventsNamed
  <2>3. /\ Len(stream') = Len(stream) + 1
        /\ stream'[Len(stream) + 1] = frames[t][1].ev
        /\ \A i \in 1 .. Len(stream) : stream'[i] = stream[i]
    BY <1>6, <1>8, <2>2, AppendProperties
  <2>4. Rising'
    <3> SUFFICES ASSUME NEW i \in 1 .. Len(stream'), NEW j \in 1 .. Len(stream'), i < j
                 PROVE  stream'[j] - stream'[i] >= j - i
      BY DEF Rising
    <3>1. i \in 1 .. Len(stream) /\ stream'[i] = stream[i] /\ stream[i] \in Nat
      BY <1>6, <2>3
    <3>2. CASE j \in 1 .. Len(stream)
      BY <2>3, <3>1, <3>2 DEF Solo, Rising
    <3>3. CASE j = Len(stream) + 1
      <4> DEFINE l == Len(stream)
      <4>1. l \in 1 .. Len(stream) /\ stream[l] \in Nat
        BY <1>6, <3>1
      <4>2. stream[l] - stream[i] >= l - i
        BY <1>6, <3>1, <4>1 DEF Solo, Rising
      <4>3. stream'[j] >= stream[l] + 1
        BY <2>1, <2>2, <2>3, <3>3, <4>1
      <4>4. stream'[j] \in Nat
        BY <2>2, <2>3, <3>3, Zenon
      <4>5. \A x, y, z, p, q \in Nat : x - y >= p - q /\ z >= x + 1 => z - y >= (p + 1) - q
        OBVIOUS
      <4>6. i \in Nat /\ l \in Nat /\ j = l + 1
        BY <1>6, <3>1, <3>3
      <4>7. stream'[j] - stream[i] >= (l + 1) - i
        <5> HIDE DEF l
        <5> QED
          BY <3>1, <4>1, <4>2, <4>3, <4>4, <4>5, <4>6, Zenon
      <4>8. QED
        BY <3>1, <4>6, <4>7, Zenon
    <3>4. j \in 1 .. Len(stream) \/ j = Len(stream) + 1
      BY <1>6, <2>3
    <3>5. QED
      BY <3>2, <3>3, <3>4
  <2>5. SendsLatest'
    <3> SUFFICES ASSUME NEW u \in Threads, frames'[u] # <<>>, Outermost(u)'.pc \in ToSend
                 PROVE  FALSE
      BY DEF SendsLatest
    <3>1. u = t
      BY <1>3
    <3>2. QED
      BY <1>2, <1>4, <1>8, <3>1
  <2>6. QED
    BY <1>5, <2>4, <2>5 DEF Solo
<1>9. QED
  BY <1>7, <1>8

\* A call returns; if it was a nested one, its stack walk still has the flag down.
LEMMA ReturnKeepsSolo ==
  ASSUME Inv, History, SingleThreaded, Solo, NEW t \in Threads, frames[t] # <<>>,
         Return(t), UNCHANGED stream, Len(frames[t]) > 1 => Silent'
  PROVE  Solo'
<1> DEFINE n == Len(frames[t])
<1>1. n \in Nat \ {0}
  BY FirstFrame DEF Inv, Types
<1>2. /\ frames' \in Calls
      /\ OthersKeep(t)
      /\ Len(frames'[t]) = n - 1
      /\ \A i \in 1 .. n - 1 : frames'[t][i] = frames[t][i + 1]
  BY ReturnPops DEF Inv, Types
<1>3. \A u \in Threads : u # t => frames'[u] = <<>>
  BY <1>2, OthersIdle DEF OthersKeep
<1>4. frames'[t] # <<>> => n > 1
  BY <1>1, <1>2, FirstFrame
<1>5. n > 1 => Outermost(t)' = Outermost(t)
  BY <1>1, <1>2 DEF Outermost
<1>6. Len(frames'[t]) <= 2 /\ ~(Len(frames'[t]) > 1)
  <2>1. Shallow(t)
    BY DEF Solo, NestedQuiet, QuietIn
  <2>2. n <= 2
    BY <2>1 DEF Shallow
  <2>3. QED
    BY <1>1, <1>2, <2>2, Depths
<1>7. NestedQuiet'
  <2>1. Shallow(t)' /\ ~(Len(frames'[t]) > 1)
    BY <1>6 DEF Shallow
  <2>2. Inside(t, Reporting)' => Silent'
    BY <1>4 DEF Inside
  <2>3. QuietIn(t)'
    BY <2>1, <2>2 DEF QuietIn, FlagDown
  <2>4. QED
    BY <1>3, <2>3, IdleStaysQuiet DEF NestedQuiet
<1>8. SendsLatest'
  <2> SUFFICES ASSUME NEW u \in Threads, frames'[u] # <<>>, Outermost(u)'.pc \in ToSend
               PROVE  \A i \in 1 .. Len(stream) : stream[i] < Outermost(u)'.ev
    BY DEF SendsLatest
  <2>1. u = t /\ Outermost(u)' = Outermost(t)
    BY <1>3, <1>4, <1>5
  <2>2. QED
    BY <2>1 DEF Solo, SendsLatest
<1>9. QED
  BY <1>7, <1>8 DEF Solo, Rising

\* Every step of the one thread keeps the order of what it sends.
LEMMA SoloKept ==
  ASSUME Inv, History, Inv', History', SingleThreaded => Solo, [Next]_vars
  PROVE  (SingleThreaded => Solo)'
<1> SUFFICES ASSUME SingleThreaded' PROVE Solo'
  OBVIOUS
<1> USE DEF heap, wire
<1>1. SingleThreaded
  <2>1. \/ events' = events
        \/ \E e : events' = Append(events, e)
    BY DEF Next, GuiRead, GuiDisconnect, vars, Call, Malloc, Free, Enter, HookStep, TestFlag,
       ClearFlag, EndTrace, EnterSection, Encode, Send, LeaveSection, RestoreFlag, Return
  <2>2. CASE events' = events
    BY <2>2 DEF SingleThreaded
  <2>3. ASSUME NEW e, events' = Append(events, e) PROVE SingleThreaded
    <3>1. events \in Seq(Event) /\ Len(events) \in Nat
      BY LenProperties DEF History, EventsNamed
    <3>2. /\ Len(events') = Len(events) + 1
          /\ \A i \in 1 .. Len(events) : events'[i] = events[i]
      BY <2>3, <3>1, NewEvent
    <3>3. QED
      BY <3>1, <3>2 DEF SingleThreaded
  <2>4. QED
    BY <2>1, <2>2, <2>3
<1>2. Solo
  BY <1>1
<1>3. CASE GuiRead \/ GuiDisconnect \/ UNCHANGED vars
  BY <1>2, <1>3 DEF GuiRead, GuiDisconnect, vars, Solo, Rising, NestedQuiet, QuietIn,
     Shallow, FlagDown, Silent, Inside, SendsLatest, Outermost
<1>4. ASSUME NEW t \in Threads, Call(t) PROVE Solo'
  BY <1>2, <1>4, CallKeepsSolo
<1>5. ASSUME NEW t \in Threads, HookStep(t) PROVE Solo'
  <2>1. \A pc : At(t, pc) => /\ frames[t] # <<>> /\ frames[t][1].pc = pc
                             /\ Head(frames[t]) = frames[t][1]
                             /\ Len(frames[t]) \in Nat \ {0}
    BY FirstFrame DEF At, Inv, Types
  <2>2. ASSUME NEW pc \in Reporting \cup {"clear"}, At(t, pc) PROVE Len(frames[t]) = 1
    <3>1. frames[t][1].pc # "test"
      BY <2>1, <2>2 DEF Reporting
    <3>2. Shallow(t) /\ Len(frames[t]) \in Nat \ {0}
      BY <1>2, <2>1, <2>2 DEF Solo, NestedQuiet, QuietIn
    <3>3. ~(Len(frames[t]) > 1)
      BY <3>1, <3>2 DEF Shallow
    <3>4. QED
      BY <3>2, <3>3, Depths
  <2>3. ASSUME NEW pc \in Reporting, At(t, pc) PROVE Silent
    BY <1>2, <2>1, <2>3 DEF Solo, NestedQuiet, QuietIn, FlagDown, Inside
  <2> USE DEF Places, Reporting, ToSend
  <2>4. CASE TestFlag(t)
    <3>1. CASE ~Silent
      <4>1. Len(frames[t]) = 1
        <5>1. FlagDown(t) /\ Len(frames[t]) \in Nat \ {0}
          BY <1>2, <2>1, <2>4 DEF TestFlag, Solo, NestedQuiet, QuietIn
        <5>2. ~(Len(frames[t]) > 1)
          BY <3>1, <5>1 DEF FlagDown
        <5>3. QED
          BY <5>1, <5>2, Depths
      <4>2. At(t, "test") /\ Goto(t, "clear") /\ UNCHANGED stream
        BY <2>4, <3>1 DEF TestFlag, Silent
      <4>3. QED
        BY <1>1, <1>2, <4>1, <4>2, MoveKeepsSolo
    <3>2. CASE Silent
      <4>1. Return(t) /\ frames[t] # <<>> /\ UNCHANGED stream /\ Silent'
        BY <2>1, <2>4, <3>2 DEF TestFlag, Silent
      <4>2. QED
        BY <1>1, <1>2, <4>1, ReturnKeepsSolo
    <3>3. QED
      BY <3>1, <3>2
  <2>5. CASE ClearFlag(t)
    <3>1. At(t, "clear") /\ Goto(t, "trace") /\ UNCHANGED stream /\ Silent'
      BY <2>5 DEF ClearFlag, Silent
    <3>2. QED
      BY <1>1, <1>2, <2>2, <3>1, MoveKeepsSolo
  <2>6. CASE EndTrace(t)
    <3>1. At(t, "trace") /\ Goto(t, "enter") /\ UNCHANGED stream /\ (Silent => Silent')
      BY <2>6 DEF EndTrace, Silent
    <3>2. QED
      BY <1>1, <1>2, <2>2, <2>3, <3>1, MoveKeepsSolo
  <2>7. CASE EnterSection(t)
    <3>1. At(t, "enter") /\ Goto(t, "encode") /\ UNCHANGED stream /\ (Silent => Silent')
      BY <2>7 DEF EnterSection, Silent
    <3>2. QED
      BY <1>1, <1>2, <2>2, <2>3, <3>1, MoveKeepsSolo
  <2>8. CASE Encode(t)
    <3>1. /\ At(t, "encode") /\ UNCHANGED stream /\ (Silent => Silent')
          /\ Goto(t, "send") \/ Goto(t, "leave")
      BY <2>8 DEF Encode, Silent
    <3>2. Len(frames[t]) = 1 /\ Silent'
      BY <2>2, <2>3, <3>1
    <3>3. CASE Goto(t, "send")
      BY <1>1, <1>2, <3>1, <3>2, <3>3, MoveKeepsSolo
    <3>4. CASE Goto(t, "leave")
      BY <1>1, <1>2, <3>1, <3>2, <3>4, MoveKeepsSolo
    <3>5. QED
      BY <3>1, <3>3, <3>4
  <2>9. CASE Send(t)
    <3>1. /\ At(t, "send") /\ Goto(t, "leave") /\ (Silent => Silent')
          /\ UNCHANGED stream \/ stream' = Append(stream, frames[t][1].ev)
      BY <2>1, <2>9 DEF Send, Inv, BufferIntact, Silent
    <3>2. Len(frames[t]) = 1 /\ Silent'
      BY <2>2, <2>3, <3>1
    <3>3. CASE UNCHANGED stream
      BY <1>1, <1>2, <3>1, <3>2, <3>3, MoveKeepsSolo
    <3>4. CASE stream' = Append(stream, frames[t][1].ev)
      BY <1>1, <1>2, <3>1, <3>2, <3>4, MoveKeepsSolo
    <3>5. QED
      BY <3>1, <3>3, <3>4
  <2>10. CASE LeaveSection(t)
    <3>1. At(t, "leave") /\ Goto(t, "restore") /\ UNCHANGED stream /\ (Silent => Silent')
      BY <2>10 DEF LeaveSection, Silent
    <3>2. QED
      BY <1>1, <1>2, <2>2, <2>3, <3>1, MoveKeepsSolo
  <2>11. CASE RestoreFlag(t)
    <3>1. At(t, "restore") /\ Return(t) /\ UNCHANGED stream
      BY <2>11 DEF RestoreFlag
    <3>2. Len(frames[t]) = 1
      BY <2>2, <3>1
    <3>3. ~(Len(frames[t]) > 1) /\ frames[t] # <<>>
      BY <2>1, <3>1, <3>2
    <3>4. QED
      BY <1>1, <1>2, <3>1, <3>3, ReturnKeepsSolo
  <2>12. QED
    BY <1>5, <2>4, <2>5, <2>6, <2>7, <2>8, <2>9, <2>10, <2>11 DEF HookStep
<1>6. QED
  BY <1>3, <1>4, <1>5 DEF Next

\* When as many records were sent as operations ran, record i is of operation i.
LEMMA AllSentInOrder ==
  ASSUME History, Rising, Len(stream) = Len(events), NEW i \in 1 .. Len(stream)
  PROVE  stream[i] = i
<1> DEFINE n == Len(stream)
<1>1. n \in Nat /\ 1 \in 1 .. n /\ n \in 1 .. n
  BY LenProperties DEF History, EventsNamed
<1>2. stream[1] \in 1 .. n /\ stream[n] \in 1 .. n /\ stream[i] \in 1 .. n
  BY <1>1 DEF History, EventsNamed
<1>3. stream[i] >= i
  <2>1. CASE i = 1
    BY <1>2, <2>1
  <2>2. CASE i # 1
    <3>1. stream[i] - stream[1] >= i - 1
      BY <1>1, <2>2 DEF Rising
    <3>2. QED
      BY <1>1, <1>2, <3>1
  <2>3. QED
    BY <2>1, <2>2
<1>4. stream[i] <= i
  <2>1. CASE i = n
    BY <1>2, <2>1
  <2>2. CASE i # n
    <3>1. stream[n] - stream[i] >= n - i
      BY <1>1, <2>2 DEF Rising
    <3>2. QED
      BY <1>1, <1>2, <3>1
  <2>3. QED
    BY <2>1, <2>2
<1>5. QED
  BY <1>1, <1>2, <1>3, <1>4

\* With one thread at work and every operation reported, the last record about
\* an address tells whether it is allocated, whatever the stack walks allocate.
THEOREM LastReportsTrue == Spec => []LastReportTrue
<1>1. Inv /\ History /\ (SingleThreaded => Solo) /\ [Next]_vars
        => (Inv /\ History /\ (SingleThreaded => Solo))'
  BY InvKept, HistoryKept, SoloKept
<1>2. Init => Inv /\ History /\ (SingleThreaded => Solo)
  BY InitInv, InitHistory, InitSolo
<1>3. Inv /\ History /\ (SingleThreaded => Solo) => LastReportTrue
  <2> SUFFICES ASSUME History, Solo, Len(stream) = Len(events),
                      NEW i \in 1 .. Len(stream), events[stream[i]].addr # Null,
                      \A j \in i + 1 .. Len(stream) :
                        events[stream[j]].addr # events[stream[i]].addr
               PROVE  events[stream[i]].op = "malloc" <=> events[stream[i]].addr \in live
    BY DEF LastReportTrue
  <2>1. \A j \in 1 .. Len(stream) : stream[j] = j
    BY AllSentInOrder DEF Solo
  <2>2. LastAbout(events, i, events[i].addr)
    BY <2>1 DEF LastAbout
  <2>3. events[i] \in Event
    BY DEF History, EventsNamed
  <2>4. events[i].addr \in Addrs
    BY <2>1, <2>3 DEF Event
  <2>5. QED
    BY <2>1, <2>2, <2>4 DEF History, LastEventTrue
<1>4. QED
  BY <1>1, <1>2, <1>3, PTL DEF Spec
=============================================================================
