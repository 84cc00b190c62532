-------------------------- MODULE ConnectionProofs --------------------------
(***************************************************************************)
(* Theorems about what surrounds a connection of the GUI: ConnectButton,   *)
(* for any number of connections, whenever they end, and TupleQueue, for   *)
(* every set of tuples, every bound and any number of calls of shutdown(). *)
(***************************************************************************)
EXTENDS ConnectButton, TupleQueue, SequenceTheorems, TLAPS

-----------------------------------------------------------------------------
(* ConnectButton: one reader at a time                                     *)

\* Where a worker is once it has cleared the handler.
Past == {"test", "rename", "done"}

\* Every connection but the last has cleared the handler; the next ones are new.
OthersSettled ==
  \A c \in Connections :
    /\ c < opened => worker[c] \in Past
    /\ c > opened => worker[c] = "none" /\ socket[c] = "none"

\* While connect() runs, the handler is null until it is stored and the last
\* worker new until it is executed; afterwards the handler is that worker until
\* the worker clears it.
LastFollowed ==
  /\ edt = "open" => theSocketHandler = None
  /\ edt = "store" => opened > 0 /\ theSocketHandler = None /\ worker[opened] = "none"
  /\ edt = "execute" => opened > 0 /\ theSocketHandler = opened /\ worker[opened] = "none"
  /\ (edt \in {"idle", "open", "rename"} /\ opened > 0) =>
       /\ worker[opened] # "none"
       /\ IF worker[opened] \in Past THEN theSocketHandler = None ELSE theSocketHandler = opened

ButtonInv == ButtonTypeOK /\ OthersSettled /\ LastFollowed

\* There is no connection at the start.
LEMMA ButtonInitInv == ButtonInit => ButtonInv
<1> SUFFICES ASSUME ButtonInit PROVE ButtonInv
  OBVIOUS
<1>1. ButtonTypeOK
  <2>1. theSocketHandler \in 0 .. opened /\ opened \in 0 .. MaxConnections
    BY BoundAssumption DEF ButtonInit, None
  <2>2. /\ socket \in [Connections -> {"none", "open", "gone"}]
        /\ worker \in [Connections -> WorkerStates]
    BY DEF ButtonInit, WorkerStates
  <2>3. QED
    BY <2>1, <2>2 DEF ButtonInit, ButtonTypeOK
<1>2. OthersSettled
  BY DEF ButtonInit, OthersSettled, Connections
<1>3. LastFollowed
  BY DEF ButtonInit, LastFollowed
<1>4. QED
  BY <1>1, <1>2, <1>3 DEF ButtonInv

\* No step of either thread, of the target or of the user breaks the invariant.
LEMMA ButtonStepInv == ButtonInv /\ [ButtonNext]_buttonVars => ButtonInv'
<1> SUFFICES ASSUME ButtonInv, [ButtonNext]_buttonVars PROVE ButtonInv'
  OBVIOUS
<1> USE BoundAssumption DEF ButtonInv, ButtonTypeOK, WorkerStates, OthersSettled,
                            LastFollowed, Connections, None, Past
<1>1. CASE ClickConnect
  BY <1>1 DEF ClickConnect
<1>2. CASE OpenSocket
  BY <1>2 DEF OpenSocket
<1>3. CASE OpenFails
  BY <1>3 DEF OpenFails
<1>4. CASE StoreHandler
  BY <1>4 DEF StoreHandler
<1>5. CASE Execute
  BY <1>5 DEF Execute
<1>6. CASE NameDisconnect
  BY <1>6 DEF NameDisconnect
<1>7. CASE ClickDisconnect
  BY <1>7 DEF ClickDisconnect
<1>8. ASSUME NEW c \in Connections, Lose(c) PROVE ButtonInv'
  BY <1>8 DEF Lose
<1>9. ASSUME NEW c \in Connections, EndLoop(c) PROVE ButtonInv'
  BY <1>9 DEF EndLoop
<1>10. ASSUME NEW c \in Connections, ClearHandler(c) PROVE ButtonInv'
  BY <1>10 DEF ClearHandler
<1>11. ASSUME NEW c \in Connections, TestHandler(c) PROVE ButtonInv'
  BY <1>11 DEF TestHandler
<1>12. ASSUME NEW c \in Connections, NameConnect(c) PROVE ButtonInv'
  BY <1>12 DEF NameConnect
<1>13. ASSUME NEW c \in Connections, EndLoopOpen(c) PROVE ButtonInv'
  BY <1>13 DEF EndLoopOpen
<1>14. ASSUME NEW c \in Connections, Die(c) PROVE ButtonInv'
  BY <1>14 DEF Die
<1>15. CASE UNCHANGED buttonVars
  BY <1>15 DEF buttonVars
<1>16. QED
  BY <1>1, <1>2, <1>3, <1>4, <1>5, <1>6, <1>7, <1>8, <1>9, <1>10, <1>11, <1>12, <1>13,
     <1>14, <1>15 DEF ButtonNext, Clicks, EventThread, Misread, Worker

\* The invariant holds in every reachable state.
THEOREM ButtonInvariant == ButtonSpec => []ButtonInv
BY ButtonInitInv, ButtonStepInv, PTL DEF ButtonSpec

\* The life cycle's variables keep their types.
THEOREM ButtonTypeCorrect == ButtonSpec => []ButtonTypeOK
<1>1. ButtonInv => ButtonTypeOK
  BY DEF ButtonInv
<1>2. QED
  BY <1>1, ButtonInvariant, PTL

\* However many connections are opened, and whichever way they end, one socket thread
\* reads at a time: connect() opens no socket while the handler of the last one is set,
\* and a thread that still reads, or has died, has not cleared it.
THEOREM OneReads == ButtonSpec => []OneReader
<1>1. ButtonInv => OneReader
  BY DEF ButtonInv, ButtonTypeOK, OthersSettled, OneReader, Connections, Past
<1>2. QED
  BY <1>1, ButtonInvariant, PTL

-----------------------------------------------------------------------------
(* ConnectButton: what the button says                                     *)

\* No connection has ended before connect() returned.
Calm == ~quickLoss

\* Then a connection is opened only once the worker of the last one is done; it
\* stays open while connect() runs, and the button says Connect until connect()
\* returns and again from the moment that worker is done.
ButtonFollows ==
  /\ \A c \in Connections : c < opened => worker[c] = "done"
  /\ edt # "idle" => text = "Connect"
  /\ edt \in {"store", "execute", "rename"} =>
       /\ opened > 0 /\ socket[opened] = "open"
       /\ worker[opened] \in {"none", "reading", "dead"}
  /\ edt = "open" /\ opened > 0 => worker[opened] = "done"
  /\ edt = "idle" /\ opened = 0 => text = "Connect"
  /\ edt = "idle" /\ opened > 0 => (text = "Connect" <=> worker[opened] = "done")

LEMMA InitButton == ButtonInit => ButtonFollows
BY BoundAssumption DEF ButtonInit, ButtonFollows, Connections

\* A history without a quick loss had none before, and a connection that ends in this
\* step is not the one that connect() is opening.
LEMMA CalmBefore ==
  ASSUME ButtonInv, [ButtonNext]_buttonVars, Calm'
  PROVE  Calm /\ \A c \in Connections : Lose(c) \/ EndLoopOpen(c) => ~Connecting(c)
<1>1. ASSUME NEW c \in Connections, Lose(c) \/ EndLoopOpen(c) PROVE Calm /\ ~Connecting(c)
  <2>1. quickLoss' = (quickLoss \/ Connecting(c))
    BY <1>1 DEF Lose, EndLoopOpen
  <2>2. QED
    BY <2>1 DEF Calm
<1>2. ASSUME UNCHANGED quickLoss PROVE Calm
  BY <1>2 DEF Calm
<1>3. ASSUME ClickConnect \/ ClickDisconnect \/ EventThread \/ UNCHANGED buttonVars
      PROVE  Calm
  BY <1>2, <1>3 DEF ClickConnect, ClickDisconnect, EventThread, OpenSocket, OpenFails,
     StoreHandler, Execute, NameDisconnect, buttonVars
<1>4. ASSUME NEW c \in Connections, Worker(c) \/ Die(c)
      PROVE  Calm
  BY <1>2, <1>4 DEF Worker, EndLoop, ClearHandler, TestHandler, NameConnect, Die
<1>5. ASSUME ~\E c \in Connections : Lose(c) \/ EndLoopOpen(c) PROVE Calm
  BY <1>3, <1>4, <1>5 DEF ButtonNext, Clicks, Misread
<1>6. QED
  BY <1>1, <1>5

\* As long as no connection ends too early, every step keeps the button in step
\* with the connection.
LEMMA ButtonKept ==
  ASSUME ButtonInv, ButtonFollows, [ButtonNext]_buttonVars, Calm'
  PROVE  ButtonFollows'
<1>1. \A c \in Connections : Lose(c) \/ EndLoopOpen(c) => ~Connecting(c)
  BY CalmBefore
<1>2. /\ opened \in 0 .. MaxConnections /\ MaxConnections \in Nat
      /\ text \in {"Connect", "Disconnect"}
      /\ edt \in {"idle", "open", "store", "execute", "rename"}
      /\ socket \in [Connections -> {"none", "open", "gone"}]
      /\ worker \in [Connections -> WorkerStates]
      /\ OthersSettled /\ LastFollowed
  BY BoundAssumption DEF ButtonInv, ButtonTypeOK
<1> USE DEF WorkerStates, OthersSettled, LastFollowed, Connections, None, Past, ButtonFollows
<1>3. CASE ClickConnect
  BY <1>2, <1>3 DEF ClickConnect
<1>4. CASE OpenSocket
  BY <1>2, <1>4 DEF OpenSocket
<1>5. CASE OpenFails
  BY <1>2, <1>5 DEF OpenFails
<1>6. CASE StoreHandler
  BY <1>2, <1>6 DEF StoreHandler
<1>7. CASE Execute
  BY <1>2, <1>7 DEF Execute
<1>8. CASE NameDisconnect
  BY <1>2, <1>8 DEF NameDisconnect
<1>9. CASE ClickDisconnect
  BY <1>2, <1>9 DEF ClickDisconnect
<1>10. ASSUME NEW c \in Connections, Lose(c) PROVE ButtonFollows'
  <2>1. ~Connecting(c)
    BY <1>1, <1>10
  <2>2. /\ socket' = [socket EXCEPT ![c] = "gone"]
        /\ UNCHANGED <<text, theSocketHandler, edt, opened, worker>>
    BY <1>10 DEF Lose
  <2>3. QED
    BY <1>2, <2>1, <2>2 DEF Connecting
<1>11. ASSUME NEW c \in Connections, EndLoop(c) PROVE ButtonFollows'
  BY <1>2, <1>11 DEF EndLoop
<1>12. ASSUME NEW c \in Connections, ClearHandler(c) PROVE ButtonFollows'
  BY <1>2, <1>12 DEF ClearHandler
<1>13. ASSUME NEW c \in Connections, TestHandler(c) PROVE ButtonFollows'
  BY <1>2, <1>13 DEF TestHandler
<1>14. ASSUME NEW c \in Connections, NameConnect(c) PROVE ButtonFollows'
  BY <1>2, <1>14 DEF NameConnect
<1>15. ASSUME NEW c \in Connections, EndLoopOpen(c) PROVE ButtonFollows'
  <2>1. ~Connecting(c)
    BY <1>1, <1>15
  <2>2. QED
    BY <1>2, <1>15, <2>1 DEF EndLoopOpen, Connecting
<1>16. ASSUME NEW c \in Connections, Die(c) PROVE ButtonFollows'
  BY <1>2, <1>16 DEF Die
<1>17. CASE UNCHANGED buttonVars
  BY <1>2, <1>17 DEF buttonVars
<1>18. QED
  BY <1>3, <1>4, <1>5, <1>6, <1>7, <1>8, <1>9, <1>10, <1>11, <1>12, <1>13, <1>14, <1>15,
     <1>16, <1>17 DEF ButtonNext, Clicks, EventThread, Misread, Worker

\* As long as no connection has ended before connect() returned, the button at
\* rest says Disconnect exactly when there is a handler to disconnect.
THEOREM ButtonTrue == ButtonSpec => []ButtonTellsTruth
<1>1. ButtonInv /\ (Calm => ButtonFollows) /\ [ButtonNext]_buttonVars
        => (ButtonInv /\ (Calm => ButtonFollows))'
  BY ButtonStepInv, CalmBefore, ButtonKept
<1>2. ButtonInit => ButtonInv /\ (Calm => ButtonFollows)
  BY ButtonInitInv, InitButton
<1>3. ButtonInv /\ (Calm => ButtonFollows) => ButtonTellsTruth
  <2> SUFFICES ASSUME ButtonInv, ButtonFollows, edt = "idle", ~Settling
               PROVE  text = "Disconnect" <=> theSocketHandler # None
    BY Zenon DEF ButtonTellsTruth, Calm
  <2>1. /\ opened \in 0 .. MaxConnections /\ MaxConnections \in Nat
        /\ theSocketHandler \in 0 .. opened /\ text \in {"Connect", "Disconnect"}
        /\ worker \in [Connections -> WorkerStates] /\ LastFollowed
    BY BoundAssumption DEF ButtonInv, ButtonTypeOK
  <2>2. CASE opened = 0
    BY <2>1, <2>2 DEF ButtonFollows, None
  <2>3. CASE opened > 0
    <3>1. opened \in Connections
      BY <2>1, <2>3 DEF Connections
    <3>2. worker[opened] \in {"reading", "done", "dead"}
      BY <2>1, <2>3, <3>1 DEF Settling, LastFollowed, WorkerStates
    <3>3. QED
      BY <2>1, <2>3, <3>2 DEF ButtonFollows, LastFollowed, None, Past
  <2>4. QED
    BY <2>1, <2>2, <2>3
<1>4. QED
  BY <1>1, <1>2, <1>3, PTL DEF ButtonSpec

-----------------------------------------------------------------------------
(* TupleQueue                                                              *)

\* Until start() the handler has not run and nothing is queued.
NotStarted ==
  reader = "new" => handler = "unstarted" /\ queue = <<>>

\* Only a handler thread that found neither flag set sleeps.
SleepsUnnotified ==
  handler = "waiting" => ~notified /\ ~shutdownRequested

\* From its decision that the queue is empty until it consumes the next
\* notification, work in the queue means that a notification is on its way.
WorkIsNotified ==
  (/\ queue # <<>>
   /\ handler \in {"unstarted", "submitted", "loop", "enterWait", "waiting", "woken"})
    => notified \/ reader = "notify"

Inv == TypeOK /\ NotStarted /\ SleepsUnnotified /\ WorkIsNotified /\ InOrder

USE DEF HandlerStates, ReaderStates

\* The initial state is well typed, nothing is queued and nothing handled.
LEMMA InitInv == Init => Inv
<1> SUFFICES ASSUME Init PROVE Inv
  OBVIOUS
<1> USE DEF Init
<1>1. TypeOK
  <2>1. queue \in Seq(Tuples) /\ accepted \in Seq(Tuples) /\ handled \in Seq(Tuples)
    BY EmptySeq
  <2>2. shutdowns \in 0 .. ShutdownCalls
    BY ShutdownAssumption
  <2>3. QED
    BY <2>1, <2>2, Zenon DEF TypeOK
<1>2. NotStarted /\ SleepsUnnotified /\ WorkIsNotified
  BY DEF NotStarted, SleepsUnnotified, WorkIsNotified
<1>3. InOrder
  BY DEF InOrder, InHand
<1>4. QED
  BY <1>1, <1>2, <1>3 DEF Inv

\* No step of either thread leaves the types.
LEMMA StepType == TypeOK /\ NotStarted /\ [Next]_vars => TypeOK'
<1> SUFFICES ASSUME TypeOK, NotStarted, [Next]_vars PROVE TypeOK'
  OBVIOUS
<1> USE NoTupleAssumption, ShutdownAssumption DEF TypeOK, monitor
<1>1. CASE Start
  BY <1>1 DEF Start, NotStarted
<1>2. CASE BeNotified
  <2>1. current' = current /\ (handler' = "handle" <=> handler = "handle")
    BY <1>2 DEF BeNotified, NotifyAll
  <2>2. handler' \in HandlerStates
    BY <1>2 DEF BeNotified, NotifyAll
  <2>3. QED
    BY <1>2, <2>1, <2>2 DEF BeNotified
<1>3. ASSUME NEW t \in Tuples, AddIncoming(t) PROVE TypeOK'
  BY <1>3 DEF AddIncoming
<1>4. CASE BeginRun
  BY <1>4 DEF BeginRun
<1>5. CASE TestShutdown
  BY <1>5 DEF TestShutdown
<1>6. CASE WaitToBeNotified
  BY <1>6 DEF WaitToBeNotified
<1>7. CASE TestEmpty
  BY <1>7 DEF TestEmpty
<1>8. CASE Poll
  <2>1. CASE queue = <<>>
    BY <1>8, <2>1 DEF Poll
  <2>2. CASE queue # <<>>
    <3>1. Head(queue) \in Tuples /\ Tail(queue) \in Seq(Tuples)
      BY <2>2, HeadTailProperties
    <3>2. QED
      BY <1>8, <2>2, <3>1 DEF Poll
  <2>3. QED
    BY <2>1, <2>2
<1>9. CASE HandleIncoming
  BY <1>9 DEF HandleIncoming
<1>10. CASE EndRun
  BY <1>10 DEF EndRun
<1>11. CASE Shutdown
  BY <1>11 DEF Shutdown, NotifyAll
<1>12. CASE WakeSpuriously
  BY <1>12 DEF WakeSpuriously
<1>13. CASE UNCHANGED vars
  BY <1>13 DEF vars
<1>14. QED
  BY <1>1, <1>2, <1>3, <1>4, <1>5, <1>6, <1>7, <1>8, <1>9, <1>10, <1>11,
     <1>12, <1>13 DEF Next, SocketThread, HandlerThread

\* No step of either thread disturbs the three facts about notifications.
LEMMA StepWakeup ==
  Inv /\ [Next]_vars => (NotStarted /\ SleepsUnnotified /\ WorkIsNotified)'
<1> DEFINE Wakeup == NotStarted /\ SleepsUnnotified /\ WorkIsNotified
<1> SUFFICES ASSUME Inv, [Next]_vars PROVE Wakeup'
  OBVIOUS
<1> USE DEF Inv, TypeOK, NotStarted, SleepsUnnotified, WorkIsNotified, monitor
<1>1. CASE Start
  BY <1>1 DEF Start
<1>2. CASE BeNotified
  BY <1>2 DEF BeNotified, NotifyAll
<1>3. ASSUME NEW t \in Tuples, AddIncoming(t) PROVE Wakeup'
  BY <1>3 DEF AddIncoming
<1>4. CASE BeginRun
  BY <1>4 DEF BeginRun
<1>5. CASE TestShutdown
  BY <1>5 DEF TestShutdown
<1>6. CASE WaitToBeNotified
  BY <1>6 DEF WaitToBeNotified
<1>7. CASE TestEmpty
  BY <1>7 DEF TestEmpty
<1>8. CASE Poll
  BY <1>8 DEF Poll
<1>9. CASE HandleIncoming
  BY <1>9 DEF HandleIncoming
<1>10. CASE EndRun
  BY <1>10 DEF EndRun
<1>11. CASE Shutdown
  BY <1>11 DEF Shutdown, NotifyAll
<1>12. CASE WakeSpuriously
  BY <1>12 DEF WakeSpuriously
<1>13. CASE UNCHANGED vars
  BY <1>13 DEF vars
<1>14. QED
  BY <1>1, <1>2, <1>3, <1>4, <1>5, <1>6, <1>7, <1>8, <1>9, <1>10, <1>11,
     <1>12, <1>13 DEF Next, SocketThread, HandlerThread

\* A step that moves no tuple keeps the order.
LEMMA OrderKept ==
  ASSUME InOrder, UNCHANGED <<queue, accepted, handled>>,
         handler' = "handle" <=> handler = "handle",
         handler = "handle" => current' = current
  PROVE  InOrder'
<1>1. InHand' = InHand
  BY DEF InHand
<1>2. Len(queue') = Len(queue) /\ Len(accepted') = Len(accepted) /\ Len(handled') = Len(handled)
  OBVIOUS
<1>3. QED
  BY <1>1, <1>2 DEF InOrder

\* Every step keeps the tuples in order: those that move one are AddIncoming,
\* Poll and HandleIncoming.
LEMMA StepInOrder == Inv /\ [Next]_vars => InOrder'
<1> SUFFICES ASSUME Inv, [Next]_vars PROVE InOrder'
  OBVIOUS
<1> USE DEF Inv, TypeOK, monitor
<1>1. CASE Start
  BY <1>1, OrderKept DEF Start, NotStarted
<1>2. CASE BeNotified
  BY <1>2, OrderKept DEF BeNotified, NotifyAll
<1>3. ASSUME NEW t \in Tuples, AddIncoming(t) PROVE InOrder'
  <2>1. /\ queue' = Append(queue, t) /\ accepted' = Append(accepted, t)
        /\ UNCHANGED <<handled, handler, current>>
    BY <1>3 DEF AddIncoming
  <2>2. InHand' = InHand /\ InHand \in {0, 1}
    BY <2>1 DEF InHand
  <2>3. /\ Len(queue) \in Nat /\ Len(accepted) \in Nat /\ Len(handled) \in Nat
        /\ Len(queue') = Len(queue) + 1 /\ Len(accepted') = Len(accepted) + 1
        /\ \A i \in 1 .. Len(queue) : queue'[i] = queue[i]
        /\ queue'[Len(queue) + 1] = t
        /\ \A i \in 1 .. Len(accepted) : accepted'[i] = accepted[i]
        /\ accepted'[Len(accepted) + 1] = t
    BY <2>1, AppendProperties, LenProperties
  <2>4. Len(accepted) = Len(handled) + InHand + Len(queue)
    BY DEF InOrder
  <2>5. \A i \in 1 .. Len(handled') : handled'[i] = accepted'[i]
    BY <2>1, <2>2, <2>3, <2>4 DEF InOrder
  <2>6. handler' = "handle" => current' = accepted'[Len(handled') + 1]
    <3>1. SUFFICES ASSUME handler = "handle" PROVE current = accepted'[Len(handled) + 1]
      BY <2>1
    <3>2. InHand = 1 /\ current = accepted[Len(handled) + 1]
      BY <3>1 DEF InHand, InOrder
    <3>3. Len(handled) + 1 \in 1 .. Len(accepted)
      BY <2>3, <2>4, <3>2
    <3>4. QED
      BY <2>3, <3>2, <3>3
  <2>7. \A i \in 1 .. Len(queue') : queue'[i] = accepted'[Len(handled') + InHand' + i]
    <3>1. TAKE i \in 1 .. Len(queue')
    <3>2. CASE i = Len(queue) + 1
      BY <2>1, <2>2, <2>3, <2>4, <3>2
    <3>3. CASE i \in 1 .. Len(queue)
      <4>1. queue[i] = accepted[Len(handled) + InHand + i]
        BY <3>3 DEF InOrder
      <4>2. Len(handled) + InHand + i \in 1 .. Len(accepted)
        BY <2>2, <2>3, <2>4, <3>3
      <4>3. QED
        BY <2>1, <2>2, <2>3, <3>3, <4>1, <4>2
    <3>4. QED
      BY <2>3, <3>2, <3>3
  <2>8. Len(accepted') = Len(handled') + InHand' + Len(queue')
    BY <2>1, <2>2, <2>3, <2>4
  <2>9. QED
    BY <2>5, <2>6, <2>7, <2>8, Zenon DEF InOrder
<1>4. CASE BeginRun
  BY <1>4, OrderKept DEF BeginRun
<1>5. CASE TestShutdown
  BY <1>5, OrderKept DEF TestShutdown
<1>6. CASE WaitToBeNotified
  BY <1>6, OrderKept DEF WaitToBeNotified
<1>7. CASE TestEmpty
  BY <1>7, OrderKept DEF TestEmpty
<1>8. CASE Poll
  <2>1. CASE queue = <<>>
    BY <1>8, <2>1, OrderKept DEF Poll
  <2>2. CASE queue # <<>>
    <3>1. /\ handler = "poll" /\ handler' = "handle"
          /\ current' = Head(queue) /\ queue' = Tail(queue)
          /\ UNCHANGED <<accepted, handled>>
      BY <1>8, <2>2 DEF Poll
    <3>2. InHand = 0 /\ InHand' = 1
      BY <3>1 DEF InHand
    <3>3. /\ Len(queue) \in Nat \ {0} /\ Len(handled) \in Nat
          /\ Head(queue) = queue[1]
          /\ Len(queue') = Len(queue) - 1
          /\ \A i \in 1 .. Len(queue') : queue'[i] = queue[i + 1]
      <4>1. Len(queue) \in Nat /\ Len(handled) \in Nat
        BY LenProperties
      <4>2. Len(queue) # 0
        BY <2>2, EmptySeq
      <4>3. Head(queue) = queue[1]
        BY <2>2
      <4>4. Len(queue') = Len(queue) - 1 /\ \A i \in 1 .. Len(queue') : queue'[i] = queue[i + 1]
        BY <2>2, <3>1, HeadTailProperties
      <4>5. QED
        BY <4>1, <4>2, <4>3, <4>4
    <3>4. current' = accepted[Len(handled) + 1]
      BY <3>1, <3>2, <3>3 DEF InOrder
    <3>5. \A i \in 1 .. Len(queue') : queue'[i] = accepted'[Len(handled') + InHand' + i]
      <4>1. \A i \in 1 .. Len(queue') : queue'[i] = accepted[Len(handled) + 1 + i]
        BY <3>2, <3>3 DEF InOrder
      <4>2. QED
        BY <3>1, <3>2, <4>1
    <3>6. Len(accepted') = Len(handled') + InHand' + Len(queue')
      <4>1. Len(accepted) = Len(handled) + InHand + Len(queue)
        BY DEF InOrder
      <4>2. UNCHANGED <<Len(accepted), Len(handled)>>
        BY <3>1
      <4>3. QED
        BY <3>2, <3>3, <4>1, <4>2
    <3>7. \A i \in 1 .. Len(handled') : handled'[i] = accepted'[i]
      BY <3>1 DEF InOrder
    <3>8. QED
      BY <3>1, <3>4, <3>5, <3>6, <3>7, Zenon DEF InOrder
  <2>3. QED
    BY <2>1, <2>2
<1>9. CASE HandleIncoming
  <2>1. /\ handler = "handle" /\ handler' = "testEmpty"
        /\ handled' = Append(handled, current)
        /\ UNCHANGED <<accepted, queue>>
    BY <1>9 DEF HandleIncoming
  <2>2. InHand = 1 /\ InHand' = 0
    BY <2>1 DEF InHand
  <2>3. /\ Len(handled) \in Nat /\ Len(queue) \in Nat
        /\ Len(handled') = Len(handled) + 1
        /\ \A i \in 1 .. Len(handled) : handled'[i] = handled[i]
        /\ handled'[Len(handled) + 1] = current
    BY <2>1, AppendProperties, LenProperties
  <2>4. \A i \in 1 .. Len(handled') : handled'[i] = accepted[i]
    BY <2>1, <2>2, <2>3 DEF InOrder
  <2>5. \A i \in 1 .. Len(queue) : queue[i] = accepted[Len(handled') + 0 + i]
    BY <2>2, <2>3 DEF InOrder
  <2>6. QED
    BY <2>1, <2>2, <2>3, <2>4, <2>5 DEF InOrder
<1>10. CASE EndRun
  BY <1>10, OrderKept DEF EndRun
<1>11. CASE Shutdown
  BY <1>11, OrderKept DEF Shutdown, NotifyAll
<1>12. CASE WakeSpuriously
  BY <1>12, OrderKept DEF WakeSpuriously
<1>13. CASE UNCHANGED vars
  BY <1>13, OrderKept DEF vars
<1>14. QED
  BY <1>1, <1>2, <1>3, <1>4, <1>5, <1>6, <1>7, <1>8, <1>9, <1>10, <1>11,
     <1>12, <1>13 DEF Next, SocketThread, HandlerThread

\* The invariant holds at every step.
THEOREM Invariant == Spec => []Inv
<1>1. Inv /\ [Next]_vars => Inv'
  BY StepType, StepWakeup, StepInOrder DEF Inv
<1>2. QED
  BY InitInv, <1>1, PTL DEF Spec

\* The variables keep their types.
THEOREM TypeCorrect == Spec => []TypeOK
<1>1. Inv => TypeOK
  BY DEF Inv
<1>2. QED
  BY <1>1, Invariant, PTL

\* Nothing is lost, duplicated or reordered between processIncoming and addTrace.
THEOREM OrderCorrect == Spec => []InOrder
<1>1. Inv => InOrder
  BY DEF Inv
<1>2. QED
  BY <1>1, Invariant, PTL

\* The handler thread never sleeps on a queue whose notification was given.
THEOREM WakeupCorrect == Spec => []NoLostWakeup
<1>1. Inv => NoLostWakeup
  BY DEF Inv, SleepsUnnotified, WorkIsNotified, NoLostWakeup
<1>2. QED
  BY <1>1, Invariant, PTL

\* A handler thread asked to stop is not asleep.
THEOREM ShutdownWakes == Spec => []NoSleepAfterShutdown
<1>1. Inv => NoSleepAfterShutdown
  BY DEF Inv, SleepsUnnotified, NoSleepAfterShutdown
<1>2. QED
  BY <1>1, Invariant, PTL

\* A step of the hand-off is a step of OrderedDelivery or leaves it alone.
LEMMA StepRefines == Inv /\ [Next]_vars => [Delivery!Next]_(Delivery!vars)
<1> SUFFICES ASSUME Inv, [Next]_vars PROVE [Delivery!Next]_(Delivery!vars)
  OBVIOUS
<1> USE DEF Delivery!vars, monitor
<1>1. ASSUME NEW t \in Tuples, AddIncoming(t) PROVE Delivery!Next
  BY <1>1 DEF AddIncoming, Delivery!Next, Delivery!Accept
<1>2. ASSUME HandleIncoming PROVE Delivery!Handle
  <2>1. /\ handler = "handle" /\ handled' = Append(handled, current)
        /\ UNCHANGED <<accepted, shutdownRequested>>
    BY <1>2 DEF HandleIncoming
  <2>2. InHand = 1 /\ current = accepted[Len(handled) + 1]
    BY <2>1 DEF InHand, Inv, InOrder
  <2>3. Len(handled) < Len(accepted)
    BY <2>2, LenProperties DEF Inv, InOrder, TypeOK
  <2>4. QED
    BY <2>1, <2>2, <2>3 DEF Delivery!Handle
<1>3. ASSUME Start \/ BeNotified \/ WakeSpuriously \/ UNCHANGED vars
      PROVE  UNCHANGED Delivery!vars
  BY <1>3 DEF Start, BeNotified, WakeSpuriously, vars
<1>4. ASSUME BeginRun \/ TestShutdown \/ WaitToBeNotified \/ TestEmpty \/ Poll \/ EndRun
      PROVE  UNCHANGED Delivery!vars
  BY <1>4 DEF BeginRun, TestShutdown, WaitToBeNotified, TestEmpty, Poll, EndRun
<1>5. ASSUME Shutdown PROVE Delivery!Stop
  BY <1>5 DEF Shutdown, Delivery!Stop
<1>6. QED
  BY <1>1, <1>2, <1>3, <1>4, <1>5 DEF Next, SocketThread, HandlerThread, Delivery!Next

\* The hand-off implements ordered delivery (the liveness half is model-checked).
THEOREM Refinement == Spec => Delivery!Safety
<1>1. Init => Delivery!Init
  BY DEF Init, Delivery!Init
<1>2. QED
  BY <1>1, Invariant, StepRefines, PTL DEF Spec, Delivery!Safety
=============================================================================
